---------------------------- MODULE Inference_proofs ----------------------------
(***************************************************************************)
(* Proofs about Inference, for any registry, any names and any program.    *)
(***************************************************************************)
EXTENDS Inference, Dispatch_proofs, Numbers_proofs, SequenceTheorems, FiniteSetTheorems,
        FunctionTheorems

-----------------------------------------------------------------------------
(* What is registered is in force: imports are read before what follows them.  *)

Registration == [package : DOMAIN Catalog, from : Nat]

RegistryInv ==
  /\ position \in Nat \ {0}
  /\ registrations \in Seq(Registration)
  /\ \A i \in DOMAIN registrations : registrations[i].from < position

\* The registrations of a list that have a name, and the last of them.
Having(list, name) == {i \in DOMAIN list : name \in DOMAIN Catalog[list[i].package]}

LastHaving(list, name) ==
  IF Having(list, name) = {} THEN 0
  ELSE CHOOSE i \in Having(list, name) : \A j \in Having(list, name) : j <= i

LEMMA LastIsLast ==
  ASSUME NEW list \in Seq(Registration), NEW name
  PROVE  /\ Having(list, name) = {} => LastHaving(list, name) = 0
         /\ Having(list, name) # {} =>
              /\ LastHaving(list, name) \in Having(list, name)
              /\ \A j \in Having(list, name) : j <= LastHaving(list, name)
<1>1. PICK n \in Nat : DOMAIN list = 1..n
  BY LenProperties
<1>2. Having(list, name) \subseteq 0..n
  BY <1>1 DEF Having
<1>3. ASSUME Having(list, name) # {}
      PROVE  \E i \in Having(list, name) : \A j \in Having(list, name) : j <= i
  BY <1>2, <1>3, GreatestNumber
<1>. QED BY <1>3 DEF LastHaving

LEMMA AllInForce ==
  ASSUME NEW list \in Seq(Registration), NEW place \in Nat,
         \A i \in DOMAIN list : list[i].from < place
  PROVE  {i \in DOMAIN list : list[i].from <= place} = DOMAIN list
<1>1. \A i \in DOMAIN list : list[i].from \in Nat
  <2>1. \A i \in DOMAIN list : list[i] \in Registration
    BY ElementOfSeq, LenProperties
  <2>. QED BY <2>1 DEF Registration
<1>2. \A i \in DOMAIN list : list[i].from <= place
  <2>1. \A m, n \in Nat : m < n => m <= n
    OBVIOUS
  <2>. QED BY <1>1, <2>1
<1>. QED BY <1>2

LEMMA LastNames ==
  ASSUME RegistryInv, NEW name
  PROVE  RegistrationFor(name, position) = LastHaving(registrations, name)
<1>1. EffectiveAt(position) = DOMAIN registrations
  BY AllInForce DEF EffectiveAt, RegistryInv
<1>. QED BY <1>1 DEF RegistrationFor, LastHaving, Having

LEMMA LastNamesNext ==
  ASSUME RegistryInv', NEW name
  PROVE  RegistrationFor(name, position)' = LastHaving(registrations', name)
<1>1. EffectiveAt(position)' = DOMAIN registrations'
  BY AllInForce DEF EffectiveAt, RegistryInv
<1>. QED BY <1>1 DEF RegistrationFor, LastHaving, Having

\* What a package brings it has from then on, and what it does not bring stays.
LEMMA OneMoreRegistration ==
  ASSUME NEW list \in Seq(Registration), NEW one \in Registration, NEW name
  PROVE  /\ Len(list) \in Nat /\ DOMAIN list = 1..Len(list)
         /\ Append(list, one) \in Seq(Registration)
         /\ DOMAIN Append(list, one) = 1..(Len(list) + 1)
         /\ Append(list, one)[Len(list) + 1] = one
         /\ \A i \in 1..Len(list) : Append(list, one)[i] = list[i]
         /\ LastHaving(Append(list, one), name) =
              IF name \in DOMAIN Catalog[one.package] THEN Len(list) + 1
              ELSE LastHaving(list, name)
<1>1. /\ Len(list) \in Nat /\ DOMAIN list = 1..Len(list)
      /\ Append(list, one) \in Seq(Registration)
      /\ DOMAIN Append(list, one) = 1..(Len(list) + 1)
      /\ Append(list, one)[Len(list) + 1] = one
      /\ \A i \in 1..Len(list) : Append(list, one)[i] = list[i]
  BY LenProperties, AppendProperties
<1>. DEFINE more == Append(list, one)
<1>. HIDE DEF more
<1>2. CASE name \in DOMAIN Catalog[one.package]
  <2>1. Len(list) + 1 \in Having(more, name)
        /\ \A j \in Having(more, name) : j \in 1..(Len(list) + 1)
    BY <1>1, <1>2 DEF Having, more
  <2>2. /\ LastHaving(more, name) \in Having(more, name)
        /\ \A j \in Having(more, name) : j <= LastHaving(more, name)
    BY <1>1, <2>1, LastIsLast DEF more
  <2>3. LastHaving(more, name) = Len(list) + 1
    BY <1>1, <2>1, <2>2
  <2>. QED BY <1>1, <1>2, <2>3 DEF more
<1>3. CASE name \notin DOMAIN Catalog[one.package]
  <2>1. Having(more, name) = Having(list, name)
    BY <1>1, <1>3 DEF Having, more
  <2>. QED BY <1>1, <1>3, <2>1 DEF LastHaving, more
<1>. QED BY <1>2, <1>3

\* What an import does, and what anything else leaves alone.
Imported(package) == registrations' = Append(registrations, [package |-> package, from |-> position])

LEMMA ImportRegisters ==
  ASSUME RegistryInv, NEW package \in DOMAIN Catalog, Import(package, position)
  PROVE  Imported(package)
<1>1. position # 0
  BY DEF RegistryInv
<1>. QED BY <1>1 DEF Import, Registered, Imported

LEMMA OnlyImportsRegister ==
  ASSUME RegistryInv, [Next]_vars
  PROVE  \/ registrations' = registrations /\ position' \in {position, position + 1}
         \/ /\ position' = position + 1
            /\ \E package \in DOMAIN Catalog : Package(package) /\ Imported(package)
<1>1. ASSUME NEW package \in DOMAIN Catalog, Package(package)
      PROVE  Imported(package) /\ position' = position + 1
  BY <1>1, ImportRegisters DEF Package, Read
<1>2. ASSUME NEW name \in SourceTypes, NEW parent \in Parents, NewType(name, parent)
      PROVE  registrations' = registrations /\ position' = position + 1
  BY <1>2 DEF NewType, Read
<1>3. ASSUME NEW name, NEW e, Assign(name, e)
      PROVE  registrations' = registrations /\ position' = position + 1
  BY <1>3 DEF Assign, Read
<1>4. ASSUME NEW name, NEW domain, NEW codomain,
             Install(name, domain, codomain) \/ InstallOperator(name, domain, codomain)
      PROVE  registrations' = registrations /\ position' = position + 1
  BY <1>4 DEF Install, InstallOperator, Read
<1>5. CASE UNCHANGED vars
  BY <1>5 DEF vars, analysisVars
<1>. QED BY <1>1, <1>2, <1>3, <1>4, <1>5 DEF Next

LEMMA RegistryStep == RegistryInv /\ [Next]_vars => RegistryInv'
<1>. SUFFICES ASSUME RegistryInv, [Next]_vars PROVE RegistryInv'
  OBVIOUS
<1>0. position' \in Nat \ {0} /\ position \in Nat /\ position <= position'
  BY OnlyImportsRegister DEF RegistryInv
<1>1. CASE registrations' = registrations
  <2>1. ASSUME NEW i \in DOMAIN registrations PROVE registrations[i].from < position'
    <3>1. registrations[i].from < position /\ registrations[i].from \in Nat
      <4>1. registrations[i] \in Registration
        BY ElementOfSeq, LenProperties DEF RegistryInv
      <4>. QED BY <4>1 DEF RegistryInv, Registration
    <3>. QED BY <1>0, <3>1
  <2>. QED BY <1>0, <1>1, <2>1 DEF RegistryInv
<1>2. CASE position' = position + 1 /\ \E package \in DOMAIN Catalog : Imported(package)
  <2>1. PICK package \in DOMAIN Catalog : Imported(package)
    BY <1>2
  <2>. DEFINE one == [package |-> package, from |-> position]
  <2>2. one \in Registration /\ one.from = position
    BY <1>0 DEF Registration
  <2>. HIDE DEF one
  <2>3. registrations' = Append(registrations, one)
    BY <2>1 DEF Imported, one
  <2>4. /\ Len(registrations) \in Nat /\ DOMAIN registrations = 1..Len(registrations)
        /\ registrations' \in Seq(Registration)
        /\ DOMAIN registrations' = 1..(Len(registrations) + 1)
        /\ registrations'[Len(registrations) + 1] = one
        /\ \A i \in 1..Len(registrations) : registrations'[i] = registrations[i]
    BY <2>2, <2>3, OneMoreRegistration DEF RegistryInv
  <2>5. ASSUME NEW i \in DOMAIN registrations' PROVE registrations'[i].from < position'
    <3>1. CASE i \in 1..Len(registrations)
      <4>1. registrations[i] \in Registration /\ registrations[i].from < position
        BY <2>4, <3>1, ElementOfSeq DEF RegistryInv
      <4>2. registrations[i].from \in Nat
        BY <4>1 DEF Registration
      <4>. QED BY <1>0, <1>2, <2>4, <3>1, <4>1, <4>2
    <3>2. CASE i = Len(registrations) + 1
      BY <1>0, <1>2, <2>2, <2>4, <3>2
    <3>. QED BY <2>4, <3>1, <3>2
  <2>. QED BY <1>0, <2>4, <2>5 DEF RegistryInv
<1>. QED BY <1>1, <1>2, OnlyImportsRegister

LEMMA RegistryInit == Init => RegistryInv
<1>. SUFFICES ASSUME Init PROVE RegistryInv
  OBVIOUS
<1>1. /\ registrations = [i \in DOMAIN Baseline |-> [package |-> Baseline[i], from |-> 0]]
      /\ position = 1
  BY DEF Init, AtStart
<1>2. PICK n \in Nat : DOMAIN Baseline = 1..n /\ \A i \in 1..n : Baseline[i] \in DOMAIN Catalog
  BY RegistryAssumption, LenProperties, ElementOfSeq
<1>3. registrations \in [1..n -> Registration]
  BY <1>1, <1>2 DEF Registration
<1>4. registrations \in Seq(Registration)
  BY <1>3, SeqDef
<1>. QED BY <1>1, <1>4 DEF RegistryInv

LEMMA RegistryAlways == Spec => []RegistryInv
  BY RegistryInit, RegistryStep, PTL DEF Spec

\* A name that means an object of the registry means one of a package.
LEMMA RecordIs ==
  ASSUME RegistryInv, NEW name
  PROVE  LET i == LastHaving(registrations, name)
         IN  /\ Record(name) = IF i = 0 THEN NoObject
                               ELSE Catalog[registrations[i].package][name]
             /\ i # 0 => /\ i \in DOMAIN registrations
                         /\ registrations[i] \in Registration
                         /\ registrations[i].from < position
                         /\ name \in DOMAIN Catalog[registrations[i].package]
                         /\ Record(name) # NoObject /\ Record(name) \in DOMAIN ObjectClass
             /\ \A from : ShadowsSource(name, from, position) <=>
                            i # 0 /\ registrations[i].from > from
<1>. DEFINE i == LastHaving(registrations, name)
<1>1. RegistrationFor(name, position) = i
  BY LastNames
<1>2. Record(name) = IF i = 0 THEN NoObject ELSE Catalog[registrations[i].package][name]
  BY <1>1 DEF Record, ObjectAt
<1>3. \A from : ShadowsSource(name, from, position) <=> i # 0 /\ registrations[i].from > from
  BY <1>1 DEF ShadowsSource
<1>4. ASSUME i # 0
      PROVE  /\ i \in DOMAIN registrations /\ registrations[i] \in Registration
             /\ registrations[i].from < position
             /\ name \in DOMAIN Catalog[registrations[i].package]
             /\ Record(name) # NoObject /\ Record(name) \in DOMAIN ObjectClass
  <2>1. i \in Having(registrations, name)
    BY <1>4, LastIsLast DEF RegistryInv
  <2>2. i \in DOMAIN registrations /\ name \in DOMAIN Catalog[registrations[i].package]
    BY <2>1 DEF Having
  <2>3. registrations[i] \in Registration
    BY <2>2, ElementOfSeq, LenProperties DEF RegistryInv
  <2>4. registrations[i].package \in DOMAIN Catalog
    BY <2>3 DEF Registration
  <2>5. Record(name) # NoObject /\ Record(name) \in DOMAIN ObjectClass
    BY <1>2, <1>4, <2>2, <2>4, RegistryAssumption, ObjectsAssumption
  <2>. QED BY <2>2, <2>3, <2>5 DEF RegistryInv
<1>. QED BY <1>2, <1>3, <1>4

LEMMA RecordIsNext ==
  ASSUME RegistryInv', NEW name
  PROVE  LET i == LastHaving(registrations', name)
         IN  /\ Record(name)' = IF i = 0 THEN NoObject
                                ELSE Catalog[registrations'[i].package][name]
             /\ \A from : ShadowsSource(name, from, position)' <=>
                            i # 0 /\ registrations'[i].from > from
<1>. DEFINE i == LastHaving(registrations', name)
<1>1. RegistrationFor(name, position)' = i
  BY LastNamesNext
<1>2. Record(name)' = IF i = 0 THEN NoObject ELSE Catalog[registrations'[i].package][name]
  BY <1>1 DEF Record, ObjectAt
<1>3. \A from : ShadowsSource(name, from, position)' <=> i # 0 /\ registrations'[i].from > from
  BY <1>1 DEF ShadowsSource
<1>. QED BY <1>2, <1>3

\* While nothing is imported every name means what it did.
LEMMA MeaningsStay ==
  ASSUME RegistryInv, RegistryInv', registrations' = registrations, NEW name
  PROVE  /\ Record(name)' = Record(name)
         /\ \A from : ShadowsSource(name, from, position)' <=>
                        ShadowsSource(name, from, position)
  BY RecordIs, RecordIsNext

\* An import takes the names it brings, from whatever was defined before.
LEMMA MeaningsImported ==
  ASSUME RegistryInv, RegistryInv', NEW package \in DOMAIN Catalog, Imported(package), NEW name
  PROVE  IF name \in DOMAIN Catalog[package]
         THEN /\ Record(name)' = Catalog[package][name]
              /\ Record(name)' # NoObject /\ Record(name)' \in DOMAIN ObjectClass
              /\ \A from : ShadowsSource(name, from, position)' <=> position > from
         ELSE /\ Record(name)' = Record(name)
              /\ \A from : ShadowsSource(name, from, position)' <=>
                             ShadowsSource(name, from, position)
<1>. DEFINE one == [package |-> package, from |-> position]
            i == LastHaving(registrations, name)
            k == LastHaving(registrations', name)
<1>1. one \in Registration /\ one.package = package /\ one.from = position
  BY DEF Registration, RegistryInv
<1>2. registrations' = Append(registrations, one)
  BY DEF Imported
<1>. HIDE DEF one
<1>3. /\ Len(registrations) \in Nat /\ DOMAIN registrations = 1..Len(registrations)
      /\ registrations'[Len(registrations) + 1] = one
      /\ \A j \in 1..Len(registrations) : registrations'[j] = registrations[j]
      /\ k = IF name \in DOMAIN Catalog[package] THEN Len(registrations) + 1 ELSE i
  BY <1>1, <1>2, OneMoreRegistration DEF RegistryInv
<1>4. /\ Record(name)' = IF k = 0 THEN NoObject ELSE Catalog[registrations'[k].package][name]
      /\ \A from : ShadowsSource(name, from, position)' <=> k # 0 /\ registrations'[k].from > from
  BY RecordIsNext
<1>5. CASE name \in DOMAIN Catalog[package]
  <2>1. k = Len(registrations) + 1 /\ k # 0 /\ registrations'[k] = one
    BY <1>3, <1>5
  <2>2. Catalog[package][name] \in DOMAIN ObjectClass /\ Catalog[package][name] # NoObject
    BY <1>5, ObjectsAssumption, RegistryAssumption
  <2>. QED BY <1>1, <1>4, <1>5, <2>1, <2>2
<1>6. CASE name \notin DOMAIN Catalog[package]
  <2>1. k = i
    BY <1>3, <1>6
  <2>2. /\ Record(name) = IF i = 0 THEN NoObject ELSE Catalog[registrations[i].package][name]
        /\ i # 0 => i \in DOMAIN registrations
        /\ \A from : ShadowsSource(name, from, position) <=> i # 0 /\ registrations[i].from > from
    BY RecordIs
  <2>3. i # 0 => registrations'[i] = registrations[i]
    BY <1>3, <2>2
  <2>. QED BY <1>4, <1>6, <2>1, <2>2, <2>3
<1>. QED BY <1>5, <1>6

-----------------------------------------------------------------------------
(* The types. *)

TypesInv ==
  /\ Forest
  /\ DOMAIN BaseUp \subseteq Known /\ Known \subseteq DOMAIN BaseUp \cup SourceTypes
  /\ \A t \in DOMAIN BaseUp : up[t] = BaseUp[t]
  /\ \A t \in Known : Thing \in up[t]

\* Types that are there keep their place in the order.
OrderStays ==
  /\ Known \subseteq Known'
  /\ \A a \in Known : \A b : IsSubtype(a, b)' <=> IsSubtype(a, b)

LEMMA TypesStep ==
  ASSUME TypesInv, [Next]_vars
  PROVE  TypesInv' /\ OrderStays
<1>1. CASE up' = up
  BY <1>1 DEF TypesInv, OrderStays, Known, IsSubtype, Forest
<1>2. ASSUME NEW t, NEW parent \in Parents, DeclareType(t, parent)
      PROVE  TypesInv' /\ OrderStays
  <2>1. parent \in DOMAIN BaseUp /\ parent \in Known
    BY <1>2, ProgramAssumption DEF TypesInv
  <2>2. /\ Forest' /\ Known' = Known \cup {t} /\ t \notin Known
        /\ \A a \in Known : \A b : IsSubtype(a, b)' <=> IsSubtype(a, b)
    BY <1>2, <2>1, DeclaredOrder DEF TypesInv
  <2>3. /\ t \in SourceTypes
        /\ \A u \in Known : up'[u] = up[u]
        /\ up'[t] = {t} \cup up[parent]
    BY <1>2, <2>2 DEF DeclareType
  <2>4. \A u \in Known' : Thing \in up'[u]
    BY <2>1, <2>2, <2>3 DEF TypesInv
  <2>. QED BY <2>2, <2>3, <2>4 DEF TypesInv, OrderStays
<1>3. up' = up \/ \E t : \E parent \in Parents : DeclareType(t, parent)
  <2>1. ASSUME NEW name \in SourceTypes, NEW parent \in Parents, NewType(name, parent)
        PROVE  DeclareType(name, parent)
    BY <2>1 DEF NewType
  <2>2. ASSUME NEW name, NEW e, Assign(name, e) PROVE up' = up
    BY <2>2 DEF Assign
  <2>3. ASSUME NEW name, NEW domain, NEW codomain,
               Install(name, domain, codomain) \/ InstallOperator(name, domain, codomain)
        PROVE  up' = up
    BY <2>3 DEF Install, InstallOperator
  <2>4. ASSUME NEW package, Package(package) PROVE up' = up
    BY <2>4 DEF Package
  <2>5. CASE UNCHANGED vars
    BY <2>5 DEF vars, analysisVars
  <2>. QED BY <2>1, <2>2, <2>3, <2>4, <2>5 DEF Next
<1>. QED BY <1>1, <1>2, <1>3

LEMMA TypesAlways == Spec => []TypesInv
<1>1. Init => TypesInv
  BY TypesAssumption, RolesAssumption DEF Init, TypesInv, Forest, Known
<1>2. TypesInv /\ [Next]_vars => TypesInv'
  BY TypesStep
<1>. QED BY <1>1, <1>2, PTL DEF Spec

-----------------------------------------------------------------------------
(* Following functions.  A function is known by the statement that made it or  *)
(* by the object of the registry that it is.                                   *)

\* What a name has that the file does not, or no longer, define.
Meaning(name) == IF Record(name) = NoObject THEN Value(Symbol) ELSE ObjectValue(Record(name))

\* A name whose function the analysis follows.
Tracked(name) == Visible(name, bound) /\ bound[name].object # 0

\* What a method or a function may say that it gives, and the types among that.
Announcements == {Unspecified} \cup Codomains \cup UNION {AnnouncedBy(o) : o \in DOMAIN Callables}
Announced == {Thing} \cup (Announcements \ {Unspecified})

FunctionInfos == [method : BOOLEAN, typical : Announcements, installed : Seq(Nat)]

Installation ==
  [head : Called \cup Operators, domain : Seq(DOMAIN BaseUp \cup SourceTypes),
   codomain : Announcements, object : Nat,
   effect : {"Effective", "Rejected", "Unresolved"}, runs : BOOLEAN, taken : BOOLEAN]

NamesTyped ==
  /\ installations \in Seq(Installation)
  /\ DOMAIN bound = Names /\ DOMAIN values = Names \cup Copied \cup Called
  /\ callables \in Seq(FunctionInfos)
  /\ \A n \in Names : bound[n].from \in 0..(position - 1)
                      /\ bound[n].object \in 0..Len(callables)

\* A function of the registry is followed as one object, whatever it is called.
IndexedApart ==
  /\ DOMAIN indexed \subseteq DOMAIN Callables
  /\ \A o \in DOMAIN indexed : indexed[o] \in 1..Len(callables)
  /\ \A o, p \in DOMAIN indexed : indexed[o] = indexed[p] => o = p

\* The object followed under a name is the function it has.
ObjectsAreFunctions ==
  /\ \A n \in DOMAIN values : ~Visible(n, bound) => values[n] = Meaning(n)
  /\ \A n \in Names : Tracked(n) =>
       /\ values[n].function \in 1..(position - 1) \cup DOMAIN indexed
       /\ \A o \in DOMAIN indexed : bound[n].object = indexed[o] <=> values[n].function = o
       /\ \A m \in Names : Tracked(m) =>
            (bound[m].object = bound[n].object <=> values[m].function = values[n].function)

NamesInv == NamesTyped /\ IndexedApart /\ (running => ObjectsAreFunctions)

\* What an expression is known to be it is.
Follows(object, value) ==
  /\ object \in 1..Len(callables')
  /\ value.function \in 1..position \cup DOMAIN indexed'
  /\ \A o \in DOMAIN indexed' : object = indexed'[o] <=> value.function = o
  /\ \A n \in Names : Tracked(n) =>
       (object = bound[n].object <=> value.function = values[n].function)

\* The states an assignment reads its value with.
StatesFor(name) == IF bound[name].from # 0 THEN bound
                   ELSE [bound EXCEPT ![name] = [Unbound EXCEPT !.from = position]]

LEMMA StatesForName ==
  ASSUME RegistryInv, NamesTyped, NEW name \in Names, NEW n
  PROVE  LET states == StatesFor(name)
         IN  /\ Visible(n, states) /\ states[n].object # 0
                  => Tracked(n) /\ states[n].object = bound[n].object
             /\ Visible(n, bound) => Visible(n, states) /\ states[n] = bound[n]
<1>. DEFINE states == StatesFor(name)
<1>1. CASE bound[name].from # 0
  BY <1>1 DEF StatesFor, Tracked
<1>2. CASE bound[name].from = 0
  <2>1. /\ n \in Names /\ n # name => states[n] = bound[n]
        /\ states[name].object = 0
    BY <1>2 DEF StatesFor, NamesTyped, Unbound
  <2>2. Visible(n, bound) => n # name
    BY <1>2 DEF Visible
  <2>. QED BY <2>1, <2>2 DEF Visible, Tracked
<1>. QED BY <1>1, <1>2

\* The kinds of expressions that are known to be a function, and how.
LEMMA KindsOfCallable ==
  ASSUME NEW e \in Expressions, NEW states, NEW object, object = CallableOf(e, states),
         object # 0
  PROVE  \/ e.kind \in {"method", "lambda"} /\ object = Len(callables) + 1
         \/ /\ e.kind = "atom" /\ e.atom \in Copied /\ Visible(e.atom, states)
            /\ object = states[e.atom].object
         \/ /\ e.kind = "atom" /\ e.atom \in Copied /\ ~Visible(e.atom, states)
            /\ IsCallable(e.atom)
            /\ object = IF Record(e.atom) \in DOMAIN indexed THEN indexed[Record(e.atom)]
                        ELSE Len(callables) + 1
<1>1. CASE e.kind = "atom" /\ e.atom \in Copied
  <2>1. object = IF Visible(e.atom, states) THEN states[e.atom].object
                 ELSE IF ~IsCallable(e.atom) THEN 0
                 ELSE IF Record(e.atom) \in DOMAIN indexed THEN indexed[Record(e.atom)]
                 ELSE Len(callables) + 1
    BY <1>1 DEF CallableOf
  <2>. QED BY <1>1, <2>1
<1>2. CASE ~(e.kind = "atom" /\ e.atom \in Copied) /\ e.kind \in {"method", "lambda"}
  <2>1. object = Len(callables) + 1
    BY <1>2 DEF CallableOf
  <2>. QED BY <1>2, <2>1
<1>3. CASE ~(e.kind = "atom" /\ e.atom \in Copied) /\ e.kind \notin {"method", "lambda"}
  BY <1>3 DEF CallableOf
<1>. QED BY <1>1, <1>2, <1>3

\* What is made when something is: a method function, a closure or a function of
\* the registry.
LEMMA MadeIs ==
  ASSUME RegistryInv, NamesTyped, IndexedApart, NEW name \in Names,
         NEW e \in Expressions, CallableOf(e, StatesFor(name)) > Len(callables)
  PROVE  /\ CallableOf(e, StatesFor(name)) = Len(callables) + 1
         /\ FunctionInfo(e) \in FunctionInfos
         /\ \/ e.kind \in {"method", "lambda"}
            \/ /\ e.kind = "atom" /\ e.atom \in Copied /\ ~Visible(e.atom, StatesFor(name))
               /\ Record(e.atom) \in DOMAIN Callables \ DOMAIN indexed
<1>. DEFINE states == StatesFor(name)
            object == CallableOf(e, states)
<1>0. Len(callables) \in Nat
  BY LenProperties DEF NamesTyped
<1>1. object # 0
  BY <1>0
<1>2. ASSUME Visible(e.atom, states), object = states[e.atom].object PROVE FALSE
  <2>1. object = bound[e.atom].object /\ e.atom \in Names
    BY <1>1, <1>2, StatesForName DEF Visible
  <2>2. bound[e.atom].object \in 0..Len(callables)
    BY <2>1 DEF NamesTyped
  <2>. QED BY <1>0, <2>1, <2>2
<1>3. CASE e.kind \in {"method", "lambda"} /\ object = Len(callables) + 1
  <2>1. e.kind = "method" => e.typical \in Announcements
    BY DEF Expressions, Announcements
  <2>2. <<>> \in Seq(Nat)
    OBVIOUS
  <2>3. CASE e.kind = "method"
    <3>1. FunctionInfo(e) = [method |-> TRUE, typical |-> e.typical, installed |-> <<>>]
      BY <2>3 DEF FunctionInfo
    <3>. QED BY <1>3, <2>1, <2>2, <2>3, <3>1 DEF FunctionInfos
  <2>4. CASE e.kind = "lambda"
    <3>1. FunctionInfo(e) = [method |-> FALSE, typical |-> Unspecified, installed |-> <<>>]
      BY <2>4 DEF FunctionInfo
    <3>. QED BY <1>3, <2>2, <3>1 DEF FunctionInfos, Announcements
  <2>. QED BY <1>3, <2>3, <2>4
<1>4. CASE /\ e.kind = "atom" /\ e.atom \in Copied /\ ~Visible(e.atom, states)
           /\ IsCallable(e.atom)
           /\ object = IF Record(e.atom) \in DOMAIN indexed THEN indexed[Record(e.atom)]
                       ELSE Len(callables) + 1
  <2>. DEFINE r == Record(e.atom)
  <2>1. r \in DOMAIN Callables
    BY <1>4 DEF IsCallable
  <2>2. FunctionInfo(e) =
          [method |-> IsSubtype(ObjectClass[r], MethodFunction),
           typical |-> Callables[r].typical, installed |-> <<>>]
    BY <1>4 DEF FunctionInfo
  <2>3. IsSubtype(ObjectClass[r], MethodFunction) \in BOOLEAN
    BY DEF IsSubtype
  <2>4. Callables[r].typical \in Announcements /\ <<>> \in Seq(Nat)
    BY <2>1 DEF Announcements, AnnouncedBy
  <2>5. FunctionInfo(e) \in FunctionInfos
    <3>1. CASE IsSubtype(ObjectClass[r], MethodFunction)
      <4>1. FunctionInfo(e) = [method |-> TRUE, typical |-> Callables[r].typical,
                               installed |-> <<>>]
        BY <2>2, <2>3, <3>1, Zenon
      <4>. QED BY <2>4, <4>1 DEF FunctionInfos
    <3>2. CASE ~IsSubtype(ObjectClass[r], MethodFunction)
      <4>1. FunctionInfo(e) = [method |-> FALSE, typical |-> Callables[r].typical,
                               installed |-> <<>>]
        BY <2>2, <2>3, <3>2, Zenon
      <4>. QED BY <2>4, <4>1 DEF FunctionInfos
    <3>. QED BY <3>1, <3>2
  <2>6. r \notin DOMAIN indexed /\ object = Len(callables) + 1
    <3>1. r \in DOMAIN indexed => indexed[r] \in 1..Len(callables)
      BY DEF IndexedApart
    <3>2. r \in DOMAIN indexed => object \in 1..Len(callables)
      BY <1>4, <3>1
    <3>3. ~(object \in 1..Len(callables))
      BY <1>0
    <3>. QED BY <1>4, <3>2, <3>3
  <2>. QED BY <1>4, <2>1, <2>5, <2>6
<1>. QED BY <1>1, <1>2, <1>3, <1>4, KindsOfCallable

\* What an assignment does to the objects that are followed.
LEMMA AssignMakes ==
  ASSUME RegistryInv, NamesTyped, IndexedApart, NEW name \in Names, NEW e \in Expressions,
         Assign(name, e)
  PROVE  LET object == CallableOf(e, StatesFor(name))
             old == callables' = callables /\ indexed' = indexed
             new == callables' = Append(callables, FunctionInfo(e))
                      /\ object = Len(callables) + 1 /\ FunctionInfo(e) \in FunctionInfos
         IN  /\ object \in 0..Len(callables')
             /\ callables' \in Seq(FunctionInfos) /\ IndexedApart'
             /\ DOMAIN indexed \subseteq DOMAIN indexed'
             /\ \A o \in DOMAIN indexed : indexed'[o] = indexed[o]
             /\ \/ old
                \/ new /\ indexed' = indexed /\ e.kind \in {"method", "lambda"}
                \/ /\ new /\ e.kind = "atom" /\ e.atom \in Copied
                   /\ ~Visible(e.atom, StatesFor(name))
                   /\ Record(e.atom) \in DOMAIN Callables \ DOMAIN indexed
                   /\ DOMAIN indexed' = DOMAIN indexed \cup {Record(e.atom)}
                   /\ indexed'[Record(e.atom)] = object
<1>. DEFINE states == StatesFor(name)
            object == CallableOf(e, states)
            made == object > Len(callables)
<1>0. Len(callables) \in Nat
  BY LenProperties DEF NamesTyped
<1>1. /\ callables' = IF made THEN Append(callables, FunctionInfo(e)) ELSE callables
      /\ indexed' = IF made /\ e.kind = "atom" THEN With(indexed, Record(e.atom), object)
                    ELSE indexed
  BY DEF Assign, StatesFor
<1>2. CASE ~made
  <2>1. object \in 0..Len(callables)
    <3>1. CASE object = 0
      BY <1>0, <3>1
    <3>2. ASSUME Visible(e.atom, states), object = states[e.atom].object, object # 0
          PROVE  object \in 0..Len(callables)
      <4>1. object = bound[e.atom].object /\ e.atom \in Names
        BY <3>2, StatesForName DEF Visible
      <4>. QED BY <4>1 DEF NamesTyped
    <3>3. CASE Record(e.atom) \in DOMAIN indexed /\ object = indexed[Record(e.atom)]
      BY <1>0, <3>3 DEF IndexedApart
    <3>4. object # Len(callables) + 1
      BY <1>0, <1>2
    <3>. QED BY <3>1, <3>2, <3>3, <3>4, KindsOfCallable
  <2>2. callables' = callables /\ indexed' = indexed
    BY <1>1, <1>2
  <2>3. IndexedApart'
    BY <2>2 DEF IndexedApart
  <2>. QED BY <2>1, <2>2, <2>3 DEF NamesTyped
<1>3. CASE made
  <2>1. /\ object = Len(callables) + 1 /\ FunctionInfo(e) \in FunctionInfos
        /\ \/ e.kind \in {"method", "lambda"}
           \/ /\ e.kind = "atom" /\ e.atom \in Copied /\ ~Visible(e.atom, states)
              /\ Record(e.atom) \in DOMAIN Callables \ DOMAIN indexed
    BY <1>3, MadeIs
  <2>2. callables' = Append(callables, FunctionInfo(e))
    BY <1>1, <1>3
  <2>3. callables' \in Seq(FunctionInfos) /\ Len(callables') = Len(callables) + 1
    BY <2>1, <2>2, AppendProperties DEF NamesTyped
  <2>4. CASE e.kind \in {"method", "lambda"}
    <3>1. indexed' = indexed
      BY <1>1, <2>4
    <3>2. IndexedApart'
      BY <1>0, <2>3, <3>1 DEF IndexedApart
    <3>. QED BY <1>0, <2>1, <2>2, <2>3, <2>4, <3>1, <3>2
  <2>5. CASE /\ e.kind = "atom" /\ e.atom \in Copied /\ ~Visible(e.atom, states)
             /\ Record(e.atom) \in DOMAIN Callables \ DOMAIN indexed
    <3>. DEFINE r == Record(e.atom)
    <3>1. /\ DOMAIN indexed' = DOMAIN indexed \cup {r}
          /\ indexed'[r] = object
          /\ \A o \in DOMAIN indexed : indexed'[o] = indexed[o]
      BY <1>1, <1>3, <2>5 DEF With
    <3>. HIDE DEF r
    <3>2. \A o \in DOMAIN indexed : indexed[o] \in 1..Len(callables) /\ indexed[o] # object
      BY <1>0, <2>1 DEF IndexedApart
    <3>3. object \in 1..Len(callables')
      BY <1>0, <2>1, <2>3
    <3>4. \A o \in DOMAIN indexed' : indexed'[o] \in 1..Len(callables')
      BY <1>0, <2>3, <3>1, <3>2, <3>3
    <3>5. r \in DOMAIN Callables
      BY <2>5 DEF r
    <3>6. DOMAIN indexed' \subseteq DOMAIN Callables
      BY <3>1, <3>5 DEF IndexedApart
    <3>7. \A o, p \in DOMAIN indexed' : indexed'[o] = indexed'[p] => o = p
      <4>. HIDE DEF object
      <4>. QED BY <3>1, <3>2 DEF IndexedApart
    <3>8. IndexedApart'
      BY <3>4, <3>6, <3>7 DEF IndexedApart
    <3>9. object \in 0..Len(callables')
      BY <1>0, <2>3, <3>3
    <3>. QED BY <2>1, <2>2, <2>3, <2>5, <3>1, <3>8, <3>9 DEF r
  <2>. QED BY <2>1, <2>4, <2>5
<1>. QED BY <1>2, <1>3

LEMMA AssignFollows ==
  ASSUME RegistryInv, NamesInv, running, NEW name \in Names, NEW e \in Expressions,
         Assign(name, e), CallableOf(e, StatesFor(name)) # 0, NEW v \in ValuesOf(e, position)
  PROVE  Follows(CallableOf(e, StatesFor(name)), v)
<1>. DEFINE states == StatesFor(name)
            object == CallableOf(e, states)
            r == Record(e.atom)
            old == callables' = callables /\ indexed' = indexed
            new == callables' = Append(callables, FunctionInfo(e))
                     /\ object = Len(callables) + 1 /\ FunctionInfo(e) \in FunctionInfos
<1>0. /\ NamesTyped /\ IndexedApart /\ ObjectsAreFunctions
      /\ Len(callables) \in Nat /\ position \in Nat
      /\ position \notin DOMAIN Callables
  BY LenProperties, ProgramAssumption DEF NamesInv, NamesTyped, RegistryInv
<1>1. /\ object \in 0..Len(callables')
      /\ IndexedApart' /\ DOMAIN indexed \subseteq DOMAIN indexed'
      /\ \A o \in DOMAIN indexed : indexed'[o] = indexed[o]
      /\ \/ old
         \/ new /\ indexed' = indexed /\ e.kind \in {"method", "lambda"}
         \/ /\ new /\ e.kind = "atom" /\ e.atom \in Copied /\ ~Visible(e.atom, states)
            /\ r \in DOMAIN Callables \ DOMAIN indexed
            /\ DOMAIN indexed' = DOMAIN indexed \cup {r} /\ indexed'[r] = object
  BY <1>0, AssignMakes
<1>2. Len(callables') \in Nat /\ (new => Len(callables') = Len(callables) + 1)
  <2>1. new => Len(callables') = Len(callables) + 1
    BY AppendProperties, <1>0 DEF NamesTyped
  <2>. QED BY <1>0, <1>1, <2>1
<1>3. object \in 1..Len(callables')
  BY <1>1, <1>2
<1>4. \A n \in Names : Tracked(n) =>
        bound[n].object \in 1..Len(callables) /\ values[n].function \in 1..(position - 1) \cup DOMAIN indexed
  BY <1>0 DEF NamesTyped, ObjectsAreFunctions, Tracked
<1>5. \A o \in DOMAIN indexed : indexed[o] \in 1..Len(callables) /\ o \in DOMAIN Callables
  BY <1>0 DEF IndexedApart
<1>6. \A k \in Int : k \notin DOMAIN Callables
  BY ProgramAssumption
<1>. HIDE DEF object, new
<1>7. CASE new /\ indexed' = indexed /\ e.kind \in {"method", "lambda"}
  <2>1. v.function = position
    BY <1>7 DEF ValuesOf
  <2>2. \A o \in DOMAIN indexed' : object # indexed'[o] /\ v.function # o
    BY <1>0, <1>5, <1>7, <2>1 DEF new
  <2>3. \A n \in Names : Tracked(n) => object # bound[n].object /\ v.function # values[n].function
    <3>. SUFFICES ASSUME NEW n \in Names, Tracked(n)
                  PROVE  object # bound[n].object /\ v.function # values[n].function
      OBVIOUS
    <3>1. object # bound[n].object
      BY <1>0, <1>4, <1>7 DEF new
    <3>2. values[n].function \notin 1..(position - 1) => values[n].function \in DOMAIN Callables
      BY <1>4, <1>5
    <3>3. position \notin 1..(position - 1)
      BY <1>0
    <3>. QED BY <1>0, <2>1, <3>1, <3>2, <3>3
  <2>4. v.function \in 1..position
    BY <1>0, <2>1 DEF RegistryInv
  <2>. QED BY <1>3, <2>2, <2>3, <2>4 DEF Follows, object
<1>8. CASE old /\ Visible(e.atom, states) /\ object = states[e.atom].object
           /\ e.kind = "atom" /\ e.atom \in Copied
  <2>1. Tracked(e.atom) /\ object = bound[e.atom].object /\ e.atom \in Names
    BY <1>0, <1>3, <1>8, StatesForName DEF Visible
  <2>2. v = values[e.atom]
    BY <1>8, ProgramAssumption DEF ValuesOf, AtomValue
  <2>3. v.function \in 1..position \cup DOMAIN indexed'
    BY <1>0, <1>4, <1>8, <2>1, <2>2
  <2>. QED BY <1>0, <1>3, <1>8, <2>1, <2>2, <2>3 DEF Follows, ObjectsAreFunctions, object
<1>9. CASE /\ e.kind = "atom" /\ e.atom \in Copied /\ ~Visible(e.atom, states)
           /\ r \in DOMAIN Callables /\ r \in DOMAIN indexed' /\ object = indexed'[r]
           /\ r \in DOMAIN indexed => old
           /\ r \notin DOMAIN indexed => new
  <2>1. v = values[e.atom] /\ ~Visible(e.atom, bound) /\ e.atom \in DOMAIN values
    BY <1>0, <1>9, StatesForName, ProgramAssumption DEF ValuesOf, AtomValue, NamesTyped
  <2>2. v = Meaning(e.atom)
    BY <1>0, <2>1 DEF ObjectsAreFunctions
  <2>3. r # NoObject
    BY <1>9, ObjectsAssumption
  <2>4. v.function = r
    <3>1. v = ObjectValue(r)
      BY <2>2, <2>3 DEF Meaning
    <3>2. ObjectValue(r) = [class |-> ObjectClass[r], function |-> r]
      BY <1>9 DEF ObjectValue
    <3>. QED BY <3>1, <3>2
  <2>5. \A o \in DOMAIN indexed' : object = indexed'[o] <=> v.function = o
    BY <1>1, <1>9, <2>4 DEF IndexedApart
  <2>6. ASSUME NEW n \in Names, Tracked(n)
        PROVE  object = bound[n].object <=> v.function = values[n].function
    <3>1. CASE r \in DOMAIN indexed
      <4>1. object = indexed[r]
        BY <1>1, <1>9, <3>1
      <4>2. bound[n].object = indexed[r] <=> values[n].function = r
        BY <1>0, <2>6, <3>1 DEF ObjectsAreFunctions
      <4>. QED BY <2>4, <4>1, <4>2
    <3>2. CASE r \notin DOMAIN indexed
      <4>1. object # bound[n].object
        BY <1>0, <1>4, <1>9, <2>6, <3>2 DEF new
      <4>2. r \notin 1..(position - 1) \cup DOMAIN indexed
        BY <1>0, <1>6, <1>9, <3>2
      <4>. QED BY <1>4, <2>4, <2>6, <4>1, <4>2
    <3>. QED BY <3>1, <3>2
  <2>7. v.function \in 1..position \cup DOMAIN indexed'
    BY <1>9, <2>4
  <2>. QED BY <1>3, <2>5, <2>6, <2>7 DEF Follows, object
<1>10. \/ e.kind \in {"method", "lambda"} /\ object = Len(callables) + 1
       \/ /\ e.kind = "atom" /\ e.atom \in Copied /\ Visible(e.atom, states)
          /\ object = states[e.atom].object
       \/ /\ e.kind = "atom" /\ e.atom \in Copied /\ ~Visible(e.atom, states)
          /\ r \in DOMAIN Callables
          /\ object = IF r \in DOMAIN indexed THEN indexed[r] ELSE Len(callables) + 1
  BY KindsOfCallable DEF object, IsCallable
<1>11. \/ e.kind = "atom" /\ ~(e.kind \in {"method", "lambda"})
       \/ e.kind \in {"method", "lambda"} /\ e.kind # "atom"
       \/ e.kind # "atom" /\ ~(e.kind \in {"method", "lambda"})
  OBVIOUS
<1>12. CASE e.kind \in {"method", "lambda"}
  <2>1. ~old
    BY <1>0, <1>3, <1>10, <1>11, <1>12
  <2>. QED BY <1>1, <1>7, <1>11, <1>12, <2>1
<1>13. CASE /\ e.kind = "atom" /\ e.atom \in Copied /\ Visible(e.atom, states)
            /\ object = states[e.atom].object
  BY <1>1, <1>8, <1>11, <1>13
<1>14. CASE /\ e.kind = "atom" /\ e.atom \in Copied /\ ~Visible(e.atom, states)
            /\ r \in DOMAIN Callables
            /\ object = IF r \in DOMAIN indexed THEN indexed[r] ELSE Len(callables) + 1
  <2>1. CASE old
    <3>1. r \in DOMAIN indexed
      BY <1>0, <1>3, <1>14, <2>1
    <3>. QED BY <1>1, <1>9, <1>14, <2>1, <3>1
  <2>2. CASE ~old
    BY <1>1, <1>9, <1>11, <1>14, <2>2
  <2>. QED BY <2>1, <2>2
<1>. QED BY <1>10, <1>12, <1>13, <1>14

\* What a name has that the file does not define changes with what is imported only.
LEMMA MeaningStays ==
  ASSUME RegistryInv, RegistryInv', TypesInv, OrderStays
  PROVE  /\ \A t \in Known : Value(t)' = Value(t)
         /\ \A o \in DOMAIN ObjectClass : ObjectValue(o)' = ObjectValue(o)
         /\ \A n : Record(n)' = Record(n) => Meaning(n)' = Meaning(n)
<1>1. ASSUME NEW t \in Known PROVE Value(t)' = Value(t)
  <2>1. IsSubtype(t, Function)' <=> IsSubtype(t, Function)
    BY DEF OrderStays
  <2>. QED BY <2>1 DEF Value
<1>2. ASSUME NEW o \in DOMAIN ObjectClass PROVE ObjectValue(o)' = ObjectValue(o)
  <2>1. ObjectClass[o] \in Known
    BY ObjectsAssumption DEF TypesInv
  <2>. QED BY <1>1, <2>1 DEF ObjectValue
<1>3. Symbol \in Known
  BY RolesAssumption DEF TypesInv
<1>4. ASSUME NEW n, Record(n)' = Record(n) PROVE Meaning(n)' = Meaning(n)
  <2>1. Record(n) # NoObject => Record(n) \in DOMAIN ObjectClass
    BY RecordIs
  <2>. QED BY <1>1, <1>2, <1>3, <1>4, <2>1 DEF Meaning
<1>. QED BY <1>1, <1>2, <1>4

\* A statement that gives one name a value and a state.
LEMMA OneNameStep ==
  ASSUME RegistryInv, RegistryInv', TypesInv, OrderStays, NamesTyped, ObjectsAreFunctions,
         registrations' = registrations, position' = position + 1,
         NEW name \in Names, NEW range, NEW object, NEW v,
         bound' = [bound EXCEPT ![name] = [from |-> position, range |-> range,
                                           object |-> object]],
         values' = [values EXCEPT ![name] = v],
         object # 0 => Follows(object, v),
         \A o \in DOMAIN indexed : o \in DOMAIN indexed' /\ indexed'[o] = indexed[o],
         \A o \in DOMAIN indexed' : o \notin DOMAIN indexed => object # 0 /\ indexed'[o] = object
  PROVE  ObjectsAreFunctions'
<1>0. position \in Nat \ {0}
  BY DEF RegistryInv
<1>1. /\ \A n : n # name => (n \in Names => bound'[n] = bound[n])
                            /\ (n \in DOMAIN values => values'[n] = values[n])
      /\ bound'[name].from = position /\ bound'[name].object = object
      /\ values'[name] = v /\ DOMAIN values' = DOMAIN values
  BY DEF NamesTyped
<1>2. \A n : /\ Meaning(n)' = Meaning(n)
             /\ \A from : ShadowsSource(n, from, position)' <=> ShadowsSource(n, from, position)
  BY MeaningsStay, MeaningStays
<1>3. Visible(name, bound)'
  <2>1. ~ShadowsSource(name, position, position)
    <3>. DEFINE i == LastHaving(registrations, name)
    <3>1. /\ ShadowsSource(name, position, position) <=> i # 0 /\ registrations[i].from > position
          /\ i # 0 => registrations[i] \in Registration /\ registrations[i].from < position
      BY RecordIs
    <3>2. i # 0 => registrations[i].from \in Nat
      BY <3>1 DEF Registration
    <3>. QED BY <1>0, <3>1, <3>2
  <2>. QED BY <1>0, <1>1, <1>2, <2>1 DEF Visible
<1>4. \A n : n # name => (Visible(n, bound)' <=> Visible(n, bound))
  BY <1>1, <1>2 DEF Visible
<1>5. \A n \in Names : n # name => (Tracked(n)' <=> Tracked(n))
  BY <1>1, <1>4 DEF Tracked
<1>6. ASSUME NEW n \in DOMAIN values', ~Visible(n, bound)' PROVE values'[n] = Meaning(n)'
  BY <1>1, <1>2, <1>3, <1>4, <1>6 DEF ObjectsAreFunctions
<1>7. ASSUME NEW n \in Names, Tracked(n)', n # name
      PROVE  /\ Tracked(n) /\ bound'[n] = bound[n] /\ values'[n] = values[n]
             /\ values[n].function \in 1..(position - 1) \cup DOMAIN indexed
  BY <1>1, <1>5, <1>7 DEF ObjectsAreFunctions, NamesTyped
<1>8. Tracked(name)' => object # 0
  BY <1>1 DEF Tracked
<1>9. ASSUME NEW n \in Names, Tracked(n)'
      PROVE  values'[n].function \in 1..(position' - 1) \cup DOMAIN indexed'
  <2>1. CASE n = name
    BY <1>0, <1>1, <1>8, <1>9, <2>1 DEF Follows
  <2>2. CASE n # name
    BY <1>0, <1>7, <1>9, <2>2
  <2>. QED BY <2>1, <2>2
<1>10. ASSUME NEW n \in Names, Tracked(n)', NEW o \in DOMAIN indexed'
       PROVE  bound'[n].object = indexed'[o] <=> values'[n].function = o
  <2>1. CASE n = name
    BY <1>1, <1>8, <1>10, <2>1 DEF Follows
  <2>2. CASE n # name /\ o \in DOMAIN indexed
    BY <1>7, <1>10, <2>2 DEF ObjectsAreFunctions
  <2>3. CASE n # name /\ o \notin DOMAIN indexed
    <3>1. object # 0 /\ indexed'[o] = object
      BY <2>3
    <3>2. v.function = o
      BY <3>1 DEF Follows
    <3>3. object = bound[n].object <=> v.function = values[n].function
      BY <1>7, <1>10, <2>3, <3>1 DEF Follows
    <3>. QED BY <1>7, <1>10, <2>3, <3>1, <3>2, <3>3
  <2>. QED BY <2>1, <2>2, <2>3
<1>11. ASSUME NEW n \in Names, Tracked(n)', NEW m \in Names, Tracked(m)'
       PROVE  bound'[m].object = bound'[n].object <=> values'[m].function = values'[n].function
  <2>1. CASE n = name /\ m = name
    BY <2>1
  <2>2. CASE n = name /\ m # name
    BY <1>1, <1>7, <1>8, <1>11, <2>2 DEF Follows
  <2>3. CASE n # name /\ m = name
    BY <1>1, <1>7, <1>8, <1>11, <2>3 DEF Follows
  <2>4. CASE n # name /\ m # name
    BY <1>7, <1>11, <2>4 DEF ObjectsAreFunctions
  <2>. QED BY <2>1, <2>2, <2>3, <2>4
<1>. QED BY <1>6, <1>9, <1>10, <1>11 DEF ObjectsAreFunctions

LEMMA AssignStep ==
  ASSUME RegistryInv, RegistryInv', TypesInv, OrderStays, NamesInv,
         NEW name \in Names, NEW e \in Expressions, Assign(name, e)
  PROVE  NamesInv'
<1>. DEFINE object == CallableOf(e, StatesFor(name))
            range == TypeOf(e, StatesFor(name))
<1>0. /\ NamesTyped /\ IndexedApart /\ (running => ObjectsAreFunctions)
      /\ position \in Nat \ {0} /\ Len(callables) \in Nat
  BY LenProperties DEF NamesInv, NamesTyped, RegistryInv
<1>1. /\ object \in 0..Len(callables')
      /\ callables' \in Seq(FunctionInfos) /\ IndexedApart'
      /\ \A o \in DOMAIN indexed : o \in DOMAIN indexed' /\ indexed'[o] = indexed[o]
      /\ \A o \in DOMAIN indexed' : o \notin DOMAIN indexed =>
           indexed'[o] = object /\ object = Len(callables) + 1
      /\ \/ callables' = callables
         \/ callables' = Append(callables, FunctionInfo(e)) /\ FunctionInfo(e) \in FunctionInfos
  BY <1>0, AssignMakes
<1>2. Len(callables') \in Nat /\ Len(callables) <= Len(callables')
  BY <1>0, <1>1, AppendProperties DEF NamesTyped
<1>. HIDE DEF object, range
<1>3. /\ running /\ position' = position + 1 /\ registrations' = registrations
      /\ bound' = [bound EXCEPT ![name] = [from |-> position, range |-> range,
                                           object |-> object]]
  BY DEF Assign, Read, object, range, StatesFor
<1>4. NamesTyped'
  <2>1. DOMAIN values' = DOMAIN values /\ installations' = installations
    BY DEF Assign
  <2>2. ASSUME NEW n \in Names
        PROVE  bound'[n].from \in 0..(position' - 1) /\ bound'[n].object \in 0..Len(callables')
    <3>1. CASE n = name
      BY <1>0, <1>1, <1>3, <3>1 DEF NamesTyped
    <3>2. CASE n # name
      <4>1. /\ bound'[n] = bound[n]
            /\ bound[n].from \in 0..(position - 1) /\ bound[n].object \in 0..Len(callables)
        BY <1>0, <1>3, <3>2 DEF NamesTyped
      <4>. QED BY <1>0, <1>2, <1>3, <4>1
    <3>. QED BY <3>1, <3>2
  <2>3. DOMAIN bound' = Names
    BY <1>0, <1>3 DEF NamesTyped
  <2>. QED BY <1>0, <1>1, <2>1, <2>2, <2>3 DEF NamesTyped
<1>5. ASSUME running' PROVE ObjectsAreFunctions'
  <2>1. PICK v \in ValuesOf(e, position) : values' = [values EXCEPT ![name] = v]
    BY <1>5 DEF Assign
  <2>2. object # 0 => Follows(object, v)
    BY <1>3, AssignFollows DEF object
  <2>3. \A o \in DOMAIN indexed' : o \notin DOMAIN indexed =>
          object # 0 /\ indexed'[o] = object
    BY <1>0, <1>1
  <2>. QED BY <1>0, <1>1, <1>3, <2>1, <2>2, <2>3, OneNameStep
<1>. QED BY <1>1, <1>4, <1>5 DEF NamesInv

LEMMA NewTypeStep ==
  ASSUME RegistryInv, RegistryInv', TypesInv, OrderStays, NamesInv,
         NEW name \in SourceTypes, NEW parent \in Parents, NewType(name, parent)
  PROVE  NamesInv'
<1>0. /\ NamesTyped /\ IndexedApart /\ (running => ObjectsAreFunctions)
      /\ position \in Nat \ {0} /\ Len(callables) \in Nat
  BY LenProperties DEF NamesInv, NamesTyped, RegistryInv
<1>1. /\ running /\ position' = position + 1 /\ registrations' = registrations
      /\ bound' = [bound EXCEPT ![name] = [from |-> position, range |-> ExactType(Type),
                                           object |-> 0]]
      /\ values' = [values EXCEPT ![name] = Value(Type)]
      /\ callables' = callables /\ indexed' = indexed /\ installations' = installations
      /\ name \in Names
  BY ProgramAssumption DEF NewType, Read
<1>2. NamesTyped'
  <2>1. ASSUME NEW n \in Names
        PROVE  bound'[n].from \in 0..(position' - 1) /\ bound'[n].object \in 0..Len(callables')
    <3>1. CASE n = name
      BY <1>0, <1>1, <3>1 DEF NamesTyped
    <3>2. CASE n # name
      <4>1. /\ bound'[n] = bound[n]
            /\ bound[n].from \in 0..(position - 1) /\ bound[n].object \in 0..Len(callables)
        BY <1>0, <1>1, <3>2 DEF NamesTyped
      <4>. QED BY <1>0, <1>1, <4>1
    <3>. QED BY <3>1, <3>2
  <2>. QED BY <1>0, <1>1, <2>1 DEF NamesTyped
<1>3. ObjectsAreFunctions'
  BY <1>0, <1>1, OneNameStep
<1>4. IndexedApart'
  BY <1>0, <1>1 DEF IndexedApart
<1>. QED BY <1>2, <1>3, <1>4 DEF NamesInv

\* A statement that names nothing anew, and imports nothing.
LEMMA QuietStep ==
  ASSUME RegistryInv, RegistryInv', TypesInv, OrderStays, NamesInv,
         registrations' = registrations, bound' = bound, indexed' = indexed, values' = values,
         position' \in {position, position + 1}, running' => running,
         callables' \in Seq(FunctionInfos), Len(callables') = Len(callables),
         installations' \in Seq(Installation)
  PROVE  NamesInv'
<1>0. NamesTyped /\ IndexedApart /\ position \in Nat \ {0} /\ position' \in Nat \ {0}
      /\ position <= position'
  BY DEF NamesInv, RegistryInv
<1>1. \A n : /\ Meaning(n)' = Meaning(n)
             /\ \A from : ShadowsSource(n, from, position)' <=> ShadowsSource(n, from, position)
  BY MeaningsStay, MeaningStays
<1>2. \A n : (Visible(n, bound)' <=> Visible(n, bound)) /\ (Tracked(n)' <=> Tracked(n))
  BY <1>1 DEF Visible, Tracked
<1>3. \A p, q \in Nat : p <= q => 0..(p - 1) \subseteq 0..(q - 1) /\ 1..(p - 1) \subseteq 1..(q - 1)
  OBVIOUS
<1>4. 0..(position - 1) \subseteq 0..(position' - 1) /\ 1..(position - 1) \subseteq 1..(position' - 1)
  BY <1>0, <1>3
<1>5. NamesTyped'
  BY <1>0, <1>4 DEF NamesTyped
<1>6. IndexedApart'
  BY <1>0 DEF IndexedApart
<1>7. running' => ObjectsAreFunctions'
  BY <1>1, <1>2, <1>4 DEF NamesInv, ObjectsAreFunctions
<1>. QED BY <1>5, <1>6, <1>7 DEF NamesInv

\* What is written down of an installation.
LEMMA HeadKinds ==
  ASSUME NEW name
  PROVE  HeadKind(name) \in {"method", "plain", "unknown"}
         /\ Effect(HeadKind(name)) \in {"Effective", "Rejected", "Unresolved"}
<1>1. HeadKind(name) \in {"method", "plain", "unknown"}
  <2>. DEFINE state == bound[name]
  <2>1. CASE name \in Names /\ bound[name].from # 0
    <3>1. HeadKind(name) =
            CASE state.object # 0 -> IF callables[state.object].method THEN "method" ELSE "plain"
              [] state.range = NoRange -> "unknown"
              [] OTHER -> IF HasRole(state.range, MethodFunction) THEN "method"
                          ELSE IF HasRole(state.range, Function) THEN "plain" ELSE "unknown"
      BY <2>1 DEF HeadKind
    <3>. QED BY <3>1
  <2>2. CASE ~(name \in Names /\ bound[name].from # 0)
    BY <2>2 DEF HeadKind
  <2>. QED BY <2>1, <2>2
<1>. QED BY <1>1 DEF Effect

LEMMA HeadObjectIs ==
  ASSUME NamesTyped, NEW name
  PROVE  /\ HeadObject(name) \in 0..Len(callables)
         /\ HeadObject(name) # 0 => name \in Names /\ HeadObject(name) = bound[name].object
<1>1. Len(callables) \in Nat
  BY LenProperties DEF NamesTyped
<1>. QED BY <1>1 DEF HeadObject, NamesTyped

LEMMA InstallStep ==
  ASSUME RegistryInv, RegistryInv', TypesInv, OrderStays, NamesInv,
         NEW name \in Called, NEW codomain \in Codomains \cup {Unspecified},
         NEW domain \in Domains[name], Install(name, domain, codomain)
  PROVE  NamesInv'
<1>. DEFINE object == HeadObject(name)
            announced == IF codomain = Unspecified /\ object # 0 THEN callables[object].typical
                         ELSE codomain
            one == [head |-> name, domain |-> domain, codomain |-> announced, object |-> object,
                    effect |-> Effect(HeadKind(name)),
                    runs |-> IsSubtype(values[name].class, MethodFunction),
                    taken |-> name \in Names /\ bound[name].from # 0 /\ ~Visible(name, bound)]
<1>0. /\ NamesTyped /\ object \in 0..Len(callables)
      /\ callables \in Seq(FunctionInfos) /\ Len(callables) \in Nat
      /\ installations \in Seq(Installation) /\ Len(installations) \in Nat
  BY HeadObjectIs, LenProperties DEF NamesInv, NamesTyped
<1>1. object # 0 => callables[object] \in FunctionInfos
  BY <1>0, ElementOfSeq
<1>2. one \in Installation
  <2>1. announced \in Announcements
    BY <1>1 DEF FunctionInfos, Announcements
  <2>2. domain \in Seq(DOMAIN BaseUp \cup SourceTypes)
    BY ProgramAssumption
  <2>3. one.runs \in BOOLEAN /\ one.taken \in BOOLEAN
    BY DEF IsSubtype, Visible
  <2>4. object \in Nat /\ Effect(HeadKind(name)) \in {"Effective", "Rejected", "Unresolved"}
    BY <1>0, HeadKinds
  <2>. QED BY <2>1, <2>2, <2>3, <2>4, Zenon DEF Installation
<1>. HIDE DEF one
<1>3. /\ running /\ position' = position + 1
      /\ installations' = Append(installations, one)
      /\ callables' = IF object = 0 THEN callables
                      ELSE [callables EXCEPT ![object].installed =
                              Append(@, Len(installations) + 1)]
      /\ UNCHANGED <<registrations, bound, indexed, values>>
  BY DEF Install, Read, one
<1>4. installations' \in Seq(Installation)
  BY <1>0, <1>2, <1>3, AppendProperties
<1>5. callables' \in Seq(FunctionInfos) /\ Len(callables') = Len(callables)
  <2>1. CASE object = 0
    BY <1>0, <1>3, <2>1
  <2>2. CASE object # 0
    <3>. DEFINE info == [callables[object] EXCEPT !.installed = Append(@, Len(installations) + 1)]
    <3>1. callables' = [callables EXCEPT ![object] = info]
      BY <1>3, <2>2
    <3>2. info \in FunctionInfos
      <4>1. Append(callables[object].installed, Len(installations) + 1) \in Seq(Nat)
        BY <1>0, <1>1, <2>2, AppendProperties DEF FunctionInfos
      <4>. QED BY <1>1, <2>2, <4>1 DEF FunctionInfos
    <3>. HIDE DEF info
    <3>. QED BY <1>0, <2>2, <3>1, <3>2, ExceptSeq
  <2>. QED BY <2>1, <2>2
<1>. QED BY <1>0, <1>3, <1>4, <1>5, QuietStep DEF RegistryInv

LEMMA InstallOperatorStep ==
  ASSUME RegistryInv, RegistryInv', TypesInv, OrderStays, NamesInv,
         NEW operator \in Operators, NEW codomain \in Codomains \cup {Unspecified},
         NEW domain \in Domains[operator], InstallOperator(operator, domain, codomain)
  PROVE  NamesInv'
<1>. DEFINE one == [head |-> operator, domain |-> domain, codomain |-> codomain, object |-> 0,
                    effect |-> "Effective", runs |-> TRUE, taken |-> FALSE]
<1>1. one \in Installation
  BY ProgramAssumption DEF Installation, Announcements
<1>2. installations' \in Seq(Installation)
  BY <1>1, AppendProperties DEF InstallOperator, NamesInv, NamesTyped
<1>. QED BY <1>2, QuietStep DEF InstallOperator, Read, NamesInv, NamesTyped

\* An import takes the names it brings from the file.
LEMMA PackageStep ==
  ASSUME RegistryInv, RegistryInv', TypesInv, OrderStays, NamesInv,
         NEW package \in DOMAIN Catalog, Package(package)
  PROVE  NamesInv'
<1>0. /\ NamesTyped /\ IndexedApart /\ position \in Nat \ {0}
      /\ running /\ ObjectsAreFunctions /\ position' = position + 1 /\ Imported(package)
  BY ImportRegisters DEF NamesInv, RegistryInv, Package, Read
<1>1. /\ UNCHANGED <<bound, callables, indexed, installations, running>>
      /\ values' = [n \in DOMAIN values |->
                      IF n \in DOMAIN Catalog[package] THEN ObjectValue(Catalog[package][n])
                      ELSE values[n]]
  BY DEF Package
<1>2. NamesTyped'
  <2>1. \A p \in Nat \ {0} : 0..(p - 1) \subseteq 0..((p + 1) - 1)
    OBVIOUS
  <2>. QED BY <1>0, <1>1, <2>1 DEF NamesTyped
<1>3. IndexedApart'
  BY <1>0, <1>1 DEF IndexedApart
<1>4. ASSUME NEW n, n \in DOMAIN Catalog[package]
      PROVE  /\ Meaning(n)' = ObjectValue(Catalog[package][n])
             /\ ~Visible(n, bound)'
  <2>1. /\ Record(n)' = Catalog[package][n] /\ Record(n)' # NoObject
        /\ Record(n)' \in DOMAIN ObjectClass
        /\ \A from : ShadowsSource(n, from, position)' <=> position > from
    BY <1>0, <1>4, MeaningsImported
  <2>2. PICK o \in DOMAIN ObjectClass : o = Catalog[package][n]
    BY <2>1
  <2>3. Meaning(n)' = ObjectValue(o)
    <3>1. Record(n)' = o /\ o # NoObject
      BY <2>1, <2>2
    <3>2. Meaning(n)' = ObjectValue(o)'
      BY <3>1 DEF Meaning
    <3>. QED BY <3>2, MeaningStays
  <2>4. n \in Names => bound[n].from < position
    BY <1>0 DEF NamesTyped
  <2>. QED BY <1>0, <1>1, <2>1, <2>2, <2>3, <2>4 DEF Visible
<1>5. ASSUME NEW n, n \notin DOMAIN Catalog[package]
      PROVE  Meaning(n)' = Meaning(n) /\ (Visible(n, bound)' <=> Visible(n, bound))
  <2>1. /\ Record(n)' = Record(n)
        /\ \A from : ShadowsSource(n, from, position)' <=> ShadowsSource(n, from, position)
    BY <1>0, <1>5, MeaningsImported
  <2>2. Meaning(n)' = Meaning(n)
    BY <2>1, MeaningStays
  <2>. QED BY <1>1, <2>1, <2>2 DEF Visible
<1>6. ASSUME NEW n \in Names, Tracked(n)'
      PROVE  Tracked(n) /\ values'[n] = values[n] /\ bound'[n] = bound[n]
  <2>1. n \notin DOMAIN Catalog[package]
    BY <1>4, <1>6 DEF Tracked
  <2>. QED BY <1>0, <1>1, <1>5, <1>6, <2>1 DEF Tracked, NamesTyped
<1>7. ObjectsAreFunctions'
  <2>1. ASSUME NEW n \in DOMAIN values', ~Visible(n, bound)' PROVE values'[n] = Meaning(n)'
    BY <1>0, <1>1, <1>4, <1>5, <2>1 DEF ObjectsAreFunctions
  <2>2. 1..(position - 1) \subseteq 1..(position' - 1)
    BY <1>0
  <2>3. ASSUME NEW n \in Names, Tracked(n)'
        PROVE  /\ values'[n].function \in 1..(position' - 1) \cup DOMAIN indexed'
               /\ \A o \in DOMAIN indexed' : bound'[n].object = indexed'[o] <=> values'[n].function = o
               /\ \A m \in Names : Tracked(m)' =>
                    (bound'[m].object = bound'[n].object <=>
                       values'[m].function = values'[n].function)
    BY <1>0, <1>1, <1>6, <2>2, <2>3 DEF ObjectsAreFunctions
  <2>. QED BY <2>1, <2>3 DEF ObjectsAreFunctions
<1>. QED BY <1>2, <1>3, <1>7 DEF NamesInv

LEMMA NamesInit == Init => NamesInv
<1>. SUFFICES ASSUME Init PROVE NamesInv
  OBVIOUS
<1>1. NamesTyped
  <2>1. \A n \in Names : bound[n] = Unbound
    BY DEF Init
  <2>2. Len(callables) = 0 /\ 0 \in 0..(position - 1)
    BY DEF Init
  <2>. QED BY <2>1, <2>2 DEF Init, NamesTyped, Unbound
<1>2. IndexedApart
  BY DEF Init, IndexedApart
<1>3. \A n \in Names : ~Visible(n, bound) /\ ~Tracked(n)
  BY DEF Init, Visible, Tracked, Unbound
<1>4. \A n \in DOMAIN values : values[n] = Meaning(n)
  BY DEF Init, Meaning, Record
<1>. QED BY <1>1, <1>2, <1>3, <1>4 DEF NamesInv, ObjectsAreFunctions

LEMMA NamesStep ==
  ASSUME RegistryInv, RegistryInv', TypesInv, NamesInv, [Next]_vars
  PROVE  NamesInv'
<1>0. OrderStays
  BY TypesStep
<1>1. ASSUME NEW name \in Names \ SourceTypes, NEW e \in Expressions, Assign(name, e)
      PROVE  NamesInv'
  BY <1>0, <1>1, AssignStep
<1>2. ASSUME NEW name \in SourceTypes, NEW parent \in Parents, NewType(name, parent)
      PROVE  NamesInv'
  BY <1>0, <1>2, NewTypeStep
<1>3. ASSUME NEW name \in Called, NEW codomain \in Codomains \cup {Unspecified},
             NEW domain \in Domains[name], Install(name, domain, codomain)
      PROVE  NamesInv'
  BY <1>0, <1>3, InstallStep
<1>4. ASSUME NEW operator \in Operators, NEW codomain \in Codomains \cup {Unspecified},
             NEW domain \in Domains[operator], InstallOperator(operator, domain, codomain)
      PROVE  NamesInv'
  BY <1>0, <1>4, InstallOperatorStep
<1>5. ASSUME NEW package \in DOMAIN Catalog, Package(package)
      PROVE  NamesInv'
  BY <1>0, <1>5, PackageStep
<1>6. CASE UNCHANGED vars
  <2>1. UNCHANGED <<up, registrations, bound, callables, indexed, installations, position,
                    values, running>>
    BY <1>6 DEF vars, analysisVars
  <2>. QED BY <1>0, <2>1, QuietStep DEF NamesInv, NamesTyped
<1>. QED BY <1>1, <1>2, <1>3, <1>4, <1>5, <1>6 DEF Next

LEMMA NamesAlways == Spec => []NamesInv
<1>1. RegistryInv /\ RegistryInv' /\ TypesInv /\ NamesInv /\ [Next]_vars => NamesInv'
  BY NamesStep
<1>. QED BY <1>1, NamesInit, RegistryAlways, TypesAlways, PTL DEF Spec

\* Whatever is copied, installed and imported: two names are followed to one callable
\* object exactly when the program's values are one function (callable_object_for_value,
\* indexed_callable_objects).
THEOREM ObjectsAlwaysAreFunctions == Spec => []OneObjectPerFunction
<1>1. NamesInv => OneObjectPerFunction
  BY DEF NamesInv, ObjectsAreFunctions, Tracked, OneObjectPerFunction
<1>. QED BY <1>1, NamesAlways, PTL

-----------------------------------------------------------------------------
(* What the program has and what the analysis knows of it, as long as every      *)
(* callable's methods are in one table.                                          *)

\* The ranges of the analysis: finite, no cone under another, and a cone is below a
\* type that something announces.
Ranges == {r \in TypeRange : /\ IsFiniteSet(r.exact) /\ IsFiniteSet(r.generators)
                             /\ Apart(r.generators) /\ r.generators \subseteq Announced}

Identities == DOMAIN BaseUp \cup SourceTypes \cup DOMAIN ObjectClass
MethodRecord == [domain : Seq(Identities), codomain : Announcements]

ListsTyped ==
  /\ \A i \in DOMAIN callables : callables[i].installed \in Seq(1..Len(installations))
  /\ operators \in [Operators -> Seq(1..Len(installations))]
  /\ \A n \in Names : bound[n].from = 0 => bound[n].object = 0

MethodsTyped ==
  /\ Operators \cup DOMAIN Callables \subseteq DOMAIN methods
  /\ methods \in [DOMAIN methods -> [typical : Announcements, methods : SUBSET MethodRecord]]

RangesHold ==
  /\ \A n \in DOMAIN values : values[n].class \in Known
  /\ \A n \in Names : Visible(n, bound) =>
       \/ bound[n].range = NoRange
       \/ bound[n].range \in Ranges /\ Contains(bound[n].range, values[n].class)

\* The methods of a list of installations, the last on every domain.
Installed(list) == {[domain |-> m.domain, codomain |-> m.codomain] :
                      m \in {installations[list[k]] :
                               k \in Effective([k \in DOMAIN list |-> installations[list[k]]])}}

\* The methods of a function, each with what it announces.
Announcing(table) ==
  {[domain |-> m.domain,
    codomain |-> IF m.codomain = Unspecified THEN table.typical ELSE m.codomain] :
     m \in table.methods}

FunctionsHold ==
  \A n \in Names : Tracked(n) =>
    LET info == callables[bound[n].object]
        function == values[n].function
    IN  /\ function \in DOMAIN methods
        /\ info.method =>
             /\ values[n].class = MethodFunction
             /\ methods[function].typical = info.typical
             /\ Announcing(methods[function]) = Installed(info.installed)
        /\ ~info.method =>
             /\ values[n].class = FunctionClosure
             /\ methods[function] = Anything
             /\ info.typical = Unspecified /\ info.installed = <<>>

OperatorsHold ==
  \A o \in Operators :
    /\ IsCallable(o) => operators[o] = <<>> /\ methods[o] = ObjectTable(Callables[Record(o)])
    /\ ~IsCallable(o) => methods[o] = [typical |-> Unspecified, methods |-> Installed(operators[o])]
    /\ o \in Comparisons => operators[o] = <<>>

ObjectsHold == \A o \in DOMAIN Callables : methods[o] = ObjectTable(Callables[o])

SoundInv ==
  /\ ListsTyped /\ MethodsTyped
  /\ running /\ TablesAreWhole => RangesHold /\ FunctionsHold /\ OperatorsHold /\ ObjectsHold

-----------------------------------------------------------------------------
(* Finite sets and ranges. *)

\* Under every member of a finite ordered set there is one with nothing under it.
\* under is the order: what is under every member.
LEMMA FiniteMinimal ==
  ASSUME NEW S, IsFiniteSet(S), NEW under,
         \A x \in S : under[x] \subseteq S /\ x \notin under[x],
         \A x \in S : \A y \in under[x] : under[y] \subseteq under[x],
         NEW s \in S
  PROVE  \E m \in S : (m = s \/ m \in under[s]) /\ under[m] = {}
<1>. DEFINE size == [x \in S |-> Cardinality(under[x])]
            below == {s} \cup under[s]
            T == {size[x] : x \in below}
<1>1. \A x \in S : IsFiniteSet(under[x]) /\ size[x] \in Nat
  <2>. SUFFICES ASSUME NEW x \in S PROVE IsFiniteSet(under[x]) /\ Cardinality(under[x]) \in Nat
    OBVIOUS
  <2>1. under[x] \in SUBSET S
    OBVIOUS
  <2>. QED BY <2>1, FS_Subset, FS_CardinalityType
<1>2. ASSUME NEW b \in S, NEW a \in under[b] PROVE size[a] < size[b]
  <2>1. under[a] \in SUBSET under[b] /\ under[a] # under[b] /\ IsFiniteSet(under[b]) /\ a \in S
    BY <1>1
  <2>2. /\ Cardinality(under[a]) <= Cardinality(under[b])
        /\ Cardinality(under[b]) # Cardinality(under[a])
    BY <2>1, FS_Subset
  <2>. QED BY <1>1, <2>1, <2>2
<1>. HIDE DEF size
<1>3. below \subseteq S /\ T \subseteq Nat /\ size[s] \in T
  BY <1>1
<1>4. PICK n \in T : \A k \in T : n <= k
  BY <1>3, LeastNumber
<1>5. PICK m \in below : size[m] = n
  BY <1>4
<1>6. ASSUME NEW t \in under[m] PROVE FALSE
  <2>1. m \in S /\ t \in S /\ t \in below /\ size[t] \in T
    BY <1>3, <1>5, <1>6
  <2>2. n <= size[t] /\ size[t] < size[m]
    BY <1>2, <1>4, <1>6, <2>1
  <2>. QED BY <1>1, <1>5, <2>1, <2>2
<1>. QED BY <1>3, <1>5, <1>6

\* Every type of a finite set is below a largest one of it.
LEMMA FiniteCovered ==
  ASSUME Forest, NEW C \in SUBSET Known, IsFiniteSet(C)
  PROVE  Covered(C, Minimal(C))
<1>. DEFINE above == [x \in C |-> {y \in C : IsSubtype(x, y) /\ y # x}]
<1>. SUFFICES ASSUME NEW g \in C PROVE \E h \in Minimal(C) : IsSubtype(g, h)
  BY DEF Covered
<1>1. \A x \in C : \A y : y \in above[x] <=> y \in C /\ IsSubtype(x, y) /\ y # x
  OBVIOUS
<1>. HIDE DEF above
<1>2. ASSUME NEW x \in C, NEW y \in above[x], NEW z \in above[y] PROVE z \in above[x]
  BY <1>1, <1>2, Transitive, Antisymmetric
<1>3. \A x \in C : above[x] \subseteq C /\ x \notin above[x]
  BY <1>1
<1>4. \A x \in C : \A y \in above[x] : above[y] \subseteq above[x]
  BY <1>2
<1>5. PICK m \in C : (m = g \/ m \in above[g]) /\ above[m] = {}
  BY <1>3, <1>4, FiniteMinimal
<1>6. m \in Minimal(C)
  BY <1>1, <1>5 DEF Minimal
<1>7. IsSubtype(g, m)
  BY <1>1, <1>5, Reflexive
<1>. QED BY <1>6, <1>7

\* A range made of points and cones is a range, and has what they have.
LEMMA NormalIsRange ==
  ASSUME TypesInv, NEW P \in SUBSET Known, NEW C \in SUBSET (Known \cap Announced),
         IsFiniteSet(P), IsFiniteSet(C)
  PROVE  /\ Normal(P, C) \in Ranges
         /\ \A t \in P : Contains(Normal(P, C), t)
         /\ \A g \in C : \A t : IsSubtype(t, g) => Contains(Normal(P, C), t)
<1>0. Forest
  BY DEF TypesInv
<1>1. Denoted(Normal(P, C)) = P \cup Below(C)
  BY <1>0, FiniteCovered, NormalDenotes
<1>2. /\ Normal(P, C) = [exact |-> {p \in P : \A g \in C : ~IsSubtype(p, g)},
                         generators |-> Minimal(C)]
      /\ {p \in P : \A g \in C : ~IsSubtype(p, g)} \in SUBSET P /\ Minimal(C) \in SUBSET C
      /\ Apart(Minimal(C))
  BY DEF Normal, Minimal, Apart
<1>3. IsFiniteSet(Normal(P, C).exact) /\ IsFiniteSet(Normal(P, C).generators)
  BY <1>2, FS_Subset
<1>4. Normal(P, C) \in TypeRange
  BY <1>2 DEF TypeRange
<1>5. \A g : \A t : IsSubtype(t, g) => t \in Known
  BY <1>0, BothKnown
<1>. QED BY <1>1, <1>2, <1>3, <1>4, <1>5 DEF Ranges, Denoted, Below

LEMMA JoinIsRange ==
  ASSUME TypesInv, NEW left \in Ranges, NEW right \in Ranges
  PROVE  /\ Join(left, right) \in Ranges
         /\ \A t : Contains(left, t) \/ Contains(right, t) => Contains(Join(left, right), t)
<1>. DEFINE P == left.exact \cup right.exact
            C == left.generators \cup right.generators
<1>1. /\ P \in SUBSET Known /\ C \in SUBSET (Known \cap Announced)
      /\ IsFiniteSet(P) /\ IsFiniteSet(C)
  BY FS_Union DEF Ranges, TypeRange
<1>2. \A t : Contains(left, t) \/ Contains(right, t) => t \in P \/ \E g \in C : IsSubtype(t, g)
  BY DEF Contains
<1>3. Join(left, right) = Normal(P, C)
  BY DEF Join
<1>. HIDE DEF P, C
<1>. QED BY <1>1, <1>2, <1>3, NormalIsRange

LEMMA OneTypeIsRange ==
  ASSUME TypesInv, NEW t \in Known
  PROVE  /\ ExactType(t) \in Ranges /\ Contains(ExactType(t), t)
         /\ t \in Announced =>
              /\ UpwardType(t) \in Ranges
              /\ \A u : IsSubtype(u, t) => Contains(UpwardType(t), u)
<1>1. /\ IsFiniteSet({t}) /\ IsFiniteSet({}) /\ Apart({t}) /\ Apart({})
  BY FS_Singleton, FS_EmptySet DEF Apart
<1>. QED BY <1>1 DEF ExactType, UpwardType, Ranges, TypeRange, Contains

LEMMA AnnouncedAreTypes ==
  /\ Announcements \subseteq DOMAIN BaseUp \cup {Unspecified}
  /\ Announced \subseteq DOMAIN BaseUp
  /\ \A t \in Announcements : t = Unspecified \/ t \in Announced
  /\ Unspecified \in Announcements /\ Codomains \subseteq Announcements
  /\ \A o \in DOMAIN Callables : AnnouncedBy(o) \subseteq Announcements
<1>1. ASSUME NEW o \in DOMAIN Callables, NEW t \in AnnouncedBy(o)
      PROVE  t \in DOMAIN BaseUp \cup {Unspecified}
  <2>1. /\ Callables[o].typical \in DOMAIN BaseUp \cup {Unspecified}
        /\ Callables[o].methods \in Seq(
             [domain : Seq(DOMAIN BaseUp \cup DOMAIN ObjectClass),
              codomain : DOMAIN BaseUp \cup {Unspecified}])
    BY ObjectsAssumption
  <2>2. \A i \in DOMAIN Callables[o].methods :
          Callables[o].methods[i].codomain \in DOMAIN BaseUp \cup {Unspecified}
    <3>1. ASSUME NEW i \in DOMAIN Callables[o].methods
          PROVE  Callables[o].methods[i] \in
                   [domain : Seq(DOMAIN BaseUp \cup DOMAIN ObjectClass),
                    codomain : DOMAIN BaseUp \cup {Unspecified}]
      BY <2>1, <3>1, ElementOfSeq, LenProperties
    <3>. QED BY <3>1
  <2>. QED BY <2>1, <2>2, <1>1 DEF AnnouncedBy
<1>. QED BY <1>1, ProgramAssumption, RolesAssumption DEF Announcements, Announced

LEMMA UnknownIsRange ==
  ASSUME TypesInv
  PROVE  Unknown \in Ranges /\ \A t \in Known : Contains(Unknown, t)
<1>1. Thing \in Known /\ Thing \in Announced
  BY RolesAssumption DEF TypesInv, Announced
<1>2. \A t \in Known : IsSubtype(t, Thing)
  BY DEF TypesInv, IsSubtype
<1>. QED BY <1>1, <1>2, OneTypeIsRange DEF Unknown

\* A range with a role holds types that have it.
LEMMA RoleOfRange ==
  ASSUME TypesInv, NEW r \in Ranges, NEW role, HasRole(r, role)
  PROVE  \/ \E t : r.exact = {t} /\ r.generators = {} /\ IsSubtype(t, role)
         \/ \E t : r.generators = {t} /\ r.exact = {} /\ IsSubtype(t, role)
<1>. DEFINE a == Cardinality(r.exact)
            b == Cardinality(r.generators)
<1>1. a \in Nat /\ b \in Nat /\ a + b = 1
  BY FS_CardinalityType DEF Ranges, HasRole, IsSingle
<1>2. (a = 0 <=> r.exact = {}) /\ (b = 0 <=> r.generators = {})
  BY FS_EmptySet DEF Ranges
<1>3. /\ a = 1 => \E t : r.exact = {t}
      /\ b = 1 => \E t : r.generators = {t}
  BY FS_Singleton DEF Ranges
<1>4. IsSubtype(Single(r), role) /\ Single(r) = CHOOSE t \in r.exact \cup r.generators : TRUE
  BY DEF HasRole, Single
<1>5. CASE a = 1 /\ b = 0
  BY <1>2, <1>3, <1>4, <1>5
<1>6. CASE a = 0 /\ b = 1
  BY <1>2, <1>3, <1>4, <1>6
<1>. QED BY <1>1, <1>5, <1>6

LEMMA RoleOfContents ==
  ASSUME TypesInv, NEW r \in Ranges, NEW role, HasRole(r, role), NEW c, Contains(r, c)
  PROVE  IsSubtype(c, role)
<1>0. Forest
  BY DEF TypesInv
<1>. QED BY <1>0, RoleOfRange, Transitive DEF Contains

-----------------------------------------------------------------------------
(* Calls.  What some arguments run is among the candidates of their ranges, and  *)
(* what it gives is in the range the candidates announce.                        *)

\* The classes of the arguments of a call, and their ranges.
Fits(arguments, classes) ==
  /\ DOMAIN classes = DOMAIN arguments
  /\ classes = [i \in DOMAIN arguments |-> classes[i]]
  /\ \A i \in DOMAIN arguments :
       /\ arguments[i] \in Ranges
       /\ classes[i] \in Known /\ Contains(arguments[i], classes[i])

LEMMA FitsIsConcrete ==
  ASSUME NEW arguments, NEW classes, Fits(arguments, classes)
  PROVE  /\ classes \in Concrete(arguments)
         /\ \A i \in DOMAIN arguments : arguments[i].generators \subseteq Known
<1>1. \A i \in DOMAIN arguments :
        classes[i] \in UNION {arguments[j].exact \cup Denoted(arguments[j]) : j \in DOMAIN arguments}
  BY DEF Fits, Denoted
<1>2. \A i \in DOMAIN arguments : arguments[i].generators \subseteq Known
  BY DEF Fits, Ranges, TypeRange
<1>. QED BY <1>1, <1>2 DEF Fits, Concrete

LEMMA FitsOne ==
  ASSUME NEW r \in Ranges, NEW c \in Known, Contains(r, c)
  PROVE  Fits(<<r>>, <<c>>)
  BY DEF Fits

LEMMA FitsTwo ==
  ASSUME NEW r \in Ranges, NEW c \in Known, Contains(r, c),
         NEW q \in Ranges, NEW d \in Known, Contains(q, d)
  PROVE  Fits(<<r, q>>, <<c, d>>)
  BY DEF Fits

\* Of the methods of a list the one that runs is a candidate.
LEMMA ChosenIsCandidate ==
  ASSUME TypesInv, NEW arguments, NEW classes, Fits(arguments, classes),
         NEW table, NEW k \in DOMAIN table, DomainMatches(table[k].domain, classes),
         \A j \in DOMAIN table : DomainMatches(table[j].domain, classes) =>
                                   ~StrictlySmaller(table[j].domain, table[k].domain)
  PROVE  k \in Candidates(table, arguments)
<1>0. Forest
  BY DEF TypesInv
<1>1. k \in Chosen(table, classes)
  BY DEF Chosen
<1>2. k \in Runnable(table, arguments)
  BY <1>1, FitsIsConcrete DEF Runnable
<1>. QED BY <1>0, <1>2, FitsIsConcrete, CandidatesOfRanges

LEMMA CandidatesAreMethods ==
  ASSUME NEW table, NEW arguments
  PROVE  Candidates(table, arguments) \subseteq DOMAIN table
  BY DEF Candidates, WitnessCandidates, Chosen

\* The methods of a table that accept the arguments, the least of them.
ChosenOf(set, classes) ==
  LET matching == {m \in set : DomainMatches(m.domain, classes)}
  IN  {m \in matching : \A other \in matching : ~StrictlySmaller(other.domain, m.domain)}

LEMMA AppliedIs ==
  ASSUME NEW function, NEW classes
  PROVE  Applied(function, classes) =
           UNION {Results(IF m.codomain = Unspecified THEN methods[function].typical
                          ELSE m.codomain) :
                    m \in ChosenOf(methods[function].methods, classes)}
  BY DEF Applied, ChosenOf

LEMMA ResultsAre ==
  ASSUME NEW codomain, NEW v
  PROVE  v \in Results(codomain) <=>
           \E t \in Known : v = Value(t) /\ v.class = t
                            /\ (codomain = Unspecified \/ IsSubtype(t, codomain))
  BY DEF Results, Value

\* What the candidates announce, joined.
LEMMA CandidatesJoined ==
  ASSUME TypesInv, NEW table, NEW candidates, IsFiniteSet(candidates),
         NEW typical \in Announcements,
         \A i \in candidates : table[i].codomain \in Announcements
  PROVE  /\ CandidatesResult(table, candidates, typical) \in Ranges
         /\ \A i \in candidates : \A v \in Results(IF table[i].codomain = Unspecified THEN typical
                                                   ELSE table[i].codomain) :
              Contains(CandidatesResult(table, candidates, typical), v.class)
<1>. DEFINE announced(i) == IF table[i].codomain # Unspecified THEN table[i].codomain ELSE typical
            cone(i) == IF announced(i) = Unspecified THEN Thing ELSE announced(i)
            one(i) == IF announced(i) = Unspecified THEN Unknown ELSE UpwardType(announced(i))
            C == {cone(i) : i \in candidates}
            result == CandidatesResult(table, candidates, typical)
<1>1. Thing \in Known /\ Thing \in Announced
  BY RolesAssumption DEF TypesInv, Announced
<1>2. \A i \in candidates : one(i).generators = {cone(i)}
  BY DEF Unknown, UpwardType
<1>3. UNION {one(i).generators : i \in candidates} = C
  BY <1>2
<1>4. result = Normal({}, C)
  BY <1>3 DEF CandidatesResult
<1>5. C \in SUBSET (Known \cap Announced)
  BY <1>1, AnnouncedAreTypes DEF TypesInv
<1>6. IsFiniteSet(C)
  <2>. DEFINE f == [i \in candidates |-> cone(i)]
  <2>. HIDE DEF cone
  <2>1. f \in [candidates -> C] /\ \A c \in C : \E i \in candidates : f[i] = c
    OBVIOUS
  <2>2. f \in Surjection(candidates, C)
    BY <2>1 DEF Surjection
  <2>. QED BY <2>2, FS_Surjection
<1>7. /\ result \in Ranges
      /\ \A g \in C : \A t : IsSubtype(t, g) => Contains(result, t)
  <2>. HIDE DEF C, result
  <2>1. {} \in SUBSET Known /\ IsFiniteSet({})
    BY FS_EmptySet
  <2>. QED BY <1>4, <1>5, <1>6, <2>1, NormalIsRange
<1>8. ASSUME NEW i \in candidates,
             NEW v \in Results(IF table[i].codomain = Unspecified THEN typical
                               ELSE table[i].codomain)
      PROVE  Contains(result, v.class)
  <2>1. v \in Results(announced(i))
    BY <1>8
  <2>2. v.class \in Known /\ (announced(i) = Unspecified \/ IsSubtype(v.class, announced(i)))
    <3>. HIDE DEF announced
    <3>. QED BY <2>1, ResultsAre
  <2>3. IsSubtype(v.class, Thing)
    BY <2>2 DEF TypesInv, IsSubtype
  <2>4. IsSubtype(v.class, cone(i)) /\ cone(i) \in C
    BY <2>2, <2>3
  <2>. HIDE DEF C, result, cone
  <2>. QED BY <1>7, <2>4
<1>. QED BY <1>7, <1>8

\* No range is what a binding has that is not enriched yet.
LEMMA RangesAreRanges == ASSUME TypesInv PROVE NoRange \notin Ranges
<1>1. TypeRange \subseteq [exact : SUBSET (DOMAIN BaseUp \cup SourceTypes),
                           generators : SUBSET (DOMAIN BaseUp \cup SourceTypes)]
  BY DEF TypesInv, TypeRange
<1>. QED BY <1>1, RolesAssumption DEF Ranges

LEMMA TypicalIsRange ==
  ASSUME TypesInv, NEW typical \in Announcements
  PROVE  TypicalResult(typical) \in Ranges \cup {NoRange}
<1>1. typical # Unspecified => typical \in Announced /\ typical \in Known
  BY AnnouncedAreTypes DEF TypesInv
<1>. QED BY <1>1, OneTypeIsRange DEF TypicalResult

ListOfInstallations(list) ==
  list \in Seq(1..Len(installations)) /\ installations \in Seq(Installation)

LEMMA InstalledOnIs ==
  ASSUME NEW list, ListOfInstallations(list)
  PROVE  LET table == InstalledOn(list)
         IN  /\ IsFiniteSet(DOMAIN table)
             /\ \A k \in DOMAIN table : table[k] \in Installation
             /\ \A m \in Installed(list) : \E k \in DOMAIN table :
                  m.domain = table[k].domain /\ m.codomain = table[k].codomain
             /\ \A k \in DOMAIN table : \E m \in Installed(list) :
                  m.domain = table[k].domain /\ m.codomain = table[k].codomain
<1>. DEFINE all == [k \in DOMAIN list |-> installations[list[k]]]
            table == InstalledOn(list)
<1>1. Len(list) \in Nat /\ DOMAIN list = 1..Len(list)
  BY LenProperties DEF ListOfInstallations
<1>2. DOMAIN table = Effective(all) /\ Effective(all) \in SUBSET DOMAIN list
      /\ \A k \in Effective(all) : table[k] = installations[list[k]]
  BY DEF InstalledOn, Effective
<1>3. IsFiniteSet(DOMAIN table)
  <2>1. IsFiniteSet(DOMAIN list)
    BY <1>1, FS_Interval
  <2>. QED BY <1>2, <2>1, FS_Subset
<1>4. \A k \in DOMAIN list : installations[list[k]] \in Installation
  <2>1. \A k \in DOMAIN list : list[k] \in 1..Len(installations)
    BY <1>1, ElementOfSeq DEF ListOfInstallations
  <2>. QED BY <2>1, ElementOfSeq DEF ListOfInstallations
<1>5. Installed(list) = {[domain |-> m.domain, codomain |-> m.codomain] :
                           m \in {installations[list[k]] : k \in Effective(all)}}
  BY DEF Installed
<1>. HIDE DEF all, table
<1>6. Installed(list) = {[domain |-> table[k].domain, codomain |-> table[k].codomain] :
                           k \in DOMAIN table}
  BY <1>2, <1>5
<1>7. \A m \in Installed(list) : \E k \in DOMAIN table :
        m.domain = table[k].domain /\ m.codomain = table[k].codomain
  BY <1>6
<1>8. ASSUME NEW k \in DOMAIN table
      PROVE  \E m \in Installed(list) :
               m.domain = table[k].domain /\ m.codomain = table[k].codomain
  <2>1. [domain |-> table[k].domain, codomain |-> table[k].codomain] \in Installed(list)
    BY <1>6
  <2>. QED BY <2>1
<1>9. \A k \in DOMAIN table : table[k] \in Installation
  BY <1>2, <1>4
<1>. QED BY <1>3, <1>7, <1>8, <1>9 DEF table

\* resolve_local_call_return_type, for a call that runs a method of the list.
LEMMA LocalResultHolds ==
  ASSUME TypesInv, NEW list, ListOfInstallations(list), NEW typical \in Announcements,
         NEW arguments, NEW classes, Fits(arguments, classes)
  PROVE  /\ LocalResult(list, typical, arguments) \in Ranges \cup {NoRange}
         /\ \A m \in ChosenOf(Installed(list), classes) :
              /\ LocalResult(list, typical, arguments) \in Ranges
              /\ \A v \in Results(IF m.codomain = Unspecified THEN typical ELSE m.codomain) :
                   Contains(LocalResult(list, typical, arguments), v.class)
<1>. DEFINE table == InstalledOn(list)
            candidates == Candidates(table, arguments)
            result == LocalResult(list, typical, arguments)
<1>1. result = IF candidates = {} THEN TypicalResult(typical)
               ELSE CandidatesResult(table, candidates, typical)
  BY DEF LocalResult
<1>2. /\ IsFiniteSet(DOMAIN table)
      /\ \A k \in DOMAIN table : table[k] \in Installation
      /\ \A m \in Installed(list) : \E k \in DOMAIN table :
           m.domain = table[k].domain /\ m.codomain = table[k].codomain
      /\ \A k \in DOMAIN table : \E m \in Installed(list) :
           m.domain = table[k].domain /\ m.codomain = table[k].codomain
  BY InstalledOnIs
<1>. HIDE DEF table
<1>3. candidates \subseteq DOMAIN table /\ IsFiniteSet(candidates)
  <2>1. candidates \in SUBSET DOMAIN table
    BY CandidatesAreMethods
  <2>. QED BY <1>2, <2>1, FS_Subset
<1>4. \A i \in candidates : table[i].codomain \in Announcements
  BY <1>2, <1>3 DEF Installation
<1>5. /\ CandidatesResult(table, candidates, typical) \in Ranges
      /\ \A i \in candidates : \A v \in Results(IF table[i].codomain = Unspecified THEN typical
                                                ELSE table[i].codomain) :
           Contains(CandidatesResult(table, candidates, typical), v.class)
  BY <1>3, <1>4, CandidatesJoined
<1>6. result \in Ranges \cup {NoRange}
  BY <1>1, <1>5, TypicalIsRange
<1>7. ASSUME NEW m \in ChosenOf(Installed(list), classes)
      PROVE  /\ result \in Ranges
             /\ \A v \in Results(IF m.codomain = Unspecified THEN typical ELSE m.codomain) :
                  Contains(result, v.class)
  <2>1. /\ m \in Installed(list) /\ DomainMatches(m.domain, classes)
        /\ \A other \in Installed(list) : DomainMatches(other.domain, classes) =>
                                            ~StrictlySmaller(other.domain, m.domain)
    BY DEF ChosenOf
  <2>2. PICK k \in DOMAIN table : m.domain = table[k].domain /\ m.codomain = table[k].codomain
    BY <1>2, <2>1
  <2>3. k \in candidates
    <3>1. \A j \in DOMAIN table : DomainMatches(table[j].domain, classes) =>
                                    ~StrictlySmaller(table[j].domain, table[k].domain)
      BY <1>2, <2>1, <2>2
    <3>2. DomainMatches(table[k].domain, classes)
      BY <2>1, <2>2
    <3>. QED BY <3>1, <3>2, ChosenIsCandidate
  <2>4. result = CandidatesResult(table, candidates, typical)
    BY <1>1, <2>3
  <2>. QED BY <1>5, <2>2, <2>3, <2>4
<1>. QED BY <1>6, <1>7

\* effective_external_candidate_indices keeps one candidate of every domain, and of
\* fewer candidates those it kept of more.
LEMMA PreferExplicitHas ==
  ASSUME NEW table, NEW candidates \in SUBSET Nat, NEW j \in candidates
  PROVE  \E r \in PreferExplicit(table, candidates) : table[r].domain = table[j].domain
<1>. DEFINE same(i) == {k \in candidates : table[k].domain = table[i].domain}
            explicit(i) == {k \in same(i) : table[k].codomain # Unspecified}
<1>1. CASE explicit(j) = {}
  <2>1. same(j) \subseteq Nat /\ same(j) # {}
    OBVIOUS
  <2>2. PICK r \in same(j) : \A k \in same(j) : r <= k
    BY <2>1, LeastNumber
  <2>3. same(r) = same(j) /\ explicit(r) = {}
    BY <1>1, <2>2
  <2>4. r \in PreferExplicit(table, candidates)
    BY <2>2, <2>3 DEF PreferExplicit
  <2>. QED BY <2>2, <2>4
<1>2. ASSUME NEW r \in explicit(j)
      PROVE  r \in PreferExplicit(table, candidates) /\ table[r].domain = table[j].domain
  <2>1. r \in candidates /\ r \in explicit(r)
    BY <1>2
  <2>. QED BY <1>2, <2>1 DEF PreferExplicit
<1>. QED BY <1>1, <1>2

LEMMA PreferExplicitKeeps ==
  ASSUME NEW table, NEW all, NEW candidates \in SUBSET all, NEW i \in candidates,
         i \in PreferExplicit(table, all)
  PROVE  i \in PreferExplicit(table, candidates)
<1>. DEFINE same(set) == {k \in set : table[k].domain = table[i].domain}
            explicit(set) == {k \in same(set) : table[k].codomain # Unspecified}
<1>1. \A set : i \in PreferExplicit(table, set) <=>
        /\ i \in set
        /\ IF explicit(set) = {} THEN \A k \in same(set) : i <= k ELSE i \in explicit(set)
  BY DEF PreferExplicit
<1>2. same(candidates) \subseteq same(all)
  OBVIOUS
<1>3. CASE explicit(all) = {}
  <2>1. explicit(candidates) = {}
    BY <1>2, <1>3
  <2>. QED BY <1>1, <1>2, <1>3, <2>1
<1>4. CASE explicit(all) # {}
  <2>1. i \in explicit(all)
    BY <1>1, <1>4
  <2>2. i \in explicit(candidates)
    BY <2>1
  <2>. QED BY <1>1, <2>2
<1>. QED BY <1>3, <1>4

\* The methods of an object of the registry.
LEMMA MethodsOfObject ==
  ASSUME NEW o \in DOMAIN Callables
  PROVE  LET list == Callables[o].methods
         IN  /\ DOMAIN list \subseteq Nat /\ IsFiniteSet(DOMAIN list)
             /\ \A i \in DOMAIN list :
                  /\ list[i].domain \in Seq(DOMAIN BaseUp \cup DOMAIN ObjectClass)
                  /\ list[i].codomain \in Announcements
             /\ Callables[o].typical \in Announcements
<1>. DEFINE list == Callables[o].methods
            Method == [domain : Seq(DOMAIN BaseUp \cup DOMAIN ObjectClass),
                       codomain : DOMAIN BaseUp \cup {Unspecified}]
<1>1. list \in Seq(Method)
  BY ObjectsAssumption
<1>. HIDE DEF list
<1>2. Len(list) \in Nat /\ DOMAIN list = 1..Len(list)
  BY <1>1, LenProperties
<1>3. DOMAIN list \subseteq Nat /\ IsFiniteSet(DOMAIN list)
  BY <1>2, FS_Interval
<1>4. \A i \in DOMAIN list : list[i] \in Method
  BY <1>1, <1>2, ElementOfSeq
<1>5. \A i \in DOMAIN list : list[i].codomain \in AnnouncedBy(o)
  BY DEF AnnouncedBy, list
<1>6. Callables[o].typical \in AnnouncedBy(o)
  BY DEF AnnouncedBy
<1>. QED BY <1>3, <1>4, <1>5, <1>6, AnnouncedAreTypes DEF list

\* resolve_external_call_return_type, for a call that runs a method of the object.
LEMMA ExternalResultHolds ==
  ASSUME TypesInv, NEW name, NEW arguments, NEW classes, Fits(arguments, classes)
  PROVE  /\ ExternalResult(name, arguments) \in Ranges \cup {NoRange}
         /\ IsCallable(name) =>
              \A m \in ChosenOf(ObjectTable(Callables[Record(name)]).methods, classes) :
                /\ ExternalResult(name, arguments) \in Ranges
                /\ \A v \in Results(IF m.codomain = Unspecified
                                    THEN Callables[Record(name)].typical ELSE m.codomain) :
                     Contains(ExternalResult(name, arguments), v.class)
<1>. SUFFICES ASSUME IsCallable(name)
              PROVE  /\ ExternalResult(name, arguments) \in Ranges \cup {NoRange}
                     /\ \A m \in ChosenOf(ObjectTable(Callables[Record(name)]).methods, classes) :
                          /\ ExternalResult(name, arguments) \in Ranges
                          /\ \A v \in Results(IF m.codomain = Unspecified
                                              THEN Callables[Record(name)].typical
                                              ELSE m.codomain) :
                               Contains(ExternalResult(name, arguments), v.class)
  BY DEF ExternalResult
<1>. DEFINE callable == Callables[Record(name)]
            list == callable.methods
            all == Candidates(list, arguments)
            candidates == PreferExplicit(list, all)
            result == ExternalResult(name, arguments)
            set == ObjectTable(callable).methods
<1>1. result = IF candidates = {} THEN TypicalResult(callable.typical)
               ELSE CandidatesResult(list, candidates, callable.typical)
  BY DEF ExternalResult
<1>2. /\ DOMAIN list \subseteq Nat /\ IsFiniteSet(DOMAIN list)
      /\ \A i \in DOMAIN list : list[i].codomain \in Announcements
      /\ callable.typical \in Announcements
  BY MethodsOfObject DEF IsCallable
<1>3. set = {[domain |-> list[i].domain, codomain |-> list[i].codomain] :
               i \in PreferExplicit(list, DOMAIN list)}
  BY DEF ObjectTable
<1>. HIDE DEF callable, list, set
<1>4. all \in SUBSET DOMAIN list /\ candidates \in SUBSET all /\ IsFiniteSet(candidates)
  <2>1. all \in SUBSET DOMAIN list
    BY CandidatesAreMethods
  <2>2. candidates \in SUBSET all
    BY DEF PreferExplicit
  <2>. QED BY <1>2, <2>1, <2>2, FS_Subset
<1>5. /\ CandidatesResult(list, candidates, callable.typical) \in Ranges
      /\ \A i \in candidates : \A v \in Results(IF list[i].codomain = Unspecified
                                                THEN callable.typical ELSE list[i].codomain) :
           Contains(CandidatesResult(list, candidates, callable.typical), v.class)
  BY <1>2, <1>4, CandidatesJoined
<1>6. result \in Ranges \cup {NoRange}
  BY <1>1, <1>2, <1>5, TypicalIsRange
<1>7. ASSUME NEW m \in ChosenOf(set, classes)
      PROVE  /\ result \in Ranges
             /\ \A v \in Results(IF m.codomain = Unspecified THEN callable.typical
                                 ELSE m.codomain) : Contains(result, v.class)
  <2>1. /\ m \in set /\ DomainMatches(m.domain, classes)
        /\ \A other \in set : DomainMatches(other.domain, classes) =>
                                ~StrictlySmaller(other.domain, m.domain)
    BY DEF ChosenOf
  <2>2. PICK k \in PreferExplicit(list, DOMAIN list) :
               m.domain = list[k].domain /\ m.codomain = list[k].codomain
    BY <1>3, <2>1
  <2>3. k \in DOMAIN list
    BY DEF PreferExplicit
  <2>4. ASSUME NEW j \in DOMAIN list, DomainMatches(list[j].domain, classes)
        PROVE  ~StrictlySmaller(list[j].domain, list[k].domain)
    <3>1. PICK r \in PreferExplicit(list, DOMAIN list) : list[r].domain = list[j].domain
      BY <1>2, PreferExplicitHas
    <3>2. [domain |-> list[r].domain, codomain |-> list[r].codomain] \in set
      BY <1>3
    <3>. QED BY <2>1, <2>2, <2>4, <3>1, <3>2
  <2>5. k \in all
    BY <2>1, <2>2, <2>3, <2>4, ChosenIsCandidate
  <2>6. k \in candidates
    BY <1>4, <2>5, PreferExplicitKeeps
  <2>7. result = CandidatesResult(list, candidates, callable.typical)
    BY <1>1, <2>6
  <2>. QED BY <1>5, <2>2, <2>6, <2>7
<1>. QED BY <1>6, <1>7 DEF callable, set

-----------------------------------------------------------------------------
(* Operators mean what they meant from the start. *)

BaselineInv == \A i \in DOMAIN Baseline :
  i \in DOMAIN registrations /\ registrations[i] = [package |-> Baseline[i], from |-> 0]

LEMMA BaselineAlways == Spec => []BaselineInv
<1>1. Init => BaselineInv
  BY DEF Init, AtStart, BaselineInv
<1>2. RegistryInv /\ BaselineInv /\ [Next]_vars => BaselineInv'
  <2>. SUFFICES ASSUME RegistryInv, BaselineInv, [Next]_vars PROVE BaselineInv'
    OBVIOUS
  <2>1. CASE registrations' = registrations
    BY <2>1 DEF BaselineInv
  <2>2. CASE \E package \in DOMAIN Catalog : Imported(package)
    <3>1. PICK package \in DOMAIN Catalog : Imported(package)
      BY <2>2
    <3>. DEFINE one == [package |-> package, from |-> position]
    <3>2. one \in Registration /\ registrations' = Append(registrations, one)
      BY <3>1 DEF Registration, RegistryInv, Imported
    <3>. HIDE DEF one
    <3>3. /\ Len(registrations) \in Nat /\ DOMAIN registrations = 1..Len(registrations)
          /\ DOMAIN registrations' = 1..(Len(registrations) + 1)
          /\ \A i \in 1..Len(registrations) : registrations'[i] = registrations[i]
      BY <3>2, OneMoreRegistration DEF RegistryInv
    <3>. QED BY <3>3 DEF BaselineInv
  <2>. QED BY <2>1, <2>2, OnlyImportsRegister
<1>. QED BY <1>1, <1>2, RegistryAlways, PTL DEF Spec

LEMMA OperatorRecord ==
  ASSUME RegistryInv, BaselineInv, OperatorsAgree, NEW o \in Operators
  PROVE  /\ \A p \in DOMAIN Catalog : o \in DOMAIN Catalog[p] => Record(o) = Catalog[p][o]
         /\ (\A p \in DOMAIN Catalog : o \notin DOMAIN Catalog[p]) => Record(o) = NoObject
<1>. DEFINE k == LastHaving(registrations, o)
<1>1. /\ Record(o) = IF k = 0 THEN NoObject ELSE Catalog[registrations[k].package][o]
      /\ k # 0 => registrations[k] \in Registration
                  /\ o \in DOMAIN Catalog[registrations[k].package]
  BY RecordIs
<1>2. k # 0 => registrations[k].package \in DOMAIN Catalog
  BY <1>1 DEF Registration
<1>3. ASSUME NEW p \in DOMAIN Catalog, o \in DOMAIN Catalog[p]
      PROVE  Record(o) = Catalog[p][o]
  <2>1. PICK i \in DOMAIN Baseline : o \in DOMAIN Catalog[Baseline[i]]
    BY <1>3 DEF OperatorsAgree
  <2>2. i \in Having(registrations, o)
    <3>0. i \in DOMAIN registrations
          /\ registrations[i] = [package |-> Baseline[i], from |-> 0]
      BY <2>1, Zenon DEF BaselineInv
    <3>1. i \in DOMAIN registrations /\ registrations[i].package = Baseline[i]
      BY <3>0
    <3>. QED BY <2>1, <3>1 DEF Having
  <2>3. k \in Having(registrations, o) /\ k # 0
    <3>1. k \in Having(registrations, o)
      BY <2>2, LastIsLast DEF RegistryInv
    <3>2. DOMAIN registrations = 1..Len(registrations) /\ Len(registrations) \in Nat
      BY LenProperties DEF RegistryInv
    <3>. QED BY <3>1, <3>2 DEF Having
  <2>. QED BY <1>1, <1>2, <1>3, <2>3 DEF OperatorsAgree
<1>. QED BY <1>1, <1>2, <1>3

LEMMA OperatorsStay ==
  ASSUME RegistryInv, BaselineInv, RegistryInv', BaselineInv', OperatorsAgree,
         NEW o \in Operators
  PROVE  Record(o)' = Record(o) /\ (IsCallable(o)' <=> IsCallable(o))
<1>1. /\ \A p \in DOMAIN Catalog : o \in DOMAIN Catalog[p] => Record(o)' = Catalog[p][o]
      /\ (\A p \in DOMAIN Catalog : o \notin DOMAIN Catalog[p]) => Record(o)' = NoObject
  <2>. DEFINE k == LastHaving(registrations', o)
  <2>1. Record(o)' = IF k = 0 THEN NoObject ELSE Catalog[registrations'[k].package][o]
    BY RecordIsNext
  <2>2. /\ registrations' \in Seq(Registration)
        /\ DOMAIN registrations' = 1..Len(registrations') /\ Len(registrations') \in Nat
    BY LenProperties DEF RegistryInv
  <2>3. k # 0 => k \in Having(registrations', o)
    BY <2>2, LastIsLast
  <2>4. k # 0 => /\ registrations'[k].package \in DOMAIN Catalog
                 /\ o \in DOMAIN Catalog[registrations'[k].package]
    <3>1. ASSUME k # 0 PROVE registrations'[k] \in Registration
      BY <2>2, <2>3, <3>1, ElementOfSeq DEF Having
    <3>. QED BY <2>3, <3>1 DEF Having, Registration
  <2>5. ASSUME NEW p \in DOMAIN Catalog, o \in DOMAIN Catalog[p]
        PROVE  Record(o)' = Catalog[p][o]
    <3>1. PICK i \in DOMAIN Baseline : o \in DOMAIN Catalog[Baseline[i]]
      BY <2>5 DEF OperatorsAgree
    <3>2. i \in Having(registrations', o)
      <4>0. i \in DOMAIN registrations'
            /\ registrations'[i] = [package |-> Baseline[i], from |-> 0]
        BY <3>1, Zenon DEF BaselineInv
      <4>1. i \in DOMAIN registrations' /\ registrations'[i].package = Baseline[i]
        BY <4>0
      <4>. QED BY <3>1, <4>1 DEF Having
    <3>3. k \in Having(registrations', o) /\ k # 0
      BY <2>2, <3>2, LastIsLast DEF Having
    <3>. QED BY <2>1, <2>4, <2>5, <3>3 DEF OperatorsAgree
  <2>. QED BY <2>1, <2>4, <2>5
<1>2. Record(o)' = Record(o)
  BY <1>1, OperatorRecord
<1>. QED BY <1>2 DEF IsCallable

\* A juxtaposition's methods, as FunctionsApply has them.
TakesFunction(domain) == domain[1] \in DOMAIN BaseUp /\ Function \in BaseUp[domain[1]]

LEMMA SpaceIs ==
  ASSUME RegistryInv, BaselineInv, OperatorsAgree, FunctionsApply
  PROVE  /\ Space \in Operators /\ Space \notin Comparisons /\ IsCallable(Space)
         /\ LET callable == Callables[Record(Space)]
                list == callable.methods
            IN  /\ callable.typical \in {Unspecified, Thing}
                /\ \E i \in DOMAIN list : list[i].domain = <<Function, Thing>>
                /\ \A i \in DOMAIN list :
                     Len(list[i].domain) = 2 /\ TakesFunction(list[i].domain)
                       => list[i].codomain \in {Unspecified, Thing}
<1>1. PICK i \in DOMAIN Baseline : Space \in DOMAIN Catalog[Baseline[i]]
  BY DEF FunctionsApply
<1>2. Baseline[i] \in DOMAIN Catalog
  BY RegistryAssumption, ElementOfSeq, LenProperties
<1>3. Record(Space) = Catalog[Baseline[i]][Space]
  BY <1>1, <1>2, OperatorRecord DEF FunctionsApply
<1>. QED BY <1>1, <1>2, <1>3 DEF FunctionsApply, IsCallable, TakesFunction

-----------------------------------------------------------------------------
(* Applying what may be a function. *)

LEMMA NothingInstalled ==
  ASSUME NEW arguments
  PROVE  LocalResult(<<>>, Unspecified, arguments) = NoRange
<1>1. DOMAIN InstalledOn(<<>>) = {}
  BY DEF InstalledOn, Effective
<1>2. Candidates(InstalledOn(<<>>), arguments) = {}
  BY <1>1, CandidatesAreMethods
<1>. QED BY <1>2 DEF LocalResult, TypicalResult

\* Smaller domains are an order.
LEMMA MatchingIsOrder ==
  ASSUME TypesInv, NEW T, NEW a \in Seq(T), NEW b \in Seq(T), NEW c \in Seq(T),
         StrictlySmaller(a, b), StrictlySmaller(b, c)
  PROVE  StrictlySmaller(a, c)
<1>0. Forest
  BY DEF TypesInv
<1>1. /\ DOMAIN a = DOMAIN b /\ DOMAIN b = DOMAIN c /\ a # b
      /\ \A i \in DOMAIN a : IdentityMatches(a[i], b[i]) /\ IdentityMatches(b[i], c[i])
  BY DEF StrictlySmaller, DomainMatches
<1>2. \A i \in DOMAIN a : IdentityMatches(a[i], c[i])
  BY <1>0, <1>1, Transitive DEF IdentityMatches
<1>3. ASSUME a = c PROVE FALSE
  <2>1. \A i \in DOMAIN a : a[i] = b[i]
    BY <1>0, <1>1, <1>3, Antisymmetric DEF IdentityMatches
  <2>2. Len(a) = Len(b) /\ DOMAIN a = 1..Len(a)
    BY <1>1, LenProperties
  <2>. QED BY <1>1, <2>1, <2>2, SeqEqual
<1>. QED BY <1>1, <1>2, <1>3 DEF StrictlySmaller, DomainMatches

\* Under the domain of a method there is one with no smaller one under it.
LeastUnder(S, domain, k) ==
  {m \in S : /\ m = k \/ StrictlySmaller(domain[m], domain[k])
            /\ \A j \in S : ~StrictlySmaller(domain[j], domain[m])}

LEMMA LeastDomain ==
  ASSUME TypesInv, NEW T, NEW S, IsFiniteSet(S), NEW domain \in [S -> Seq(T)], NEW k \in S
  PROVE  LeastUnder(S, domain, k) # {}
<1>. DEFINE under == [i \in S |-> {j \in S : StrictlySmaller(domain[j], domain[i])}]
<1>1. \A i \in S : \A j : j \in under[i] <=> j \in S /\ StrictlySmaller(domain[j], domain[i])
  OBVIOUS
<1>. HIDE DEF under
<1>2. ASSUME NEW i \in S, NEW j \in under[i], NEW l \in under[j] PROVE l \in under[i]
  <2>1. j \in S /\ l \in S /\ StrictlySmaller(domain[j], domain[i])
        /\ StrictlySmaller(domain[l], domain[j])
    BY <1>1, <1>2
  <2>2. StrictlySmaller(domain[l], domain[i])
    BY <2>1, MatchingIsOrder
  <2>. QED BY <1>1, <2>1, <2>2
<1>3. \A i \in S : under[i] \subseteq S /\ i \notin under[i]
  BY <1>1 DEF StrictlySmaller
<1>4. \A i \in S : \A j \in under[i] : under[j] \subseteq under[i]
  BY <1>2
<1>5. PICK m \in S : (m = k \/ m \in under[k]) /\ under[m] = {}
  BY <1>3, <1>4, FiniteMinimal
<1>. QED BY <1>1, <1>5 DEF LeastUnder

\* Whatever a function is applied to, the analysis that does not know that it is a
\* function expects anything.
LEMMA ApplyingGivesAnything ==
  ASSUME TypesInv, RegistryInv, BaselineInv, OperatorsAgree, FunctionsApply,
         operators[Space] = <<>>,
         NEW r \in Ranges, NEW c \in Known, Contains(r, c), IsSubtype(c, Function),
         NEW q \in Ranges, NEW d \in Known, Contains(q, d), NEW t \in Known
  PROVE  BinaryType(Space, <<r, q>>) \in Ranges /\ Contains(BinaryType(Space, <<r, q>>), t)
<1>. DEFINE callable == Callables[Record(Space)]
            list == callable.methods
            arguments == <<r, q>>
            classes == <<c, d>>
            all == Candidates(list, arguments)
            candidates == PreferExplicit(list, all)
            S == {i \in DOMAIN list : DomainMatches(list[i].domain, classes)}
            T == DOMAIN BaseUp \cup DOMAIN ObjectClass
<1>0. Forest /\ Fits(arguments, classes)
  BY FitsTwo DEF TypesInv
<1>1. /\ Space \in Operators /\ Space \notin Comparisons /\ IsCallable(Space)
      /\ callable.typical \in {Unspecified, Thing}
      /\ \A i \in DOMAIN list :
           Len(list[i].domain) = 2 /\ TakesFunction(list[i].domain)
             => list[i].codomain \in {Unspecified, Thing}
  BY SpaceIs
<1>2. PICK k \in DOMAIN list : list[k].domain = <<Function, Thing>>
  BY SpaceIs
<1>3. /\ DOMAIN list \subseteq Nat /\ IsFiniteSet(DOMAIN list)
      /\ \A i \in DOMAIN list : list[i].domain \in Seq(T) /\ list[i].codomain \in Announcements
  BY <1>1, MethodsOfObject DEF IsCallable
<1>4. ExternalResult(Space, arguments) =
        IF candidates = {} THEN TypicalResult(callable.typical)
        ELSE CandidatesResult(list, candidates, callable.typical)
  BY <1>1 DEF ExternalResult
<1>. HIDE DEF callable, list, arguments, classes
<1>5. /\ all \in SUBSET DOMAIN list /\ candidates \in SUBSET all /\ IsFiniteSet(candidates)
      /\ IsFiniteSet(S)
  <2>1. all \in SUBSET DOMAIN list /\ S \in SUBSET DOMAIN list
    BY CandidatesAreMethods
  <2>2. candidates \in SUBSET all
    BY DEF PreferExplicit
  <2>. QED BY <1>3, <2>1, <2>2, FS_Subset
<1>6. k \in S
  <2>1. IsSubtype(d, Thing) /\ Thing \in Known /\ Function \in Known
    BY RolesAssumption DEF TypesInv, IsSubtype
  <2>2. IdentityMatches(c, Function) /\ IdentityMatches(d, Thing)
    BY <2>1 DEF IdentityMatches
  <2>. QED BY <1>2, <2>2 DEF classes, DomainMatches
<1>7. PICK m \in S : /\ m = k \/ StrictlySmaller(list[m].domain, list[k].domain)
                     /\ \A j \in S : ~StrictlySmaller(list[j].domain, list[m].domain)
  <2>. DEFINE domains == [i \in S |-> list[i].domain]
  <2>1. \A i \in S : domains[i] = list[i].domain
    OBVIOUS
  <2>2. domains \in [S -> Seq(T)]
    BY <1>3
  <2>. HIDE DEF domains, S, T
  <2>3. LeastUnder(S, domains, k) # {}
    BY <1>5, <1>6, <2>2, LeastDomain
  <2>. QED BY <1>6, <2>1, <2>3 DEF LeastUnder
<1>8. m \in all
  <2>1. m \in DOMAIN list /\ DomainMatches(list[m].domain, classes)
    OBVIOUS
  <2>2. \A j \in DOMAIN list : DomainMatches(list[j].domain, classes) =>
                                 ~StrictlySmaller(list[j].domain, list[m].domain)
    BY <1>7
  <2>. QED BY <1>0, <2>1, <2>2, ChosenIsCandidate
<1>9. Len(list[m].domain) = 2 /\ TakesFunction(list[m].domain)
  <2>1. m = k \/ DomainMatches(<<Function, Thing>>, list[m].domain)
    BY <1>2, <1>6, <1>7 DEF StrictlySmaller
  <2>2. list[m].domain \in Seq(T)
    BY <1>3
  <2>3. DOMAIN list[m].domain = 1..2 /\ IdentityMatches(list[m].domain[1], Function)
    BY <1>2, <2>1 DEF DomainMatches, IdentityMatches
  <2>4. Len(list[m].domain) = 2
    <3>1. DOMAIN list[m].domain = 1..Len(list[m].domain) /\ Len(list[m].domain) \in Nat
      BY <2>2, LenProperties
    <3>2. \A n \in Nat : 1..n = 1..2 => n = 2
      <4>1. ASSUME NEW n \in Nat, 1..n = 1..2 PROVE n = 2
        <5>1. n \in 1..n \/ n = 0
          OBVIOUS
        <5>2. 2 \in 1..n /\ n \in 1..2
          BY <4>1, <5>1
        <5>. QED BY <5>2
      <4>. QED BY <4>1
    <3>. QED BY <2>3, <3>1, <3>2
  <2>5. list[m].domain[1] \in T
    BY <2>2, <2>3, <2>4, ElementOfSeq
  <2>6. list[m].domain[1] = Function \/ IsSubtype(list[m].domain[1], Function)
    BY <2>3 DEF IdentityMatches
  <2>7. Function \in DOMAIN BaseUp /\ Function \in BaseUp[Function]
    BY RolesAssumption, TypesAssumption DEF IsForest
  <2>8. CASE IsSubtype(list[m].domain[1], Function)
    <3>1. list[m].domain[1] \in DOMAIN BaseUp
      BY <2>5, <2>8, ObjectsAssumption DEF TypesInv, IsSubtype
    <3>. QED BY <2>4, <2>8, <3>1 DEF TypesInv, IsSubtype, TakesFunction
  <2>. QED BY <2>4, <2>6, <2>7, <2>8 DEF TakesFunction
<1>10. PICK i \in candidates : list[i].domain = list[m].domain
  <2>1. all \in SUBSET Nat
    BY <1>3, <1>5
  <2>. QED BY <1>8, <2>1, PreferExplicitHas
<1>11. list[i].codomain \in {Unspecified, Thing}
  BY <1>1, <1>5, <1>9, <1>10
<1>12. CandidatesResult(list, candidates, callable.typical) \in Ranges
       /\ \A v \in Results(Unspecified) :
            Contains(CandidatesResult(list, candidates, callable.typical), v.class)
  <2>1. \A j \in candidates : list[j].codomain \in Announcements
    BY <1>3, <1>5
  <2>2. callable.typical \in Announcements
    BY <1>1, MethodsOfObject DEF IsCallable, callable
  <2>3. /\ CandidatesResult(list, candidates, callable.typical) \in Ranges
        /\ \A j \in candidates : \A v \in Results(IF list[j].codomain = Unspecified
                                                  THEN callable.typical ELSE list[j].codomain) :
             Contains(CandidatesResult(list, candidates, callable.typical), v.class)
    BY <1>5, <2>1, <2>2, CandidatesJoined
  <2>4. \A v : v \in Results(Unspecified) => v \in Results(Thing)
    <3>1. \A u \in Known : IsSubtype(u, Thing)
      BY DEF TypesInv, IsSubtype
    <3>. QED BY <3>1 DEF Results
  <2>. QED BY <1>1, <1>10, <1>11, <2>3, <2>4
<1>13. ExternalResult(Space, arguments) = CandidatesResult(list, candidates, callable.typical)
  BY <1>4, <1>10
<1>14. BinaryType(Space, arguments) = ExternalResult(Space, arguments)
  <2>1. OperatorResult(Space, arguments) = ExternalResult(Space, arguments)
    BY NothingInstalled DEF OperatorResult
  <2>. QED BY <1>12, <1>13, <2>1, RangesAreRanges DEF BinaryType, OrUnknown
<1>15. Value(t) \in Results(Unspecified) /\ Value(t).class = t
  BY ResultsAre DEF Value
<1>. QED BY <1>12, <1>13, <1>14, <1>15 DEF arguments

-----------------------------------------------------------------------------
(* The range of an expression has the class of every value the expression gives. *)

\* All that is known while the program runs and every callable's methods are in one
\* table.
Ready ==
  /\ RegistryInv /\ BaselineInv /\ TypesInv /\ NamesInv /\ ListsTyped /\ MethodsTyped
  /\ running /\ TablesAreWhole
  /\ RangesHold /\ FunctionsHold /\ OperatorsHold /\ ObjectsHold

Covers(range, given) ==
  range \in Ranges /\ \A v \in given : v.class \in Known /\ Contains(range, v.class)

LEMMA UnknownCovers ==
  ASSUME TypesInv, NEW given, \A v \in given : v.class \in Known
  PROVE  Covers(Unknown, given)
  BY UnknownIsRange DEF Covers

LEMMA ResultsAreKnown ==
  ASSUME NEW function, NEW classes
  PROVE  \A v \in Applied(function, classes) : v.class \in Known
<1>. SUFFICES ASSUME NEW v \in Applied(function, classes) PROVE v.class \in Known
  OBVIOUS
<1>1. \E codomain : v \in Results(codomain)
  BY AppliedIs
<1>. QED BY <1>1, ResultsAre

\* The state a name has while its own value is read has no range.
LEMMA StatesForRange ==
  ASSUME RegistryInv, NamesTyped, NEW name \in Names, NEW n, Visible(n, StatesFor(name))
  PROVE  \/ Visible(n, bound) /\ StatesFor(name)[n] = bound[n]
         \/ StatesFor(name)[n].range = NoRange
<1>1. CASE bound[name].from # 0
  BY <1>1 DEF StatesFor
<1>2. CASE bound[name].from = 0
  <2>1. /\ n \in Names /\ n # name => StatesFor(name)[n] = bound[n]
        /\ StatesFor(name)[name].range = NoRange
    BY <1>2 DEF StatesFor, NamesTyped, Unbound
  <2>. QED BY <2>1 DEF Visible
<1>. QED BY <1>1, <1>2

\* The states an expression is read with.
Reading(states) == states = bound \/ \E name \in Names : states = StatesFor(name)

LEMMA ReadingIs ==
  ASSUME Ready, NEW states, Reading(states), NEW n
  PROVE  /\ Visible(n, bound) => Visible(n, states) /\ states[n] = bound[n]
         /\ Visible(n, states) => \/ Visible(n, bound) /\ states[n] = bound[n]
                                  \/ states[n].range = NoRange
         /\ Visible(n, states) /\ states[n].object # 0
              => Tracked(n) /\ states[n].object = bound[n].object
<1>0. RegistryInv /\ NamesTyped
  BY DEF Ready, NamesInv
<1>1. CASE states = bound
  BY <1>1 DEF Tracked
<1>2. ASSUME NEW name \in Names, states = StatesFor(name)
      PROVE  /\ Visible(n, bound) => Visible(n, states) /\ states[n] = bound[n]
             /\ Visible(n, states) => \/ Visible(n, bound) /\ states[n] = bound[n]
                                      \/ states[n].range = NoRange
             /\ Visible(n, states) /\ states[n].object # 0
                  => Tracked(n) /\ states[n].object = bound[n].object
  BY <1>0, <1>2, StatesForName, StatesForRange
<1>. QED BY <1>1, <1>2 DEF Reading

\* symbol_type.
LEMMA SymbolHolds ==
  ASSUME Ready, NEW states, Reading(states), NEW name \in DOMAIN values
  PROVE  Covers(SymbolType(name, states), {values[name]})
<1>0. /\ TypesInv /\ RegistryInv /\ ObjectsAreFunctions /\ RangesHold
      /\ values[name].class \in Known
  BY DEF Ready, NamesInv, RangesHold
<1>1. CASE Visible(name, states)
  <2>1. SymbolType(name, states) = IF states[name].range = NoRange THEN Unknown
                                   ELSE states[name].range
    BY <1>1 DEF SymbolType
  <2>2. CASE states[name].range = NoRange
    BY <1>0, <2>1, <2>2, UnknownCovers
  <2>3. CASE states[name].range # NoRange
    <3>1. Visible(name, bound) /\ states[name] = bound[name] /\ name \in Names
      BY <1>1, <2>3, ReadingIs DEF Visible
    <3>. QED BY <1>0, <2>1, <2>3, <3>1 DEF RangesHold, Covers
  <2>. QED BY <2>2, <2>3
<1>2. CASE ~Visible(name, states)
  <2>1. values[name] = Meaning(name)
    BY <1>0, <1>2, ReadingIs DEF ObjectsAreFunctions
  <2>2. CASE Record(name) = NoObject
    <3>1. SymbolType(name, states) = ExactType(Symbol) /\ values[name].class = Symbol
      BY <1>2, <2>1, <2>2 DEF SymbolType, Meaning, Value
    <3>. QED BY <1>0, <3>1, OneTypeIsRange DEF Covers
  <2>3. CASE Record(name) # NoObject
    <3>1. /\ SymbolType(name, states) = ExactType(ObjectClass[Record(name)])
          /\ values[name].class = ObjectClass[Record(name)]
      BY <1>2, <2>1, <2>3 DEF SymbolType, Meaning, ObjectValue, Value
    <3>. QED BY <1>0, <3>1, OneTypeIsRange DEF Covers
  <2>. QED BY <2>2, <2>3
<1>. QED BY <1>1, <1>2

LEMMA AtomHolds ==
  ASSUME Ready, NEW states, Reading(states), NEW atom \in Atoms
  PROVE  Covers(AtomType(atom, states), {AtomValue(atom)})
<1>1. CASE atom = Literal
  <2>1. ZZ \in Known /\ TypesInv
    BY RolesAssumption DEF Ready, TypesInv
  <2>2. AtomType(atom, states) = ExactType(ZZ) /\ AtomValue(atom).class = ZZ
    BY <1>1 DEF AtomType, AtomValue, Value
  <2>. QED BY <2>1, <2>2, OneTypeIsRange DEF Covers
<1>2. CASE atom # Literal
  <2>1. atom \in DOMAIN values
    BY <1>2 DEF Atoms, Ready, NamesInv, NamesTyped
  <2>. QED BY <1>2, <2>1, SymbolHolds DEF AtomType, AtomValue
<1>. QED BY <1>1, <1>2

\* A class that is below all that an object announces is in what its calls announce.
LEMMA ExternalAnnounces ==
  ASSUME TypesInv, NEW name, IsCallable(name), NEW arguments, NEW classes,
         Fits(arguments, classes), NEW c \in Known,
         \A t \in AnnouncedBy(Record(name)) : t = Unspecified \/ IsSubtype(c, t),
         ExternalResult(name, arguments) # NoRange
  PROVE  Contains(ExternalResult(name, arguments), c)
<1>. DEFINE callable == Callables[Record(name)]
            list == callable.methods
            all == Candidates(list, arguments)
            candidates == PreferExplicit(list, all)
<1>1. ExternalResult(name, arguments) =
        IF candidates = {} THEN TypicalResult(callable.typical)
        ELSE CandidatesResult(list, candidates, callable.typical)
  BY DEF ExternalResult
<1>2. /\ IsFiniteSet(DOMAIN list)
      /\ \A i \in DOMAIN list : list[i].codomain \in Announcements
      /\ callable.typical \in Announcements
  BY MethodsOfObject DEF IsCallable
<1>3. /\ callable.typical = Unspecified \/ IsSubtype(c, callable.typical)
      /\ \A i \in DOMAIN list : list[i].codomain = Unspecified \/ IsSubtype(c, list[i].codomain)
  BY DEF AnnouncedBy
<1>. HIDE DEF callable, list
<1>4. all \in SUBSET DOMAIN list /\ candidates \in SUBSET all /\ IsFiniteSet(candidates)
  <2>1. all \in SUBSET DOMAIN list
    BY CandidatesAreMethods
  <2>2. candidates \in SUBSET all
    BY DEF PreferExplicit
  <2>. QED BY <1>2, <2>1, <2>2, FS_Subset
<1>5. CASE candidates = {}
  <2>1. callable.typical # Unspecified
        /\ ExternalResult(name, arguments) = UpwardType(callable.typical)
    BY <1>1, <1>5 DEF TypicalResult
  <2>2. callable.typical \in Announced /\ callable.typical \in Known
    BY <1>2, <2>1, AnnouncedAreTypes DEF TypesInv
  <2>. QED BY <1>3, <2>1, <2>2, OneTypeIsRange
<1>6. ASSUME NEW i \in candidates PROVE Contains(ExternalResult(name, arguments), c)
  <2>1. ExternalResult(name, arguments) = CandidatesResult(list, candidates, callable.typical)
    BY <1>1, <1>6
  <2>2. \A v \in Results(IF list[i].codomain = Unspecified THEN callable.typical
                         ELSE list[i].codomain) :
          Contains(CandidatesResult(list, candidates, callable.typical), v.class)
    BY <1>2, <1>4, CandidatesJoined
  <2>3. Value(c) \in Results(IF list[i].codomain = Unspecified THEN callable.typical
                             ELSE list[i].codomain)
        /\ Value(c).class = c
    BY <1>3, <1>4, ResultsAre DEF Value
  <2>. QED BY <2>1, <2>2, <2>3
<1>. QED BY <1>5, <1>6

\* binary_expression_type.
LEMMA BinaryHolds ==
  ASSUME Ready, ComparisonsAreBoolean, NEW operator \in Operators,
         NEW arguments, NEW classes, Fits(arguments, classes)
  PROVE  Covers(BinaryType(operator, arguments), BinaryValues(operator, classes))
<1>. DEFINE local == LocalResult(operators[operator], Unspecified, arguments)
            external == ExternalResult(operator, arguments)
            result == OperatorResult(operator, arguments)
            given == Applied(operator, classes)
<1>0. /\ TypesInv /\ RegistryInv /\ OperatorsHold
      /\ ListOfInstallations(operators[operator])
      /\ Boolean \in Known /\ Unspecified \in Announcements
  BY RolesAssumption DEF Ready, NamesInv, NamesTyped, ListsTyped, ListOfInstallations,
                         TypesInv, Announcements
<1>1. result = IF local # NoRange THEN local ELSE external
  BY DEF OperatorResult
<1>2. BinaryType(operator, arguments) =
        IF result = NoRange /\ operator \in Comparisons THEN ExactType(Boolean)
        ELSE IF result = NoRange THEN Unknown ELSE result
  BY DEF BinaryType, OrUnknown
<1>3. \A v \in BinaryValues(operator, classes) : v.class \in Known
  BY <1>0, ResultsAreKnown DEF BinaryValues, Value
<1>4. BinaryValues(operator, classes) \subseteq
        given \cup IF operator \in Comparisons /\ given = {} THEN {Value(Boolean)} ELSE {}
  BY DEF BinaryValues
<1>5. Unknown \in Ranges /\ ExactType(Boolean) \in Ranges
      /\ Contains(ExactType(Boolean), Boolean) /\ Value(Boolean).class = Boolean
  BY <1>0, UnknownIsRange, OneTypeIsRange DEF Value
<1>. HIDE DEF local, external, result, given
<1>6. CASE result = NoRange /\ given = {}
  <2>1. CASE operator \in Comparisons
    BY <1>2, <1>3, <1>4, <1>5, <1>6, <2>1 DEF Covers
  <2>2. CASE operator \notin Comparisons
    BY <1>2, <1>3, <1>4, <1>5, <1>6, <2>2 DEF Covers
  <2>. QED BY <2>1, <2>2
<1>7. CASE IsCallable(operator)
  <2>1. /\ operators[operator] = <<>>
        /\ methods[operator] = ObjectTable(Callables[Record(operator)])
    BY <1>0, <1>7 DEF OperatorsHold
  <2>2. result = external
    BY <1>1, <2>1, NothingInstalled DEF local
  <2>3. external \in Ranges \cup {NoRange}
    BY <1>0, ExternalResultHolds DEF external
  <2>4. ASSUME NEW v \in given PROVE external \in Ranges /\ Contains(external, v.class)
    <3>1. PICK m \in ChosenOf(methods[operator].methods, classes) :
                 v \in Results(IF m.codomain = Unspecified THEN methods[operator].typical
                               ELSE m.codomain)
      BY AppliedIs DEF given
    <3>2. methods[operator].typical = Callables[Record(operator)].typical
      BY <2>1 DEF ObjectTable
    <3>. QED BY <1>0, <1>7, <2>1, <3>1, <3>2, ExternalResultHolds DEF external
  <2>5. operator \in Comparisons /\ external # NoRange => Contains(external, Boolean)
    <3>. SUFFICES ASSUME operator \in Comparisons, external # NoRange
                  PROVE  Contains(external, Boolean)
      OBVIOUS
    <3>1. \E p \in DOMAIN Catalog : operator \in DOMAIN Catalog[p]
                                    /\ Record(operator) = Catalog[p][operator]
      <4>1. LastHaving(registrations, operator) # 0
        BY <1>0, <1>7, RecordIs, ObjectsAssumption DEF IsCallable
      <4>. QED BY <1>0, <4>1, RecordIs DEF Registration
    <3>2. \A t \in AnnouncedBy(Record(operator)) : t = Unspecified \/ t \in BaseUp[Boolean]
      BY <1>7, <3>1 DEF ComparisonsAreBoolean, IsCallable
    <3>3. \A t \in BaseUp[Boolean] : IsSubtype(Boolean, t)
      BY <1>0, RolesAssumption DEF TypesInv, IsSubtype
    <3>. QED BY <1>0, <1>7, <3>2, <3>3, ExternalAnnounces DEF external
  <2>6. CASE given # {}
    <3>1. result \in Ranges /\ result # NoRange
      BY <1>0, <2>2, <2>4, <2>6, RangesAreRanges
    <3>. QED BY <1>2, <1>3, <1>4, <2>2, <2>4, <2>6, <3>1 DEF Covers
  <2>7. CASE given = {} /\ result # NoRange
    BY <1>2, <1>3, <1>4, <1>5, <2>2, <2>3, <2>5, <2>7 DEF Covers
  <2>. QED BY <1>6, <2>6, <2>7
<1>8. CASE ~IsCallable(operator)
  <2>1. methods[operator] = [typical |-> Unspecified, methods |-> Installed(operators[operator])]
    BY <1>0, <1>8 DEF OperatorsHold
  <2>2. external = NoRange
    BY <1>8 DEF external, ExternalResult
  <2>3. local \in Ranges \cup {NoRange}
    BY <1>0, LocalResultHolds DEF local
  <2>4. ASSUME NEW v \in given PROVE local \in Ranges /\ Contains(local, v.class)
    <3>1. PICK m \in ChosenOf(Installed(operators[operator]), classes) :
                 v \in Results(IF m.codomain = Unspecified THEN Unspecified ELSE m.codomain)
      BY <2>1, AppliedIs DEF given
    <3>. QED BY <1>0, <3>1, LocalResultHolds DEF local
  <2>5. CASE operator \in Comparisons
    <3>1. operators[operator] = <<>>
      BY <1>0, <2>5 DEF OperatorsHold
    <3>2. local = NoRange
      BY <3>1, NothingInstalled DEF local
    <3>3. given = {}
      BY <1>0, <2>4, <3>2, RangesAreRanges
    <3>. QED BY <1>1, <1>6, <2>2, <3>2, <3>3
  <2>6. CASE operator \notin Comparisons /\ given # {}
    <3>1. result = local /\ local \in Ranges /\ local # NoRange
      BY <1>0, <1>1, <2>4, <2>6, RangesAreRanges
    <3>. QED BY <1>2, <1>3, <1>4, <2>4, <2>6, <3>1 DEF Covers
  <2>7. CASE operator \notin Comparisons /\ given = {} /\ result # NoRange
    BY <1>1, <1>2, <1>3, <1>4, <2>2, <2>3, <2>7 DEF Covers
  <2>. QED BY <1>6, <2>5, <2>6, <2>7
<1>. QED BY <1>7, <1>8

\* The methods of a function that say nothing announce what the function does.
LEMMA AnnouncingIs ==
  ASSUME NEW function, NEW list, Announcing(methods[function]) = Installed(list),
         NEW classes, NEW v \in Applied(function, classes)
  PROVE  \E m \in ChosenOf(Installed(list), classes) :
           v \in Results(IF m.codomain = Unspecified THEN methods[function].typical
                         ELSE m.codomain)
<1>. DEFINE table == methods[function]
            named(m) == [domain |-> m.domain,
                         codomain |-> IF m.codomain = Unspecified THEN table.typical
                                      ELSE m.codomain]
<1>1. PICK m \in ChosenOf(table.methods, classes) :
             v \in Results(IF m.codomain = Unspecified THEN table.typical ELSE m.codomain)
  BY AppliedIs
<1>2. Installed(list) = {named(k) : k \in table.methods}
  BY DEF Announcing
<1>3. /\ m \in table.methods /\ DomainMatches(m.domain, classes)
      /\ \A other \in table.methods : DomainMatches(other.domain, classes) =>
                                        ~StrictlySmaller(other.domain, m.domain)
  BY DEF ChosenOf
<1>4. \A k : named(k).domain = k.domain
             /\ named(k).codomain = IF k.codomain = Unspecified THEN table.typical
                                    ELSE k.codomain
  OBVIOUS
<1>. HIDE DEF named, table
<1>5. named(m) \in ChosenOf(Installed(list), classes)
  BY <1>2, <1>3, <1>4 DEF ChosenOf
<1>6. v \in Results(IF named(m).codomain = Unspecified THEN table.typical
                    ELSE named(m).codomain)
  BY <1>1, <1>4
<1>. QED BY <1>5, <1>6 DEF table

\* A call of a function that the analysis follows.
LEMMA TrackedCallHolds ==
  ASSUME Ready, NEW name \in Names, Tracked(name), NEW q \in Ranges, NEW d \in Known,
         Contains(q, d)
  PROVE  LET info == callables[bound[name].object]
         IN  /\ IsSubtype(values[name].class, Function) /\ values[name].function # Untracked
             /\ Covers(OrUnknown(LocalResult(info.installed, info.typical, <<q>>)),
                       Applied(values[name].function, <<d>>))
<1>. DEFINE object == bound[name].object
            info == callables[object]
            list == info.installed
            function == values[name].function
            local == LocalResult(list, info.typical, <<q>>)
<1>0. /\ TypesInv /\ NamesTyped /\ IndexedApart /\ ObjectsAreFunctions /\ ListsTyped
      /\ FunctionsHold /\ Fits(<<q>>, <<d>>) /\ position \in Nat
      /\ Unknown \in Ranges /\ \A t \in Known : Contains(Unknown, t)
  BY FitsOne, UnknownIsRange DEF Ready, NamesInv, RegistryInv
<1>1. object \in DOMAIN callables /\ info \in FunctionInfos
  <2>1. object \in 1..Len(callables)
    <3>1. Len(callables) \in Nat
      BY <1>0, LenProperties DEF NamesTyped
    <3>2. object \in 0..Len(callables) /\ object # 0
      BY <1>0 DEF NamesTyped, Tracked
    <3>. QED BY <3>1, <3>2
  <2>. QED BY <1>0, <2>1, ElementOfSeq, LenProperties DEF NamesTyped
<1>2. info.method \in BOOLEAN /\ info.typical \in Announcements /\ ListOfInstallations(list)
  BY <1>0, <1>1 DEF FunctionInfos, ListsTyped, ListOfInstallations, NamesTyped
<1>3. function # Untracked
  <2>1. function \in 1..(position - 1) \cup DOMAIN indexed
    BY <1>0 DEF ObjectsAreFunctions
  <2>2. \A o \in DOMAIN indexed : o # -1
    BY <1>0, ProgramAssumption DEF IndexedApart
  <2>. QED BY <1>0, <2>1, <2>2 DEF Untracked
<1>4. /\ info.method =>
           /\ values[name].class = MethodFunction
           /\ methods[function].typical = info.typical
           /\ Announcing(methods[function]) = Installed(list)
      /\ ~info.method =>
           /\ values[name].class = FunctionClosure
           /\ methods[function] = Anything
           /\ info.typical = Unspecified /\ list = <<>>
  BY <1>0 DEF FunctionsHold
<1>5. IsSubtype(values[name].class, Function)
  <2>1. IsSubtype(MethodFunction, Function) /\ IsSubtype(FunctionClosure, Function)
    BY <1>0, RolesAssumption DEF TypesInv, IsSubtype
  <2>. QED BY <1>2, <1>4, <2>1
<1>6. local \in Ranges \cup {NoRange}
  BY <1>0, <1>2, LocalResultHolds
<1>7. \A v \in Applied(function, <<d>>) : v.class \in Known
  BY ResultsAreKnown
<1>. HIDE DEF local, info, list, function
<1>8. ASSUME NEW v \in Applied(function, <<d>>), info.method
      PROVE  local \in Ranges /\ Contains(local, v.class)
  <2>1. PICK m \in ChosenOf(Installed(list), <<d>>) :
               v \in Results(IF m.codomain = Unspecified THEN info.typical ELSE m.codomain)
    BY <1>4, <1>8, AnnouncingIs
  <2>. QED BY <1>0, <1>2, <2>1, LocalResultHolds DEF local
<1>9. ~info.method => local = NoRange
  BY <1>4, NothingInstalled DEF local
<1>10. Covers(OrUnknown(local), Applied(function, <<d>>))
  <2>1. CASE local = NoRange
    BY <1>0, <1>7, <2>1 DEF Covers, OrUnknown
  <2>2. CASE local # NoRange
    BY <1>2, <1>6, <1>7, <1>8, <1>9, <2>2 DEF Covers, OrUnknown
  <2>. QED BY <2>1, <2>2
<1>. QED BY <1>3, <1>5, <1>10 DEF local, info, list, function

\* A call of what the registry has a function for, of a name that is known to be one.
LEMMA RegistryCallHolds ==
  ASSUME Ready, NamesAreTheirOwn, NEW name \in DOMAIN values,
         IsSubtype(values[name].class, Function), NEW argument,
         NEW q \in Ranges, argument.class \in Known, Contains(q, argument.class)
  PROVE  Covers(OrUnknown(ExternalResult(name, <<q>>)),
                ApplicationValues(values[name], argument))
<1>. DEFINE given == ApplicationValues(values[name], argument)
            external == ExternalResult(name, <<q>>)
            r == Record(name)
<1>0. /\ TypesInv /\ RegistryInv /\ ObjectsAreFunctions /\ ObjectsHold
      /\ Fits(<<q>>, <<argument.class>>)
      /\ Unknown \in Ranges /\ \A t \in Known : Contains(Unknown, t)
  BY FitsOne, UnknownIsRange DEF Ready, NamesInv
<1>1. given = IF values[name].function = Untracked THEN Results(Unspecified)
              ELSE Applied(values[name].function, <<argument.class>>)
  BY DEF ApplicationValues
<1>2. \A v \in given : v.class \in Known
  BY <1>1, ResultsAreKnown, ResultsAre
<1>3. external \in Ranges \cup {NoRange}
  BY <1>0, ExternalResultHolds
<1>. HIDE DEF given, external
<1>4. CASE external = NoRange
  BY <1>0, <1>2, <1>4 DEF Covers, OrUnknown, external, given
<1>5. CASE external # NoRange
  <2>1. IsCallable(name)
    BY <1>5 DEF external, ExternalResult
  <2>2. r \in DOMAIN Callables /\ r \in DOMAIN ObjectClass /\ r # NoObject /\ r # Untracked
    BY <2>1, ObjectsAssumption, ProgramAssumption DEF IsCallable, Untracked
  <2>3. ~Visible(name, bound)
    <3>1. LastHaving(registrations, name) # 0
      BY <1>0, <2>2, RecordIs
    <3>2. \E p \in DOMAIN Catalog : name \in DOMAIN Catalog[p] /\ r = Catalog[p][name]
      BY <1>0, <3>1, RecordIs DEF Registration
    <3>. QED BY <2>2, <3>2 DEF NamesAreTheirOwn, Visible
  <2>4. values[name] = ObjectValue(r)
    BY <1>0, <2>2, <2>3 DEF ObjectsAreFunctions, Meaning
  <2>5. values[name].function = r
    BY <2>2, <2>4 DEF ObjectValue
  <2>6. methods[r] = ObjectTable(Callables[r])
    BY <1>0, <2>2 DEF ObjectsHold
  <2>7. ASSUME NEW v \in given PROVE Contains(external, v.class)
    <3>1. v \in Applied(r, <<argument.class>>)
      BY <1>1, <2>2, <2>5
    <3>2. PICK m \in ChosenOf(methods[r].methods, <<argument.class>>) :
                 v \in Results(IF m.codomain = Unspecified THEN methods[r].typical
                               ELSE m.codomain)
      BY <3>1, AppliedIs
    <3>3. methods[r].typical = Callables[r].typical
      BY <2>6 DEF ObjectTable
    <3>. QED BY <1>0, <2>1, <2>6, <3>2, <3>3, ExternalResultHolds DEF external
  <2>. QED BY <1>2, <1>3, <1>5, <2>7 DEF Covers, OrUnknown, external, given
<1>. QED BY <1>4, <1>5

\* application_type of a name, which calls or juxtaposes.
LEMMA ApplicationHolds ==
  ASSUME Ready, OperatorsAgree, FunctionsApply, ComparisonsAreBoolean, NamesAreTheirOwn,
         NEW states, Reading(states), NEW name \in Called, NEW argument,
         NEW q, Covers(q, {argument})
  PROVE  Covers(ApplicationType(name, q, states), ApplicationValues(values[name], argument))
<1>. DEFINE object == LocalFunction(name, states)
            head == SymbolType(name, states)
            given == ApplicationValues(values[name], argument)
<1>0. /\ TypesInv /\ RegistryInv /\ BaselineInv /\ name \in DOMAIN values
      /\ q \in Ranges /\ argument.class \in Known /\ Contains(q, argument.class)
      /\ head \in Ranges /\ values[name].class \in Known /\ Contains(head, values[name].class)
  <2>1. name \in DOMAIN values
    BY DEF Ready, NamesInv, NamesTyped
  <2>. QED BY <2>1, SymbolHolds DEF Covers, Ready
<1>1. ApplicationType(name, q, states) =
        IF object # 0
        THEN OrUnknown(LocalResult(callables[object].installed, callables[object].typical, <<q>>))
        ELSE IF HasRole(head, Function) THEN OrUnknown(ExternalResult(name, <<q>>))
        ELSE BinaryType(Space, <<head, q>>)
  BY DEF ApplicationType
<1>2. given = IF ~IsSubtype(values[name].class, Function)
              THEN Applied(Space, <<values[name].class, argument.class>>)
              ELSE IF values[name].function = Untracked THEN Results(Unspecified)
              ELSE Applied(values[name].function, <<argument.class>>)
  BY DEF ApplicationValues
<1>3. \A v \in given : v.class \in Known
  BY <1>2, ResultsAreKnown, ResultsAre
<1>. HIDE DEF head, object, given
<1>4. CASE object # 0
  <2>1. Tracked(name) /\ object = bound[name].object /\ name \in Names
    BY <1>4, ReadingIs DEF object, LocalFunction, Visible
  <2>. QED BY <1>0, <1>1, <1>2, <1>4, <2>1, TrackedCallHolds DEF given
<1>5. CASE object = 0 /\ HasRole(head, Function)
  <2>1. IsSubtype(values[name].class, Function)
    BY <1>0, <1>5, RoleOfContents
  <2>. QED BY <1>0, <1>1, <1>5, <2>1, RegistryCallHolds DEF given
<1>6. CASE object = 0 /\ ~HasRole(head, Function) /\ ~IsSubtype(values[name].class, Function)
  <2>1. Fits(<<head, q>>, <<values[name].class, argument.class>>)
    BY <1>0, FitsTwo
  <2>2. Space \in Operators /\ Space \notin Comparisons
    BY DEF FunctionsApply
  <2>3. BinaryValues(Space, <<values[name].class, argument.class>>) = given
    BY <1>2, <1>6, <2>2 DEF BinaryValues
  <2>. QED BY <1>1, <1>6, <2>1, <2>2, <2>3, BinaryHolds DEF given
<1>7. CASE object = 0 /\ ~HasRole(head, Function) /\ IsSubtype(values[name].class, Function)
  <2>1. operators[Space] = <<>>
    BY <1>0, SpaceIs DEF Ready, OperatorsHold
  <2>2. \A t \in Known : /\ BinaryType(Space, <<head, q>>) \in Ranges
                         /\ Contains(BinaryType(Space, <<head, q>>), t)
    BY <1>0, <1>7, <2>1, ApplyingGivesAnything
  <2>. QED BY <1>0, <1>1, <1>3, <1>7, <2>2 DEF Covers, given
<1>. QED BY <1>4, <1>5, <1>6, <1>7

\* type_of.
LEMMA ExpressionHolds ==
  ASSUME Ready, OperatorsAgree, FunctionsApply, ComparisonsAreBoolean, NamesAreTheirOwn,
         NEW states, Reading(states), NEW e \in Expressions
  PROVE  Covers(TypeOf(e, states), ValuesOf(e, position))
<1>0. /\ TypesInv
      /\ {MethodFunction, FunctionClosure, Nothing} \subseteq Known
  BY RolesAssumption DEF Ready, TypesInv
<1>1. CASE e.kind = "atom"
  <2>1. e.atom \in Atoms
    BY <1>1 DEF Expressions
  <2>2. TypeOf(e, states) = AtomType(e.atom, states) /\ ValuesOf(e, position) = {AtomValue(e.atom)}
    BY <1>1 DEF TypeOf, ValuesOf
  <2>. QED BY <2>1, <2>2, AtomHolds
<1>2. CASE e.kind = "if"
  <2>1. e.atom \in Atoms /\ e.other \in Atoms
    BY <1>2 DEF Expressions
  <2>2. /\ TypeOf(e, states) = Join(AtomType(e.atom, states), AtomType(e.other, states))
        /\ ValuesOf(e, position) = {AtomValue(e.atom), AtomValue(e.other)}
    BY <1>2 DEF TypeOf, ValuesOf
  <2>3. Covers(AtomType(e.atom, states), {AtomValue(e.atom)})
        /\ Covers(AtomType(e.other, states), {AtomValue(e.other)})
    BY <2>1, AtomHolds
  <2>. QED BY <1>0, <2>2, <2>3, JoinIsRange DEF Covers
<1>3. CASE e.kind = "when"
  <2>1. e.atom \in Atoms
    BY <1>3 DEF Expressions
  <2>2. /\ TypeOf(e, states) = Join(AtomType(e.atom, states), ExactType(Nothing))
        /\ ValuesOf(e, position) = {AtomValue(e.atom), Value(Nothing)}
        /\ Value(Nothing).class = Nothing
    BY <1>3 DEF TypeOf, ValuesOf, Value
  <2>3. Covers(AtomType(e.atom, states), {AtomValue(e.atom)})
    BY <2>1, AtomHolds
  <2>4. ExactType(Nothing) \in Ranges /\ Contains(ExactType(Nothing), Nothing)
    BY <1>0, OneTypeIsRange
  <2>. QED BY <1>0, <2>2, <2>3, <2>4, JoinIsRange DEF Covers
<1>4. CASE e.kind = "new"
  <2>1. e.type \in Known
    BY <1>4 DEF Expressions
  <2>2. /\ TypeOf(e, states) = ExactType(e.type) /\ ValuesOf(e, position) = {Value(e.type)}
        /\ Value(e.type).class = e.type
    BY <1>4 DEF TypeOf, ValuesOf, Value
  <2>. QED BY <1>0, <2>1, <2>2, OneTypeIsRange DEF Covers
<1>5. CASE e.kind = "call"
  <2>1. e.head \in Called /\ e.atom \in Atoms
    BY <1>5 DEF Expressions
  <2>2. /\ TypeOf(e, states) = ApplicationType(e.head, AtomType(e.atom, states), states)
        /\ ValuesOf(e, position) = ApplicationValues(values[e.head], AtomValue(e.atom))
    BY <1>5 DEF TypeOf, ValuesOf
  <2>3. Covers(AtomType(e.atom, states), {AtomValue(e.atom)})
    BY <2>1, AtomHolds
  <2>. QED BY <2>1, <2>2, <2>3, ApplicationHolds
<1>6. CASE e.kind = "binary"
  <2>1. e.operator \in Operators /\ e.atom \in Atoms /\ e.other \in Atoms
    BY <1>6 DEF Expressions
  <2>2. /\ TypeOf(e, states) =
             BinaryType(e.operator, <<AtomType(e.atom, states), AtomType(e.other, states)>>)
        /\ ValuesOf(e, position) =
             BinaryValues(e.operator, <<AtomValue(e.atom).class, AtomValue(e.other).class>>)
    BY <1>6 DEF TypeOf, ValuesOf
  <2>3. Covers(AtomType(e.atom, states), {AtomValue(e.atom)})
        /\ Covers(AtomType(e.other, states), {AtomValue(e.other)})
    BY <2>1, AtomHolds
  <2>4. Fits(<<AtomType(e.atom, states), AtomType(e.other, states)>>,
             <<AtomValue(e.atom).class, AtomValue(e.other).class>>)
    BY <2>3, FitsTwo DEF Covers
  <2>. QED BY <2>1, <2>2, <2>4, BinaryHolds
<1>7. CASE e.kind = "method"
  <2>1. /\ TypeOf(e, states) = ExactType(MethodFunction)
        /\ ValuesOf(e, position) = {[class |-> MethodFunction, function |-> position]}
    BY <1>7 DEF TypeOf, ValuesOf
  <2>. QED BY <1>0, <2>1, OneTypeIsRange DEF Covers
<1>8. CASE e.kind = "lambda"
  <2>1. /\ TypeOf(e, states) = ExactType(FunctionClosure)
        /\ ValuesOf(e, position) = {[class |-> FunctionClosure, function |-> position]}
    BY <1>8 DEF TypeOf, ValuesOf
  <2>. QED BY <1>0, <2>1, OneTypeIsRange DEF Covers
<1>9. e.kind \in {"atom", "if", "when", "new", "call", "binary", "method", "lambda"}
  BY DEF Expressions
<1>. QED BY <1>1, <1>2, <1>3, <1>4, <1>5, <1>6, <1>7, <1>8, <1>9

-----------------------------------------------------------------------------
(* Installations.  A list that gets one more has it in the place of what was on its *)
(* domain, as a function that runs has.                                             *)

InstalledOf(all, list) ==
  {[domain |-> m.domain, codomain |-> m.codomain] :
     m \in {all[list[k]] : k \in Effective([k \in DOMAIN list |-> all[list[k]]])}}

Recorded(one) == [domain |-> one.domain, codomain |-> one.codomain]

LEMMA InstalledHas ==
  ASSUME NEW all, NEW list, NEW m
  PROVE  m \in InstalledOf(all, list) <=>
           \E k \in DOMAIN list :
             /\ m = Recorded(all[list[k]])
             /\ \A j \in DOMAIN list : j > k => all[list[j]].domain # all[list[k]].domain
<1>. DEFINE table == [k \in DOMAIN list |-> all[list[k]]]
<1>1. \A k : k \in Effective(table) <=>
               /\ k \in DOMAIN list
               /\ \A j \in DOMAIN list : j > k => all[list[j]].domain # all[list[k]].domain
  BY DEF Effective
<1>2. InstalledOf(all, list) = {Recorded(n) : n \in {all[list[k]] : k \in Effective(table)}}
  BY DEF InstalledOf, Recorded
<1>. HIDE DEF table
<1>. QED BY <1>1, <1>2

LEMMA InstalledMore ==
  ASSUME NEW all \in Seq(Installation), NEW one \in Installation,
         NEW list \in Seq(1..Len(all))
  PROVE  LET more == Append(all, one)
         IN  /\ InstalledOf(more, list) = InstalledOf(all, list)
             /\ InstalledOf(more, Append(list, Len(all) + 1)) =
                  {m \in InstalledOf(all, list) : m.domain # one.domain} \cup {Recorded(one)}
<1>. DEFINE more == Append(all, one)
            longer == Append(list, Len(all) + 1)
            n == Len(list)
<1>1. /\ Len(all) \in Nat /\ more[Len(all) + 1] = one
      /\ \A i \in 1..Len(all) : more[i] = all[i]
  BY AppendProperties, LenProperties
<1>2. /\ n \in Nat /\ DOMAIN list = 1..n /\ DOMAIN longer = 1..(n + 1)
      /\ longer[n + 1] = Len(all) + 1
      /\ \A k \in 1..n : longer[k] = list[k] /\ list[k] \in 1..Len(all)
  <2>1. n \in Nat /\ DOMAIN list = 1..n
    BY LenProperties
  <2>2. list \in Seq(Nat) /\ Len(all) + 1 \in Nat
    <3>1. \A k \in 1..n : list[k] \in Nat
      BY <2>1, ElementOfSeq
    <3>2. list \in [1..n -> Nat]
      BY <2>1, <3>1, LenProperties
    <3>. QED BY <1>1, <2>1, <3>2, SeqDef
  <2>3. /\ DOMAIN longer = 1..(n + 1) /\ longer[n + 1] = Len(all) + 1
        /\ \A k \in 1..n : longer[k] = list[k]
    BY <2>1, <2>2, AppendProperties
  <2>. QED BY <2>1, <2>3, ElementOfSeq
<1>. HIDE DEF more, longer, n
<1>3. /\ \A k \in 1..n : more[list[k]] = all[list[k]] /\ more[longer[k]] = all[list[k]]
      /\ more[longer[n + 1]] = one
  BY <1>1, <1>2
<1>4. InstalledOf(more, list) = InstalledOf(all, list)
  <2>. DEFINE table == [k \in DOMAIN list |-> all[list[k]]]
  <2>1. [k \in DOMAIN list |-> more[list[k]]] = table
    BY <1>2, <1>3
  <2>2. \A k \in Effective(table) : more[list[k]] = all[list[k]]
    BY <1>2, <1>3 DEF Effective
  <2>. HIDE DEF table
  <2>3. {more[list[k]] : k \in Effective(table)} = {all[list[k]] : k \in Effective(table)}
    BY <2>2
  <2>. QED BY <2>1, <2>3 DEF InstalledOf, table
<1>5. \A m : m \in InstalledOf(more, longer) =>
        m \in {o \in InstalledOf(all, list) : o.domain # one.domain} \cup {Recorded(one)}
  <2>. SUFFICES ASSUME NEW m \in InstalledOf(more, longer), m # Recorded(one)
                PROVE  m \in InstalledOf(all, list) /\ m.domain # one.domain
    OBVIOUS
  <2>1. PICK k \in 1..(n + 1) :
          /\ m = Recorded(more[longer[k]])
          /\ \A j \in 1..(n + 1) : j > k => more[longer[j]].domain # more[longer[k]].domain
    <3>1. \E k \in DOMAIN longer :
            /\ m = Recorded(more[longer[k]])
            /\ \A j \in DOMAIN longer : j > k =>
                 more[longer[j]].domain # more[longer[k]].domain
      BY InstalledHas
    <3>2. DOMAIN longer = 1..(n + 1)
      BY <1>2
    <3>. QED BY <3>1, <3>2
  <2>2. k \in 1..n
    BY <1>2, <1>3, <2>1
  <2>3. /\ m = Recorded(all[list[k]]) /\ all[list[k]].domain # one.domain
        /\ \A j \in 1..n : j > k => all[list[j]].domain # all[list[k]].domain
    <3>1. n + 1 \in 1..(n + 1) /\ n + 1 > k /\ \A j \in 1..n : j \in 1..(n + 1)
      BY <1>2, <2>2
    <3>2. more[longer[k]] = all[list[k]] /\ more[longer[n + 1]] = one
      BY <1>3, <2>2
    <3>3. more[longer[n + 1]].domain # more[longer[k]].domain
      BY <2>1, <3>1
    <3>4. \A j \in 1..n : j > k => more[longer[j]].domain # all[list[k]].domain
      BY <2>1, <3>1, <3>2
    <3>. QED BY <1>3, <2>1, <3>2, <3>3, <3>4
  <2>4. m \in InstalledOf(all, list)
    <3>0. DOMAIN list = 1..n
      BY <1>2
    <3>1. \E i \in DOMAIN list :
            /\ m = Recorded(all[list[i]])
            /\ \A j \in DOMAIN list : j > i => all[list[j]].domain # all[list[i]].domain
      BY <2>2, <2>3, <3>0
    <3>. QED BY <3>1, InstalledHas
  <2>. QED BY <2>3, <2>4 DEF Recorded
<1>6. Recorded(one) \in InstalledOf(more, longer)
  <2>1. n + 1 \in 1..(n + 1) /\ \A j \in 1..(n + 1) : ~(j > n + 1)
    BY <1>2
  <2>2. \E k \in DOMAIN longer :
          /\ Recorded(one) = Recorded(more[longer[k]])
          /\ \A j \in DOMAIN longer : j > k => more[longer[j]].domain # more[longer[k]].domain
    BY <1>2, <1>3, <2>1
  <2>. QED BY <2>2, InstalledHas
<1>7. ASSUME NEW m \in InstalledOf(all, list), m.domain # one.domain
      PROVE  m \in InstalledOf(more, longer)
  <2>0. DOMAIN list = 1..n
    BY <1>2
  <2>1. PICK k \in 1..n :
          /\ m = Recorded(all[list[k]])
          /\ \A j \in 1..n : j > k => all[list[j]].domain # all[list[k]].domain
    <3>1. \E k \in DOMAIN list :
            /\ m = Recorded(all[list[k]])
            /\ \A j \in DOMAIN list : j > k => all[list[j]].domain # all[list[k]].domain
      BY InstalledHas
    <3>. QED BY <2>0, <3>1
  <2>2. k \in 1..(n + 1) /\ m = Recorded(more[longer[k]])
    BY <1>2, <1>3, <2>1
  <2>3. m.domain = all[list[k]].domain
    BY <2>1 DEF Recorded
  <2>4. \A j \in 1..(n + 1) : j > k => more[longer[j]].domain # more[longer[k]].domain
    <3>. SUFFICES ASSUME NEW j \in 1..(n + 1), j > k
                  PROVE  more[longer[j]].domain # more[longer[k]].domain
      OBVIOUS
    <3>1. CASE j \in 1..n
      BY <1>3, <2>1, <3>1
    <3>2. CASE j = n + 1
      BY <1>3, <1>7, <2>3, <3>2
    <3>. QED BY <1>2, <3>1, <3>2
  <2>5. \E i \in DOMAIN longer :
          /\ m = Recorded(more[longer[i]])
          /\ \A j \in DOMAIN longer : j > i => more[longer[j]].domain # more[longer[i]].domain
    BY <1>2, <2>2, <2>4
  <2>. QED BY <2>5, InstalledHas
<1>8. InstalledOf(more, longer) =
        {m \in InstalledOf(all, list) : m.domain # one.domain} \cup {Recorded(one)}
  BY <1>5, <1>6, <1>7
<1>. QED BY <1>4, <1>8 DEF more, longer

Table == [typical : Announcements, methods : SUBSET MethodRecord]

LEMMA AnnouncingWith ==
  ASSUME NEW table \in Table, NEW domain, NEW codomain
  PROVE  LET more == WithMethod(table, domain, codomain)
             announced == IF codomain = Unspecified THEN table.typical ELSE codomain
         IN  /\ more.typical = table.typical
             /\ more.methods = {m \in table.methods : m.domain # domain}
                                 \cup {[domain |-> domain, codomain |-> codomain]}
             /\ Announcing(more) = {m \in Announcing(table) : m.domain # domain}
                                     \cup {[domain |-> domain, codomain |-> announced]}
             /\ domain \in Seq(Identities) /\ codomain \in Announcements => more \in Table
<1>. DEFINE more == WithMethod(table, domain, codomain)
            announced == IF codomain = Unspecified THEN table.typical ELSE codomain
            new == [domain |-> domain, codomain |-> codomain]
            named(m) == [domain |-> m.domain,
                         codomain |-> IF m.codomain = Unspecified THEN table.typical
                                      ELSE m.codomain]
<1>1. /\ more.typical = table.typical
      /\ more.methods = {m \in table.methods : m.domain # domain} \cup {new}
      /\ domain \in Seq(Identities) /\ codomain \in Announcements => more \in Table
  BY DEF WithMethod, Table, MethodRecord
<1>2. Announcing(table) = {named(m) : m \in table.methods}
      /\ Announcing(more) = {named(m) : m \in more.methods}
  BY <1>1 DEF Announcing
<1>3. named(new) = [domain |-> domain, codomain |-> announced] /\ \A m : named(m).domain = m.domain
  OBVIOUS
<1>. HIDE DEF named, more, new
<1>4. Announcing(more) = {m \in Announcing(table) : m.domain # domain} \cup {named(new)}
  BY <1>1, <1>2, <1>3
<1>. QED BY <1>1, <1>3, <1>4 DEF more, new

-----------------------------------------------------------------------------
(* Once the methods of some callable are not in one table they never are. *)

Growing == \/ installations' = installations
           \/ \E one \in Installation : installations' = Append(installations, one)

LEMMA GrowingIs ==
  ASSUME NamesTyped, Growing
  PROVE  /\ Len(installations) \in Nat /\ Len(installations') \in Nat
         /\ Len(installations) <= Len(installations')
         /\ DOMAIN installations = 1..Len(installations)
         /\ DOMAIN installations' = 1..Len(installations')
         /\ installations' \in Seq(Installation)
         /\ \A i \in 1..Len(installations) : installations'[i] = installations[i]
<1>0. installations \in Seq(Installation)
  BY DEF NamesTyped
<1>1. CASE installations' = installations
  BY <1>0, <1>1, LenProperties
<1>2. ASSUME NEW one \in Installation, installations' = Append(installations, one)
      PROVE  /\ Len(installations) \in Nat /\ Len(installations') \in Nat
             /\ Len(installations) <= Len(installations')
             /\ DOMAIN installations = 1..Len(installations)
             /\ DOMAIN installations' = 1..Len(installations')
             /\ installations' \in Seq(Installation)
             /\ \A i \in 1..Len(installations) : installations'[i] = installations[i]
  BY <1>0, <1>2, AppendProperties, LenProperties
<1>. QED BY <1>1, <1>2 DEF Growing

LEMMA WholeStays ==
  ASSUME RegistryInv, BaselineInv, RegistryInv', BaselineInv', OperatorsAgree, NamesTyped,
         Growing, indexed' = <<>> => indexed = <<>>
  PROVE  /\ \A k \in 0..Len(installations) : WholeBefore(k)' => WholeBefore(k)
         /\ TablesAreWhole' => TablesAreWhole
<1>0. /\ Len(installations) \in Nat /\ Len(installations') \in Nat
      /\ Len(installations) <= Len(installations')
      /\ \A i \in 1..Len(installations) : installations'[i] = installations[i]
  BY GrowingIs
<1>1. ASSUME NEW k \in Nat, NEW l \in 0..Len(installations), l <= k, WholeBefore(k)'
      PROVE  WholeBefore(l)
  <2>. SUFFICES ASSUME NEW i \in 1..l
                PROVE  LET one == installations[i]
                       IN  IF one.head \in Operators
                           THEN ~IsCallable(one.head) /\ one.head \notin Comparisons
                           ELSE ~one.taken /\ (one.runs => one.object # 0)
    BY <1>1 DEF WholeBefore
  <2>1. i \in 1..k /\ i \in 1..Len(installations)
    BY <1>0, <1>1
  <2>2. installations'[i] = installations[i]
    BY <1>0, <2>1
  <2>3. LET one == installations'[i]
        IN  /\ one.head \in Operators => one.head \notin Comparisons
            /\ one.head \notin Operators => ~one.taken /\ (one.runs => one.object # 0)
            /\ \A o \in Operators : o = one.head => ~IsCallable(o)'
    BY <1>1, <2>1 DEF WholeBefore
  <2>4. ASSUME NEW o \in Operators, o = installations[i].head
        PROVE  ~IsCallable(o) /\ o \notin Comparisons
    BY <2>2, <2>3, <2>4, OperatorsStay
  <2>. QED BY <2>2, <2>3, <2>4
<1>2. ASSUME NEW k \in 0..Len(installations), WholeBefore(k)' PROVE WholeBefore(k)
  <2>1. k \in Nat /\ k <= k
    BY <1>0
  <2>. QED BY <1>1, <1>2, <2>1
<1>3. ASSUME TablesAreWhole' PROVE TablesAreWhole
  <2>1. PICK k \in Nat : k = Len(installations')
    BY <1>0
  <2>2. PICK l \in 0..Len(installations) : l = Len(installations)
    BY <1>0
  <2>3. WholeBefore(k)'
    BY <1>3, <2>1 DEF TablesAreWhole, WholeBefore
  <2>4. WholeBefore(l)
    BY <1>0, <1>1, <2>1, <2>2, <2>3
  <2>. QED BY <2>2, <2>4 DEF TablesAreWhole
<1>. QED BY <1>2, <1>3

\* What an installation is said to do, one more.
LEMMA EffectsStep ==
  ASSUME RegistryInv, BaselineInv, RegistryInv', BaselineInv', OperatorsAgree, NamesTyped,
         Growing, indexed' = <<>> => indexed = <<>>, EffectsAreReal,
         \A one \in Installation :
           /\ installations' = Append(installations, one)
           /\ TablesAreWhole /\ ~one.taken
           => /\ one.effect = "Rejected" => ~one.runs
              /\ one.effect = "Effective" => one.runs
  PROVE  EffectsAreReal'
<1>0. /\ Len(installations) \in Nat /\ Len(installations') \in Nat
      /\ DOMAIN installations = 1..Len(installations)
      /\ DOMAIN installations' = 1..Len(installations')
      /\ \A i \in 1..Len(installations) : installations'[i] = installations[i]
  BY GrowingIs
<1>1. \A k \in 0..Len(installations) : WholeBefore(k)' => WholeBefore(k)
  BY WholeStays
<1>2. ASSUME NEW i \in DOMAIN installations, WholeBefore(i - 1)'
      PROVE  WholeBefore(i - 1)
  <2>1. \A n \in Nat : \A j \in 1..n : j - 1 \in 0..n
    OBVIOUS
  <2>2. i - 1 \in 0..Len(installations)
    BY <1>0, <2>1
  <2>. QED BY <1>1, <1>2, <2>2
<1>3. ASSUME NEW i \in DOMAIN installations', WholeBefore(i - 1)', ~installations'[i].taken
      PROVE  /\ installations'[i].effect = "Rejected" => ~installations'[i].runs
             /\ installations'[i].effect = "Effective" => installations'[i].runs
  <2>1. CASE i \in DOMAIN installations
    BY <1>0, <1>2, <1>3, <2>1 DEF EffectsAreReal
  <2>2. CASE i \notin DOMAIN installations
    <3>1. PICK one \in Installation : installations' = Append(installations, one)
      BY <2>2 DEF Growing
    <3>2. /\ Len(installations') = Len(installations) + 1
          /\ installations'[Len(installations) + 1] = one
      BY <3>1, AppendProperties DEF NamesTyped
    <3>3. i = Len(installations) + 1
      BY <1>0, <2>2, <3>2
    <3>4. WholeBefore(Len(installations))
      <4>1. \A n \in Nat : n \in 0..n /\ (n + 1) - 1 = n
        OBVIOUS
      <4>2. Len(installations) \in 0..Len(installations) /\ i - 1 = Len(installations)
        BY <1>0, <3>3, <4>1
      <4>3. PICK l \in 0..Len(installations) : l = Len(installations) /\ l = i - 1
        BY <4>2
      <4>. QED BY <1>1, <1>3, <4>3
    <3>. QED BY <1>3, <3>1, <3>2, <3>3, <3>4 DEF TablesAreWhole
  <2>. QED BY <2>1, <2>2
<1>. QED BY <1>3 DEF EffectsAreReal

-----------------------------------------------------------------------------
(* What a step leaves as it was. *)

LEMMA InstalledStays ==
  ASSUME NamesTyped, Growing, NEW list \in Seq(1..Len(installations))
  PROVE  InstalledOf(installations', list) = InstalledOf(installations, list)
<1>0. installations \in Seq(Installation)
  BY DEF NamesTyped
<1>1. ASSUME NEW one \in Installation, installations' = Append(installations, one)
      PROVE  InstalledOf(installations', list) = InstalledOf(installations, list)
  BY <1>0, <1>1, InstalledMore
<1>. QED BY <1>1 DEF Growing

LEMMA RangesStay ==
  ASSUME TypesInv, OrderStays, NEW r \in Ranges, NEW t \in Known, Contains(r, t)
  PROVE  r \in Ranges' /\ Contains(r, t)' /\ t \in Known'
<1>1. /\ r \in TypeRange /\ r.exact \subseteq Known /\ r.generators \subseteq Known
      /\ r = [exact |-> r.exact, generators |-> r.generators]
      /\ IsFiniteSet(r.exact) /\ IsFiniteSet(r.generators)
      /\ Apart(r.generators) /\ r.generators \subseteq Announced
  BY DEF Ranges, TypeRange
<1>2. Known \subseteq Known' /\ \A a \in Known : \A b : IsSubtype(a, b)' <=> IsSubtype(a, b)
  BY DEF OrderStays
<1>3. r \in TypeRange'
  BY <1>1, <1>2 DEF TypeRange
<1>4. Apart(r.generators)'
  BY <1>1, <1>2 DEF Apart
<1>5. Contains(r, t)'
  BY <1>2 DEF Contains
<1>. QED BY <1>1, <1>2, <1>3, <1>4, <1>5 DEF Ranges

\* Every name keeps its state and its value or gets a range for the value it gets.
LEMMA RangesStep ==
  ASSUME TypesInv, OrderStays, RangesHold, Names \subseteq DOMAIN values,
         \A n \in DOMAIN values' : values'[n].class \in Known,
         \A n \in Names : Visible(n, bound)' =>
           \/ Visible(n, bound) /\ bound'[n] = bound[n] /\ values'[n] = values[n]
           \/ \E range, v : /\ bound'[n].range = range /\ values'[n] = v
                            /\ Covers(range, {v})
  PROVE  RangesHold'
<1>1. \A n \in DOMAIN values' : values'[n].class \in Known'
  BY DEF OrderStays
<1>2. ASSUME NEW n \in Names, Visible(n, bound)'
      PROVE  \/ bound'[n].range = NoRange
             \/ bound'[n].range \in Ranges' /\ Contains(bound[n].range, values[n].class)'
  <2>1. \/ bound'[n].range = NoRange
        \/ \E range, v : /\ bound'[n].range = range /\ values'[n] = v /\ Covers(range, {v})
    <3>1. CASE Visible(n, bound) /\ bound'[n] = bound[n] /\ values'[n] = values[n]
      BY <3>1 DEF RangesHold, Covers
    <3>. QED BY <1>2, <3>1
  <2>2. ASSUME NEW range, NEW v, bound'[n].range = range, values'[n] = v, Covers(range, {v})
        PROVE  range \in Ranges' /\ Contains(bound[n].range, values[n].class)'
    <3>1. PICK c \in Known : c = v.class
      BY <2>2 DEF Covers
    <3>2. range \in Ranges' /\ Contains(range, c)'
      BY <2>2, <3>1, RangesStay DEF Covers
    <3>. QED BY <2>2, <3>1, <3>2
  <2>. QED BY <2>1, <2>2
<1>. QED BY <1>1, <1>2 DEF RangesHold

\* What is known of a function, of the methods it has.
KnownWell(info, class, table, installed) ==
  /\ info.method => /\ class = MethodFunction /\ table.typical = info.typical
                    /\ Announcing(table) = installed
  /\ ~info.method => /\ class = FunctionClosure /\ table = Anything
                     /\ info.typical = Unspecified /\ info.installed = <<>>

LEMMA FunctionsHoldIs ==
  /\ FunctionsHold <=>
       \A n \in Names : Tracked(n) =>
         LET info == callables[bound[n].object]
         IN  /\ values[n].function \in DOMAIN methods
             /\ KnownWell(info, values[n].class, methods[values[n].function],
                          InstalledOf(installations, info.installed))
  /\ FunctionsHold' <=>
       \A n \in Names : Tracked(n)' =>
         LET info == callables'[bound'[n].object]
         IN  /\ values'[n].function \in DOMAIN methods'
             /\ KnownWell(info, values'[n].class, methods'[values'[n].function],
                          InstalledOf(installations', info.installed))
  BY DEF FunctionsHold, KnownWell, Installed, InstalledOf, Announcing, Anything

\* Operators and objects of the registry.
LEMMA OperatorsStep ==
  ASSUME RegistryInv, BaselineInv, RegistryInv', BaselineInv', OperatorsAgree,
         NEW o \in Operators, OperatorsHold,
         methods'[o] = methods[o], operators'[o] = operators[o],
         InstalledOf(installations', operators[o]) = InstalledOf(installations, operators[o])
  PROVE  /\ IsCallable(o)' => /\ operators'[o] = <<>>
                              /\ methods'[o] = ObjectTable(Callables[Record(o)'])
         /\ ~IsCallable(o)' =>
              methods'[o] = [typical |-> Unspecified,
                             methods |-> InstalledOf(installations', operators'[o])]
         /\ o \in Comparisons => operators'[o] = <<>>
<1>1. Record(o)' = Record(o) /\ (IsCallable(o)' <=> IsCallable(o))
  BY OperatorsStay
<1>2. Installed(operators[o]) = InstalledOf(installations, operators[o])
  BY DEF Installed, InstalledOf
<1>. QED BY <1>1, <1>2 DEF OperatorsHold

LEMMA OperatorsHoldNext ==
  OperatorsHold' <=>
    \A o \in Operators :
      /\ IsCallable(o)' => /\ operators'[o] = <<>>
                           /\ methods'[o] = ObjectTable(Callables[Record(o)'])
      /\ ~IsCallable(o)' =>
           methods'[o] = [typical |-> Unspecified,
                          methods |-> InstalledOf(installations', operators'[o])]
      /\ o \in Comparisons => operators'[o] = <<>>
  BY DEF OperatorsHold, Installed, InstalledOf, ObjectTable

-----------------------------------------------------------------------------
(* The steps. *)

\* What holds of a program anyway, and what is asked of the language.
Settled == RegistryInv /\ BaselineInv /\ TypesInv /\ NamesInv
Language == OperatorsAgree /\ FunctionsApply /\ ComparisonsAreBoolean /\ NamesAreTheirOwn

LEMMA ReadyIs ==
  ASSUME Settled, SoundInv, running, TablesAreWhole
  PROVE  Ready
  BY DEF Settled, SoundInv, Ready

LEMMA SeqGrows ==
  ASSUME NEW m \in Nat, NEW n \in Nat, m <= n, NEW list \in Seq(1..m)
  PROVE  list \in Seq(1..n)
<1>1. Len(list) \in Nat /\ DOMAIN list = 1..Len(list)
      /\ \A i \in 1..Len(list) : list[i] \in 1..m
  BY LenProperties, ElementOfSeq
<1>2. \A i \in 1..Len(list) : list[i] \in 1..n
  BY <1>1
<1>3. list \in [1..Len(list) -> 1..n]
  BY <1>1, <1>2, LenProperties
<1>. QED BY <1>1, <1>3, SeqDef

\* The tables of methods after an assignment.
LEMMA AssignMethods ==
  ASSUME MethodsTyped, NEW name \in Names, NEW e \in Expressions, Assign(name, e)
  PROVE  /\ MethodsTyped'
         /\ DOMAIN methods \subseteq DOMAIN methods'
         /\ \A f \in DOMAIN methods : f # position => methods'[f] = methods[f]
         /\ running' /\ e.kind = "method" => /\ position \in DOMAIN methods'
                                             /\ methods'[position] = NoMethods(e.typical)
         /\ running' /\ e.kind = "lambda" => /\ position \in DOMAIN methods'
                                             /\ methods'[position] = Anything
<1>. DEFINE with(table) == methods' = With(methods, position, table)
<1>0. MethodsTyped <=> /\ Operators \cup DOMAIN Callables \subseteq DOMAIN methods
                       /\ methods = [f \in DOMAIN methods |-> methods[f]]
                       /\ \A f \in DOMAIN methods : methods[f] \in Table
  BY DEF MethodsTyped, Table
<1>1. MethodsTyped' <=> /\ Operators \cup DOMAIN Callables \subseteq DOMAIN methods'
                        /\ methods' = [f \in DOMAIN methods' |-> methods'[f]]
                        /\ \A f \in DOMAIN methods' : methods'[f] \in Table
  BY DEF MethodsTyped, Table, MethodRecord
<1>2. ASSUME NEW table \in Table, with(table)
      PROVE  /\ MethodsTyped' /\ DOMAIN methods \subseteq DOMAIN methods'
             /\ \A f \in DOMAIN methods : f # position => methods'[f] = methods[f]
             /\ position \in DOMAIN methods' /\ methods'[position] = table
  BY <1>0, <1>1, <1>2 DEF With
<1>3. NoMethods(Unspecified) \in Table /\ \A t \in Announcements : NoMethods(t) \in Table
  BY DEF NoMethods, Table, Announcements
<1>4. Anything \in Table
  <2>1. Thing \in Identities /\ Unspecified \in Announcements
    BY RolesAssumption DEF Identities, Announcements
  <2>2. <<Thing>> \in Seq(Identities)
    BY <2>1
  <2>. QED BY <2>1, <2>2 DEF Anything, Table, MethodRecord
<1>5. CASE methods' = methods /\ (running' => e.kind \notin {"method", "lambda"})
  BY <1>0, <1>1, <1>5
<1>6. CASE e.kind = "method" /\ with(NoMethods(e.typical))
  <2>1. e.typical \in Announcements
    BY <1>6 DEF Expressions, Announcements
  <2>. QED BY <1>2, <1>3, <1>6, <2>1
<1>7. CASE e.kind = "lambda" /\ with(Anything)
  BY <1>2, <1>4, <1>7
<1>8. \/ running' = FALSE /\ methods' = methods
      \/ methods' = CASE e.kind = "method" -> With(methods, position, NoMethods(e.typical))
                      [] e.kind = "lambda" -> With(methods, position, Anything)
                      [] OTHER             -> methods
  BY DEF Assign
<1>. QED BY <1>5, <1>6, <1>7, <1>8

LEMMA AssignTyped ==
  ASSUME Settled, Settled', SoundInv, NEW name \in Names, NEW e \in Expressions, Assign(name, e)
  PROVE  ListsTyped' /\ MethodsTyped'
<1>. DEFINE object == CallableOf(e, StatesFor(name))
            range == TypeOf(e, StatesFor(name))
<1>0. /\ RegistryInv /\ NamesTyped /\ IndexedApart /\ ListsTyped /\ MethodsTyped
      /\ position \in Nat \ {0}
  BY DEF Settled, NamesInv, RegistryInv, SoundInv
<1>1. /\ UNCHANGED <<operators, installations>>
      /\ bound' = [bound EXCEPT ![name] = [from |-> position, range |-> range,
                                           object |-> object]]
  BY DEF Assign, StatesFor
<1>2. \/ callables' = callables
      \/ /\ callables' = Append(callables, FunctionInfo(e))
         /\ FunctionInfo(e) \in FunctionInfos /\ FunctionInfo(e).installed = <<>>
  <2>1. \/ callables' = callables
        \/ /\ callables' = Append(callables, FunctionInfo(e))
           /\ FunctionInfo(e) \in FunctionInfos
           /\ e.kind \in {"method", "lambda", "atom"}
    BY <1>0, AssignMakes
  <2>2. e.kind \in {"method", "lambda", "atom"} => FunctionInfo(e).installed = <<>>
    BY DEF FunctionInfo
  <2>. QED BY <2>1, <2>2
<1>3. \A i \in DOMAIN callables' : callables'[i].installed \in Seq(1..Len(installations))
  <2>1. CASE callables' = callables
    BY <1>0, <2>1 DEF ListsTyped
  <2>2. CASE /\ callables' = Append(callables, FunctionInfo(e))
             /\ FunctionInfo(e) \in FunctionInfos /\ FunctionInfo(e).installed = <<>>
    <3>1. /\ DOMAIN callables = 1..Len(callables) /\ Len(callables) \in Nat
          /\ DOMAIN callables' = 1..(Len(callables) + 1)
          /\ callables'[Len(callables) + 1] = FunctionInfo(e)
          /\ \A i \in 1..Len(callables) : callables'[i] = callables[i]
      BY <1>0, <2>2, AppendProperties, LenProperties DEF NamesTyped
    <3>2. \A i \in 1..(Len(callables) + 1) : i \in 1..Len(callables) \/ i = Len(callables) + 1
      BY <3>1
    <3>3. <<>> \in Seq(1..Len(installations))
      OBVIOUS
    <3>. QED BY <1>0, <2>2, <3>1, <3>2, <3>3 DEF ListsTyped
  <2>. QED BY <1>2, <2>1, <2>2
<1>4. \A n \in Names : bound'[n].from = 0 => bound'[n].object = 0
  BY <1>0, <1>1 DEF ListsTyped, NamesTyped
<1>. QED BY <1>0, <1>1, <1>3, <1>4, AssignMethods DEF ListsTyped

\* A function that is followed, with what is known of it.
LEMMA TrackedIs ==
  ASSUME Ready, NEW n \in Names, Tracked(n)
  PROVE  LET info == callables[bound[n].object]
         IN  /\ bound[n].object \in 1..Len(callables) /\ Len(callables) \in Nat
             /\ DOMAIN callables = 1..Len(callables)
             /\ info \in FunctionInfos /\ info.installed \in Seq(1..Len(installations))
             /\ values[n].function \in 1..(position - 1) /\ values[n].function # position
             /\ values[n].function \notin Operators \cup DOMAIN Callables
             /\ values[n].function \in DOMAIN methods
             /\ KnownWell(info, values[n].class, methods[values[n].function],
                          InstalledOf(installations, info.installed))
<1>. DEFINE object == bound[n].object
<1>0. /\ NamesTyped /\ ObjectsAreFunctions /\ ListsTyped /\ FunctionsHold
      /\ indexed = <<>> /\ position \in Nat
  BY DEF Ready, NamesInv, RegistryInv, TablesAreWhole, WholeBefore
<1>1. /\ Len(callables) \in Nat /\ DOMAIN callables = 1..Len(callables)
      /\ object \in 1..Len(callables)
  <2>1. Len(callables) \in Nat /\ DOMAIN callables = 1..Len(callables)
    BY <1>0, LenProperties DEF NamesTyped
  <2>2. object \in 0..Len(callables) /\ object # 0
    BY <1>0 DEF NamesTyped, Tracked
  <2>. QED BY <2>1, <2>2
<1>2. callables[object] \in FunctionInfos
  BY <1>0, <1>1, ElementOfSeq DEF NamesTyped
<1>3. values[n].function \in 1..(position - 1)
  <2>1. DOMAIN indexed = {}
    BY <1>0
  <2>. QED BY <1>0, <2>1 DEF ObjectsAreFunctions
<1>4. values[n].function \in Int /\ values[n].function # position
  BY <1>0, <1>3
<1>5. values[n].function \notin Operators \cup DOMAIN Callables
  BY <1>4, ProgramAssumption
<1>6. /\ values[n].function \in DOMAIN methods
      /\ KnownWell(callables[object], values[n].class, methods[values[n].function],
                   InstalledOf(installations, callables[object].installed))
  BY <1>0, FunctionsHoldIs
<1>. QED BY <1>0, <1>1, <1>2, <1>3, <1>4, <1>5, <1>6 DEF ListsTyped

\* What an assignment gives to a name it follows.
LEMMA AssignKnows ==
  ASSUME Settled, Settled', SoundInv, Ready, NEW name \in Names, NEW e \in Expressions,
         Assign(name, e), running', indexed' = <<>>,
         NEW object, object = CallableOf(e, StatesFor(name)), object # 0,
         NEW v \in ValuesOf(e, position)
  PROVE  /\ v.function \in DOMAIN methods'
         /\ KnownWell(callables'[object], v.class, methods'[v.function],
                      InstalledOf(installations', callables'[object].installed))
<1>0. /\ RegistryInv /\ NamesTyped /\ IndexedApart /\ MethodsTyped
      /\ installations' = installations
      /\ Len(callables) \in Nat /\ DOMAIN callables = 1..Len(callables)
  BY LenProperties DEF Settled, NamesInv, NamesTyped, SoundInv, Assign
<1>1. \/ callables' = callables
      \/ /\ callables' = Append(callables, FunctionInfo(e)) /\ object = Len(callables) + 1
         /\ FunctionInfo(e) \in FunctionInfos /\ e.kind \in {"method", "lambda"}
  <2>1. DOMAIN indexed' = {}
    OBVIOUS
  <2>. QED BY <1>0, <2>1, AssignMakes
<1>2. Len(callables) + 1 \notin DOMAIN callables /\ object \in 0..Len(callables')
  BY <1>0, AssignMakes
<1>3. /\ e.kind = "method" => v = [class |-> MethodFunction, function |-> position]
      /\ e.kind = "lambda" => v = [class |-> FunctionClosure, function |-> position]
  BY DEF ValuesOf
<1>4. CASE /\ callables' = Append(callables, FunctionInfo(e)) /\ object = Len(callables) + 1
           /\ FunctionInfo(e) \in FunctionInfos /\ e.kind \in {"method", "lambda"}
  <2>1. callables'[object] = FunctionInfo(e)
    BY <1>0, <1>4, AppendProperties DEF NamesTyped
  <2>2. InstalledOf(installations, <<>>) = {}
    BY DEF InstalledOf, Effective
  <2>3. CASE e.kind = "method"
    <3>1. /\ FunctionInfo(e) = [method |-> TRUE, typical |-> e.typical, installed |-> <<>>]
          /\ position \in DOMAIN methods' /\ methods'[position] = NoMethods(e.typical)
      BY <1>0, <2>3, AssignMethods DEF FunctionInfo
    <3>2. Announcing(NoMethods(e.typical)) = {} /\ NoMethods(e.typical).typical = e.typical
      BY DEF Announcing, NoMethods
    <3>3. /\ callables'[object].method /\ callables'[object].typical = e.typical
          /\ callables'[object].installed = <<>>
      BY <2>1, <3>1
    <3>4. /\ v.class = MethodFunction /\ v.function = position
          /\ methods'[v.function] = NoMethods(e.typical)
      BY <1>3, <2>3, <3>1
    <3>. QED BY <1>0, <2>2, <3>1, <3>2, <3>3, <3>4 DEF KnownWell
  <2>4. CASE e.kind = "lambda"
    <3>1. /\ FunctionInfo(e) = [method |-> FALSE, typical |-> Unspecified, installed |-> <<>>]
          /\ position \in DOMAIN methods' /\ methods'[position] = Anything
      BY <1>0, <2>4, AssignMethods DEF FunctionInfo
    <3>. QED BY <1>0, <1>3, <2>1, <2>4, <3>1 DEF KnownWell
  <2>. QED BY <1>4, <2>3, <2>4
<1>5. CASE callables' = callables
  <2>1. DOMAIN indexed = {}
    BY DEF Ready, TablesAreWhole, WholeBefore
  <2>2. object # Len(callables) + 1
    BY <1>0, <1>2, <1>5
  <2>3. /\ e.kind = "atom" /\ e.atom \in Copied /\ Visible(e.atom, StatesFor(name))
        /\ object = StatesFor(name)[e.atom].object
    BY <2>1, <2>2, KindsOfCallable
  <2>4. Tracked(e.atom) /\ object = bound[e.atom].object /\ e.atom \in Names
    BY <1>0, <2>3, StatesForName DEF Visible
  <2>5. v = values[e.atom]
    BY <2>3, ProgramAssumption DEF ValuesOf, AtomValue
  <2>6. /\ v.function # position /\ v.function \in DOMAIN methods
        /\ KnownWell(callables[object], v.class, methods[v.function],
                     InstalledOf(installations, callables[object].installed))
    BY <2>4, <2>5, TrackedIs
  <2>7. v.function \in DOMAIN methods' /\ methods'[v.function] = methods[v.function]
    BY <1>0, <2>6, AssignMethods
  <2>. QED BY <1>0, <1>5, <2>6, <2>7
<1>. QED BY <1>1, <1>4, <1>5

LEMMA AssignSound ==
  ASSUME Settled, Settled', OrderStays, Language, SoundInv,
         NEW name \in Names, NEW e \in Expressions, Assign(name, e)
  PROVE  SoundInv'
<1>. DEFINE object == CallableOf(e, StatesFor(name))
            range == TypeOf(e, StatesFor(name))
<1>0. /\ RegistryInv /\ RegistryInv' /\ BaselineInv /\ BaselineInv' /\ TypesInv /\ NamesTyped
      /\ IndexedApart /\ MethodsTyped /\ position \in Nat \ {0} /\ OperatorsAgree
  BY DEF Settled, NamesInv, RegistryInv, SoundInv, Language
<1>1. /\ running /\ UNCHANGED <<operators, installations, registrations>>
      /\ bound' = [bound EXCEPT ![name] = [from |-> position, range |-> range,
                                           object |-> object]]
  BY DEF Assign, StatesFor, Read
<1>2. ListsTyped' /\ MethodsTyped'
  BY AssignTyped
<1>. HIDE DEF object, range
<1>3. SUFFICES ASSUME running', TablesAreWhole'
               PROVE  RangesHold' /\ FunctionsHold' /\ OperatorsHold' /\ ObjectsHold'
  BY <1>2 DEF SoundInv
<1>4. indexed' = <<>> /\ indexed = <<>>
  <2>1. indexed' = <<>>
    BY <1>3 DEF TablesAreWhole, WholeBefore
  <2>2. \/ indexed' = indexed
        \/ Record(e.atom) \in DOMAIN indexed'
    BY <1>0, AssignMakes
  <2>. QED BY <2>1, <2>2
<1>5. Growing
  BY <1>1 DEF Growing
<1>6. TablesAreWhole /\ Ready
  BY <1>0, <1>1, <1>3, <1>4, <1>5, WholeStays, ReadyIs
<1>7. PICK v \in ValuesOf(e, position) : values' = [values EXCEPT ![name] = v]
  BY <1>3 DEF Assign
<1>8. Covers(range, {v})
  <2>1. Reading(StatesFor(name))
    BY DEF Reading
  <2>2. Covers(range, ValuesOf(e, position))
    BY <1>6, <2>1, ExpressionHolds DEF Language, range
  <2>. QED BY <1>7, <2>2 DEF Covers
<1>9. /\ DOMAIN values' = DOMAIN values /\ Names \subseteq DOMAIN values
      /\ values'[name] = v /\ bound'[name].range = range /\ bound'[name].object = object
      /\ \A n : n # name => /\ n \in Names => bound'[n] = bound[n]
                            /\ n \in DOMAIN values => values'[n] = values[n]
  BY <1>0, <1>1, <1>7 DEF NamesTyped
<1>10. \A n \in Names : n # name => (Visible(n, bound)' <=> Visible(n, bound))
                                    /\ (Tracked(n)' <=> Tracked(n))
  <2>1. \A n : \A from : ShadowsSource(n, from, position)' <=> ShadowsSource(n, from, position)
    BY <1>0, <1>1, MeaningsStay
  <2>. QED BY <1>9, <2>1 DEF Visible, Tracked
<1>11. RangesHold'
  <2>1. \A n \in DOMAIN values' : values'[n].class \in Known
    BY <1>6, <1>8, <1>9 DEF Ready, RangesHold, Covers
  <2>. QED BY <1>0, <1>6, <1>8, <1>9, <1>10, <2>1, RangesStep DEF Ready
<1>12. FunctionsHold'
  <2>. SUFFICES ASSUME NEW n \in Names, Tracked(n)'
                PROVE  LET info == callables'[bound'[n].object]
                       IN  /\ values'[n].function \in DOMAIN methods'
                           /\ KnownWell(info, values'[n].class, methods'[values'[n].function],
                                        InstalledOf(installations', info.installed))
    BY FunctionsHoldIs
  <2>1. CASE n = name
    <3>1. object # 0
      BY <1>9, <2>1 DEF Tracked
    <3>. QED BY <1>3, <1>4, <1>6, <1>7, <1>9, <2>1, <3>1, AssignKnows DEF object
  <2>2. CASE n # name
    <3>1. Tracked(n) /\ bound'[n] = bound[n] /\ values'[n] = values[n]
      BY <1>9, <1>10, <2>2
    <3>2. callables'[bound[n].object] = callables[bound[n].object]
      <4>1. bound[n].object \in 1..Len(callables)
        BY <1>6, <3>1, TrackedIs
      <4>2. \/ callables' = callables
            \/ callables' = Append(callables, FunctionInfo(e)) /\ FunctionInfo(e) \in FunctionInfos
        BY <1>0, AssignMakes
      <4>. QED BY <1>0, <4>1, <4>2, AppendProperties DEF NamesTyped
    <3>3. /\ values[n].function \in DOMAIN methods'
          /\ methods'[values[n].function] = methods[values[n].function]
      BY <1>0, <1>6, <3>1, TrackedIs, AssignMethods
    <3>. QED BY <1>1, <1>6, <3>1, <3>2, <3>3, TrackedIs
  <2>. QED BY <2>1, <2>2
<1>13. \A f \in Operators \cup DOMAIN Callables : methods'[f] = methods[f]
  <2>1. \A f \in Operators \cup DOMAIN Callables : f # position /\ f \in DOMAIN methods
    BY <1>0, ProgramAssumption DEF MethodsTyped
  <2>. QED BY <1>0, <2>1, AssignMethods
<1>14. OperatorsHold'
  BY <1>0, <1>1, <1>6, <1>13, OperatorsStep, OperatorsHoldNext DEF Ready
<1>15. ObjectsHold'
  BY <1>6, <1>13 DEF Ready, ObjectsHold, ObjectTable
<1>. QED BY <1>11, <1>12, <1>14, <1>15

\* A function that nothing was installed on.
LEMMA FunctionStays ==
  ASSUME Ready, Growing, NEW n \in Names, Tracked(n),
         bound'[n] = bound[n], values'[n] = values[n],
         callables'[bound[n].object] = callables[bound[n].object],
         values[n].function \in DOMAIN methods',
         methods'[values[n].function] = methods[values[n].function]
  PROVE  LET info == callables'[bound'[n].object]
         IN  /\ values'[n].function \in DOMAIN methods'
             /\ KnownWell(info, values'[n].class, methods'[values'[n].function],
                          InstalledOf(installations', info.installed))
<1>. DEFINE info == callables[bound[n].object]
<1>1. /\ info.installed \in Seq(1..Len(installations))
      /\ KnownWell(info, values[n].class, methods[values[n].function],
                   InstalledOf(installations, info.installed))
  BY TrackedIs
<1>2. NamesTyped
  BY DEF Ready, NamesInv
<1>3. InstalledOf(installations', info.installed) = InstalledOf(installations, info.installed)
  BY <1>1, <1>2, InstalledStays
<1>. QED BY <1>1, <1>3

LEMMA NewTypeSound ==
  ASSUME Settled, Settled', OrderStays, Language, SoundInv,
         NEW name \in SourceTypes, NEW parent \in Parents, NewType(name, parent)
  PROVE  SoundInv'
<1>0. /\ RegistryInv /\ RegistryInv' /\ BaselineInv /\ BaselineInv' /\ TypesInv /\ NamesTyped
      /\ ListsTyped /\ MethodsTyped /\ position \in Nat \ {0} /\ OperatorsAgree
      /\ Type \in Known /\ Value(Type).class = Type
  BY RolesAssumption DEF Settled, NamesInv, RegistryInv, SoundInv, Language, TypesInv, Value
<1>1. /\ running
      /\ UNCHANGED <<registrations, callables, indexed, operators, installations, methods, running>>
      /\ bound' = [bound EXCEPT ![name] = [from |-> position, range |-> ExactType(Type),
                                           object |-> 0]]
      /\ values' = [values EXCEPT ![name] = Value(Type)]
      /\ name \in Names
  BY ProgramAssumption DEF NewType, Read
<1>2. /\ DOMAIN values' = DOMAIN values /\ Names \subseteq DOMAIN values
      /\ values'[name] = Value(Type)
      /\ bound'[name] = [from |-> position, range |-> ExactType(Type), object |-> 0]
      /\ \A n : n # name => /\ n \in Names => bound'[n] = bound[n]
                            /\ n \in DOMAIN values => values'[n] = values[n]
  BY <1>0, <1>1 DEF NamesTyped
<1>3. ListsTyped' /\ MethodsTyped'
  BY <1>0, <1>1, <1>2 DEF ListsTyped, MethodsTyped, MethodRecord
<1>4. SUFFICES ASSUME TablesAreWhole'
               PROVE  RangesHold' /\ FunctionsHold' /\ OperatorsHold' /\ ObjectsHold'
  BY <1>3 DEF SoundInv
<1>5. Growing
  BY <1>1 DEF Growing
<1>6. TablesAreWhole /\ Ready
  BY <1>0, <1>1, <1>4, <1>5, WholeStays, ReadyIs
<1>7. \A n \in Names : n # name => (Visible(n, bound)' <=> Visible(n, bound))
                                   /\ (Tracked(n)' <=> Tracked(n))
  <2>1. \A n : \A from : ShadowsSource(n, from, position)' <=> ShadowsSource(n, from, position)
    BY <1>0, <1>1, MeaningsStay
  <2>. QED BY <1>2, <2>1 DEF Visible, Tracked
<1>8. RangesHold'
  <2>1. \A n \in DOMAIN values' : values'[n].class \in Known
    BY <1>0, <1>2, <1>6 DEF Ready, RangesHold
  <2>2. Covers(ExactType(Type), {Value(Type)}) /\ bound'[name].range = ExactType(Type)
    BY <1>0, <1>2, OneTypeIsRange DEF Covers
  <2>. QED BY <1>0, <1>2, <1>6, <1>7, <2>1, <2>2, RangesStep DEF Ready
<1>9. FunctionsHold'
  <2>. SUFFICES ASSUME NEW n \in Names, Tracked(n)'
                PROVE  LET info == callables'[bound'[n].object]
                       IN  /\ values'[n].function \in DOMAIN methods'
                           /\ KnownWell(info, values'[n].class, methods'[values'[n].function],
                                        InstalledOf(installations', info.installed))
    BY FunctionsHoldIs
  <2>1. n # name
    BY <1>2 DEF Tracked
  <2>2. Tracked(n) /\ bound'[n] = bound[n] /\ values'[n] = values[n]
    BY <1>2, <1>7, <2>1
  <2>3. values[n].function \in DOMAIN methods'
    BY <1>1, <1>6, <2>2, TrackedIs
  <2>. QED BY <1>1, <1>5, <1>6, <2>2, <2>3, FunctionStays
<1>10. OperatorsHold'
  BY <1>0, <1>1, <1>6, OperatorsStep, OperatorsHoldNext DEF Ready
<1>11. ObjectsHold'
  BY <1>1, <1>6 DEF Ready, ObjectsHold, ObjectTable
<1>. QED BY <1>8, <1>9, <1>10, <1>11

\* An import: what it brings nobody follows any more.
LEMMA PackageSound ==
  ASSUME Settled, Settled', OrderStays, Language, SoundInv,
         NEW package \in DOMAIN Catalog, Package(package)
  PROVE  SoundInv'
<1>0. /\ RegistryInv /\ RegistryInv' /\ BaselineInv /\ BaselineInv' /\ TypesInv /\ NamesTyped
      /\ ListsTyped /\ MethodsTyped /\ position \in Nat \ {0} /\ OperatorsAgree
      /\ Imported(package)
  BY ImportRegisters DEF Settled, NamesInv, RegistryInv, SoundInv, Language, Package
<1>1. /\ running
      /\ UNCHANGED <<bound, callables, indexed, operators, installations, methods, running>>
      /\ values' = [n \in DOMAIN values |->
                      IF n \in DOMAIN Catalog[package] THEN ObjectValue(Catalog[package][n])
                      ELSE values[n]]
  BY DEF Package, Read
<1>2. ListsTyped' /\ MethodsTyped'
  BY <1>0, <1>1 DEF ListsTyped, MethodsTyped, MethodRecord
<1>3. SUFFICES ASSUME TablesAreWhole'
               PROVE  RangesHold' /\ FunctionsHold' /\ OperatorsHold' /\ ObjectsHold'
  BY <1>2 DEF SoundInv
<1>4. Growing
  BY <1>1 DEF Growing
<1>5. TablesAreWhole /\ Ready
  BY <1>0, <1>1, <1>3, <1>4, WholeStays, ReadyIs
<1>6. ASSUME NEW n \in Names, Visible(n, bound)'
      PROVE  n \notin DOMAIN Catalog[package] /\ Visible(n, bound) /\ values'[n] = values[n]
  <2>1. n \notin DOMAIN Catalog[package]
    <3>. SUFFICES ASSUME n \in DOMAIN Catalog[package] PROVE FALSE
      OBVIOUS
    <3>1. \A from : ShadowsSource(n, from, position)' <=> position > from
      BY <1>0, MeaningsImported
    <3>2. bound[n].from < position
      BY <1>0 DEF NamesTyped
    <3>. QED BY <1>0, <1>1, <1>6, <3>1, <3>2 DEF Visible
  <2>2. \A from : ShadowsSource(n, from, position)' <=> ShadowsSource(n, from, position)
    BY <1>0, <2>1, MeaningsImported
  <2>. QED BY <1>0, <1>1, <1>6, <2>1, <2>2 DEF Visible, NamesTyped
<1>7. RangesHold'
  <2>1. ASSUME NEW n \in DOMAIN values' PROVE values'[n].class \in Known
    <3>1. n \in DOMAIN values /\ values[n].class \in Known
      BY <1>1, <1>5, <2>1 DEF Ready, RangesHold
    <3>2. ASSUME n \in DOMAIN Catalog[package] PROVE values'[n].class \in Known
      <4>1. Catalog[package][n] \in DOMAIN ObjectClass
            /\ ObjectClass[Catalog[package][n]] \in DOMAIN BaseUp
        BY <3>2, ObjectsAssumption
      <4>2. values'[n].class = ObjectClass[Catalog[package][n]]
        BY <1>1, <3>1, <3>2 DEF ObjectValue, Value
      <4>. QED BY <1>0, <4>1, <4>2 DEF TypesInv
    <3>. QED BY <1>1, <3>1, <3>2
  <2>2. Names \subseteq DOMAIN values
    BY <1>0 DEF NamesTyped
  <2>. QED BY <1>0, <1>1, <1>5, <1>6, <2>1, <2>2, RangesStep DEF Ready
<1>8. FunctionsHold'
  <2>. SUFFICES ASSUME NEW n \in Names, Tracked(n)'
                PROVE  LET info == callables'[bound'[n].object]
                       IN  /\ values'[n].function \in DOMAIN methods'
                           /\ KnownWell(info, values'[n].class, methods'[values'[n].function],
                                        InstalledOf(installations', info.installed))
    BY FunctionsHoldIs
  <2>1. Tracked(n) /\ bound'[n] = bound[n] /\ values'[n] = values[n]
    BY <1>1, <1>6 DEF Tracked
  <2>2. values[n].function \in DOMAIN methods'
    BY <1>1, <1>5, <2>1, TrackedIs
  <2>. QED BY <1>1, <1>4, <1>5, <2>1, <2>2, FunctionStays
<1>9. OperatorsHold'
  BY <1>0, <1>1, <1>5, OperatorsStep, OperatorsHoldNext DEF Ready
<1>10. ObjectsHold'
  BY <1>1, <1>5 DEF Ready, ObjectsHold, ObjectTable
<1>. QED BY <1>7, <1>8, <1>9, <1>10

\* The lists of installations where there is one more.
LEMMA ListsGrow ==
  ASSUME ListsTyped, NamesTyped, Growing, bound' = bound, operators' = operators,
         NEW i \in DOMAIN callables
  PROVE  /\ callables[i].installed \in Seq(1..Len(installations'))
         /\ operators \in [Operators -> Seq(1..Len(installations'))]
<1>1. /\ Len(installations) \in Nat /\ Len(installations') \in Nat
      /\ Len(installations) <= Len(installations')
  BY GrowingIs
<1>2. \A list \in Seq(1..Len(installations)) : list \in Seq(1..Len(installations'))
  BY <1>1, SeqGrows
<1>. QED BY <1>2 DEF ListsTyped

\* A function, as it is after an installation on what may be it.
LEMMA KnownWithMore ==
  ASSUME NEW info \in FunctionInfos, NEW table \in Table, NEW class,
         NEW all \in Seq(Installation), NEW list, list = info.installed,
         list \in Seq(1..Len(all)), info.method,
         KnownWell(info, class, table, InstalledOf(all, list)),
         NEW domain, NEW codomain, NEW one \in Installation, one.domain = domain,
         one.codomain = IF codomain = Unspecified THEN info.typical ELSE codomain,
         NEW more, more = [info EXCEPT !.installed = Append(@, Len(all) + 1)]
  PROVE  KnownWell(more, class, WithMethod(table, domain, codomain),
                   InstalledOf(Append(all, one), more.installed))
<1>. DEFINE wider == WithMethod(table, domain, codomain)
            before == InstalledOf(all, list)
<1>1. /\ more.method /\ more.typical = info.typical
      /\ more.installed = Append(list, Len(all) + 1)
  BY DEF FunctionInfos
<1>2. /\ class = MethodFunction /\ table.typical = info.typical /\ Announcing(table) = before
  BY DEF KnownWell
<1>3. /\ wider.typical = table.typical
      /\ Announcing(wider) = {m \in before : m.domain # domain} \cup {Recorded(one)}
  BY <1>2, AnnouncingWith DEF Recorded
<1>4. InstalledOf(Append(all, one), Append(list, Len(all) + 1)) =
        {m \in before : m.domain # domain} \cup {Recorded(one)}
  BY InstalledMore
<1>. HIDE DEF wider, before
<1>. QED BY <1>1, <1>2, <1>3, <1>4 DEF KnownWell, wider

LEMMA InstallSound ==
  ASSUME Settled, Settled', OrderStays, Language, SoundInv,
         NEW name \in Called, NEW codomain \in Codomains \cup {Unspecified},
         NEW domain \in Domains[name], Install(name, domain, codomain)
  PROVE  SoundInv'
<1>. DEFINE object == HeadObject(name)
            function == values[name].function
            announced == IF codomain = Unspecified /\ object # 0 THEN callables[object].typical
                         ELSE codomain
            one == [head |-> name, domain |-> domain, codomain |-> announced, object |-> object,
                    effect |-> Effect(HeadKind(name)),
                    runs |-> IsSubtype(values[name].class, MethodFunction),
                    taken |-> name \in Names /\ bound[name].from # 0 /\ ~Visible(name, bound)]
<1>0. /\ RegistryInv /\ RegistryInv' /\ BaselineInv /\ BaselineInv' /\ TypesInv /\ NamesTyped
      /\ IndexedApart /\ ListsTyped /\ MethodsTyped /\ position \in Nat \ {0} /\ OperatorsAgree
      /\ installations \in Seq(Installation) /\ installations' \in Seq(Installation)
      /\ callables \in Seq(FunctionInfos) /\ DOMAIN callables = 1..Len(callables)
      /\ Len(callables) \in Nat /\ Len(installations) \in Nat
  BY LenProperties DEF Settled, NamesInv, NamesTyped, RegistryInv, SoundInv, Language
<1>1. /\ running /\ running' = one.runs
      /\ installations' = Append(installations, one)
      /\ callables' = IF object = 0 THEN callables
                      ELSE [callables EXCEPT ![object].installed =
                              Append(@, Len(installations) + 1)]
      /\ methods' = IF one.runs /\ function # Untracked
                    THEN [methods EXCEPT ![function] = WithMethod(@, domain, codomain)]
                    ELSE methods
      /\ UNCHANGED <<registrations, bound, indexed, operators, values>>
  BY DEF Install, Read
<1>2. one.runs <=> IsSubtype(values[name].class, MethodFunction)
  OBVIOUS
<1>3. /\ one.head = name /\ one.domain = domain /\ one.codomain = announced
      /\ one.object = object
      /\ one.taken <=> name \in Names /\ bound[name].from # 0 /\ ~Visible(name, bound)
  OBVIOUS
<1>4. object \in 0..Len(callables)
      /\ (object # 0 => name \in Names /\ object = bound[name].object
                        /\ HeadKind(name) = "method")
  BY <1>0, HeadObjectIs DEF HeadObject
<1>. HIDE DEF one, object
<1>5. /\ Len(installations') = Len(installations) + 1
      /\ installations'[Len(installations) + 1] = one
      /\ one \in Installation
  <2>1. installations'[Len(installations) + 1] = one /\ Len(installations') = Len(installations) + 1
    <3>1. /\ Len(Append(installations, one)) = Len(installations) + 1
          /\ Append(installations, one)[Len(installations) + 1] = one
      BY <1>0
    <3>. QED BY <1>1, <3>1
  <2>2. installations'[Len(installations) + 1] \in Installation
    <3>1. Len(installations) + 1 \in 1..Len(installations')
      BY <1>0, <2>1
    <3>. QED BY <1>0, <3>1, ElementOfSeq
  <2>. QED BY <2>1, <2>2
<1>6. Growing
  BY <1>1, <1>5 DEF Growing
<1>7. /\ callables' \in Seq(FunctionInfos) /\ DOMAIN callables' = DOMAIN callables
      /\ \A i \in DOMAIN callables : i # object => callables'[i] = callables[i]
      /\ object # 0 => /\ object \in DOMAIN callables
                       /\ callables'[object] =
                            [callables[object] EXCEPT !.installed =
                               Append(@, Len(installations) + 1)]
  <2>1. callables' \in Seq(FunctionInfos)
    BY DEF Settled, NamesInv, NamesTyped
  <2>2. CASE object = 0
    BY <1>1, <2>1, <2>2
  <2>3. CASE object # 0
    <3>1. object \in DOMAIN callables
      BY <1>0, <1>4, <2>3
    <3>2. /\ callables' = [callables EXCEPT ![object].installed =
                            Append(@, Len(installations) + 1)]
          /\ callables = [i \in DOMAIN callables |-> callables[i]]
      BY <1>0, <1>1, <2>3
    <3>. QED BY <2>1, <3>1, <3>2
  <2>. QED BY <2>2, <2>3
<1>8. ListsTyped'
  <2>1. ASSUME NEW i \in DOMAIN callables'
        PROVE  callables'[i].installed \in Seq(1..Len(installations'))
    <3>1. i \in DOMAIN callables /\ callables[i].installed \in Seq(1..Len(installations'))
      BY <1>0, <1>1, <1>6, <1>7, <2>1, ListsGrow
    <3>2. CASE i # object
      BY <1>7, <3>1, <3>2
    <3>3. CASE i = object
      <4>1. callables[i] \in FunctionInfos /\ object # 0
        BY <1>0, <3>1, <3>3, ElementOfSeq
      <4>2. callables'[i].installed = Append(callables[i].installed, Len(installations) + 1)
        BY <1>7, <3>3, <4>1 DEF FunctionInfos
      <4>3. Len(installations) + 1 \in 1..Len(installations')
        BY <1>0, <1>5
      <4>. QED BY <3>1, <4>2, <4>3, AppendProperties
    <3>. QED BY <3>2, <3>3
  <2>2. operators \in [Operators -> Seq(1..Len(installations'))]
    <3>1. \A list \in Seq(1..Len(installations)) : list \in Seq(1..Len(installations'))
      <4>1. Len(installations') \in Nat /\ Len(installations) <= Len(installations')
        BY <1>0, <1>5
      <4>. QED BY <1>0, <4>1, SeqGrows
    <3>. QED BY <1>0, <3>1 DEF ListsTyped
  <2>. QED BY <1>0, <1>1, <2>1, <2>2 DEF ListsTyped
<1>9. MethodsTyped'
  <2>1. /\ methods = [f \in DOMAIN methods |-> methods[f]]
        /\ \A f \in DOMAIN methods : methods[f] \in Table
    BY <1>0 DEF MethodsTyped, Table
  <2>2. domain \in Seq(Identities) /\ codomain \in Announcements
    <3>1. domain \in Seq(DOMAIN BaseUp \cup SourceTypes)
      BY ProgramAssumption
    <3>2. domain \in Seq(Identities)
      <4>1. Len(domain) \in Nat /\ domain \in [1..Len(domain) -> Identities]
        BY <3>1, LenProperties, ElementOfSeq DEF Identities
      <4>. QED BY <4>1, SeqDef
    <3>. QED BY <3>2 DEF Announcements
  <2>3. CASE methods' = methods
    BY <1>0, <2>3 DEF MethodsTyped, MethodRecord
  <2>4. CASE methods' = [methods EXCEPT ![function] = WithMethod(@, domain, codomain)]
    <3>1. \A f \in DOMAIN methods : WithMethod(methods[f], domain, codomain) \in Table
      BY <2>1, <2>2, AnnouncingWith
    <3>2. DOMAIN methods' = DOMAIN methods /\ methods' \in [DOMAIN methods -> Table]
      BY <2>1, <2>4, <3>1
    <3>. QED BY <1>0, <3>2 DEF MethodsTyped, Table, MethodRecord
  <2>. QED BY <1>1, <2>3, <2>4
<1>10. SUFFICES ASSUME running', TablesAreWhole'
                PROVE  RangesHold' /\ FunctionsHold' /\ OperatorsHold' /\ ObjectsHold'
  BY <1>8, <1>9 DEF SoundInv
<1>11. TablesAreWhole /\ Ready
  BY <1>0, <1>1, <1>6, <1>10, WholeStays, ReadyIs
<1>12. one.runs /\ object # 0 /\ ~one.taken
  <2>1. one.runs
    BY <1>1, <1>10
  <2>2. name \notin Operators
    BY ProgramAssumption
  <2>3. PICK k \in Nat : k = Len(installations')
    BY <1>0, <1>5
  <2>4. WholeBefore(k)'
    BY <1>10, <2>3 DEF TablesAreWhole, WholeBefore
  <2>5. Len(installations) + 1 \in 1..k
    BY <1>0, <1>5, <2>3
  <2>6. one.head \notin Operators => ~one.taken /\ (one.runs => one.object # 0)
    BY <1>5, <2>4, <2>5 DEF WholeBefore
  <2>. QED BY <1>3, <2>1, <2>2, <2>6
<1>13. Tracked(name) /\ name \in Names /\ object = bound[name].object
  BY <1>0, <1>3, <1>4, <1>12 DEF Tracked, ListsTyped
<1>14. callables[object].method
  BY <1>4, <1>12, <1>13 DEF HeadKind, Tracked, Visible
<1>15. /\ function \in DOMAIN methods /\ function # Untracked
       /\ function \notin Operators \cup DOMAIN Callables
  BY <1>0, <1>11, <1>13, TrackedIs DEF Untracked
<1>16. /\ methods' = [methods EXCEPT ![function] = WithMethod(@, domain, codomain)]
       /\ DOMAIN methods' = DOMAIN methods
       /\ methods'[function] = WithMethod(methods[function], domain, codomain)
       /\ \A f : f # function /\ f \in DOMAIN methods => methods'[f] = methods[f]
  BY <1>1, <1>12, <1>15
<1>17. \A n : (Visible(n, bound)' <=> Visible(n, bound)) /\ (Tracked(n)' <=> Tracked(n))
  <2>1. \A n : \A from : ShadowsSource(n, from, position)' <=> ShadowsSource(n, from, position)
    BY <1>0, <1>1, MeaningsStay
  <2>. QED BY <1>1, <2>1 DEF Visible, Tracked
<1>18. RangesHold'
  <2>1. Names \subseteq DOMAIN values
    BY <1>0 DEF NamesTyped
  <2>. QED BY <1>0, <1>1, <1>11, <1>17, <2>1, RangesStep DEF Ready, RangesHold
<1>19. FunctionsHold'
  <2>. SUFFICES ASSUME NEW n \in Names, Tracked(n)'
                PROVE  LET info == callables'[bound'[n].object]
                       IN  /\ values'[n].function \in DOMAIN methods'
                           /\ KnownWell(info, values'[n].class, methods'[values'[n].function],
                                        InstalledOf(installations', info.installed))
    BY FunctionsHoldIs
  <2>1. Tracked(n) /\ bound'[n] = bound[n] /\ values'[n] = values[n]
    BY <1>1, <1>17
  <2>2. bound[n].object = object <=> values[n].function = function
    BY <1>11, <1>13, <2>1 DEF Ready, NamesInv, ObjectsAreFunctions
  <2>3. CASE bound[n].object # object
    <3>1. bound[n].object \in DOMAIN callables /\ values[n].function \in DOMAIN methods
      BY <1>11, <2>1, TrackedIs
    <3>2. /\ callables'[bound[n].object] = callables[bound[n].object]
          /\ methods'[values[n].function] = methods[values[n].function]
      BY <1>7, <1>16, <2>2, <2>3, <3>1
    <3>. QED BY <1>6, <1>11, <1>16, <2>1, <3>1, <3>2, FunctionStays
  <2>4. CASE bound[n].object = object
    <3>1. /\ callables[object] \in FunctionInfos
          /\ callables[object].installed \in Seq(1..Len(installations))
          /\ KnownWell(callables[object], values[n].class, methods[function],
                       InstalledOf(installations, callables[object].installed))
      BY <1>11, <2>1, <2>2, <2>4, TrackedIs
    <3>2. methods[function] \in Table
      BY <1>0, <1>15 DEF MethodsTyped, Table
    <3>3. one.codomain = IF codomain = Unspecified THEN callables[object].typical ELSE codomain
      BY <1>3, <1>12
    <3>4. KnownWell(callables'[object], values[n].class,
                    WithMethod(methods[function], domain, codomain),
                    InstalledOf(Append(installations, one), callables'[object].installed))
      BY <1>0, <1>3, <1>5, <1>7, <1>12, <1>14, <3>1, <3>2, <3>3, KnownWithMore
    <3>. QED BY <1>1, <1>15, <1>16, <2>1, <2>2, <2>4, <3>4
  <2>. QED BY <2>3, <2>4
<1>20. \A f \in Operators \cup DOMAIN Callables : methods'[f] = methods[f]
  BY <1>0, <1>15, <1>16 DEF MethodsTyped
<1>21. OperatorsHold'
  <2>1. \A o \in Operators :
          InstalledOf(installations', operators[o]) = InstalledOf(installations, operators[o])
    BY <1>0, <1>6, InstalledStays DEF ListsTyped
  <2>. QED BY <1>0, <1>1, <1>11, <1>20, <2>1, OperatorsStep, OperatorsHoldNext DEF Ready
<1>22. ObjectsHold'
  BY <1>11, <1>20 DEF Ready, ObjectsHold, ObjectTable
<1>. QED BY <1>18, <1>19, <1>21, <1>22

LEMMA InstallOperatorSound ==
  ASSUME Settled, Settled', OrderStays, Language, SoundInv,
         NEW operator \in Operators, NEW codomain \in Codomains \cup {Unspecified},
         NEW domain \in Domains[operator], InstallOperator(operator, domain, codomain)
  PROVE  SoundInv'
<1>. DEFINE one == [head |-> operator, domain |-> domain, codomain |-> codomain, object |-> 0,
                    effect |-> "Effective", runs |-> TRUE, taken |-> FALSE]
            longer == Append(operators[operator], Len(installations) + 1)
<1>0. /\ RegistryInv /\ RegistryInv' /\ BaselineInv /\ BaselineInv' /\ TypesInv /\ NamesTyped
      /\ IndexedApart /\ ListsTyped /\ MethodsTyped /\ position \in Nat \ {0} /\ OperatorsAgree
      /\ installations \in Seq(Installation) /\ Len(installations) \in Nat
  BY LenProperties DEF Settled, NamesInv, NamesTyped, RegistryInv, SoundInv, Language
<1>1. /\ running /\ running' = running
      /\ installations' = Append(installations, one)
      /\ operators' = [operators EXCEPT ![operator] = longer]
      /\ methods' = [methods EXCEPT ![operator] = WithMethod(@, domain, codomain)]
      /\ UNCHANGED <<registrations, bound, callables, indexed, values>>
  BY DEF InstallOperator, Read
<1>2. /\ one \in Installation /\ one.head = operator /\ Recorded(one) = [domain |-> domain, codomain |-> codomain]
      /\ one.domain = domain
  BY ProgramAssumption DEF Installation, Announcements, Recorded
<1>. HIDE DEF one, longer
<1>3. /\ Len(installations') = Len(installations) + 1
      /\ installations'[Len(installations) + 1] = one
  <2>1. /\ Len(Append(installations, one)) = Len(installations) + 1
        /\ Append(installations, one)[Len(installations) + 1] = one
    BY <1>0, <1>2, AppendProperties
  <2>. QED BY <1>1, <2>1
<1>4. Growing
  BY <1>1, <1>2 DEF Growing
<1>5. /\ operators \in [Operators -> Seq(1..Len(installations'))]
      /\ longer \in Seq(1..Len(installations'))
      /\ \A i \in DOMAIN callables : callables[i].installed \in Seq(1..Len(installations'))
  <2>1. \A list \in Seq(1..Len(installations)) : list \in Seq(1..Len(installations'))
    <3>1. Len(installations') \in Nat /\ Len(installations) <= Len(installations')
      BY <1>0, <1>3
    <3>. QED BY <1>0, <3>1, SeqGrows
  <2>2. operators \in [Operators -> Seq(1..Len(installations'))]
    BY <1>0, <2>1 DEF ListsTyped
  <2>3. Len(installations) + 1 \in 1..Len(installations')
    BY <1>0, <1>3
  <2>. QED BY <1>0, <2>1, <2>2, <2>3, AppendProperties DEF ListsTyped, longer
<1>6. ListsTyped'
  <2>1. operators' \in [Operators -> Seq(1..Len(installations'))]
    BY <1>1, <1>5
  <2>. QED BY <1>0, <1>1, <1>5, <2>1 DEF ListsTyped
<1>7. /\ operator \in DOMAIN methods /\ methods[operator] \in Table
      /\ DOMAIN methods' = DOMAIN methods
      /\ methods'[operator] = WithMethod(methods[operator], domain, codomain)
      /\ \A f \in DOMAIN methods : f # operator => methods'[f] = methods[f]
      /\ \A f \in DOMAIN methods : methods[f] \in Table
  BY <1>0, <1>1 DEF MethodsTyped, Table
<1>8. MethodsTyped'
  <2>1. domain \in Seq(Identities) /\ codomain \in Announcements
    <3>1. domain \in Seq(DOMAIN BaseUp \cup SourceTypes)
      BY ProgramAssumption
    <3>2. Len(domain) \in Nat /\ domain \in [1..Len(domain) -> Identities]
      BY <3>1, LenProperties, ElementOfSeq DEF Identities
    <3>. QED BY <3>2, SeqDef DEF Announcements
  <2>2. WithMethod(methods[operator], domain, codomain) \in Table
    BY <1>7, <2>1, AnnouncingWith
  <2>3. methods' \in [DOMAIN methods -> Table]
    BY <1>1, <1>7, <2>2
  <2>. QED BY <1>0, <1>7, <2>3 DEF MethodsTyped, Table, MethodRecord
<1>9. SUFFICES ASSUME TablesAreWhole'
               PROVE  RangesHold' /\ FunctionsHold' /\ OperatorsHold' /\ ObjectsHold'
  BY <1>6, <1>8 DEF SoundInv
<1>10. TablesAreWhole /\ Ready
  BY <1>0, <1>1, <1>4, <1>9, WholeStays, ReadyIs
<1>11. ~IsCallable(operator) /\ ~IsCallable(operator)' /\ operator \notin Comparisons
  <2>1. PICK k \in Nat : k = Len(installations')
    BY <1>0, <1>3
  <2>2. WholeBefore(k)'
    BY <1>9, <2>1 DEF TablesAreWhole, WholeBefore
  <2>3. Len(installations) + 1 \in 1..k
    BY <1>0, <1>3, <2>1
  <2>4. /\ one.head \in Operators => one.head \notin Comparisons
        /\ \A o \in Operators : o = one.head => ~IsCallable(o)'
    BY <1>3, <2>2, <2>3 DEF WholeBefore
  <2>. QED BY <1>0, <1>2, <2>4, OperatorsStay
<1>12. \A n : (Visible(n, bound)' <=> Visible(n, bound)) /\ (Tracked(n)' <=> Tracked(n))
  <2>1. \A n : \A from : ShadowsSource(n, from, position)' <=> ShadowsSource(n, from, position)
    BY <1>0, <1>1, MeaningsStay
  <2>. QED BY <1>1, <2>1 DEF Visible, Tracked
<1>13. RangesHold'
  <2>1. Names \subseteq DOMAIN values
    BY <1>0 DEF NamesTyped
  <2>. QED BY <1>0, <1>1, <1>10, <1>12, <2>1, RangesStep DEF Ready, RangesHold
<1>14. FunctionsHold'
  <2>. SUFFICES ASSUME NEW n \in Names, Tracked(n)'
                PROVE  LET info == callables'[bound'[n].object]
                       IN  /\ values'[n].function \in DOMAIN methods'
                           /\ KnownWell(info, values'[n].class, methods'[values'[n].function],
                                        InstalledOf(installations', info.installed))
    BY FunctionsHoldIs
  <2>1. Tracked(n) /\ bound'[n] = bound[n] /\ values'[n] = values[n]
    BY <1>1, <1>12
  <2>2. values[n].function \in DOMAIN methods /\ values[n].function # operator
    BY <1>10, <2>1, TrackedIs
  <2>. QED BY <1>1, <1>4, <1>7, <1>10, <2>1, <2>2, FunctionStays
<1>15. OperatorsHold'
  <2>1. \A o \in Operators :
          InstalledOf(installations', operators[o]) = InstalledOf(installations, operators[o])
    BY <1>0, <1>4, InstalledStays DEF ListsTyped
  <2>2. ASSUME NEW o \in Operators
        PROVE  /\ IsCallable(o)' => /\ operators'[o] = <<>>
                                    /\ methods'[o] = ObjectTable(Callables[Record(o)'])
               /\ ~IsCallable(o)' =>
                    methods'[o] = [typical |-> Unspecified,
                                   methods |-> InstalledOf(installations', operators'[o])]
               /\ o \in Comparisons => operators'[o] = <<>>
    <3>1. CASE o # operator
      <4>1. methods'[o] = methods[o] /\ operators'[o] = operators[o]
        BY <1>0, <1>1, <1>7, <3>1 DEF MethodsTyped, ListsTyped
      <4>. QED BY <1>0, <1>10, <2>1, <4>1, OperatorsStep DEF Ready
    <3>2. CASE o = operator
      <4>1. methods[operator] = [typical |-> Unspecified,
                                 methods |-> InstalledOf(installations, operators[operator])]
        BY <1>10, <1>11 DEF Ready, OperatorsHold, Installed, InstalledOf
      <4>2. methods'[operator].typical = Unspecified
            /\ methods'[operator].methods =
                 {m \in InstalledOf(installations, operators[operator]) : m.domain # domain}
                   \cup {Recorded(one)}
        BY <1>2, <1>7, <4>1, AnnouncingWith
      <4>3. operators[operator] \in Seq(1..Len(installations)) /\ operators'[operator] = longer
        BY <1>0, <1>1 DEF ListsTyped
      <4>4. InstalledOf(installations', longer) =
              {m \in InstalledOf(installations, operators[operator]) : m.domain # domain}
                \cup {Recorded(one)}
        BY <1>0, <1>1, <1>2, <4>3, InstalledMore DEF longer
      <4>5. methods'[operator] \in Table
        BY <1>7, <1>8 DEF MethodsTyped, Table
      <4>. QED BY <1>11, <3>2, <4>2, <4>3, <4>4, <4>5 DEF Table
    <3>. QED BY <3>1, <3>2
  <2>. QED BY <2>2, OperatorsHoldNext
<1>16. ObjectsHold'
  <2>1. \A o \in DOMAIN Callables : o # operator /\ o \in DOMAIN methods
    BY <1>0, ProgramAssumption DEF MethodsTyped
  <2>. QED BY <1>7, <1>10, <2>1 DEF Ready, ObjectsHold, ObjectTable
<1>. QED BY <1>13, <1>14, <1>15, <1>16

LEMMA QuietSound ==
  ASSUME Settled, Settled', OrderStays, Language, SoundInv, UNCHANGED vars
  PROVE  SoundInv'
<1>0. /\ RegistryInv /\ RegistryInv' /\ BaselineInv /\ BaselineInv' /\ TypesInv /\ NamesTyped
      /\ ListsTyped /\ MethodsTyped /\ OperatorsAgree
  BY DEF Settled, NamesInv, SoundInv, Language
<1>1. UNCHANGED <<up, registrations, bound, callables, indexed, operators, installations,
                  position, values, methods, running>>
  BY DEF vars, analysisVars
<1>2. Growing
  BY <1>1 DEF Growing
<1>3. ListsTyped' /\ MethodsTyped'
  <2>1. ListsTyped'
    BY <1>0, <1>1 DEF ListsTyped
  <2>2. MethodsTyped'
    BY <1>0, <1>1 DEF MethodsTyped, MethodRecord
  <2>. QED BY <2>1, <2>2
<1>4. SUFFICES ASSUME running', TablesAreWhole'
               PROVE  RangesHold' /\ FunctionsHold' /\ OperatorsHold' /\ ObjectsHold'
  BY <1>3 DEF SoundInv
<1>5. running /\ TablesAreWhole /\ Ready
  BY <1>0, <1>1, <1>2, <1>4, WholeStays, ReadyIs
<1>6. \A n : (Visible(n, bound)' <=> Visible(n, bound)) /\ (Tracked(n)' <=> Tracked(n))
  <2>1. \A n : \A from : ShadowsSource(n, from, position)' <=> ShadowsSource(n, from, position)
    BY <1>0, <1>1, MeaningsStay
  <2>. QED BY <1>1, <2>1 DEF Visible, Tracked
<1>7. RangesHold'
  <2>1. Names \subseteq DOMAIN values
    BY <1>0 DEF NamesTyped
  <2>. QED BY <1>0, <1>1, <1>5, <1>6, <2>1, RangesStep DEF Ready, RangesHold
<1>8. FunctionsHold'
  <2>. SUFFICES ASSUME NEW n \in Names, Tracked(n)'
                PROVE  LET info == callables'[bound'[n].object]
                       IN  /\ values'[n].function \in DOMAIN methods'
                           /\ KnownWell(info, values'[n].class, methods'[values'[n].function],
                                        InstalledOf(installations', info.installed))
    BY FunctionsHoldIs
  <2>1. Tracked(n)
    BY <1>6
  <2>2. values[n].function \in DOMAIN methods
    BY <1>5, <2>1, TrackedIs
  <2>. QED BY <1>1, <1>2, <1>5, <2>1, <2>2, FunctionStays
<1>9. OperatorsHold'
  BY <1>0, <1>1, <1>5, OperatorsStep, OperatorsHoldNext DEF Ready
<1>10. ObjectsHold'
  BY <1>1, <1>5 DEF Ready, ObjectsHold, ObjectTable
<1>. QED BY <1>7, <1>8, <1>9, <1>10

LEMMA ObjectTableTyped ==
  ASSUME NEW o \in DOMAIN Callables
  PROVE  ObjectTable(Callables[o]) \in Table
<1>. DEFINE list == Callables[o].methods
<1>1. /\ Callables[o].typical \in Announcements
      /\ \A i \in DOMAIN list :
           /\ list[i].domain \in Seq(DOMAIN BaseUp \cup DOMAIN ObjectClass)
           /\ list[i].codomain \in Announcements
  BY MethodsOfObject
<1>2. \A i \in PreferExplicit(list, DOMAIN list) : i \in DOMAIN list
  BY DEF PreferExplicit
<1>3. ASSUME NEW i \in DOMAIN list PROVE list[i].domain \in Seq(Identities)
  <2>1. list[i].domain \in Seq(DOMAIN BaseUp \cup DOMAIN ObjectClass)
    BY <1>1
  <2>2. Len(list[i].domain) \in Nat
        /\ list[i].domain \in [1..Len(list[i].domain) -> Identities]
    BY <2>1, LenProperties, ElementOfSeq DEF Identities
  <2>. QED BY <2>2, SeqDef
<1>. HIDE DEF list
<1>4. {[domain |-> list[i].domain, codomain |-> list[i].codomain] :
         i \in PreferExplicit(list, DOMAIN list)} \subseteq MethodRecord
  BY <1>1, <1>2, <1>3 DEF MethodRecord
<1>. QED BY <1>1, <1>4 DEF ObjectTable, Table, list

LEMMA SoundInit ==
  ASSUME Init, Settled
  PROVE  SoundInv
<1>0. /\ \A n \in Names : bound[n] = Unbound
      /\ callables = <<>> /\ installations = <<>> /\ position = 1
      /\ operators = [o \in Operators |-> <<>>]
      /\ DOMAIN values = Names \cup Copied \cup Called
      /\ DOMAIN methods = Operators \cup DOMAIN Callables
      /\ TypesInv
  BY DEF Init, Settled
<1>1. /\ \A o \in DOMAIN Callables : methods[o] = ObjectTable(Callables[o])
      /\ \A o \in Operators :
           /\ IsCallable(o) => methods[o] = ObjectTable(Callables[Record(o)])
           /\ ~IsCallable(o) => methods[o] = NoMethods(Unspecified)
  BY ProgramAssumption DEF Init, IsCallable, Record
<1>2. ListsTyped
  <2>1. <<>> \in Seq(1..Len(installations))
    BY EmptySeq
  <2>. QED BY <1>0, <2>1 DEF ListsTyped, Unbound
<1>3. MethodsTyped
  <2>1. NoMethods(Unspecified) \in Table
    BY DEF NoMethods, Table, Announcements
  <2>2. \A f \in DOMAIN methods : methods[f] \in Table
    BY <1>0, <1>1, <2>1, ObjectTableTyped DEF IsCallable
  <2>3. methods = [f \in DOMAIN methods |-> methods[f]]
    BY DEF Init
  <2>4. methods \in [DOMAIN methods -> Table]
    BY <2>2, <2>3
  <2>. QED BY <1>0, <2>4 DEF MethodsTyped, Table
<1>4. \A n : n \in Names => ~Visible(n, bound) /\ ~Tracked(n)
  BY <1>0 DEF Visible, Tracked, Unbound
<1>5. RangesHold
  <2>1. \A t \in DOMAIN BaseUp : t \in Known
    BY <1>0 DEF TypesInv
  <2>2. ASSUME NEW n \in DOMAIN values PROVE values[n].class \in Known
    <3>1. RegistryInv /\ values[n] = Meaning(n)
      BY <1>0, <2>2 DEF Init, Meaning, Record, Settled
    <3>2. CASE Record(n) = NoObject
      BY <2>1, <3>1, <3>2, RolesAssumption DEF Meaning, Value
    <3>3. CASE Record(n) # NoObject
      <4>1. Record(n) \in DOMAIN ObjectClass
        BY <3>1, <3>3, RecordIs
      <4>2. ObjectClass[Record(n)] \in Known
        BY <2>1, <4>1, ObjectsAssumption
      <4>. QED BY <3>1, <3>3, <4>2 DEF Meaning, ObjectValue, Value
    <3>. QED BY <3>2, <3>3
  <2>. QED BY <1>4, <2>2 DEF RangesHold
<1>6. FunctionsHold
  BY <1>4 DEF FunctionsHold
<1>7. OperatorsHold
  <2>1. Installed(<<>>) = {}
    BY DEF Installed, Effective
  <2>. QED BY <1>0, <1>1, <2>1 DEF OperatorsHold, NoMethods
<1>8. ObjectsHold
  BY <1>1 DEF ObjectsHold
<1>. QED BY <1>2, <1>3, <1>5, <1>6, <1>7, <1>8 DEF SoundInv

LEMMA SettledAlways == Spec => []Settled
  BY RegistryAlways, BaselineAlways, TypesAlways, NamesAlways, PTL DEF Settled

LEMMA SoundStep ==
  ASSUME Language, Settled, Settled', SoundInv, [Next]_vars
  PROVE  SoundInv'
<1>0. OrderStays
  BY TypesStep DEF Settled
<1>1. ASSUME NEW name \in Names \ SourceTypes, NEW e \in Expressions, Assign(name, e)
      PROVE  SoundInv'
  BY <1>0, <1>1, AssignSound
<1>2. ASSUME NEW name \in SourceTypes, NEW parent \in Parents, NewType(name, parent)
      PROVE  SoundInv'
  BY <1>0, <1>2, NewTypeSound
<1>3. ASSUME NEW name \in Called, NEW codomain \in Codomains \cup {Unspecified},
             NEW domain \in Domains[name], Install(name, domain, codomain)
      PROVE  SoundInv'
  BY <1>0, <1>3, InstallSound
<1>4. ASSUME NEW operator \in Operators, NEW codomain \in Codomains \cup {Unspecified},
             NEW domain \in Domains[operator], InstallOperator(operator, domain, codomain)
      PROVE  SoundInv'
  BY <1>0, <1>4, InstallOperatorSound
<1>5. ASSUME NEW package \in DOMAIN Catalog, Package(package)
      PROVE  SoundInv'
  BY <1>0, <1>5, PackageSound
<1>6. CASE UNCHANGED vars
  BY <1>0, <1>6, QuietSound
<1>. QED BY <1>1, <1>2, <1>3, <1>4, <1>5, <1>6 DEF Next

LEMMA SoundAlways ==
  ASSUME Language
  PROVE  Spec => []SoundInv
<1>1. Init /\ Settled => SoundInv
  BY SoundInit
<1>2. Settled /\ Settled' /\ SoundInv /\ [Next]_vars => SoundInv'
  BY SoundStep
<1>. QED BY <1>1, <1>2, SettledAlways, PTL DEF Spec

\* In any language and program of the four kinds, and while the methods of every
\* callable are in one table, the value of any expression the program could go on with
\* is of a class that the range inferred for it has (type_of, application_type,
\* resolved_dispatch_codomain).
THEOREM InferenceAlwaysConservative ==
  ASSUME OperatorsAgree, FunctionsApply, ComparisonsAreBoolean, NamesAreTheirOwn
  PROVE  Spec => []ConservativeWhereWhole
<1>. Language
  BY DEF Language
<1>1. Settled /\ SoundInv => ConservativeWhereWhole
  <2>. SUFFICES ASSUME Settled, SoundInv, running, TablesAreWhole,
                       NEW e \in Expressions, NEW v \in ValuesOf(e, position)
                PROVE  Contains(TypeOf(e, bound), v.class)
    BY DEF ConservativeWhereWhole, Sound
  <2>1. Ready
    BY ReadyIs
  <2>2. Reading(bound)
    BY DEF Reading
  <2>3. Covers(TypeOf(e, bound), ValuesOf(e, position))
    BY <2>1, <2>2, ExpressionHolds
  <2>. QED BY <2>3 DEF Covers
<1>. QED BY <1>1, SettledAlways, SoundAlways, PTL

-----------------------------------------------------------------------------
(* What the analysis makes of an installation.                                 *)

\* A range that is of functions, and not of method functions, has none.
LEMMA PlainHasNoMethods ==
  ASSUME TypesInv, KindsAreAnnounced, NEW r \in Ranges, NEW c, Contains(r, c),
         HasRole(r, Function), ~HasRole(r, MethodFunction)
  PROVE  ~IsSubtype(c, MethodFunction)
<1>. SUFFICES ASSUME IsSubtype(c, MethodFunction) PROVE FALSE
  OBVIOUS
<1>0. Forest /\ IsSingle(r)
  BY DEF TypesInv, HasRole
<1>1. ASSUME NEW t, r.exact = {t}, r.generators = {} PROVE FALSE
  <2>1. c = t /\ Single(r) = t
    BY <1>1 DEF Contains, Single
  <2>. QED BY <1>0, <2>1 DEF HasRole
<1>2. ASSUME NEW t, r.generators = {t}, r.exact = {}, IsSubtype(t, Function) PROVE FALSE
  <2>1. Single(r) = t /\ IsSubtype(c, t) /\ ~IsSubtype(t, MethodFunction)
    BY <1>0, <1>2 DEF Contains, Single, HasRole
  <2>2. IsSubtype(MethodFunction, t)
    BY <1>0, <2>1, Comparable
  <2>3. t \in Announced /\ t \in DOMAIN BaseUp /\ MethodFunction \in DOMAIN BaseUp
    BY <1>2, AnnouncedAreTypes, RolesAssumption DEF Ranges
  <2>4. t \in BaseUp[MethodFunction] /\ Function \in BaseUp[t]
    BY <1>2, <2>2, <2>3 DEF TypesInv, IsSubtype
  <2>5. t \in {Thing} \cup Codomains \cup UNION {AnnouncedBy(o) : o \in DOMAIN Callables}
    BY <2>3 DEF Announced, Announcements
  <2>6. t = MethodFunction
    BY <2>4, <2>5 DEF KindsAreAnnounced
  <2>. QED BY <1>0, <2>1, <2>2, <2>6
<1>. QED BY <1>1, <1>2, RoleOfRange

\* callable_head_kind, of a name that no package has taken.
LEMMA KindIsReal ==
  ASSUME Ready, KindsAreAnnounced, NEW name \in Called,
         ~(name \in Names /\ bound[name].from # 0 /\ ~Visible(name, bound))
  PROVE  /\ HeadKind(name) = "plain" => ~IsSubtype(values[name].class, MethodFunction)
         /\ HeadKind(name) = "method" => IsSubtype(values[name].class, MethodFunction)
<1>. DEFINE state == bound[name]
            class == values[name].class
<1>0. /\ TypesInv /\ Forest /\ NamesTyped /\ RegistryInv /\ ObjectsAreFunctions /\ RangesHold
      /\ MethodFunction \in Known /\ FunctionClosure \in DOMAIN BaseUp
      /\ IsSubtype(MethodFunction, MethodFunction)
      /\ ~IsSubtype(FunctionClosure, MethodFunction)
      /\ name \in DOMAIN values
  <2>1. TypesInv /\ Forest /\ MethodFunction \in Known /\ FunctionClosure \in DOMAIN BaseUp
    BY RolesAssumption DEF Ready, TypesInv
  <2>2. ~IsSubtype(FunctionClosure, MethodFunction)
    BY <2>1, RolesAssumption DEF TypesInv, IsSubtype
  <2>. QED BY <2>1, <2>2, Reflexive DEF Ready, NamesInv, NamesTyped
<1>1. CASE name \in Names /\ state.from # 0
  <2>0. Visible(name, bound)
    BY <1>1
  <2>1. HeadKind(name) =
          CASE state.object # 0 -> IF callables[state.object].method THEN "method" ELSE "plain"
            [] state.range = NoRange -> "unknown"
            [] OTHER -> IF HasRole(state.range, MethodFunction) THEN "method"
                        ELSE IF HasRole(state.range, Function) THEN "plain" ELSE "unknown"
    BY <1>1 DEF HeadKind
  <2>2. CASE state.object # 0
    <3>1. Tracked(name)
      BY <2>0, <2>2 DEF Tracked
    <3>2. /\ callables[state.object].method => class = MethodFunction
          /\ callables[state.object].method \/ class = FunctionClosure
          /\ callables[state.object].method \in BOOLEAN
      BY <1>1, <3>1, TrackedIs DEF KnownWell, FunctionInfos
    <3>. QED BY <1>0, <2>1, <2>2, <3>2
  <2>3. CASE state.object = 0 /\ state.range = NoRange
    BY <2>1, <2>3
  <2>4. CASE state.object = 0 /\ state.range # NoRange
    <3>1. state.range \in Ranges /\ Contains(state.range, class)
      BY <1>0, <1>1, <2>0, <2>4 DEF RangesHold
    <3>2. HasRole(state.range, MethodFunction) => IsSubtype(class, MethodFunction)
      BY <1>0, <3>1, RoleOfContents
    <3>3. HasRole(state.range, Function) /\ ~HasRole(state.range, MethodFunction)
            => ~IsSubtype(class, MethodFunction)
      BY <1>0, <3>1, PlainHasNoMethods
    <3>. QED BY <2>1, <2>4, <3>2, <3>3
  <2>. QED BY <2>2, <2>3, <2>4
<1>2. CASE ~(name \in Names /\ state.from # 0)
  <2>1. HeadKind(name) = IF ~IsCallable(name) THEN "unknown"
                         ELSE IF IsSubtype(ObjectClass[Record(name)], MethodFunction)
                         THEN "method" ELSE "plain"
    BY <1>2 DEF HeadKind
  <2>2. values[name] = Meaning(name)
    BY <1>0, <1>2 DEF ObjectsAreFunctions, Visible
  <2>3. IsCallable(name) => class = ObjectClass[Record(name)]
    <3>1. Record(name) # NoObject => ObjectValue(Record(name)).class = ObjectClass[Record(name)]
      BY DEF ObjectValue, Value
    <3>2. IsCallable(name) => Record(name) # NoObject
      BY ObjectsAssumption DEF IsCallable
    <3>. QED BY <2>2, <3>1, <3>2 DEF Meaning
  <2>. QED BY <2>1, <2>3
<1>. QED BY <1>1, <1>2

LEMMA EffectsNext ==
  ASSUME Language, KindsAreAnnounced, Settled, Settled', SoundInv, EffectsAreReal, [Next]_vars
  PROVE  EffectsAreReal'
<1>0. /\ RegistryInv /\ BaselineInv /\ RegistryInv' /\ BaselineInv' /\ OperatorsAgree
      /\ NamesTyped /\ IndexedApart /\ installations \in Seq(Installation)
      /\ installations' \in Seq(Installation) /\ Len(installations) \in Nat
  BY LenProperties DEF Settled, NamesInv, NamesTyped, Language
<1>1. ASSUME installations' = installations, indexed' = <<>> => indexed = <<>>
      PROVE  EffectsAreReal'
  <2>1. Growing
    BY <1>1 DEF Growing
  <2>2. \A one \in Installation : installations' # Append(installations, one)
    <3>1. \A one : Len(Append(installations, one)) = Len(installations) + 1
      BY <1>0
    <3>2. Len(installations) + 1 # Len(installations)
      BY <1>0
    <3>. QED BY <1>1, <3>1, <3>2
  <2>. QED BY <1>0, <1>1, <2>1, <2>2, EffectsStep
<1>2. ASSUME NEW one \in Installation, installations' = Append(installations, one),
             indexed' = indexed,
             TablesAreWhole /\ ~one.taken => /\ one.effect = "Rejected" => ~one.runs
                                             /\ one.effect = "Effective" => one.runs
      PROVE  EffectsAreReal'
  <2>1. Growing
    BY <1>2 DEF Growing
  <2>2. ASSUME NEW other \in Installation, installations' = Append(installations, other)
        PROVE  other = one
    <3>1. \A x : Append(installations, x)[Len(installations) + 1] = x
      BY <1>0
    <3>. QED BY <1>2, <2>2, <3>1
  <2>. QED BY <1>0, <1>2, <2>1, <2>2, EffectsStep
<1>3. ASSUME NEW name \in Names \ SourceTypes, NEW e \in Expressions, Assign(name, e)
      PROVE  EffectsAreReal'
  <2>1. DOMAIN indexed \subseteq DOMAIN indexed'
    BY <1>0, <1>3, AssignMakes
  <2>2. indexed' = <<>> => indexed = <<>>
    <3>1. installations' = installations /\ (indexed' = indexed \/ DOMAIN indexed' # {})
      BY <1>3 DEF Assign, With
    <3>. QED BY <3>1
  <2>3. installations' = installations
    BY <1>3 DEF Assign
  <2>. QED BY <1>1, <2>2, <2>3
<1>4. ASSUME NEW name \in Called, NEW codomain \in Codomains \cup {Unspecified},
             NEW domain \in Domains[name], Install(name, domain, codomain)
      PROVE  EffectsAreReal'
  <2>. DEFINE object == HeadObject(name)
              one == [head |-> name, domain |-> domain,
                      codomain |-> IF codomain = Unspecified /\ object # 0
                                   THEN callables[object].typical ELSE codomain,
                      object |-> object, effect |-> Effect(HeadKind(name)),
                      runs |-> IsSubtype(values[name].class, MethodFunction),
                      taken |-> name \in Names /\ bound[name].from # 0
                                /\ ~Visible(name, bound)]
  <2>1. /\ installations' = Append(installations, one) /\ indexed' = indexed
        /\ one.effect = Effect(HeadKind(name))
        /\ one.runs <=> IsSubtype(values[name].class, MethodFunction)
        /\ one.taken <=> name \in Names /\ bound[name].from # 0 /\ ~Visible(name, bound)
    BY <1>4 DEF Install
  <2>. HIDE DEF one, object
  <2>2. one \in Installation
    <3>1. /\ Len(installations') = Len(installations) + 1
          /\ installations'[Len(installations) + 1] = one
      BY <1>0, <2>1
    <3>2. Len(installations) + 1 \in 1..Len(installations')
      BY <1>0, <3>1
    <3>. QED BY <1>0, <3>1, <3>2, ElementOfSeq
  <2>3. ASSUME TablesAreWhole, ~one.taken
        PROVE  /\ one.effect = "Rejected" => ~one.runs
               /\ one.effect = "Effective" => one.runs
    <3>1. Ready
      BY <1>4, <2>3, ReadyIs DEF Install, Read
    <3>2. /\ Effect(HeadKind(name)) = "Rejected" => HeadKind(name) = "plain"
          /\ Effect(HeadKind(name)) = "Effective" => HeadKind(name) = "method"
      BY HeadKinds DEF Effect
    <3>. QED BY <2>1, <2>3, <3>1, <3>2, KindIsReal
  <2>. QED BY <1>2, <2>1, <2>2, <2>3
<1>5. ASSUME NEW operator \in Operators, NEW codomain \in Codomains \cup {Unspecified},
             NEW domain \in Domains[operator], InstallOperator(operator, domain, codomain)
      PROVE  EffectsAreReal'
  <2>. DEFINE one == [head |-> operator, domain |-> domain, codomain |-> codomain, object |-> 0,
                      effect |-> "Effective", runs |-> TRUE, taken |-> FALSE]
  <2>1. installations' = Append(installations, one) /\ indexed' = indexed
    BY <1>5 DEF InstallOperator
  <2>2. one \in Installation
    BY ProgramAssumption DEF Installation, Announcements
  <2>. QED BY <1>2, <2>1, <2>2
<1>6. ASSUME \/ \E name \in SourceTypes, parent \in Parents : NewType(name, parent)
             \/ \E package \in DOMAIN Catalog : Package(package)
             \/ UNCHANGED vars
      PROVE  EffectsAreReal'
  <2>1. installations' = installations /\ indexed' = indexed
    BY <1>6 DEF NewType, Package, vars, analysisVars
  <2>. QED BY <1>1, <2>1
<1>. QED BY <1>3, <1>4, <1>5, <1>6 DEF Next

\* The two sets of a followed function's methods, as the property has them.
LEMMA InstalledAsProperty ==
  ASSUME Ready, NEW n \in Names, Tracked(n)
  PROVE  LET function == callables[bound[n].object]
             table == InstalledOn(function.installed)
             run == methods[values[n].function]
         IN  function.method =>
               {[domain |-> table[i].domain, codomain |-> table[i].codomain] : i \in DOMAIN table}
                 = {[m EXCEPT !.codomain = IF @ = Unspecified THEN run.typical ELSE @] :
                      m \in run.methods}
<1>. DEFINE function == callables[bound[n].object]
            list == function.installed
            table == InstalledOn(list)
            run == methods[values[n].function]
<1>1. function.method => Announcing(run) = InstalledOf(installations, list)
  BY TrackedIs DEF KnownWell
<1>2. run \in Table
  BY TrackedIs DEF Ready, MethodsTyped, Table
<1>3. {[m EXCEPT !.codomain = IF @ = Unspecified THEN run.typical ELSE @] : m \in run.methods}
        = Announcing(run)
  <2>. DEFINE announced(m) == [m EXCEPT !.codomain = IF @ = Unspecified THEN run.typical ELSE @]
              named(m) == [domain |-> m.domain,
                           codomain |-> IF m.codomain = Unspecified THEN run.typical
                                        ELSE m.codomain]
  <2>1. \A m \in run.methods : announced(m) = named(m)
    BY <1>2 DEF Table, MethodRecord
  <2>2. Announcing(run) = {named(m) : m \in run.methods}
    BY DEF Announcing
  <2>3. {announced(m) : m \in run.methods} = {named(m) : m \in run.methods}
    <3>. HIDE DEF announced, named, run
    <3>. QED BY <2>1
  <2>. QED BY <2>2, <2>3
<1>4. {[domain |-> table[i].domain, codomain |-> table[i].codomain] : i \in DOMAIN table}
        = InstalledOf(installations, list)
  <2>. DEFINE all == [k \in DOMAIN list |-> installations[list[k]]]
  <2>1. DOMAIN table = Effective(all) /\ \A k \in Effective(all) : table[k] = all[k]
    BY DEF InstalledOn
  <2>2. \A k \in Effective(all) : all[k] = installations[list[k]]
    BY DEF Effective
  <2>3. InstalledOf(installations, list) =
          {[domain |-> m.domain, codomain |-> m.codomain] :
             m \in {installations[list[k]] : k \in Effective(all)}}
    BY DEF InstalledOf
  <2>. HIDE DEF all, table, list
  <2>. QED BY <2>1, <2>2, <2>3
<1>. QED BY <1>1, <1>3, <1>4

\* If moreover nothing announces a function that is a method function or another one:
\* a function that the analysis follows has the methods it knows of, whatever name they
\* were installed under, what it rejects fails and what it says takes effect does
\* (callable_head_kind, record_method_installation).
THEOREM InstallationsAlwaysAsTheyRun ==
  ASSUME OperatorsAgree, FunctionsApply, ComparisonsAreBoolean, NamesAreTheirOwn,
         KindsAreAnnounced
  PROVE  Spec => []InstallationsAreAsTheyRun
<1>. Language
  BY DEF Language
<1>1. Init => EffectsAreReal
  BY DEF Init, EffectsAreReal
<1>2. Settled /\ Settled' /\ SoundInv /\ EffectsAreReal /\ [Next]_vars => EffectsAreReal'
  BY EffectsNext
<1>3. Settled /\ SoundInv => InstalledWhereTheyRun
  <2>. SUFFICES ASSUME Settled, SoundInv, running, TablesAreWhole PROVE InstalledWhereTheyRun
    BY DEF InstalledWhereTheyRun
  <2>1. Ready
    BY ReadyIs
  <2>. QED BY <2>1, InstalledAsProperty DEF InstalledWhereTheyRun, Tracked
<1>. QED BY <1>1, <1>2, <1>3, SettledAlways, SoundAlways, PTL DEF Spec, InstallationsAreAsTheyRun

=============================================================================
