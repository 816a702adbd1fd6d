-------------------------------- MODULE Scopes --------------------------------
(***************************************************************************)
(* Scopes and bindings of one text: the first pass of                      *)
(* src/src/analysis/first_pass.rs, the registry of src/src/analysis.rs it  *)
(* fills, the lookups in it, and what rename, the unused-variable rule and *)
(* the outline make of them.                                               *)
(*                                                                         *)
(* The walk and the text it walks over grow together: every action reads   *)
(* the next piece of a program, so the states with nothing open are all    *)
(* the programs of a length.  A program is a sequence of tokens, and a     *)
(* position is the number of a token.  A token is a symbol or anything     *)
(* else that separates places: an operator, a bracket, a literal.          *)
(*                                                                         *)
(* Scopes are numbered from 1, the file, and not from 0.                   *)
(***************************************************************************)
EXTENDS SequencesExt, FiniteSetsExt, Integers

CONSTANTS Names,     \* symbols that are bound
          Other,     \* any other token
          Fresh,     \* a name no text has
          Targets    \* what is assigned to: sequences of names

CONSTANTS MaxTokens, MaxScopes   \* bounds of a program

ASSUME ScopesAssumption ==
  /\ Other \notin Names /\ Fresh \notin Names /\ Fresh # Other
  /\ Targets \subseteq Seq(Names) \ {<<>>}
  /\ MaxTokens \in Nat /\ MaxScopes \in Nat

VARIABLES symbols,   \* the tokens read, with the scope the walk was in
          scopes,    \* ScopeTree
          context,   \* TraversalContext: scope and assignment scope
          open,      \* the syntax nodes being visited, outermost first
          facts      \* BindingFacts, in the order they are collected

vars == <<symbols, scopes, context, open, facts>>

None == 0
EndOfText == MaxTokens + 2   \* pos_max, past the end of every node
NoValue == [start |-> 0, stop |-> 0]
File == [start |-> 1, stop |-> EndOfText, parent |-> None, escape |-> FALSE]

-----------------------------------------------------------------------------
(* The walk. *)

Here == Len(symbols) + 1

Read(names, scope) ==
  symbols' = symbols \o [i \in DOMAIN names |->
                           [name |-> names[i], scope |-> scope]]

\* ScopeTree::push_range.  The end is known when the node is left.
PushRange(start, mayEscape) ==
  scopes' = Append(scopes, [start |-> start, stop |-> EndOfText,
                            parent |-> context.scope, escape |-> mayEscape])

\* What push_range returns.
Pushed == Len(scopes) + 1

\* BindingFact of the target at a place.
Fact(name, at, role, effect, where) ==
  LET scope == IF effect = "Declare" THEN where.scope
               ELSE where.assignmentScope
  IN  [name |-> name, at |-> at, value |-> NoValue, role |-> role,
       effect |-> effect, scope |-> scope,
       export |-> /\ role = "Ordinary"
                  /\ \/ scope = 1
                     \/ effect = "Assign" /\ scopes[scope].escape]

\* bind_symbols
Bind(names, from, role, effect, where) ==
  facts \o [i \in DOMAIN names |->
              Fact(names[i], from + i - 1, role, effect, where)]

Node(kind, scope, from, collected) ==
  [kind |-> kind, inherited |-> context, scope |-> scope, from |-> from,
   facts |-> collected]

Enter(node) == open' = Append(open, node)

\* Room for the tokens of a node and for something inside it.
Room(tokens) == Len(symbols) + tokens < MaxTokens
RoomForScope == Len(scopes) < MaxScopes

\* The parts of a for loop other than its variable are clauses.
InExpression == open # <<>> => Last(open).kind # "for"

ReadToken ==
  /\ InExpression /\ Len(symbols) < MaxTokens
  /\ \E name \in Names \cup {Other} : Read(<<name>>, context.scope)
  /\ UNCHANGED <<scopes, context, open, facts>>

\* visit_assignment, collect_bindings: x = value, x := value, (x, y) = value.
OpenAssignment ==
  /\ InExpression
  /\ \E names \in Targets, effect \in {"Declare", "Assign"} :
       /\ Room(Len(names))
       /\ Read(names, context.scope)
       /\ facts' = Bind(names, Here, "Ordinary", effect, context)
       /\ Enter(Node("assignment", None, Here + Len(names),
                     (Len(facts) + 1)..(Len(facts) + Len(names))))
  /\ UNCHANGED <<scopes, context>>

\* visit_lambda_expression: a lambda has a scope of its own, for its
\* parameters, its declarations and its assignments.
OpenLambda ==
  /\ InExpression /\ RoomForScope /\ Room(1)
  /\ PushRange(Here, TRUE)
  /\ context' = [scope |-> Pushed, assignmentScope |-> Pushed]
  /\ \E name \in Names \cup {Other} :
       /\ Read(<<name>>, Pushed)
       /\ facts' = IF name = Other THEN facts
                   ELSE Bind(<<name>>, Here, "Parameter", "Declare", context')
  /\ Enter(Node("lambda", Pushed, Here + 1, {}))

\* visit_for_loop: a scope for the variable; assignments go through.
OpenFor ==
  /\ InExpression /\ RoomForScope /\ Room(2)
  /\ Len(scopes) + 1 < MaxScopes
  /\ PushRange(Here, FALSE)
  /\ context' = [context EXCEPT !.scope = Pushed]
  /\ \E name \in Names :
       /\ Read(<<name>>, Pushed)
       /\ facts' = Bind(<<name>>, Here, "Parameter", "Declare", context')
  /\ Enter(Node("for", Pushed, Here + 1, {}))

\* ControlFlowScope::assignment_scope
AssignmentScope(kind, nested, inherited) ==
  IF kind = "Branch" THEN nested ELSE inherited

\* with_control_scope: a branch of if or try, a clause of for or while.  Its
\* keyword is inside its range (then, else, do, when) or before it (the
\* condition of if and while, the value of try).
OpenClause ==
  /\ RoomForScope /\ Room(1)
  /\ \E kind \in {"Branch", "LoopClause"}, keyword \in BOOLEAN :
       /\ ~InExpression => kind = "LoopClause" /\ keyword
       /\ PushRange(IF keyword THEN Here ELSE Here + 1, kind = "Branch")
       /\ context' = [scope |-> Pushed,
                      assignmentScope |->
                        AssignmentScope(kind, Pushed, context.assignmentScope)]
       /\ Read(<<Other>>, IF keyword THEN Pushed ELSE context.scope)
  /\ Enter(Node("clause", Pushed, Here + 1, {}))
  /\ UNCHANGED facts

\* A node ends when something is in it: the context is the inherited one again,
\* and its scope or the values it gives have their end.
Close ==
  /\ open # <<>>
  /\ LET node == Last(open)
     IN  /\ Here > node.from
         /\ context' = node.inherited
         /\ scopes' = [s \in DOMAIN scopes |->
                         IF s = node.scope
                         THEN [scopes[s] EXCEPT !.stop = Here] ELSE scopes[s]]
         /\ facts' = [i \in DOMAIN facts |->
                        IF i \in node.facts
                        THEN [facts[i] EXCEPT
                                !.value = [start |-> node.from, stop |-> Here]]
                        ELSE facts[i]]
         /\ open' = Front(open)
         /\ UNCHANGED symbols

Init ==
  /\ symbols = <<>> /\ facts = <<>> /\ open = <<>>
  /\ scopes = <<File>>
  /\ context = [scope |-> 1, assignmentScope |-> 1]

Next ==
  ReadToken \/ OpenAssignment \/ OpenLambda \/ OpenFor \/ OpenClause \/ Close

Spec == Init /\ [][Next]_vars

Complete == open = <<>>

-----------------------------------------------------------------------------
(* The registry of bindings. *)

\* A scope and its ancestors.
Chain(scope) ==
  LET chain[s \in DOMAIN scopes] ==
        IF s = 1 THEN {1} ELSE {s} \cup chain[scopes[s].parent]
  IN  chain[scope]

\* max_by_key over positions: bindings of a name never share one.
LastOf(bindings, found) ==
  CHOOSE b \in found : \A c \in found : bindings[c].at <= bindings[b].at

\* Mutant: a binding does not count at its own place.
BindingBefore(bindings, name, scope, position) ==
  LET found(s) == {b \in DOMAIN bindings :
                     /\ bindings[b].name = name /\ bindings[b].scope = s
                     /\ s = scope => bindings[b].at < position}
      homes == {s \in Chain(scope) : found(s) # {}}
  IN  IF homes = {} THEN None ELSE LastOf(bindings, found(Max(homes)))

\* binding_id_from_scope_in: the innermost scope with a binding of the name.
\* In the scope of the use itself only what comes before counts.
BindingFromScope(bindings, name, scope, position) ==
  LET found(s) == {b \in DOMAIN bindings :
                     /\ bindings[b].name = name /\ bindings[b].scope = s
                     /\ s = scope => bindings[b].at <= position}
      homes == {s \in Chain(scope) : found(s) # {}}
  IN  IF homes = {} THEN None ELSE LastOf(bindings, found(Max(homes)))

StateOf(fact) == [at |-> fact.at, value |-> fact.value, scope |-> fact.scope]

AddBinding(bindings, fact) ==
  Append(bindings, [name |-> fact.name, at |-> fact.at, scope |-> fact.scope,
                    role |-> fact.role, export |-> fact.export,
                    byAssignment |-> fact.effect = "Assign",
                    states |-> <<StateOf(fact)>>])

AddBindingState(bindings, b, fact) ==
  [bindings EXCEPT ![b].states = Append(@, StateOf(fact))]

\* collect_definition: an assignment is a state of a binding of its own scope,
\* or a binding of its own.
CollectDefinition(bindings, fact) ==
  LET b == BindingFromScope(bindings, fact.name, fact.scope, fact.at)
  IN  IF fact.effect = "Assign" /\ b # None /\ bindings[b].scope = fact.scope
      THEN AddBindingState(bindings, b, fact) ELSE AddBinding(bindings, fact)

RegistryOf(collected) == FoldLeft(CollectDefinition, <<>>, collected)

-----------------------------------------------------------------------------
(* Lookups. *)

ContainsPosition(s, position) ==
  scopes[s].start <= position /\ position < scopes[s].stop

\* TextRangeExt::is_inside
IsInside(s, outer) ==
  /\ scopes[s].start >= scopes[outer].start
  /\ scopes[s].stop <= scopes[outer].stop
  /\ <<scopes[s].start, scopes[s].stop>>
       # <<scopes[outer].start, scopes[outer].stop>>

\* Mutant: the first scope that contains the position.
FirstAt(position) == Min({s \in DOMAIN scopes : ContainsPosition(s, position)})

\* ScopeTree::at: no scope inside this one contains the position.  Of scopes
\* with one range min_by keeps the first.
At(position) ==
  LET around == {s \in DOMAIN scopes : ContainsPosition(s, position)}
  IN  Min({s \in around : ~\E t \in around : IsInside(t, s)})

EffectiveFrom(state) ==
  IF state.value = NoValue THEN state.at + 1 ELSE state.value.stop

\* binding_state_from_scope: the state whose target is here, or else the one
\* that took effect last.
StateFromScope(binding, scope, position) ==
  LET here(s) == {k \in DOMAIN binding.states :
                    /\ binding.states[k].scope = s
                    /\ binding.states[k].at = position}
      done(s) == {k \in DOMAIN binding.states :
                    /\ binding.states[k].scope = s
                    /\ s = scope => EffectiveFrom(binding.states[k]) <= position}
      homes == {s \in Chain(scope) : here(s) \cup done(s) # {}}
      last(ks) == CHOOSE k \in ks : \A j \in ks :
                    LET e == EffectiveFrom(binding.states[j])
                        f == EffectiveFrom(binding.states[k])
                    IN  e < f \/ (e = f /\ j <= k)
  IN  IF homes = {} THEN 1
      ELSE IF here(Max(homes)) # {} THEN Min(here(Max(homes)))
      ELSE last(done(Max(homes)))

\* Mutant: the bindings of the scope alone.
OwnBindings(bindings, scope) ==
  {bindings[b].name : b \in {c \in DOMAIN bindings :
                               bindings[c].scope = scope}}

\* in_scope_bindings: what completion offers.
InScopeBindings(bindings, scope) ==
  {bindings[b].name : b \in {c \in DOMAIN bindings :
                               bindings[c].scope \in Chain(scope)}}

-----------------------------------------------------------------------------
(* References and rename within the document. *)

\* The analysis of a text: the name and the scope of each token, the bindings.
Text == [names    |-> [p \in DOMAIN symbols |-> symbols[p].name],
         at       |-> [p \in DOMAIN symbols |-> At(p)],
         bindings |-> RegistryOf(facts)]

\* binding_id_at
Bound(text, p) ==
  BindingFromScope(text.bindings, text.names[p], text.at[p], p)

\* Where the binding of a token is introduced; None for a token without one.
Anchor(text, p) ==
  LET b == Bound(text, p) IN IF b = None THEN None ELSE text.bindings[b].at

Uses(text) == {p \in DOMAIN text.names : text.names[p] # Other}

\* Mutant: uses in inner scopes are left out.
ReferencesInScope(text, b) ==
  {p \in Uses(text) : Bound(text, p) = b
                      /\ text.at[p] = text.bindings[b].scope}

\* reference_ranges_resolved, with the declaration.  A binding is known by the
\* place of its declaration.
ReferenceRanges(text, b) ==
  {p \in Uses(text) : Bound(text, p) = b}

\* global_reference_ranges
GlobalReferenceRanges(text, name) ==
  {p \in Uses(text) : /\ text.names[p] = name
                      /\ Bound(text, p) # None =>
                           text.bindings[Bound(text, p)].scope = 1}

\* rename: what is edited when a token with this binding is renamed.
RenameRanges(text, b) ==
  IF text.bindings[b].scope = 1
  THEN GlobalReferenceRanges(text, text.bindings[b].name)
  ELSE ReferenceRanges(text, b)

\* The analysis of the text after the edits.
Renamed(text, edited) ==
  [text EXCEPT
     !.names = [p \in DOMAIN @ |-> IF p \in edited THEN Fresh ELSE @[p]],
     !.bindings = RegistryOf([i \in DOMAIN facts |->
                    IF facts[i].at \in edited
                    THEN [facts[i] EXCEPT !.name = Fresh] ELSE facts[i]])]

-----------------------------------------------------------------------------
(* The unused-variable rule. *)

\* Mutant: a use in a closure is not seen.
UsedInScope(text) ==
  {b \in DOMAIN text.bindings :
     \E p \in Uses(text) : /\ Bound(text, p) = b /\ p # text.bindings[b].at
                           /\ text.at[p] = text.bindings[b].scope}

UsedBindings(text) ==
  {b \in DOMAIN text.bindings :
     \E p \in Uses(text) : Bound(text, p) = b /\ p # text.bindings[b].at}

\* diagnose_unused_bindings
Reported(text) ==
  {b \in DOMAIN text.bindings \ UsedBindings(text) :
     text.bindings[b].role = "Ordinary" /\ ~text.bindings[b].export}

\* The analysis of the text when what introduces a binding is deleted.
Without(text, b) ==
  LET i == CHOOSE j \in DOMAIN facts : facts[j].at = text.bindings[b].at
  IN  [text EXCEPT !.bindings = RegistryOf(RemoveAt(facts, i))]

-----------------------------------------------------------------------------
(* The outline. *)

\* ScopeTree::with_range
WithRange(range) ==
  LET same == {s \in DOMAIN scopes : scopes[s].start = range.start
                                     /\ scopes[s].stop = range.stop}
  IN  IF same = {} THEN None ELSE Min(same)

\* The declarations of the document's symbols: the states of bindings that are
\* not parameters, in the order of the bindings, with the scope of their value.
Declarations(bindings) ==
  LET ordinary == {b \in DOMAIN bindings : bindings[b].role = "Ordinary"}
  IN  UNION {{[at |-> bindings[b].states[k].at,
               scope |-> bindings[b].states[k].scope,
               child |-> WithRange(bindings[b].states[k].value)] :
                 k \in DOMAIN bindings[b].states} : b \in ordinary}

Containers(declarations) ==
  {1} \cup ({d.child : d \in declarations} \ {None})

\* Mutant: the scope itself, container or not.
OwnScope(declarations, scope) == scope

\* nearest_container_scope
NearestContainer(declarations, scope) ==
  Max(Chain(scope) \cap Containers(declarations))

\* build_scope_symbols: from the file down, the declarations of a scope go under
\* the declaration that has it as its child.
Outlined(declarations) ==
  LET of(d) == NearestContainer(declarations, d.scope)
      below(reached, s) ==
        reached \cup {d.child : d \in {c \in declarations : of(c) \in reached}}
      reached == FoldLeft(below, {1}, [s \in DOMAIN scopes |-> s])
  IN  {d \in declarations : of(d) \in reached}

-----------------------------------------------------------------------------
(* Properties, of every program. *)

\* Tokens, contexts, scopes and facts name scopes that exist, and parents come
\* before their children, so that every lookup that climbs ends at the file.
ContextOK(c) == c.scope \in DOMAIN scopes /\ c.assignmentScope \in 1..c.scope

TypeOK ==
  /\ \A p \in DOMAIN symbols : /\ symbols[p].name \in Names \cup {Other}
                               /\ symbols[p].scope \in DOMAIN scopes
  /\ \A s \in DOMAIN scopes \ {1} : scopes[s].parent \in 1..(s - 1)
  /\ ContextOK(context) /\ \A i \in DOMAIN open : ContextOK(open[i].inherited)
  /\ \A i \in DOMAIN facts : facts[i].scope \in DOMAIN scopes

\* The walk knows the scope of a token by nesting, and every later request by
\* its position.  They agree, up to scopes of one range, which only the walk
\* can tell apart.
PositionsFindTheirScope ==
  Complete => \A p \in DOMAIN symbols :
    LET at == scopes[At(p)]
        in == scopes[symbols[p].scope]
    IN  at.start = in.start /\ at.stop = in.stop

\* No clause is of the same range as a lambda or a loop in it.
RangesDiffer ==
  \A s, t \in DOMAIN scopes :
    s # t => \/ scopes[s].start # scopes[t].start
             \/ scopes[s].stop # scopes[t].stop

\* The target of each assignment and declaration of a binding is looked up as
\* that binding, in the state that starts there.
FindsItself(text, b) ==
  \A k \in DOMAIN text.bindings[b].states :
    LET p == text.bindings[b].states[k].at
    IN  /\ Bound(text, p) = b
        /\ StateFromScope(text.bindings[b], text.at[p], p) = k

\* A binding finds itself at each of its targets, however often its name is
\* bound around and after it: it may fail to only where an assignment goes
\* through a loop clause, or where a clause is a lambda or a loop as it stands.
DefinitionsFindThemselves ==
  Complete /\ RangesDiffer =>
    LET text == Text
    IN  \A b \in DOMAIN text.bindings :
          (\A k \in DOMAIN text.bindings[b].states :
             symbols[text.bindings[b].states[k].at].scope = text.bindings[b].scope)
          => FindsItself(text, b)

\* All states of a binding are assigned in the scope it is declared in: x = 2 in
\* a lambda makes a variable of the lambda and never a state of an x outside,
\* which is what lets a binding be filed under one scope.
AssignmentsStayInTheirScope ==
  Complete => LET bindings == RegistryOf(facts)
              IN  \A b \in DOMAIN bindings : \A k \in DOMAIN bindings[b].states :
                    bindings[b].states[k].scope = bindings[b].scope

\* The registry holds together: both of the above.
DefinitionsHold == DefinitionsFindThemselves /\ AssignmentsStayInTheirScope

\* After a rename to a fresh name, the text is analysed anew and every token is
\* bound where it was before: no use is lost, captured or left behind.  The
\* only way to break this is a definition that is not found at its own place.
RenameKeepsMeaning ==
  Complete =>
    LET text == Text
    IN  (\A b \in DOMAIN text.bindings : FindsItself(text, b)) =>
          \A b \in DOMAIN text.bindings :
            LET after == Renamed(text, RenameRanges(text, b))
            IN  \A q \in Uses(text) : Anchor(after, q) = Anchor(text, q)

\* A variable that is reported as unused can be deleted: the text without its
\* definition binds every other token as before.
UnusedCanGo ==
  Complete =>
    LET text == Text
    IN  \A b \in Reported(text) :
          LET left == Without(text, b)
          IN  \A q \in Uses(text) \ {text.bindings[b].at} :
                Anchor(left, q) = Anchor(text, q)

\* "escaping callback assignments must not be reported as unused"
\* (src/tests/pipeline/analysis.rs:1278): whatever x = value stands in, it may
\* be seen from outside.
AssignmentsMayEscape ==
  \A i \in DOMAIN facts : facts[i].effect = "Assign" => facts[i].export

\* The tree of the outline is built downwards from the file, taking the list of
\* each scope once: no declaration hangs under a scope that is never reached.
OutlineHoldsEveryState ==
  Complete => LET declarations == Declarations(RegistryOf(facts))
              IN  Outlined(declarations) = declarations

\* Completion and lookup climb the scopes each in its own way: a name that is
\* bound at a place is offered there.
CompletionOffersWhatResolves ==
  Complete => LET text == Text
              IN  \A p \in DOMAIN symbols, n \in Names :
                    BindingFromScope(text.bindings, n, text.at[p], p) # None =>
                      n \in InScopeBindings(text.bindings, text.at[p])

=============================================================================
