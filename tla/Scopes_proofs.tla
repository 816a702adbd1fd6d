----------------------------- MODULE Scopes_proofs -----------------------------
(***************************************************************************)
(* Proofs about the walk of Scopes, for programs of any length and depth.  *)
(* What the walk refers to exists, and an assignment is collected for a    *)
(* scope it may escape from (ScopesInv).  The scopes nest, and a position  *)
(* finds the scope that introduced it (NestInv).  The names of the text    *)
(* are those of the facts, and the registry made of the facts answers a    *)
(* lookup with the nearest introduction before the token.  From these the  *)
(* promises of the editor's requests follow: a definition is found from    *)
(* its own name, a rename binds every name as it was, an unused state can  *)
(* go, completion offers what resolves, and the outline loses no state.    *)
(***************************************************************************)
EXTENDS Scopes, Numbers_proofs, SequenceTheorems, TLAPS

ScopeRecords == [start : Nat, stop : Nat, parent : Nat, escape : BOOLEAN]
Contexts == [scope : Nat, assignmentScope : Nat]
Tokens == [name : Names \cup {Other}, scope : Nat]
Values == [start : Nat, stop : Nat]
Facts == [name : Names, at : Nat, value : Values,
          role : {"Parameter", "Ordinary"}, effect : {"Declare", "Assign"},
          scope : Nat, export : BOOLEAN]
Nodes == [kind : {"assignment", "lambda", "for", "clause"},
          inherited : Contexts, scope : Nat, from : Nat, facts : SUBSET Int]

Types ==
  /\ symbols \in Seq(Tokens) /\ scopes \in Seq(ScopeRecords)
  /\ context \in Contexts /\ open \in Seq(Nodes) /\ facts \in Seq(Facts)

\* A context of a tree: its scopes exist, and its assignments escape or are the
\* file's.
Fits(c, tree) ==
  /\ c.scope \in 1..Len(tree) /\ c.assignmentScope \in 1..c.scope
  /\ c.assignmentScope = 1 \/ tree[c.assignmentScope].escape

\* A fact of a tree.
Placed(f, tree) ==
  f.scope \in 1..Len(tree) /\ (f.effect = "Assign" => f.export)

Grounded(token, tree) == token.scope \in 1..Len(tree)

ScopesInv ==
  /\ Types
  /\ Len(scopes) >= 1
  /\ \A s \in 2..Len(scopes) : scopes[s].parent \in 1..(s - 1)
  /\ Fits(context, scopes)
  /\ \A i \in 1..Len(open) : Fits(open[i].inherited, scopes)
  /\ \A i \in 1..Len(facts) : Placed(facts[i], scopes)
  /\ \A p \in 1..Len(symbols) : Grounded(symbols[p], scopes)

\* A tree that grows keeps what was there.
Grows(tree, grown) ==
  /\ Len(grown) >= Len(tree)
  /\ \A s \in 1..Len(tree) : /\ grown[s].escape = tree[s].escape
                             /\ grown[s].parent = tree[s].parent

LEMMA GrowthKeeps ==
  ASSUME NEW tree \in Seq(ScopeRecords), NEW grown \in Seq(ScopeRecords),
         Grows(tree, grown)
  PROVE  /\ \A c \in Contexts : Fits(c, tree) => Fits(c, grown)
         /\ \A f \in Facts : Placed(f, tree) => Placed(f, grown)
         /\ \A t \in Tokens : Grounded(t, tree) => Grounded(t, grown)
<1>1. ASSUME NEW c \in Contexts, Fits(c, tree)
      PROVE  Fits(c, grown)
  <2>1. c.assignmentScope \in 1..Len(tree) /\ c.scope \in 1..Len(grown)
    BY <1>1 DEF Fits, Grows, Contexts
  <2>2. grown[c.assignmentScope].escape = tree[c.assignmentScope].escape
    BY <2>1 DEF Grows
  <2>. QED BY <1>1, <2>1, <2>2 DEF Fits
<1>2. \A f \in Facts : Placed(f, tree) => Placed(f, grown)
  BY DEF Placed, Grows, Facts
<1>3. \A t \in Tokens : Grounded(t, tree) => Grounded(t, grown)
  BY DEF Grounded, Grows, Tokens
<1>. QED BY <1>1, <1>2, <1>3

\* What an assignment is collected as.
LEMMA OrdinaryFact ==
  ASSUME scopes \in Seq(ScopeRecords), context \in Contexts, Fits(context, scopes),
         NEW name \in Names, NEW at \in Nat, NEW effect \in {"Declare", "Assign"}
  PROVE  LET f == Fact(name, at, "Ordinary", effect, context)
         IN  f \in Facts /\ Placed(f, scopes)
<1>. DEFINE scope == IF effect = "Declare" THEN context.scope
                     ELSE context.assignmentScope
            export == \/ scope = 1
                      \/ effect = "Assign" /\ scopes[scope].escape
<1>1. scope \in Nat /\ scope \in 1..Len(scopes)
  BY DEF Fits, Contexts
<1>2. scopes[scope].escape \in BOOLEAN
  <2>. HIDE DEF scope
  <2>1. scopes[scope] \in ScopeRecords
    BY <1>1
  <2>. QED BY <2>1 DEF ScopeRecords
<1>3. effect = "Assign" => export
  BY DEF Fits
<1>. DEFINE f == [name |-> name, at |-> at, value |-> NoValue,
                  role |-> "Ordinary", effect |-> effect, scope |-> scope,
                  export |-> export]
<1>4. Fact(name, at, "Ordinary", effect, context) = f
  BY DEF Fact
<1>5. export \in BOOLEAN
  BY <1>2
<1>. HIDE DEF scope, export
<1>6. NoValue \in Values
  BY DEF NoValue, Values
<1>7. f \in Facts
  BY <1>1, <1>5, <1>6 DEF Facts
<1>8. Placed(f, scopes)
  BY <1>1, <1>3 DEF Placed
<1>. QED BY <1>4, <1>7, <1>8

\* What a parameter is collected as.
LEMMA ParameterFact ==
  ASSUME NEW where \in Contexts, NEW tree, where.scope \in 1..Len(tree),
         NEW name \in Names, NEW at \in Nat
  PROVE  LET f == Fact(name, at, "Parameter", "Declare", where)
         IN  f \in Facts /\ Placed(f, tree)
<1>. DEFINE f == [name |-> name, at |-> at, value |-> NoValue,
                  role |-> "Parameter", effect |-> "Declare",
                  scope |-> where.scope, export |-> FALSE]
<1>1. Fact(name, at, "Parameter", "Declare", where) = f
  BY DEF Fact
<1>2. NoValue \in Values
  BY DEF NoValue, Values
<1>3. f \in Facts /\ Placed(f, tree)
  BY <1>2 DEF Facts, Placed, Contexts
<1>. QED BY <1>1, <1>3

\* Facts that are put behind facts.
LEMMA MoreFacts ==
  ASSUME NEW tree, NEW before \in Seq(Facts), NEW more \in Seq(Facts),
         \A i \in 1..Len(before) : Placed(before[i], tree),
         \A i \in 1..Len(more) : Placed(more[i], tree)
  PROVE  /\ before \o more \in Seq(Facts)
         /\ \A i \in 1..Len(before \o more) : Placed((before \o more)[i], tree)
<1>1. ASSUME NEW i \in 1..Len(before \o more)
      PROVE  Placed((before \o more)[i], tree)
  <2>1. CASE i \in 1..Len(before)
    BY <2>1
  <2>2. CASE i - Len(before) \in 1..Len(more)
    BY <2>2
  <2>. QED BY <2>1, <2>2
<1>. QED BY <1>1

\* The parameter of a lambda or a loop, put behind the facts so far.
LEMMA BindParameter ==
  ASSUME facts \in Seq(Facts), NEW where \in Contexts, NEW tree,
         where.scope \in 1..Len(tree), NEW name \in Names, Here \in Nat,
         \A i \in 1..Len(facts) : Placed(facts[i], tree)
  PROVE  LET more == Bind(<<name>>, Here, "Parameter", "Declare", where)
         IN  /\ more \in Seq(Facts)
             /\ \A i \in 1..Len(more) : Placed(more[i], tree)
<1>. DEFINE f == Fact(name, Here, "Parameter", "Declare", where)
<1>1. f \in Facts /\ Placed(f, tree)
  BY ParameterFact
<1>2. Bind(<<name>>, Here, "Parameter", "Declare", where) = facts \o <<f>>
  <2>1. [i \in DOMAIN <<name>> |->
           Fact(<<name>>[i], Here + i - 1, "Parameter", "Declare", where)]
        = [i \in 1..1 |-> f]
    <3>1. DOMAIN <<name>> = 1..1 /\ Here + 1 - 1 = Here /\ <<name>>[1] = name
      OBVIOUS
    <3>2. \A i \in 1..1 : i = 1
      OBVIOUS
    <3>. QED BY <3>1, <3>2
  <2>2. [i \in 1..1 |-> f] = <<f>>
    OBVIOUS
  <2>. QED BY <2>1, <2>2 DEF Bind
<1>. HIDE DEF f
<1>3. <<f>> \in Seq(Facts) /\ \A i \in 1..Len(<<f>>) : Placed(<<f>>[i], tree)
  BY <1>1
<1>. QED BY <1>2, <1>3, MoreFacts

\* The tokens of a node, read in a scope.
LEMMA MoreTokens ==
  ASSUME symbols \in Seq(Tokens), NEW tree,
         \A p \in 1..Len(symbols) : Grounded(symbols[p], tree),
         NEW names \in Seq(Names \cup {Other}), NEW scope \in 1..Len(tree),
         Len(tree) \in Nat, Read(names, scope)
  PROVE  /\ symbols' \in Seq(Tokens)
         /\ \A p \in 1..Len(symbols') : Grounded(symbols'[p], tree)
<1>. DEFINE more == [i \in DOMAIN names |-> [name |-> names[i], scope |-> scope]]
<1>1. \A i \in 1..Len(names) : more[i] \in Tokens /\ Grounded(more[i], tree)
  BY DEF Tokens, Grounded
<1>2. more \in Seq(Tokens) /\ Len(more) = Len(names)
  <2>1. DOMAIN names = 1..Len(names) /\ Len(names) \in Nat
    OBVIOUS
  <2>2. more \in [1..Len(names) -> Tokens]
    BY <1>1, <2>1
  <2>. QED BY <2>1, <2>2
<1>3. symbols' = symbols \o more
  BY DEF Read
<1>. HIDE DEF more
<1>4. ASSUME NEW p \in 1..Len(symbols')
      PROVE  Grounded(symbols'[p], tree)
  <2>1. CASE p \in 1..Len(symbols)
    BY <2>1, <1>2, <1>3
  <2>2. CASE p - Len(symbols) \in 1..Len(more)
    BY <2>2, <1>1, <1>2, <1>3
  <2>. QED BY <2>1, <2>2, <1>2, <1>3
<1>. QED BY <1>2, <1>3, <1>4

\* Everything a tree had a place for has one in the tree grown from it.
LEMMA OldFits ==
  ASSUME ScopesInv, NEW grown \in Seq(ScopeRecords), Grows(scopes, grown)
  PROVE  /\ Fits(context, grown)
         /\ \A i \in 1..Len(open) : Fits(open[i].inherited, grown)
         /\ \A i \in 1..Len(facts) : Placed(facts[i], grown)
         /\ \A p \in 1..Len(symbols) : Grounded(symbols[p], grown)
<1>1. /\ scopes \in Seq(ScopeRecords) /\ context \in Contexts
      /\ open \in Seq(Nodes) /\ facts \in Seq(Facts) /\ symbols \in Seq(Tokens)
  BY DEF ScopesInv, Types
<1>2. /\ \A c \in Contexts : Fits(c, scopes) => Fits(c, grown)
      /\ \A f \in Facts : Placed(f, scopes) => Placed(f, grown)
      /\ \A t \in Tokens : Grounded(t, scopes) => Grounded(t, grown)
  BY <1>1, GrowthKeeps
<1>3. \A i \in 1..Len(open) : open[i].inherited \in Contexts
  <2>1. \A i \in 1..Len(open) : open[i] \in Nodes
    BY <1>1
  <2>. QED BY <2>1 DEF Nodes
<1>4. /\ \A i \in 1..Len(facts) : facts[i] \in Facts
      /\ \A p \in 1..Len(symbols) : symbols[p] \in Tokens
  BY <1>1
<1>. QED BY <1>1, <1>2, <1>3, <1>4 DEF ScopesInv

\* A node that is entered comes back to a context that fits.
LEMMA EnterKeeps ==
  ASSUME open \in Seq(Nodes), context \in Contexts, NEW tree,
         \A i \in 1..Len(open) : Fits(open[i].inherited, tree),
         Fits(context, tree),
         NEW kind \in {"assignment", "lambda", "for", "clause"},
         NEW scope \in Nat, NEW from \in Nat, NEW collected \in SUBSET Int,
         Enter(Node(kind, scope, from, collected))
  PROVE  /\ open' \in Seq(Nodes)
         /\ \A i \in 1..Len(open') : Fits(open'[i].inherited, tree)
<1>. DEFINE node == Node(kind, scope, from, collected)
<1>1. node \in Nodes /\ node.inherited = context
  BY DEF Node, Nodes
<1>2. open' = Append(open, node)
  BY DEF Enter
<1>. HIDE DEF node
<1>3. ASSUME NEW i \in 1..Len(open')
      PROVE  Fits(open'[i].inherited, tree)
  <2>1. CASE i \in 1..Len(open)
    BY <2>1, <1>1, <1>2
  <2>2. CASE i = Len(open) + 1
    BY <2>2, <1>1, <1>2
  <2>. QED BY <2>1, <2>2, <1>1, <1>2
<1>. QED BY <1>1, <1>2, <1>3

-----------------------------------------------------------------------------
LEMMA InitInv == Init => ScopesInv
<1>. SUFFICES ASSUME Init PROVE ScopesInv
  OBVIOUS
<1>1. EndOfText \in Nat
  BY ScopesAssumption DEF EndOfText
<1>2. scopes = <<File>> /\ File \in ScopeRecords
  BY <1>1 DEF Init, File, None, ScopeRecords
<1>3. Types
  BY <1>2 DEF Init, Types, Contexts
<1>4. Fits(context, scopes)
  BY <1>2 DEF Init, Fits
<1>. QED BY <1>2, <1>3, <1>4 DEF Init, ScopesInv

LEMMA ReadTokenInv == ScopesInv /\ ReadToken => ScopesInv'
<1>. SUFFICES ASSUME ScopesInv, ReadToken PROVE ScopesInv'
  OBVIOUS
<1>1. Types /\ Fits(context, scopes)
  BY DEF ScopesInv
<1>2. PICK name \in Names \cup {Other} : Read(<<name>>, context.scope)
  BY DEF ReadToken
<1>3. /\ symbols' \in Seq(Tokens)
      /\ \A p \in 1..Len(symbols') : Grounded(symbols'[p], scopes)
  <2>1. <<name>> \in Seq(Names \cup {Other}) /\ Len(scopes) \in Nat
    BY <1>1 DEF Types
  <2>2. context.scope \in 1..Len(scopes)
    BY <1>1 DEF Fits
  <2>. QED BY <1>1, <1>2, <2>1, <2>2, MoreTokens DEF Types, ScopesInv
<1>. QED BY <1>3 DEF ReadToken, ScopesInv, Types

LEMMA OpenAssignmentInv == ScopesInv /\ OpenAssignment => ScopesInv'
<1>. SUFFICES ASSUME ScopesInv, OpenAssignment PROVE ScopesInv'
  OBVIOUS
<1>1. Types /\ Fits(context, scopes) /\ UNCHANGED <<scopes, context>>
  BY DEF ScopesInv, OpenAssignment
<1>2. PICK names \in Targets, effect \in {"Declare", "Assign"} :
        /\ Read(names, context.scope)
        /\ facts' = Bind(names, Here, "Ordinary", effect, context)
        /\ Enter(Node("assignment", None, Here + Len(names),
                      (Len(facts) + 1)..(Len(facts) + Len(names))))
  BY DEF OpenAssignment
<1>3. /\ names \in Seq(Names) /\ Len(names) \in Nat /\ DOMAIN names = 1..Len(names)
      /\ Here \in Nat /\ Len(scopes) \in Nat /\ Len(facts) \in Nat
  BY <1>1, ScopesAssumption DEF Types, Here
<1>4. /\ symbols' \in Seq(Tokens)
      /\ \A p \in 1..Len(symbols') : Grounded(symbols'[p], scopes)
  <2>1. names \in Seq(Names \cup {Other})
    BY <1>3
  <2>2. context.scope \in 1..Len(scopes)
    BY <1>1 DEF Fits
  <2>. QED BY <1>1, <1>2, <1>3, <2>1, <2>2, MoreTokens DEF Types, ScopesInv
<1>5. /\ facts' \in Seq(Facts)
      /\ \A i \in 1..Len(facts') : Placed(facts'[i], scopes)
  <2>. DEFINE more == [i \in DOMAIN names |->
                         Fact(names[i], Here + i - 1, "Ordinary", effect, context)]
  <2>1. ASSUME NEW i \in 1..Len(names)
        PROVE  more[i] \in Facts /\ Placed(more[i], scopes)
    <3>1. names[i] \in Names /\ Here + i - 1 \in Nat
      BY <1>3
    <3>. QED BY <1>1, <1>3, <3>1, OrdinaryFact DEF Types
  <2>2. more \in [1..Len(names) -> Facts]
    BY <2>1, <1>3
  <2>3. more \in Seq(Facts) /\ Len(more) = Len(names)
    BY <2>2, <1>3
  <2>4. facts' = facts \o more
    BY <1>2 DEF Bind
  <2>. HIDE DEF more
  <2>5. \A i \in 1..Len(more) : Placed(more[i], scopes)
    BY <2>1, <2>3
  <2>. QED BY <1>1, <2>3, <2>4, <2>5, MoreFacts DEF ScopesInv, Types
<1>6. /\ open' \in Seq(Nodes)
      /\ \A i \in 1..Len(open') : Fits(open'[i].inherited, scopes)
  <2>1. None \in Nat /\ Here + Len(names) \in Nat
        /\ (Len(facts) + 1)..(Len(facts) + Len(names)) \in SUBSET Int
    BY <1>3 DEF None
  <2>. QED BY <1>1, <1>2, <2>1, EnterKeeps DEF Types, ScopesInv
<1>. QED BY <1>1, <1>4, <1>5, <1>6 DEF ScopesInv, Types

\* A scope is pushed under the scope of the context.
LEMMA PushGrows ==
  ASSUME ScopesInv, NEW start \in Nat, NEW mayEscape \in BOOLEAN,
         PushRange(start, mayEscape)
  PROVE  /\ scopes' \in Seq(ScopeRecords) /\ Grows(scopes, scopes')
         /\ Len(scopes') = Pushed /\ Len(scopes) \in Nat
         /\ scopes'[Pushed].escape = mayEscape
         /\ \A s \in 2..Len(scopes') : scopes'[s].parent \in 1..(s - 1)
<1>1. /\ scopes \in Seq(ScopeRecords) /\ Len(scopes) \in Nat
      /\ context.scope \in 1..Len(scopes)
  BY DEF ScopesInv, Types, Fits
<1>. DEFINE new == [start |-> start, stop |-> EndOfText, parent |-> context.scope,
                    escape |-> mayEscape]
<1>2. scopes' = Append(scopes, new)
  BY DEF PushRange
<1>3. EndOfText \in Nat
  BY ScopesAssumption DEF EndOfText
<1>4. new \in ScopeRecords
  BY <1>1, <1>3 DEF ScopeRecords
<1>5. new.parent \in 1..Len(scopes) /\ new.escape = mayEscape
  BY <1>1
<1>. HIDE DEF new
<1>6. /\ scopes' \in Seq(ScopeRecords) /\ Len(scopes') = Len(scopes) + 1
      /\ \A s \in 1..Len(scopes) : scopes'[s] = scopes[s]
      /\ scopes'[Len(scopes) + 1] = new
  BY <1>1, <1>2, <1>4
<1>7. ASSUME NEW s \in 2..Len(scopes')
      PROVE  scopes'[s].parent \in 1..(s - 1)
  <2>1. CASE s \in 2..Len(scopes)
    BY <2>1, <1>6 DEF ScopesInv
  <2>2. CASE s = Len(scopes) + 1
    BY <2>2, <1>5, <1>6
  <2>. QED BY <2>1, <2>2, <1>6, <1>1
<1>. QED BY <1>1, <1>5, <1>6, <1>7 DEF Grows, Pushed

LEMMA OpenLambdaInv == ScopesInv /\ OpenLambda => ScopesInv'
<1>. SUFFICES ASSUME ScopesInv, OpenLambda PROVE ScopesInv'
  OBVIOUS
<1>1. Types /\ Here \in Nat /\ Here + 1 \in Nat /\ Pushed \in Nat
  BY DEF ScopesInv, Types, Here, Pushed
<1>2. /\ scopes' \in Seq(ScopeRecords) /\ Grows(scopes, scopes')
      /\ Len(scopes') = Pushed /\ Pushed = Len(scopes) + 1
      /\ Len(scopes) \in Nat /\ scopes'[Pushed].escape = TRUE
      /\ \A s \in 2..Len(scopes') : scopes'[s].parent \in 1..(s - 1)
  BY <1>1, PushGrows DEF OpenLambda, Pushed
<1>3. /\ Fits(context, scopes')
      /\ \A i \in 1..Len(open) : Fits(open[i].inherited, scopes')
      /\ \A i \in 1..Len(facts) : Placed(facts[i], scopes')
      /\ \A p \in 1..Len(symbols) : Grounded(symbols[p], scopes')
  BY <1>2, OldFits
<1>4. context' \in Contexts /\ context'.scope = Pushed /\ Fits(context', scopes')
  BY <1>1, <1>2 DEF OpenLambda, Contexts, Fits
<1>5. PICK name \in Names \cup {Other} :
        /\ Read(<<name>>, Pushed)
        /\ facts' = IF name = Other THEN facts
                    ELSE Bind(<<name>>, Here, "Parameter", "Declare", context')
  BY DEF OpenLambda
<1>6. /\ symbols' \in Seq(Tokens)
      /\ \A p \in 1..Len(symbols') : Grounded(symbols'[p], scopes')
  <2>1. <<name>> \in Seq(Names \cup {Other}) /\ Pushed \in 1..Len(scopes')
        /\ Len(scopes') \in Nat
    BY <1>2
  <2>. QED BY <1>1, <1>3, <1>5, <2>1, MoreTokens DEF Types
<1>7. /\ facts' \in Seq(Facts)
      /\ \A i \in 1..Len(facts') : Placed(facts'[i], scopes')
  <2>1. CASE name = Other
    BY <2>1, <1>1, <1>3, <1>5 DEF Types
  <2>2. CASE name # Other
    <3>1. facts' = Bind(<<name>>, Here, "Parameter", "Declare", context')
          /\ name \in Names /\ facts \in Seq(Facts)
          /\ context'.scope \in 1..Len(scopes')
      BY <2>2, <1>1, <1>2, <1>4, <1>5 DEF Types
    <3>. QED BY <1>1, <1>3, <1>4, <3>1, BindParameter
  <2>. QED BY <2>1, <2>2
<1>8. /\ open' \in Seq(Nodes)
      /\ \A i \in 1..Len(open') : Fits(open'[i].inherited, scopes')
  <2>1. Enter(Node("lambda", Pushed, Here + 1, {})) /\ {} \in SUBSET Int
    BY DEF OpenLambda
  <2>. QED BY <1>1, <1>3, <2>1, EnterKeeps DEF Types
<1>. QED BY <1>2, <1>4, <1>6, <1>7, <1>8 DEF ScopesInv, Types

LEMMA OpenForInv == ScopesInv /\ OpenFor => ScopesInv'
<1>. SUFFICES ASSUME ScopesInv, OpenFor PROVE ScopesInv'
  OBVIOUS
<1>1. Types /\ Here \in Nat /\ Here + 1 \in Nat /\ Pushed \in Nat
  BY DEF ScopesInv, Types, Here, Pushed
<1>2. /\ scopes' \in Seq(ScopeRecords) /\ Grows(scopes, scopes')
      /\ Len(scopes') = Pushed /\ Pushed = Len(scopes) + 1
      /\ Len(scopes) \in Nat
      /\ \A s \in 2..Len(scopes') : scopes'[s].parent \in 1..(s - 1)
  BY <1>1, PushGrows DEF OpenFor, Pushed
<1>3. /\ Fits(context, scopes')
      /\ \A i \in 1..Len(open) : Fits(open[i].inherited, scopes')
      /\ \A i \in 1..Len(facts) : Placed(facts[i], scopes')
      /\ \A p \in 1..Len(symbols) : Grounded(symbols[p], scopes')
  BY <1>2, OldFits
<1>4. context' \in Contexts /\ context'.scope = Pushed /\ Fits(context', scopes')
  <2>1. context \in Contexts /\ context' = [context EXCEPT !.scope = Pushed]
    BY <1>1 DEF OpenFor, Types
  <2>2. /\ context'.scope = Pushed
        /\ context'.assignmentScope = context.assignmentScope
        /\ context' \in Contexts
    BY <1>1, <2>1 DEF Contexts
  <2>3. context.assignmentScope \in 1..Pushed
    BY <1>2 DEF ScopesInv, Fits, Types, Contexts
  <2>. QED BY <1>2, <1>3, <2>2, <2>3 DEF Fits
<1>5. PICK name \in Names :
        /\ Read(<<name>>, Pushed)
        /\ facts' = Bind(<<name>>, Here, "Parameter", "Declare", context')
  BY DEF OpenFor
<1>6. /\ symbols' \in Seq(Tokens)
      /\ \A p \in 1..Len(symbols') : Grounded(symbols'[p], scopes')
  <2>1. <<name>> \in Seq(Names \cup {Other}) /\ Pushed \in 1..Len(scopes')
        /\ Len(scopes') \in Nat
    BY <1>2
  <2>. QED BY <1>1, <1>3, <1>5, <2>1, MoreTokens DEF Types
<1>7. /\ facts' \in Seq(Facts)
      /\ \A i \in 1..Len(facts') : Placed(facts'[i], scopes')
  <2>1. facts' = Bind(<<name>>, Here, "Parameter", "Declare", context')
        /\ facts \in Seq(Facts) /\ context'.scope \in 1..Len(scopes')
    BY <1>1, <1>2, <1>4, <1>5 DEF Types
  <2>. QED BY <1>1, <1>3, <1>4, <1>5, <2>1, BindParameter
<1>8. /\ open' \in Seq(Nodes)
      /\ \A i \in 1..Len(open') : Fits(open'[i].inherited, scopes')
  <2>1. Enter(Node("for", Pushed, Here + 1, {})) /\ {} \in SUBSET Int
    BY DEF OpenFor
  <2>. QED BY <1>1, <1>3, <2>1, EnterKeeps DEF Types
<1>. QED BY <1>2, <1>4, <1>6, <1>7, <1>8 DEF ScopesInv, Types

LEMMA OpenClauseInv == ScopesInv /\ OpenClause => ScopesInv'
<1>. SUFFICES ASSUME ScopesInv, OpenClause PROVE ScopesInv'
  OBVIOUS
<1>1. Types /\ Here \in Nat /\ Here + 1 \in Nat /\ Pushed \in Nat
  BY DEF ScopesInv, Types, Here, Pushed
<1>2. PICK kind \in {"Branch", "LoopClause"}, keyword \in BOOLEAN :
        /\ PushRange(IF keyword THEN Here ELSE Here + 1, kind = "Branch")
        /\ context' = [scope |-> Pushed,
                       assignmentScope |->
                         AssignmentScope(kind, Pushed, context.assignmentScope)]
        /\ Read(<<Other>>, IF keyword THEN Pushed ELSE context.scope)
  BY DEF OpenClause
<1>3. /\ scopes' \in Seq(ScopeRecords) /\ Grows(scopes, scopes')
      /\ Len(scopes') = Pushed /\ Pushed = Len(scopes) + 1
      /\ Len(scopes) \in Nat /\ scopes'[Pushed].escape = (kind = "Branch")
      /\ \A s \in 2..Len(scopes') : scopes'[s].parent \in 1..(s - 1)
  <2>1. (IF keyword THEN Here ELSE Here + 1) \in Nat /\ (kind = "Branch") \in BOOLEAN
    BY <1>1
  <2>. QED BY <1>2, <2>1, PushGrows DEF Pushed
<1>4. /\ Fits(context, scopes')
      /\ \A i \in 1..Len(open) : Fits(open[i].inherited, scopes')
      /\ \A i \in 1..Len(facts) : Placed(facts[i], scopes')
      /\ \A p \in 1..Len(symbols) : Grounded(symbols[p], scopes')
  BY <1>3, OldFits
<1>5. context' \in Contexts /\ Fits(context', scopes')
  <2>1. CASE kind = "Branch"
    <3>1. context' = [scope |-> Pushed, assignmentScope |-> Pushed]
      BY <2>1, <1>2 DEF AssignmentScope
    <3>2. (kind = "Branch") = TRUE
      BY <2>1
    <3>3. scopes'[Pushed].escape = TRUE
      BY <3>2, <1>3, Zenon
    <3>4. Pushed \in 1..Len(scopes') /\ Pushed \in 1..Pushed
      BY <1>3
    <3>. QED BY <1>1, <3>1, <3>3, <3>4 DEF Contexts, Fits
  <2>2. CASE kind = "LoopClause"
    <3>1. context' = [scope |-> Pushed, assignmentScope |-> context.assignmentScope]
      BY <2>2, <1>2 DEF AssignmentScope
    <3>2. context.assignmentScope \in 1..Pushed
      BY <1>3 DEF ScopesInv, Fits, Types, Contexts
    <3>. QED BY <1>1, <1>3, <1>4, <3>1, <3>2 DEF Contexts, Fits
  <2>. QED BY <2>1, <2>2
<1>6. /\ symbols' \in Seq(Tokens)
      /\ \A p \in 1..Len(symbols') : Grounded(symbols'[p], scopes')
  <2>1. /\ <<Other>> \in Seq(Names \cup {Other}) /\ Len(scopes') \in Nat
        /\ (IF keyword THEN Pushed ELSE context.scope) \in 1..Len(scopes')
    BY <1>3 DEF ScopesInv, Fits
  <2>. QED BY <1>1, <1>2, <1>4, <2>1, MoreTokens DEF Types
<1>7. /\ open' \in Seq(Nodes)
      /\ \A i \in 1..Len(open') : Fits(open'[i].inherited, scopes')
  <2>1. Enter(Node("clause", Pushed, Here + 1, {})) /\ {} \in SUBSET Int
    BY DEF OpenClause
  <2>. QED BY <1>1, <1>4, <2>1, EnterKeeps DEF Types
<1>8. UNCHANGED facts
  BY DEF OpenClause
<1>. QED BY <1>3, <1>4, <1>5, <1>6, <1>7, <1>8 DEF ScopesInv, Types

LEMMA CloseInv == ScopesInv /\ Close => ScopesInv'
<1>. SUFFICES ASSUME ScopesInv, Close PROVE ScopesInv'
  OBVIOUS
<1>. DEFINE node == Last(open)
<1>1. Types /\ open # <<>> /\ Len(open) \in Nat \ {0} /\ Here \in Nat
  BY DEF ScopesInv, Types, Close, Here
<1>2. node \in Nodes /\ Fits(node.inherited, scopes) /\ node.inherited \in Contexts
  <2>1. node = open[Len(open)] /\ Len(open) \in 1..Len(open) /\ open \in Seq(Nodes)
    BY <1>1 DEF Last, Types
  <2>2. node \in Nodes /\ Fits(node.inherited, scopes)
    BY <2>1 DEF ScopesInv
  <2>. QED BY <2>2 DEF Nodes
<1>3. /\ context' = node.inherited /\ open' = Front(open) /\ symbols' = symbols
      /\ scopes' = [s \in DOMAIN scopes |->
                      IF s = node.scope
                      THEN [scopes[s] EXCEPT !.stop = Here] ELSE scopes[s]]
      /\ facts' = [i \in DOMAIN facts |->
                     IF i \in node.facts
                     THEN [facts[i] EXCEPT
                             !.value = [start |-> node.from, stop |-> Here]]
                     ELSE facts[i]]
  BY DEF Close
<1>. HIDE DEF node
<1>4. /\ scopes' \in Seq(ScopeRecords) /\ Len(scopes') = Len(scopes)
      /\ Grows(scopes, scopes')
  <2>1. /\ scopes \in Seq(ScopeRecords) /\ Len(scopes) \in Nat
        /\ DOMAIN scopes = 1..Len(scopes)
    BY <1>1 DEF Types
  <2>2. ASSUME NEW s \in 1..Len(scopes)
        PROVE  /\ scopes'[s] \in ScopeRecords
               /\ scopes'[s].escape = scopes[s].escape
               /\ scopes'[s].parent = scopes[s].parent
    <3>1. scopes[s] \in ScopeRecords
      BY <2>1
    <3>. QED BY <1>1, <1>3, <2>1, <3>1 DEF ScopeRecords
  <2>3. scopes' \in [1..Len(scopes) -> ScopeRecords]
    BY <1>3, <2>1, <2>2
  <2>4. scopes' \in Seq(ScopeRecords) /\ Len(scopes') = Len(scopes)
    BY <2>1, <2>3
  <2>. QED BY <2>1, <2>2, <2>4 DEF Grows
<1>5. /\ \A i \in 1..Len(open) : Fits(open[i].inherited, scopes')
      /\ \A i \in 1..Len(facts) : Placed(facts[i], scopes')
      /\ \A p \in 1..Len(symbols) : Grounded(symbols[p], scopes')
  BY <1>4, OldFits
<1>6. context' \in Contexts /\ Fits(context', scopes')
  <2>1. scopes \in Seq(ScopeRecords)
    BY <1>1 DEF Types
  <2>. QED BY <1>2, <1>3, <1>4, <2>1, GrowthKeeps
<1>7. /\ open' \in Seq(Nodes)
      /\ \A i \in 1..Len(open') : Fits(open'[i].inherited, scopes')
  <2>1. open' = SubSeq(open, 1, Len(open) - 1) /\ open \in Seq(Nodes)
    BY <1>1, <1>3 DEF Front, Types
  <2>2. /\ open' \in Seq(Nodes) /\ Len(open') = Len(open) - 1
        /\ \A i \in 1..Len(open') : open'[i] = open[i] /\ i \in 1..Len(open)
    <3>1. open' = [i \in 1..(Len(open) - 1) |-> open[i]]
      BY <1>1, <2>1
    <3>2. \A i \in 1..(Len(open) - 1) : open[i] \in Nodes
      BY <1>1, <2>1
    <3>3. Len(open) - 1 \in Nat
      BY <1>1
    <3>. QED BY <3>1, <3>2, <3>3
  <2>. QED BY <1>5, <2>2
<1>8. /\ facts' \in Seq(Facts)
      /\ \A i \in 1..Len(facts') : Placed(facts'[i], scopes')
  <2>1. /\ facts \in Seq(Facts) /\ Len(facts) \in Nat
        /\ DOMAIN facts = 1..Len(facts)
    BY <1>1 DEF Types
  <2>2. [start |-> node.from, stop |-> Here] \in Values
    BY <1>1, <1>2 DEF Values, Nodes
  <2>3. ASSUME NEW i \in 1..Len(facts)
        PROVE  /\ facts'[i] \in Facts
               /\ facts'[i].scope = facts[i].scope
               /\ facts'[i].effect = facts[i].effect
               /\ facts'[i].export = facts[i].export
    <3>1. facts[i] \in Facts
      BY <2>1
    <3>. QED BY <1>3, <2>1, <2>2, <3>1 DEF Facts
  <2>4. facts' \in [1..Len(facts) -> Facts]
    BY <1>3, <2>1, <2>3
  <2>5. facts' \in Seq(Facts) /\ Len(facts') = Len(facts)
    BY <2>1, <2>4
  <2>. QED BY <1>5, <2>3, <2>5 DEF Placed
<1>9. /\ Len(scopes') >= 1
      /\ \A s \in 2..Len(scopes') : scopes'[s].parent \in 1..(s - 1)
  BY <1>4 DEF ScopesInv, Grows
<1>. QED BY <1>1, <1>3, <1>4, <1>5, <1>6, <1>7, <1>8, <1>9 DEF ScopesInv, Types

-----------------------------------------------------------------------------
\* The inductive invariant: the walk's contexts, and those it comes back to,
\* name scopes of the tree; assignments go to the file or to a scope they may
\* escape from; facts and tokens name scopes of the tree.
THEOREM ScopesAlwaysInv == Spec => []ScopesInv
<1>1. ASSUME ScopesInv, UNCHANGED vars
      PROVE  ScopesInv'
  BY <1>1 DEF vars, ScopesInv, Types
<1>2. ScopesInv /\ [Next]_vars => ScopesInv'
  BY <1>1, ReadTokenInv, OpenAssignmentInv, OpenLambdaInv, OpenForInv,
     OpenClauseInv, CloseInv DEF Next
<1>. QED BY InitInv, <1>2, PTL DEF Spec

\* Every lookup that climbs from a token, a fact or a context of the walk meets
\* scopes that exist and ends at the file.
THEOREM ScopesTypeCorrect == Spec => []TypeOK
<1>1. ScopesInv => TypeOK
  <2>. SUFFICES ASSUME ScopesInv PROVE TypeOK
    OBVIOUS
  <2>1. /\ symbols \in Seq(Tokens) /\ scopes \in Seq(ScopeRecords)
        /\ open \in Seq(Nodes) /\ facts \in Seq(Facts)
    BY DEF ScopesInv, Types
  <2>2. /\ DOMAIN symbols = 1..Len(symbols) /\ DOMAIN scopes = 1..Len(scopes)
        /\ DOMAIN open = 1..Len(open) /\ DOMAIN facts = 1..Len(facts)
    BY <2>1
  <2>3. \A p \in DOMAIN symbols : /\ symbols[p].name \in Names \cup {Other}
                                  /\ symbols[p].scope \in DOMAIN scopes
    <3>. SUFFICES ASSUME NEW p \in DOMAIN symbols
                  PROVE  /\ symbols[p].name \in Names \cup {Other}
                         /\ symbols[p].scope \in DOMAIN scopes
      OBVIOUS
    <3>1. symbols[p] \in Tokens
      BY <2>1
    <3>2. symbols[p].name \in Names \cup {Other}
      BY <3>1 DEF Tokens
    <3>3. Grounded(symbols[p], scopes)
      BY <2>2 DEF ScopesInv
    <3>. QED BY <2>2, <3>2, <3>3 DEF Grounded
  <2>4. \A s \in DOMAIN scopes \ {1} : scopes[s].parent \in 1..(s - 1)
    <3>. SUFFICES ASSUME NEW s \in DOMAIN scopes, s # 1
                  PROVE  scopes[s].parent \in 1..(s - 1)
      OBVIOUS
    <3>1. s \in 2..Len(scopes)
      BY <2>1, <2>2
    <3>. QED BY <3>1 DEF ScopesInv
  <2>5. ContextOK(context) /\ \A i \in DOMAIN open : ContextOK(open[i].inherited)
    <3>1. \A c : Fits(c, scopes) => ContextOK(c)
      BY <2>2 DEF Fits, ContextOK
    <3>. QED BY <2>2, <3>1 DEF ScopesInv
  <2>6. \A i \in DOMAIN facts : facts[i].scope \in DOMAIN scopes
    BY <2>2 DEF ScopesInv, Placed
  <2>. QED BY <2>3, <2>4, <2>5, <2>6 DEF TypeOK
<1>. QED BY <1>1, ScopesAlwaysInv, PTL

\* An assignment with = is exported or may escape in whatever nest of lambdas,
\* branches and loops it stands, and so is never reported as unused.
THEOREM AssignmentsAlwaysMayEscape == Spec => []AssignmentsMayEscape
<1>1. ScopesInv => AssignmentsMayEscape
  BY DEF ScopesInv, Types, Placed, AssignmentsMayEscape
<1>. QED BY <1>1, ScopesAlwaysInv, PTL
-----------------------------------------------------------------------------
(* How the scopes nest. *)

\* A scope that is open: its end is not known.
Live(s) == scopes[s].stop = EndOfText

Encloses(s, t) ==
  scopes[s].start <= scopes[t].start /\ scopes[t].stop <= scopes[s].stop

\* Scopes are opened from left to right, and of two scopes the later one begins
\* where the earlier has ended, or ends where it does or before.
ScopesNest ==
  /\ Len(symbols) <= MaxTokens
  /\ \A s \in 1..Len(scopes) :
       scopes[s].start \in 1..Here /\ (Live(s) \/ scopes[s].stop <= Here)
  /\ \A s, t \in 1..Len(scopes) :
       s < t => /\ scopes[s].start <= scopes[t].start
                /\ scopes[s].stop <= scopes[t].start \/ scopes[t].stop <= scopes[s].stop

\* The scope of a token contains it, and lies in every other that does.
TokensNest ==
  \A p \in 1..Len(symbols) :
    /\ ContainsPosition(symbols[p].scope, p)
    /\ \A t \in 1..Len(scopes) : ContainsPosition(t, p) => Encloses(t, symbols[p].scope)
    /\ \A t \in 1..Len(scopes) :
         Live(t) /\ scopes[t].start <= p => t <= symbols[p].scope

\* The scope of the walk inside the node at a place of the stack.
InnerScope(i) ==
  IF i = Len(open) THEN context.scope ELSE open[i + 1].inherited.scope

\* The walk stands in the innermost open scope.
WalkNests ==
  Live(context.scope) /\ \A t \in 1..Len(scopes) : Live(t) => t <= context.scope

\* A node that has opened a scope comes back to the one around it.
StackNests ==
  /\ \A i \in 1..Len(open) :
       /\ Live(open[i].inherited.scope)
       /\ \/ open[i].scope = None /\ open[i].inherited.scope = InnerScope(i)
          \/ /\ open[i].scope = InnerScope(i)
             /\ open[i].inherited.scope < InnerScope(i)
             /\ \A t \in 1..Len(scopes) :
                  Live(t) /\ t < InnerScope(i) => t <= open[i].inherited.scope
  /\ \A i, j \in 1..Len(open) :
       i < j => open[i].inherited.scope <= open[j].inherited.scope

NestInv == ScopesNest /\ TokensNest /\ WalkNests /\ StackNests

\* What the walk refers to, one thing at a time.
LEMMA Referred ==
  ASSUME ScopesInv
  PROVE  /\ Len(symbols) \in Nat /\ Len(scopes) \in Nat /\ Len(open) \in Nat
         /\ Len(facts) \in Nat /\ Here = Len(symbols) + 1
         /\ DOMAIN symbols = 1..Len(symbols) /\ DOMAIN scopes = 1..Len(scopes)
         /\ DOMAIN open = 1..Len(open) /\ DOMAIN facts = 1..Len(facts)
         /\ \A s \in 1..Len(scopes) :
              scopes[s].start \in Nat /\ scopes[s].stop \in Nat
         /\ \A p \in 1..Len(symbols) : symbols[p].scope \in 1..Len(scopes)
         /\ context.scope \in 1..Len(scopes)
         /\ \A i \in 1..Len(open) :
              /\ open[i].inherited.scope \in 1..Len(scopes)
              /\ open[i].from \in Nat /\ open[i].scope \in Nat
         /\ \A i \in 1..Len(facts) : facts[i].scope \in 1..Len(scopes)
<1>1. /\ symbols \in Seq(Tokens) /\ scopes \in Seq(ScopeRecords)
      /\ open \in Seq(Nodes) /\ facts \in Seq(Facts)
  BY DEF ScopesInv, Types
<1>2. \A s \in 1..Len(scopes) : scopes[s] \in ScopeRecords
  BY <1>1
<1>3. \A i \in 1..Len(open) : open[i] \in Nodes
  BY <1>1
<1>4. \A s \in 1..Len(scopes) : scopes[s].start \in Nat /\ scopes[s].stop \in Nat
  BY <1>2 DEF ScopeRecords
<1>5. \A i \in 1..Len(open) :
        /\ open[i].inherited.scope \in 1..Len(scopes)
        /\ open[i].from \in Nat /\ open[i].scope \in Nat
  BY <1>3 DEF Nodes, ScopesInv, Fits
<1>6. \A p \in 1..Len(symbols) : symbols[p].scope \in 1..Len(scopes)
  BY DEF ScopesInv, Grounded
<1>7. \A i \in 1..Len(facts) : facts[i].scope \in 1..Len(scopes)
  BY DEF ScopesInv, Placed
<1>8. context.scope \in 1..Len(scopes)
  BY DEF ScopesInv, Fits
<1>. QED BY <1>1, <1>4, <1>5, <1>6, <1>7, <1>8 DEF Here

LEMMA BoundsOfText == EndOfText \in Nat /\ MaxTokens \in Nat /\ EndOfText = MaxTokens + 2
BY ScopesAssumption DEF EndOfText

LEMMA Joined ==
  ASSUME NEW S, NEW s \in Seq(S), NEW t \in Seq(S)
  PROVE  /\ Len(s \o t) = Len(s) + Len(t)
         /\ \A i \in 1..Len(s) : (s \o t)[i] = s[i]
         /\ \A i \in 1..Len(s \o t) :
              i > Len(s) => (s \o t)[i] = t[i - Len(s)] /\ i - Len(s) \in 1..Len(t)
OBVIOUS

\* What reading tokens does.
LEMMA TokensRead ==
  ASSUME ScopesInv, NEW names \in Seq(Names \cup {Other}), NEW scope \in Nat,
         Read(names, scope)
  PROVE  /\ Len(names) \in Nat /\ Len(symbols') = Len(symbols) + Len(names)
         /\ Here' = Here + Len(names)
         /\ \A p \in 1..Len(symbols) : symbols'[p] = symbols[p]
         /\ \A p \in 1..Len(symbols') :
              p > Len(symbols) => /\ symbols'[p].name = names[p - Len(symbols)]
                                  /\ symbols'[p].scope = scope
<1>. DEFINE more == [i \in DOMAIN names |-> [name |-> names[i], scope |-> scope]]
<1>1. /\ symbols \in Seq(Tokens) /\ Len(symbols) \in Nat /\ Len(names) \in Nat
      /\ DOMAIN names = 1..Len(names) /\ Here = Len(symbols) + 1
  BY Referred DEF ScopesInv, Types
<1>2. /\ more \in Seq(Tokens) /\ Len(more) = Len(names)
      /\ \A i \in 1..Len(names) : more[i].name = names[i] /\ more[i].scope = scope
  <2>1. \A i \in 1..Len(names) : more[i] \in Tokens
    BY <1>1 DEF Tokens
  <2>2. more \in [1..Len(names) -> Tokens]
    BY <2>1, <1>1
  <2>. QED BY <2>2, <1>1
<1>3. symbols' = symbols \o more
  BY DEF Read
<1>. HIDE DEF more
<1>4. Len(symbols') = Len(symbols) + Len(names)
  BY <1>1, <1>2, <1>3, Joined
<1>5. \A p \in 1..Len(symbols) : symbols'[p] = symbols[p]
  BY <1>1, <1>2, <1>3, Joined
<1>6. ASSUME NEW p \in 1..Len(symbols'), p > Len(symbols)
      PROVE  symbols'[p] = more[p - Len(symbols)] /\ p - Len(symbols) \in 1..Len(names)
  BY <1>1, <1>2, <1>3, <1>4, <1>6, Joined
<1>. QED BY <1>1, <1>2, <1>4, <1>5, <1>6 DEF Here

\* What pushing a scope does.
LEMMA ScopePushed ==
  ASSUME ScopesInv, NEW start, NEW mayEscape, PushRange(start, mayEscape)
  PROVE  /\ Len(scopes') = Len(scopes) + 1 /\ Pushed = Len(scopes) + 1
         /\ \A s \in 1..Len(scopes) : scopes'[s] = scopes[s]
         /\ scopes'[Pushed].start = start /\ scopes'[Pushed].stop = EndOfText
<1>1. scopes \in Seq(ScopeRecords)
  BY DEF ScopesInv, Types
<1>. QED BY <1>1 DEF PushRange, Pushed

\* What entering a node does.
LEMMA NodeEntered ==
  ASSUME ScopesInv, NEW kind, NEW scope, NEW from, NEW collected,
         Enter(Node(kind, scope, from, collected))
  PROVE  /\ Len(open') = Len(open) + 1
         /\ \A i \in 1..Len(open) : open'[i] = open[i]
         /\ open'[Len(open) + 1].inherited = context
         /\ open'[Len(open) + 1].scope = scope
         /\ open'[Len(open) + 1].from = from
         /\ open'[Len(open) + 1].facts = collected
<1>1. open \in Seq(Nodes)
  BY DEF ScopesInv, Types
<1>. QED BY <1>1 DEF Enter, Node
\* Tokens that are read where the walk stands lie as those before them.
LEMMA ReadNests ==
  ASSUME ScopesInv, NestInv, NEW names \in Seq(Names \cup {Other}),
         Len(symbols) + Len(names) <= MaxTokens,
         Read(names, context.scope), UNCHANGED scopes
  PROVE  (ScopesNest /\ TokensNest)'
<1>1. /\ Len(symbols) \in Nat /\ Here = Len(symbols) + 1 /\ Len(scopes) \in Nat
      /\ context.scope \in 1..Len(scopes)
      /\ \A s \in 1..Len(scopes) : scopes[s].start \in Nat /\ scopes[s].stop \in Nat
      /\ \A p \in 1..Len(symbols) : symbols[p].scope \in 1..Len(scopes)
  BY Referred
<1>2. /\ Len(names) \in Nat /\ Len(symbols') = Len(symbols) + Len(names)
      /\ Here' = Here + Len(names)
      /\ \A p \in 1..Len(symbols) : symbols'[p] = symbols[p]
      /\ \A p \in 1..Len(symbols') :
           p > Len(symbols) => symbols'[p].scope = context.scope
  BY <1>1, TokensRead
<1>3. ScopesNest'
  <2>1. ASSUME NEW s \in 1..Len(scopes)
        PROVE  /\ scopes[s].start \in 1..Here'
               /\ scopes[s].stop = EndOfText \/ scopes[s].stop <= Here'
    <3>1. scopes[s].start \in 1..Here /\ (Live(s) \/ scopes[s].stop <= Here)
      BY DEF NestInv, ScopesNest
    <3>. QED BY <1>1, <1>2, <3>1 DEF Live
  <2>2. Len(symbols') <= MaxTokens
    BY <1>2
  <2>. QED BY <2>1, <2>2 DEF NestInv, ScopesNest, Live, EndOfText
<1>4. ASSUME NEW p \in 1..Len(symbols')
      PROVE  /\ ContainsPosition(symbols'[p].scope, p)
             /\ \A t \in 1..Len(scopes) :
                  ContainsPosition(t, p) => Encloses(t, symbols'[p].scope)
             /\ \A t \in 1..Len(scopes) :
                  Live(t) /\ scopes[t].start <= p => t <= symbols'[p].scope
  <2>1. CASE p \in 1..Len(symbols)
    BY <2>1, <1>2 DEF NestInv, TokensNest
  <2>2. CASE p > Len(symbols)
    <3>1. symbols'[p].scope = context.scope /\ p >= Here /\ p < EndOfText
      BY <2>2, <1>1, <1>2, BoundsOfText
    <3>2. /\ Live(context.scope)
          /\ \A t \in 1..Len(scopes) : Live(t) => t <= context.scope
          /\ \A t \in 1..Len(scopes) : scopes[t].start <= Here
      BY <1>1 DEF NestInv, WalkNests, ScopesNest
    <3>3. ContainsPosition(context.scope, p)
      BY <1>1, <3>1, <3>2 DEF ContainsPosition, Live
    <3>4. ASSUME NEW t \in 1..Len(scopes), ContainsPosition(t, p)
          PROVE  Encloses(t, context.scope)
      <4>1. Live(t)
        BY <1>1, <3>1, <3>4 DEF NestInv, ScopesNest, ContainsPosition
      <4>2. t <= context.scope
        BY <4>1, <3>2
      <4>3. scopes[t].start <= scopes[context.scope].start
        BY <1>1, <4>2 DEF NestInv, ScopesNest
      <4>. QED BY <1>1, <4>1, <4>3, <3>2, BoundsOfText DEF Encloses, Live
    <3>. QED BY <3>1, <3>2, <3>3, <3>4
  <2>. QED BY <2>1, <2>2, <1>1, <1>2
<1>5. TokensNest'
  BY <1>4 DEF TokensNest, ContainsPosition, Encloses, Live, EndOfText
<1>. QED BY <1>3, <1>5

\* A node that is entered lies in those that are open.
LEMMA StackRises ==
  ASSUME ScopesInv, NestInv, Len(open') = Len(open) + 1,
         \A i \in 1..Len(open) : open'[i] = open[i],
         open'[Len(open) + 1].inherited = context
  PROVE  \A i, j \in 1..Len(open') :
           i < j => open'[i].inherited.scope <= open'[j].inherited.scope
<1>1. /\ Len(open) \in Nat /\ Len(scopes) \in Nat
      /\ \A i \in 1..Len(open) : open[i].inherited.scope \in 1..Len(scopes)
  BY Referred
<1>2. \A i \in 1..Len(open) : open[i].inherited.scope <= context.scope
  BY <1>1 DEF NestInv, StackNests, WalkNests
<1>3. \A i, j \in 1..Len(open) :
        i < j => open[i].inherited.scope <= open[j].inherited.scope
  BY DEF NestInv, StackNests
<1>4. ASSUME NEW i \in 1..Len(open'), NEW j \in 1..Len(open'), i < j
      PROVE  open'[i].inherited.scope <= open'[j].inherited.scope
  <2>1. i \in 1..Len(open) /\ (j \in 1..Len(open) \/ j = Len(open) + 1)
    BY <1>1, <1>4
  <2>2. CASE j \in 1..Len(open)
    BY <1>3, <1>4, <2>1, <2>2
  <2>3. CASE j = Len(open) + 1
    BY <1>2, <2>1, <2>3
  <2>. QED BY <2>1, <2>2, <2>3
<1>. QED BY <1>4

LEMMA ReadTokenNests == ScopesInv /\ NestInv /\ ReadToken => NestInv'
<1>. SUFFICES ASSUME ScopesInv, NestInv, ReadToken PROVE NestInv'
  OBVIOUS
<1>1. PICK name \in Names \cup {Other} : Read(<<name>>, context.scope)
  BY DEF ReadToken
<1>2. Len(symbols) + Len(<<name>>) <= MaxTokens
  BY Referred, BoundsOfText DEF ReadToken
<1>3. UNCHANGED <<scopes, context, open>>
  BY DEF ReadToken
<1>4. (ScopesNest /\ TokensNest)'
  <2>1. <<name>> \in Seq(Names \cup {Other})
    OBVIOUS
  <2>. QED BY <1>1, <1>2, <1>3, <2>1, ReadNests
<1>5. (WalkNests /\ StackNests)'
  BY <1>3 DEF NestInv, WalkNests, StackNests, InnerScope, Live, EndOfText
<1>. QED BY <1>4, <1>5 DEF NestInv

LEMMA OpenAssignmentNests == ScopesInv /\ NestInv /\ OpenAssignment => NestInv'
<1>. SUFFICES ASSUME ScopesInv, NestInv, OpenAssignment PROVE NestInv'
  OBVIOUS
<1>0. PICK names \in Targets :
        \E from, collected : /\ Room(Len(names)) /\ Read(names, context.scope)
                            /\ Enter(Node("assignment", None, from, collected))
  BY DEF OpenAssignment
<1>1. PICK from, collected :
        /\ Room(Len(names)) /\ Read(names, context.scope)
        /\ Enter(Node("assignment", None, from, collected))
  BY <1>0
<1>2. UNCHANGED <<scopes, context>>
  BY DEF OpenAssignment
<1>3. (ScopesNest /\ TokensNest)'
  <2>1. names \in Seq(Names \cup {Other}) /\ Len(names) \in Nat
    BY ScopesAssumption
  <2>2. Len(symbols) + Len(names) <= MaxTokens
    BY <1>1, <2>1, Referred, BoundsOfText DEF Room
  <2>. QED BY <1>1, <1>2, <2>1, <2>2, ReadNests
<1>4. WalkNests'
  BY <1>2 DEF NestInv, WalkNests, Live, EndOfText
<1>5. /\ Len(open) \in Nat /\ Len(open') = Len(open) + 1
      /\ \A i \in 1..Len(open) : open'[i] = open[i]
      /\ open'[Len(open) + 1].inherited = context
      /\ open'[Len(open) + 1].scope = None
  BY <1>1, NodeEntered, Referred
<1>6. \A i \in 1..Len(open) : InnerScope(i)' = InnerScope(i)
  BY <1>2, <1>5 DEF InnerScope
<1>7. \A i \in 1..Len(open') : i > Len(open) => InnerScope(i)' = context.scope
  BY <1>2, <1>5 DEF InnerScope
<1>8. ASSUME NEW i \in 1..Len(open')
      PROVE  /\ Live(open'[i].inherited.scope)
             /\ \/ open'[i].scope = None /\ open'[i].inherited.scope = InnerScope(i)'
                \/ /\ open'[i].scope = InnerScope(i)'
                   /\ open'[i].inherited.scope < InnerScope(i)'
                   /\ \A t \in 1..Len(scopes) :
                        Live(t) /\ t < InnerScope(i)' => t <= open'[i].inherited.scope
  <2>1. CASE i \in 1..Len(open)
    BY <2>1, <1>5, <1>6 DEF NestInv, StackNests
  <2>2. CASE i = Len(open) + 1
    BY <2>2, <1>5, <1>7 DEF NestInv, WalkNests
  <2>. QED BY <2>1, <2>2, <1>5
<1>9. \A i, j \in 1..Len(open') :
        i < j => open'[i].inherited.scope <= open'[j].inherited.scope
  BY <1>5, StackRises
<1>10. StackNests'
  BY <1>2, <1>8, <1>9 DEF StackNests, Live, EndOfText
<1>. QED BY <1>3, <1>4, <1>10 DEF NestInv
\* A scope opened at the next token, or behind it, nests: the token is the new
\* scope's own, or still that of the walk.
LEMMA OpenScopeNests ==
  ASSUME ScopesInv, NestInv, Room(1),
         NEW start, NEW mayEscape, PushRange(start, mayEscape),
         NEW name \in Names \cup {Other}, NEW scope, Read(<<name>>, scope),
         \/ start = Here /\ scope = Pushed
         \/ start = Here + 1 /\ scope = context.scope,
         context'.scope = Pushed,
         NEW kind, NEW from, Enter(Node(kind, Pushed, from, {}))
  PROVE  NestInv'
<1>1. /\ Len(symbols) \in Nat /\ Here = Len(symbols) + 1 /\ Len(scopes) \in Nat
      /\ context.scope \in 1..Len(scopes)
      /\ \A s \in 1..Len(scopes) : scopes[s].start \in Nat /\ scopes[s].stop \in Nat
      /\ \A p \in 1..Len(symbols) : symbols[p].scope \in 1..Len(scopes)
      /\ Len(symbols) + 1 < MaxTokens
  BY Referred DEF Room
<1>2. /\ Len(scopes') = Len(scopes) + 1 /\ Pushed = Len(scopes) + 1
      /\ \A s \in 1..Len(scopes) : scopes'[s] = scopes[s]
      /\ scopes'[Pushed].start = start /\ scopes'[Pushed].stop = EndOfText
  BY ScopePushed
<1>3. /\ Len(symbols') = Len(symbols) + 1 /\ Here' = Here + 1
      /\ \A p \in 1..Len(symbols) : symbols'[p] = symbols[p]
      /\ symbols'[Here].scope = scope
  <2>1. <<name>> \in Seq(Names \cup {Other}) /\ Len(<<name>>) = 1 /\ scope \in Nat
    BY <1>1, <1>2
  <2>2. /\ Len(symbols') = Len(symbols) + 1 /\ Here' = Here + 1
        /\ \A p \in 1..Len(symbols) : symbols'[p] = symbols[p]
        /\ \A p \in 1..Len(symbols') : p > Len(symbols) => symbols'[p].scope = scope
    BY <2>1, TokensRead
  <2>. QED BY <1>1, <2>2
<1>4. /\ Len(open) \in Nat /\ Len(open') = Len(open) + 1
      /\ \A i \in 1..Len(open) : open'[i] = open[i]
      /\ open'[Len(open) + 1].inherited = context
      /\ open'[Len(open) + 1].scope = Pushed
  BY NodeEntered, Referred
<1>. DEFINE live(s) == scopes'[s].stop = EndOfText
<1>5. start \in {Here, Here + 1} /\ \A s \in 1..Len(scopes') : s \in 1..Len(scopes) \/ s = Pushed
  BY <1>1, <1>2
<1>6. /\ \A s \in 1..Len(scopes) : live(s) <=> Live(s)
      /\ live(Pushed) /\ Pushed \in 1..Len(scopes')
  BY <1>1, <1>2 DEF Live
<1>7. ScopesNest'
  <2>1. ASSUME NEW s \in 1..Len(scopes')
        PROVE  /\ scopes'[s].start \in 1..Here'
               /\ live(s) \/ scopes'[s].stop <= Here'
    <3>1. CASE s \in 1..Len(scopes)
      <4>1. scopes[s].start \in 1..Here /\ (Live(s) \/ scopes[s].stop <= Here)
        BY <3>1 DEF NestInv, ScopesNest
      <4>. QED BY <1>1, <1>2, <1>3, <3>1, <4>1 DEF Live
    <3>2. CASE s = Pushed
      BY <1>1, <1>2, <1>3, <1>5, <3>2
    <3>. QED BY <1>5, <3>1, <3>2
  <2>2. ASSUME NEW s \in 1..Len(scopes'), NEW t \in 1..Len(scopes'), s < t
        PROVE  /\ scopes'[s].start <= scopes'[t].start
               /\ \/ scopes'[s].stop <= scopes'[t].start
                  \/ scopes'[t].stop <= scopes'[s].stop
    <3>0. s \in 1..Len(scopes) /\ scopes'[s] = scopes[s]
      BY <1>1, <1>2, <2>2
    <3>1. CASE t \in 1..Len(scopes)
      BY <1>2, <2>2, <3>0, <3>1 DEF NestInv, ScopesNest
    <3>2. CASE t = Pushed
      <4>1. scopes[s].start \in 1..Here /\ (Live(s) \/ scopes[s].stop <= Here)
        BY <3>0 DEF NestInv, ScopesNest
      <4>2. scopes'[t].start = start /\ scopes'[t].stop = EndOfText
            /\ start \in Nat /\ start >= Here
        BY <1>1, <1>2, <1>5, <3>2
      <4>3. scopes[s].start \in Nat /\ scopes[s].stop \in Nat
        BY <1>1, <3>0
      <4>. QED BY <1>1, <3>0, <4>1, <4>2, <4>3, BoundsOfText DEF Live
    <3>. QED BY <1>5, <3>1, <3>2
  <2>3. Len(symbols') <= MaxTokens
    BY <1>1, <1>3, BoundsOfText
  <2>. HIDE DEF live
  <2>. QED BY <2>1, <2>2, <2>3 DEF ScopesNest, Live, EndOfText, live
<1>8. WalkNests'
  <2>1. \A t \in 1..Len(scopes') : t <= Pushed
    BY <1>1, <1>2
  <2>. QED BY <1>6, <2>1 DEF WalkNests, Live, EndOfText
<1>9. TokensNest'
  <2>. DEFINE contains(s, p) == scopes'[s].start <= p /\ p < scopes'[s].stop
              encloses(s, t) == /\ scopes'[s].start <= scopes'[t].start
                                /\ scopes'[t].stop <= scopes'[s].stop
  <2>1. ASSUME NEW p \in 1..Len(symbols')
        PROVE  /\ contains(symbols'[p].scope, p)
               /\ \A t \in 1..Len(scopes') : contains(t, p) => encloses(t, symbols'[p].scope)
               /\ \A t \in 1..Len(scopes') :
                    live(t) /\ scopes'[t].start <= p => t <= symbols'[p].scope
    <3>1. CASE p \in 1..Len(symbols)
      <4>1. symbols'[p] = symbols[p] /\ symbols[p].scope \in 1..Len(scopes)
            /\ scopes'[symbols[p].scope] = scopes[symbols[p].scope]
        BY <1>1, <1>2, <1>3, <3>1
      <4>2. ~(scopes'[Pushed].start <= p)
        BY <1>1, <1>2, <1>5, <3>1
      <4>3. /\ ContainsPosition(symbols[p].scope, p)
            /\ \A t \in 1..Len(scopes) : ContainsPosition(t, p) => Encloses(t, symbols[p].scope)
            /\ \A t \in 1..Len(scopes) :
                 Live(t) /\ scopes[t].start <= p => t <= symbols[p].scope
        BY <3>1 DEF NestInv, TokensNest
      <4>. QED BY <1>2, <1>5, <4>1, <4>2, <4>3 DEF ContainsPosition, Encloses, Live
    <3>2. CASE p = Here
      <4>1. symbols'[p].scope = scope /\ p < EndOfText
        BY <1>1, <1>3, <3>2, BoundsOfText
      <4>2. ASSUME NEW t \in 1..Len(scopes), scopes[t].start <= p, p < scopes[t].stop
            PROVE  Live(t) /\ t <= context.scope
        <5>1. Live(t)
          BY <1>1, <3>2, <4>2 DEF NestInv, ScopesNest
        <5>. QED BY <5>1 DEF NestInv, WalkNests
      <4>3. \A t \in 1..Len(scopes) : scopes[t].start <= Here
        BY <1>1 DEF NestInv, ScopesNest
      <4>4. CASE start = Here /\ scope = Pushed
        <5>1. contains(Pushed, p)
          BY <1>1, <1>2, <3>2, <4>1, <4>4
        <5>2. \A t \in 1..Len(scopes') : t <= Pushed
          BY <1>1, <1>2
        <5>3. ASSUME NEW t \in 1..Len(scopes'), contains(t, p)
              PROVE  encloses(t, Pushed)
          <6>1. CASE t \in 1..Len(scopes)
            <7>1. Live(t) /\ scopes[t].start <= Here
              BY <1>2, <4>2, <4>3, <5>3, <6>1
            <7>. QED BY <1>2, <4>4, <6>1, <7>1, BoundsOfText DEF Live
          <6>2. CASE t = Pushed
            BY <1>1, <1>2, <4>4, <6>2, BoundsOfText
          <6>. QED BY <1>5, <6>1, <6>2
        <5>. QED BY <4>1, <4>4, <5>1, <5>2, <5>3
      <4>5. CASE start = Here + 1 /\ scope = context.scope
        <5>1. Live(context.scope) /\ scopes'[context.scope] = scopes[context.scope]
          BY <1>1, <1>2 DEF NestInv, WalkNests
        <5>2. contains(context.scope, p)
          BY <1>1, <3>2, <4>1, <4>3, <5>1 DEF Live
        <5>3. ~(scopes'[Pushed].start <= p)
          BY <1>1, <1>2, <3>2, <4>5
        <5>4. ASSUME NEW t \in 1..Len(scopes), contains(t, p)
              PROVE  encloses(t, context.scope)
          <6>1. Live(t) /\ t <= context.scope
            BY <1>2, <4>2, <5>4
          <6>2. scopes[t].start <= scopes[context.scope].start
            BY <1>1, <6>1 DEF NestInv, ScopesNest
          <6>. QED BY <1>1, <1>2, <5>1, <6>1, <6>2, BoundsOfText DEF Live
        <5>5. \A t \in 1..Len(scopes) : live(t) => t <= context.scope
          BY <1>6 DEF NestInv, WalkNests
        <5>. HIDE DEF contains, encloses, live
        <5>6. \A t \in 1..Len(scopes') : contains(t, p) => encloses(t, context.scope)
          BY <1>5, <5>3, <5>4 DEF contains
        <5>. QED BY <1>5, <4>1, <4>5, <5>2, <5>3, <5>5, <5>6
      <4>. QED BY <4>4, <4>5
    <3>. QED BY <1>1, <1>3, <3>1, <3>2
  <2>. HIDE DEF contains, encloses, live
  <2>. QED BY <2>1 DEF TokensNest, ContainsPosition, Encloses, Live, EndOfText,
                       contains, encloses, live
<1>10. StackNests'
  <2>1. /\ \A i \in 1..Len(open) : InnerScope(i)' = InnerScope(i)
        /\ \A i \in 1..Len(open') : i > Len(open) => InnerScope(i)' = Pushed
    BY <1>4 DEF InnerScope
  <2>2. ASSUME NEW i \in 1..Len(open)
        PROVE  InnerScope(i) <= context.scope /\ InnerScope(i) \in Nat
    <3>1. CASE i = Len(open)
      BY <1>1, <3>1 DEF InnerScope
    <3>2. CASE i # Len(open)
      <4>1. /\ InnerScope(i) = open[i + 1].inherited.scope /\ i + 1 \in 1..Len(open)
        BY <1>4, <3>2 DEF InnerScope
      <4>2. open[i + 1].inherited.scope \in 1..Len(scopes) /\ Live(open[i + 1].inherited.scope)
        BY <4>1, Referred DEF NestInv, StackNests
      <4>. QED BY <4>1, <4>2 DEF NestInv, WalkNests
    <3>. QED BY <3>1, <3>2
  <2>3. ASSUME NEW i \in 1..Len(open')
        PROVE  /\ live(open'[i].inherited.scope)
               /\ \/ open'[i].scope = None /\ open'[i].inherited.scope = InnerScope(i)'
                  \/ /\ open'[i].scope = InnerScope(i)'
                     /\ open'[i].inherited.scope < InnerScope(i)'
                     /\ \A t \in 1..Len(scopes') :
                          live(t) /\ t < InnerScope(i)' => t <= open'[i].inherited.scope
    <3>1. CASE i \in 1..Len(open)
      <4>1. /\ open'[i] = open[i] /\ InnerScope(i)' = InnerScope(i)
            /\ InnerScope(i) \in Nat /\ InnerScope(i) < Pushed
        BY <1>1, <1>2, <1>4, <2>1, <2>2, <3>1
      <4>2. open[i].inherited.scope \in 1..Len(scopes)
        BY <3>1, Referred
      <4>3. /\ Live(open[i].inherited.scope)
            /\ \/ open[i].scope = None /\ open[i].inherited.scope = InnerScope(i)
               \/ /\ open[i].scope = InnerScope(i)
                  /\ open[i].inherited.scope < InnerScope(i)
                  /\ \A t \in 1..Len(scopes) :
                       Live(t) /\ t < InnerScope(i) => t <= open[i].inherited.scope
        BY <3>1 DEF NestInv, StackNests
      <4>4. \A t \in 1..Len(scopes') : t < InnerScope(i) => t \in 1..Len(scopes)
        BY <1>1, <1>2, <4>1
      <4>. HIDE DEF live
      <4>. QED BY <1>6, <4>1, <4>2, <4>3, <4>4
    <3>2. CASE i = Len(open) + 1
      <4>1. /\ open'[i].inherited.scope = context.scope /\ open'[i].scope = Pushed
            /\ InnerScope(i)' = Pushed /\ context.scope < Pushed
        BY <1>1, <1>2, <1>4, <2>1, <3>2
      <4>2. live(context.scope)
        BY <1>1, <1>6 DEF NestInv, WalkNests
      <4>3. \A t \in 1..Len(scopes') : live(t) /\ t < Pushed => t <= context.scope
        BY <1>1, <1>2, <1>6, <1>5 DEF NestInv, WalkNests
      <4>. HIDE DEF live
      <4>. QED BY <4>1, <4>2, <4>3
    <3>. QED BY <1>4, <3>1, <3>2
  <2>4. \A i, j \in 1..Len(open') :
          i < j => open'[i].inherited.scope <= open'[j].inherited.scope
    BY <1>4, StackRises
  <2>. HIDE DEF live
  <2>. QED BY <2>3, <2>4 DEF StackNests, Live, EndOfText, live
<1>. QED BY <1>7, <1>8, <1>9, <1>10 DEF NestInv
LEMMA OpenLambdaNests == ScopesInv /\ NestInv /\ OpenLambda => NestInv'
<1>. SUFFICES ASSUME ScopesInv, NestInv, OpenLambda PROVE NestInv'
  OBVIOUS
<1>1. PICK name \in Names \cup {Other} : Read(<<name>>, Pushed)
  BY DEF OpenLambda
<1>2. /\ Room(1) /\ PushRange(Here, TRUE) /\ context'.scope = Pushed
      /\ Enter(Node("lambda", Pushed, Here + 1, {}))
  BY DEF OpenLambda
<1>. QED BY <1>1, <1>2, OpenScopeNests

LEMMA OpenForNests == ScopesInv /\ NestInv /\ OpenFor => NestInv'
<1>. SUFFICES ASSUME ScopesInv, NestInv, OpenFor PROVE NestInv'
  OBVIOUS
<1>1. PICK name \in Names : Read(<<name>>, Pushed)
  BY DEF OpenFor
<1>2. /\ PushRange(Here, FALSE) /\ Enter(Node("for", Pushed, Here + 1, {}))
  BY DEF OpenFor
<1>3. context'.scope = Pushed
  BY DEF OpenFor, ScopesInv, Types, Contexts
<1>4. Room(1)
  BY Referred, BoundsOfText DEF OpenFor, Room
<1>. QED BY <1>1, <1>2, <1>3, <1>4, OpenScopeNests

LEMMA OpenClauseNests == ScopesInv /\ NestInv /\ OpenClause => NestInv'
<1>. SUFFICES ASSUME ScopesInv, NestInv, OpenClause PROVE NestInv'
  OBVIOUS
<1>1. PICK kind \in {"Branch", "LoopClause"}, keyword \in BOOLEAN :
        /\ PushRange(IF keyword THEN Here ELSE Here + 1, kind = "Branch")
        /\ context'.scope = Pushed
        /\ Read(<<Other>>, IF keyword THEN Pushed ELSE context.scope)
  BY DEF OpenClause
<1>2. Room(1) /\ Enter(Node("clause", Pushed, Here + 1, {}))
  BY DEF OpenClause
<1>3. CASE keyword
  <2>1. PushRange(Here, kind = "Branch") /\ Read(<<Other>>, Pushed)
    BY <1>1, <1>3
  <2>. QED BY <1>1, <1>2, <2>1, OpenScopeNests
<1>4. CASE ~keyword
  <2>1. PushRange(Here + 1, kind = "Branch") /\ Read(<<Other>>, context.scope)
    BY <1>1, <1>4
  <2>. QED BY <1>1, <1>2, <2>1, OpenScopeNests
<1>. QED BY <1>3, <1>4

\* Leaving a node ends the innermost scope, if the node opened one.
LEMMA CloseNests == ScopesInv /\ NestInv /\ Close => NestInv'
<1>. SUFFICES ASSUME ScopesInv, NestInv, Close PROVE NestInv'
  OBVIOUS
<1>. DEFINE n == open[Len(open)].scope
            outer == open[Len(open)].inherited.scope
            live(s) == scopes'[s].stop = EndOfText
<1>1. /\ Len(symbols) \in Nat /\ Here = Len(symbols) + 1 /\ Len(scopes) \in Nat
      /\ DOMAIN scopes = 1..Len(scopes) /\ context.scope \in 1..Len(scopes)
      /\ \A s \in 1..Len(scopes) : scopes[s].start \in Nat /\ scopes[s].stop \in Nat
      /\ \A p \in 1..Len(symbols) : symbols[p].scope \in 1..Len(scopes)
      /\ \A s \in 1..Len(scopes) : scopes[s] \in ScopeRecords
  BY Referred DEF ScopesInv, Types
<1>2. /\ open # <<>> /\ open \in Seq(Nodes) /\ Len(open) \in Nat \ {0}
      /\ outer \in 1..Len(scopes) /\ n \in Nat
  <2>1. open # <<>> /\ open \in Seq(Nodes)
    BY DEF Close, ScopesInv, Types
  <2>2. Len(open) \in Nat \ {0}
    BY <2>1
  <2>. QED BY <2>1, <2>2, Referred
<1>3. /\ context'.scope = outer /\ UNCHANGED symbols /\ open' = Front(open)
      /\ scopes' = [s \in DOMAIN scopes |->
                      IF s = n THEN [scopes[s] EXCEPT !.stop = Here] ELSE scopes[s]]
  BY DEF Close, Last
<1>4. /\ Len(scopes') = Len(scopes) /\ Here' = Here
      /\ \A s \in 1..Len(scopes) :
           /\ scopes'[s].start = scopes[s].start
           /\ scopes'[s].stop = IF s = n THEN Here ELSE scopes[s].stop
  <2>1. ASSUME NEW s \in 1..Len(scopes)
        PROVE  /\ scopes'[s].start = scopes[s].start
               /\ scopes'[s].stop = IF s = n THEN Here ELSE scopes[s].stop
    <3>1. scopes[s] \in ScopeRecords
      BY <1>1
    <3>. QED BY <1>1, <1>3, <3>1 DEF ScopeRecords
  <2>2. Len(scopes') = Len(scopes)
    BY <1>1, <1>3
  <2>. QED BY <1>3, <2>1, <2>2 DEF Here
<1>5. /\ Len(open') = Len(open) - 1
      /\ \A i \in 1..Len(open') : open'[i] = open[i]
  <2>1. open' = SubSeq(open, 1, Len(open) - 1)
    BY <1>3 DEF Front
  <2>2. open' = [i \in 1..(Len(open) - 1) |-> open[i]]
    BY <1>2, <2>1
  <2>3. \A i \in 1..(Len(open) - 1) : open[i] \in Nodes
    BY <1>2
  <2>. QED BY <1>2, <2>2, <2>3
\* The scope that ends is the innermost open one.
<1>6. /\ Live(outer) /\ Live(context.scope)
      /\ \A t \in 1..Len(scopes) : Live(t) => t <= context.scope
      /\ \/ n = None /\ outer = context.scope
         \/ /\ n = context.scope /\ outer < n
            /\ \A t \in 1..Len(scopes) : Live(t) /\ t < n => t <= outer
  <2>1. InnerScope(Len(open)) = context.scope /\ Len(open) \in 1..Len(open)
    BY <1>2 DEF InnerScope
  <2>. QED BY <2>1 DEF NestInv, WalkNests, StackNests
<1>. HIDE DEF n, outer
<1>7. /\ \A t \in 1..Len(scopes) : live(t) <=> (Live(t) /\ t # n)
      /\ Here < EndOfText
  BY <1>1, <1>4, BoundsOfText DEF Live, NestInv, ScopesNest
<1>8. \A t \in 1..Len(scopes) :
        n # None /\ t > n => ~Live(t) /\ scopes[t].stop <= Here
  BY <1>1, <1>6 DEF NestInv, ScopesNest, None
<1>9. ScopesNest'
  <2>1. ASSUME NEW s \in 1..Len(scopes), NEW t \in 1..Len(scopes), s < t
        PROVE  /\ scopes'[s].start <= scopes'[t].start
               /\ \/ scopes'[s].stop <= scopes'[t].start
                  \/ scopes'[t].stop <= scopes'[s].stop
    <3>1. /\ scopes[s].start <= scopes[t].start
          /\ scopes[s].stop <= scopes[t].start \/ scopes[t].stop <= scopes[s].stop
          /\ scopes[t].start \in 1..Here
      BY <2>1 DEF NestInv, ScopesNest
    <3>2. CASE s = n
      BY <1>1, <1>4, <1>8, <2>1, <3>1, <3>2 DEF None
    <3>3. CASE s # n /\ t = n
      <4>1. Live(t)
        BY <1>6, <3>3, <2>1 DEF None
      <4>. QED BY <1>1, <1>4, <1>7, <3>1, <3>3, <4>1 DEF Live
    <3>4. CASE s # n /\ t # n
      BY <1>4, <3>1, <3>4
    <3>. QED BY <3>2, <3>3, <3>4
  <2>2. ASSUME NEW s \in 1..Len(scopes)
        PROVE  /\ scopes'[s].start \in 1..Here /\ (live(s) \/ scopes'[s].stop <= Here)
    <3>1. scopes[s].start \in 1..Here /\ (Live(s) \/ scopes[s].stop <= Here)
      BY DEF NestInv, ScopesNest
    <3>. QED BY <1>1, <1>4, <3>1 DEF Live
  <2>3. Len(symbols') <= MaxTokens
    BY <1>3 DEF NestInv, ScopesNest
  <2>. HIDE DEF live
  <2>. QED BY <1>4, <2>1, <2>2, <2>3 DEF ScopesNest, Live, EndOfText, live
<1>10. TokensNest'
  <2>. DEFINE contains(s, p) == scopes'[s].start <= p /\ p < scopes'[s].stop
              encloses(s, t) == /\ scopes'[s].start <= scopes'[t].start
                                /\ scopes'[t].stop <= scopes'[s].stop
  <2>1. ASSUME NEW p \in 1..Len(symbols)
        PROVE  /\ contains(symbols[p].scope, p)
               /\ \A t \in 1..Len(scopes) : contains(t, p) => encloses(t, symbols[p].scope)
               /\ \A t \in 1..Len(scopes) :
                    live(t) /\ scopes'[t].start <= p => t <= symbols[p].scope
    <3>. DEFINE f == symbols[p].scope
    <3>1. /\ f \in 1..Len(scopes) /\ p \in Nat /\ p < Here
          /\ ContainsPosition(f, p)
          /\ \A t \in 1..Len(scopes) : ContainsPosition(t, p) => Encloses(t, f)
          /\ \A t \in 1..Len(scopes) : Live(t) /\ scopes[t].start <= p => t <= f
      BY <1>1 DEF NestInv, TokensNest
    <3>. HIDE DEF f
    <3>2. contains(f, p)
      BY <1>1, <1>4, <3>1 DEF ContainsPosition
    <3>3. ASSUME NEW t \in 1..Len(scopes), contains(t, p)
          PROVE  encloses(t, f)
      <4>1. ContainsPosition(t, p)
        <5>1. CASE t = n
          <6>1. Live(t)
            BY <1>6, <5>1 DEF None
          <6>. QED BY <1>1, <1>4, <1>7, <3>1, <3>3, <6>1 DEF Live, ContainsPosition
        <5>. QED BY <1>4, <3>3, <5>1 DEF ContainsPosition
      <4>2. Encloses(t, f)
        BY <3>1, <4>1
      <4>3. CASE t = n
        <5>1. Live(n) /\ n <= f
          BY <1>6, <3>1, <4>1, <4>3 DEF None, ContainsPosition
        <5>2. f = n \/ scopes[f].stop <= Here
          BY <1>1, <1>8, <3>1, <4>3, <5>1 DEF None
        <5>. QED BY <1>1, <1>4, <3>1, <4>2, <4>3, <5>2 DEF Encloses
      <4>4. CASE t # n
        <5>1. scopes'[f].stop <= scopes[f].stop
          <6>1. CASE f = n
            <7>1. Live(f)
              BY <1>6, <3>1, <6>1 DEF None
            <7>. QED BY <1>1, <1>4, <1>7, <3>1, <6>1, <7>1 DEF Live
          <6>. QED BY <1>1, <1>4, <3>1, <6>1
        <5>2. scopes'[f].stop \in Nat
          BY <1>1, <1>4, <3>1
        <5>. QED BY <1>1, <1>4, <3>1, <4>2, <4>4, <5>1, <5>2 DEF Encloses
      <4>. QED BY <4>3, <4>4
    <3>4. \A t \in 1..Len(scopes) : live(t) /\ scopes'[t].start <= p => t <= f
      BY <1>4, <1>7, <3>1
    <3>. HIDE DEF contains, encloses, live
    <3>. QED BY <3>2, <3>3, <3>4 DEF f
  <2>. HIDE DEF contains, encloses, live
  <2>. QED BY <1>3, <1>4, <2>1 DEF TokensNest, ContainsPosition, Encloses, Live, EndOfText,
                                   contains, encloses, live
<1>11. WalkNests'
  <2>1. live(outer) /\ \A t \in 1..Len(scopes) : live(t) => t <= outer
    BY <1>1, <1>2, <1>6, <1>7 DEF None
  <2>. QED BY <1>3, <1>4, <2>1 DEF WalkNests, Live, EndOfText
<1>12. StackNests'
  <2>1. ASSUME NEW i \in 1..Len(open')
        PROVE  InnerScope(i)' = InnerScope(i) /\ InnerScope(i) <= outer
               /\ InnerScope(i) \in Nat /\ Live(InnerScope(i)) /\ i \in 1..Len(open)
    <3>1. i \in 1..Len(open) /\ i # Len(open) /\ i + 1 \in 1..Len(open)
      BY <1>2, <1>5
    <3>2. InnerScope(i) = open[i + 1].inherited.scope
      BY <3>1 DEF InnerScope
    <3>3. InnerScope(i)' = InnerScope(i)
      <4>1. CASE i = Len(open')
        <5>1. i + 1 = Len(open)
          BY <1>2, <1>5, <4>1
        <5>. QED BY <1>3, <3>2, <4>1, <5>1 DEF InnerScope, outer
      <4>2. CASE i # Len(open')
        <5>1. i + 1 \in 1..Len(open')
          BY <1>2, <1>5, <4>2
        <5>. QED BY <1>5, <3>2, <4>2, <5>1 DEF InnerScope
      <4>. QED BY <4>1, <4>2
    <3>. DEFINE inner == InnerScope(i)
    <3>4. inner \in 1..Len(scopes) /\ Live(inner)
      BY <3>1, <3>2, Referred DEF NestInv, StackNests
    <3>5. n # None => inner # n
      <4>1. CASE i + 1 = Len(open)
        <5>1. inner = outer
          BY <3>2, <4>1 DEF outer
        <5>. QED BY <1>2, <1>6, <5>1
      <4>2. CASE i + 1 # Len(open)
        <5>1. inner = open[i + 1].inherited.scope /\ open[Len(open)].inherited.scope = outer
          BY <3>2 DEF outer
        <5>2. i + 1 < Len(open) /\ Len(open) \in 1..Len(open)
          BY <1>2, <3>1, <4>2
        <5>3. inner <= outer
          BY <3>1, <5>1, <5>2 DEF NestInv, StackNests
        <5>. QED BY <1>1, <1>2, <1>6, <3>4, <5>3
      <4>. QED BY <4>1, <4>2
    <3>6. inner <= outer
      <4>. HIDE DEF inner
      <4>1. inner <= context.scope
        BY <1>6, <3>4
      <4>2. CASE outer = context.scope
        BY <4>1, <4>2
      <4>3. CASE n = context.scope /\ \A t \in 1..Len(scopes) : Live(t) /\ t < n => t <= outer
        <5>1. inner # n
          BY <1>1, <3>5, <4>3 DEF None
        <5>. QED BY <1>1, <3>4, <4>1, <4>3, <5>1
      <4>. QED BY <1>6, <4>2, <4>3
    <3>. QED BY <3>1, <3>3, <3>4, <3>6
  <2>2. ASSUME NEW i \in 1..Len(open')
        PROVE  /\ live(open'[i].inherited.scope)
               /\ \/ open'[i].scope = None /\ open'[i].inherited.scope = InnerScope(i)'
                  \/ /\ open'[i].scope = InnerScope(i)'
                     /\ open'[i].inherited.scope < InnerScope(i)'
                     /\ \A t \in 1..Len(scopes) :
                          live(t) /\ t < InnerScope(i)' => t <= open'[i].inherited.scope
    <3>1. /\ i \in 1..Len(open) /\ open'[i] = open[i] /\ InnerScope(i)' = InnerScope(i)
          /\ InnerScope(i) <= outer /\ InnerScope(i) \in Nat
      BY <1>5, <2>1
    <3>2. /\ Live(open[i].inherited.scope)
          /\ \/ open[i].scope = None /\ open[i].inherited.scope = InnerScope(i)
             \/ /\ open[i].scope = InnerScope(i)
                /\ open[i].inherited.scope < InnerScope(i)
                /\ \A t \in 1..Len(scopes) :
                     Live(t) /\ t < InnerScope(i) => t <= open[i].inherited.scope
      BY <3>1 DEF NestInv, StackNests
    <3>3. open[i].inherited.scope \in 1..Len(scopes)
      BY <3>1, Referred
    <3>4. open[i].inherited.scope <= outer
      BY <1>2, <3>1, <3>2, <3>3
    <3>5. live(open[i].inherited.scope)
      BY <1>2, <1>6, <1>7, <3>2, <3>3, <3>4 DEF None
    <3>6. \A t \in 1..Len(scopes) : live(t) => Live(t)
      BY <1>7
    <3>. HIDE DEF live
    <3>. QED BY <3>1, <3>2, <3>5, <3>6
  <2>3. \A i, j \in 1..Len(open') :
          i < j => open'[i].inherited.scope <= open'[j].inherited.scope
    BY <1>2, <1>5 DEF NestInv, StackNests
  <2>. HIDE DEF live
  <2>. QED BY <1>4, <2>2, <2>3 DEF StackNests, Live, EndOfText, live
<1>. QED BY <1>9, <1>10, <1>11, <1>12 DEF NestInv

LEMMA InitNests == Init => NestInv
<1>. SUFFICES ASSUME Init PROVE NestInv
  OBVIOUS
<1>1. /\ scopes = <<File>> /\ Len(scopes) = 1 /\ scopes[1] = File
      /\ symbols = <<>> /\ Len(symbols) = 0 /\ Here = 1
      /\ open = <<>> /\ Len(open) = 0 /\ context.scope = 1
  BY DEF Init, Here
<1>2. ScopesNest
  BY <1>1, BoundsOfText DEF ScopesNest, Live, File
<1>3. TokensNest /\ StackNests
  BY <1>1 DEF TokensNest, StackNests
<1>4. WalkNests
  BY <1>1 DEF WalkNests, Live, File
<1>. QED BY <1>2, <1>3, <1>4 DEF NestInv

\* However scopes are nested: each token lies in the scope the walk read it in,
\* and in no scope that is inside that one.
THEOREM ScopesAlwaysNest == Spec => []NestInv
<1>1. ASSUME NestInv, UNCHANGED vars
      PROVE  NestInv'
  <2>1. UNCHANGED <<symbols, scopes, context, open>>
    BY <1>1 DEF vars
  <2>2. (ScopesNest /\ TokensNest)'
    BY <1>1, <2>1 DEF NestInv, ScopesNest, TokensNest, Live, EndOfText, Encloses,
                      ContainsPosition, Here
  <2>3. (WalkNests /\ StackNests)'
    BY <1>1, <2>1 DEF NestInv, WalkNests, StackNests, InnerScope, Live, EndOfText
  <2>. QED BY <2>2, <2>3 DEF NestInv
<1>2. ScopesInv /\ NestInv /\ [Next]_vars => NestInv'
  BY <1>1, ReadTokenNests, OpenAssignmentNests, OpenLambdaNests, OpenForNests,
     OpenClauseNests, CloseNests DEF Next
<1>. QED BY InitNests, <1>2, ScopesAlwaysInv, PTL DEF Spec

\* The scope that contains a position and has no scope inside it that does is,
\* for each token, of the range of the one the walk read the token in.
LEMMA AtIsItsScope ==
  ASSUME ScopesInv, NestInv, NEW p \in DOMAIN symbols
  PROVE  /\ At(p) \in 1..Len(scopes)
         /\ scopes[At(p)].start = scopes[symbols[p].scope].start
         /\ scopes[At(p)].stop = scopes[symbols[p].scope].stop
<1>. DEFINE in == symbols[p].scope
            around == {s \in DOMAIN scopes : ContainsPosition(s, p)}
            inner == {s \in around : ~\E t \in around : IsInside(t, s)}
<1>1. /\ DOMAIN scopes = 1..Len(scopes) /\ Len(scopes) \in Nat /\ in \in 1..Len(scopes)
      /\ p \in 1..Len(symbols)
      /\ \A s \in 1..Len(scopes) : scopes[s].start \in Nat /\ scopes[s].stop \in Nat
  BY Referred
<1>2. /\ ContainsPosition(in, p)
      /\ \A t \in 1..Len(scopes) : ContainsPosition(t, p) => Encloses(t, in)
  BY <1>1 DEF NestInv, TokensNest
<1>. HIDE DEF in
<1>3. in \in inner
  BY <1>1, <1>2 DEF Encloses, IsInside
<1>4. ASSUME NEW s \in inner
      PROVE  scopes[s].start = scopes[in].start /\ scopes[s].stop = scopes[in].stop
  <2>1. s \in 1..Len(scopes) /\ Encloses(s, in) /\ ~IsInside(in, s)
    BY <1>1, <1>2
  <2>. QED BY <1>1, <2>1 DEF Encloses, IsInside
<1>5. inner \subseteq Nat /\ inner # {}
  BY <1>1, <1>3
<1>6. At(p) = Min(inner)
  BY DEF At
<1>7. At(p) \in inner /\ inner \subseteq 1..Len(scopes)
  BY <1>1, <1>5, <1>6, MinIsLeast
<1>. HIDE DEF inner
<1>. QED BY <1>4, <1>7 DEF in

\* Looking up the scope of a position finds a scope of the range the walk was
\* in, for programs of any length and nesting.
THEOREM PositionsAlwaysFindTheirScope == Spec => []PositionsFindTheirScope
<1>1. ScopesInv /\ NestInv => PositionsFindTheirScope
  BY AtIsItsScope DEF PositionsFindTheirScope
<1>. QED BY <1>1, ScopesAlwaysInv, ScopesAlwaysNest, PTL
-----------------------------------------------------------------------------
(* How the facts follow the text. *)

\* A fact is of a token, in a scope that has begun, before the value it is given.
FactsLie ==
  \A i \in 1..Len(facts) :
    /\ facts[i].at \in 1..Len(symbols)
    /\ symbols[facts[i].at].name = facts[i].name
    /\ scopes[facts[i].scope].start <= facts[i].at
    /\ facts[i].value = NoValue \/ facts[i].at < facts[i].value.start

\* They are collected from left to right.
FactsRise ==
  \A i, j \in 1..Len(facts) : i < j => facts[i].at < facts[j].at

\* The targets of an assignment stand before its value.
NodesCollect ==
  \A i \in 1..Len(open) : \A j \in open[i].facts :
    j \in 1..Len(facts) /\ facts[j].at < open[i].from

FactsInv == FactsLie /\ FactsRise /\ NodesCollect

\* What binding names does.
LEMMA FactsBound ==
  ASSUME facts \in Seq(Facts), NEW names \in Seq(Names), NEW from \in Nat,
         NEW role, NEW effect, NEW where,
         facts' = Bind(names, from, role, effect, where)
  PROVE  /\ Len(facts) \in Nat /\ Len(names) \in Nat
         /\ Len(facts') = Len(facts) + Len(names)
         /\ \A i \in 1..Len(facts) : facts'[i] = facts[i]
         /\ \A i \in 1..Len(facts') : i > Len(facts) =>
              /\ i - Len(facts) \in 1..Len(names)
              /\ facts'[i].at = from + (i - Len(facts)) - 1
              /\ facts'[i].name = names[i - Len(facts)]
              /\ facts'[i].value = NoValue
              /\ facts'[i].scope = IF effect = "Declare" THEN where.scope
                                   ELSE where.assignmentScope
<1>. DEFINE fact(i) == Fact(names[i], from + i - 1, role, effect, where)
            more == [i \in DOMAIN names |-> fact(i)]
            S == Facts \cup {fact(i) : i \in DOMAIN names}
<1>1. /\ Len(facts) \in Nat /\ Len(names) \in Nat /\ DOMAIN names = 1..Len(names)
  OBVIOUS
<1>2. ASSUME NEW i \in DOMAIN names
      PROVE  /\ fact(i).at = from + i - 1 /\ fact(i).name = names[i]
             /\ fact(i).value = NoValue
             /\ fact(i).scope = IF effect = "Declare" THEN where.scope
                                ELSE where.assignmentScope
  BY DEF Fact
<1>. HIDE DEF fact
<1>3. more \in Seq(S) /\ Len(more) = Len(names)
  <2>1. more \in [1..Len(names) -> S]
    BY <1>1
  <2>. QED BY <1>1, <2>1
<1>4. facts \in Seq(S)
  <2>1. facts \in [1..Len(facts) -> Facts]
    OBVIOUS
  <2>2. facts \in [1..Len(facts) -> S]
    BY <2>1
  <2>. QED BY <1>1, <2>2
<1>5. facts' = facts \o more
  BY DEF Bind, fact
<1>6. \A i \in 1..Len(names) : more[i] = fact(i)
  BY <1>1
<1>. HIDE DEF S, more
<1>7. /\ Len(facts') = Len(facts) + Len(names)
      /\ \A i \in 1..Len(facts) : facts'[i] = facts[i]
      /\ \A i \in 1..Len(facts') : i > Len(facts) =>
           facts'[i] = more[i - Len(facts)] /\ i - Len(facts) \in 1..Len(names)
  <2>1. /\ Len(facts \o more) = Len(facts) + Len(more)
        /\ \A i \in 1..Len(facts) : (facts \o more)[i] = facts[i]
        /\ \A i \in 1..Len(facts \o more) : i > Len(facts) =>
             (facts \o more)[i] = more[i - Len(facts)] /\ i - Len(facts) \in 1..Len(more)
    BY <1>3, <1>4, Joined
  <2>. QED BY <1>3, <1>5, <2>1
<1>8. ASSUME NEW i \in 1..Len(facts'), i > Len(facts)
      PROVE  /\ i - Len(facts) \in 1..Len(names)
             /\ facts'[i].at = from + (i - Len(facts)) - 1
             /\ facts'[i].name = names[i - Len(facts)]
             /\ facts'[i].value = NoValue
             /\ facts'[i].scope = IF effect = "Declare" THEN where.scope
                                  ELSE where.assignmentScope
  <2>1. PICK k \in 1..Len(names) : k = i - Len(facts) /\ facts'[i] = more[k]
    BY <1>7, <1>8
  <2>2. facts'[i] = fact(k) /\ k \in DOMAIN names
    BY <1>1, <1>6, <2>1
  <2>. QED BY <1>2, <2>1, <2>2
<1>. QED BY <1>1, <1>7, <1>8

\* Facts of tokens just read follow the others.
LEMMA MoreFactsFollow ==
  ASSUME ScopesInv, NestInv, FactsInv, NEW n \in Nat,
         Len(symbols') = Len(symbols) + n,
         \A p \in 1..Len(symbols) : symbols'[p] = symbols[p],
         \A s \in 1..Len(scopes) : scopes'[s].start = scopes[s].start,
         NEW k \in Nat, Len(facts') = Len(facts) + k, k <= n,
         \A i \in 1..Len(facts) : facts'[i] = facts[i],
         \A i \in 1..Len(facts') : i > Len(facts) =>
           /\ facts'[i].at = Here + (i - Len(facts)) - 1
           /\ facts'[i].name = symbols'[facts'[i].at].name
           /\ facts'[i].value = NoValue
           /\ scopes'[facts'[i].scope].start <= Here
           /\ scopes'[facts'[i].scope].start \in Nat
  PROVE  (FactsLie /\ FactsRise)'
<1>1. /\ Len(facts) \in Nat /\ Len(symbols) \in Nat /\ Here = Len(symbols) + 1
      /\ \A i \in 1..Len(facts) : facts[i].scope \in 1..Len(scopes)
  BY Referred
<1>2. ASSUME NEW i \in 1..Len(facts')
      PROVE  /\ facts'[i].at \in 1..Len(symbols')
             /\ symbols'[facts'[i].at].name = facts'[i].name
             /\ scopes'[facts'[i].scope].start <= facts'[i].at
             /\ facts'[i].value = NoValue \/ facts'[i].at < facts'[i].value.start
             /\ i <= Len(facts) => facts'[i].at <= Len(symbols)
             /\ i > Len(facts) => facts'[i].at = Len(symbols) + (i - Len(facts))
  <2>1. CASE i \in 1..Len(facts)
    <3>1. /\ facts[i].at \in 1..Len(symbols) /\ symbols[facts[i].at].name = facts[i].name
          /\ scopes[facts[i].scope].start <= facts[i].at
          /\ facts[i].value = NoValue \/ facts[i].at < facts[i].value.start
      BY <2>1 DEF FactsInv, FactsLie
    <3>. QED BY <1>1, <2>1, <3>1
  <2>2. CASE i > Len(facts)
    <3>1. /\ facts'[i].at = Here + (i - Len(facts)) - 1 /\ i - Len(facts) \in 1..k
          /\ facts'[i].name = symbols'[facts'[i].at].name
          /\ facts'[i].value = NoValue
          /\ scopes'[facts'[i].scope].start <= Here
          /\ scopes'[facts'[i].scope].start \in Nat
      <4>1. i - Len(facts) \in 1..k
        BY <1>1, <2>2
      <4>. QED BY <2>2, <4>1
    <3>. QED BY <1>1, <2>2, <3>1
  <2>. QED BY <1>1, <2>1, <2>2
<1>3. ASSUME NEW i \in 1..Len(facts'), NEW j \in 1..Len(facts'), i < j
      PROVE  facts'[i].at < facts'[j].at
  <2>1. CASE j \in 1..Len(facts)
    <3>1. i \in 1..Len(facts) /\ facts[i].at < facts[j].at
      BY <1>1, <1>3, <2>1 DEF FactsInv, FactsRise
    <3>. QED BY <2>1, <3>1
  <2>2. CASE j > Len(facts) /\ i \in 1..Len(facts)
    BY <1>1, <1>2, <2>2
  <2>3. CASE j > Len(facts) /\ i > Len(facts)
    BY <1>1, <1>2, <1>3, <2>3
  <2>. QED BY <1>1, <2>1, <2>2, <2>3
<1>4. FactsLie'
  BY <1>2 DEF FactsLie, NoValue
<1>5. FactsRise'
  BY <1>3 DEF FactsRise
<1>. QED BY <1>4, <1>5

LEMMA SameFactsFollow ==
  ASSUME ScopesInv, FactsInv, UNCHANGED facts, Len(symbols') \in Nat,
         Len(symbols') >= Len(symbols),
         \A p \in 1..Len(symbols) : symbols'[p] = symbols[p],
         \A s \in 1..Len(scopes) : scopes'[s].start = scopes[s].start
  PROVE  (FactsLie /\ FactsRise)'
<1>1. /\ Len(facts) \in Nat /\ Len(symbols) \in Nat
      /\ \A i \in 1..Len(facts) : facts[i].scope \in 1..Len(scopes)
  BY Referred
<1>2. ASSUME NEW i \in 1..Len(facts)
      PROVE  /\ facts[i].at \in 1..Len(symbols')
             /\ symbols'[facts[i].at].name = facts[i].name
             /\ scopes'[facts[i].scope].start <= facts[i].at
             /\ facts[i].value = NoValue \/ facts[i].at < facts[i].value.start
  BY <1>1 DEF FactsInv, FactsLie
<1>. QED BY <1>2 DEF FactsInv, FactsLie, FactsRise, NoValue

\* The nodes that stay have collected what they had.
LEMMA NodesStillCollect ==
  ASSUME ScopesInv, FactsInv, Len(facts') >= Len(facts), Len(facts') \in Nat,
         \A i \in 1..Len(facts) : facts'[i].at = facts[i].at,
         NEW i \in 1..Len(open), NEW j \in open[i].facts
  PROVE  j \in 1..Len(facts') /\ facts'[j].at < open[i].from
BY Referred DEF FactsInv, NodesCollect
\* Nothing is collected, nothing entered or left.
LEMMA ReadTokenFollows == ScopesInv /\ NestInv /\ FactsInv /\ ReadToken => FactsInv'
<1>. SUFFICES ASSUME ScopesInv, NestInv, FactsInv, ReadToken PROVE FactsInv'
  OBVIOUS
<1>1. PICK name \in Names \cup {Other} : Read(<<name>>, context.scope)
  BY DEF ReadToken
<1>2. UNCHANGED <<scopes, open, facts>>
  BY DEF ReadToken
<1>3. /\ Len(symbols') = Len(symbols) + 1
      /\ \A p \in 1..Len(symbols) : symbols'[p] = symbols[p]
  <2>1. <<name>> \in Seq(Names \cup {Other}) /\ Len(<<name>>) = 1 /\ context.scope \in Nat
    BY Referred
  <2>. QED BY <1>1, <2>1, TokensRead
<1>4. (FactsLie /\ FactsRise)'
  <2>1. Len(symbols') \in Nat /\ Len(symbols') >= Len(symbols)
    BY <1>3, Referred
  <2>. QED BY <1>2, <1>3, <2>1, SameFactsFollow
<1>5. NodesCollect'
  BY <1>2 DEF FactsInv, NodesCollect
<1>. QED BY <1>4, <1>5 DEF FactsInv

LEMMA OpenAssignmentFollows ==
  ScopesInv /\ NestInv /\ FactsInv /\ OpenAssignment => FactsInv'
<1>. SUFFICES ASSUME ScopesInv, NestInv, FactsInv, OpenAssignment PROVE FactsInv'
  OBVIOUS
<1>1. PICK names \in Targets, effect \in {"Declare", "Assign"} :
        /\ Read(names, context.scope)
        /\ facts' = Bind(names, Here, "Ordinary", effect, context)
        /\ Enter(Node("assignment", None, Here + Len(names),
                      (Len(facts) + 1)..(Len(facts) + Len(names))))
  BY DEF OpenAssignment
<1>2. UNCHANGED scopes
  BY DEF OpenAssignment
<1>3. /\ Len(symbols) \in Nat /\ Here = Len(symbols) + 1 /\ Here \in Nat
      /\ Len(scopes) \in Nat /\ Len(facts) \in Nat /\ Len(open) \in Nat
      /\ context.scope \in 1..Len(scopes) /\ context.assignmentScope \in 1..Len(scopes)
  BY Referred DEF ScopesInv, Fits
<1>4. names \in Seq(Names) /\ names \in Seq(Names \cup {Other}) /\ facts \in Seq(Facts)
  BY ScopesAssumption DEF ScopesInv, Types
<1>5. /\ Len(names) \in Nat /\ Len(symbols') = Len(symbols) + Len(names)
      /\ \A p \in 1..Len(symbols) : symbols'[p] = symbols[p]
      /\ \A p \in 1..Len(symbols') :
           p > Len(symbols) => symbols'[p].name = names[p - Len(symbols)]
  <2>1. context.scope \in Nat
    BY <1>3
  <2>. QED BY <1>1, <1>4, <2>1, TokensRead
<1>6. /\ Len(facts') = Len(facts) + Len(names)
      /\ \A i \in 1..Len(facts) : facts'[i] = facts[i]
      /\ \A i \in 1..Len(facts') : i > Len(facts) =>
           /\ i - Len(facts) \in 1..Len(names)
           /\ facts'[i].at = Here + (i - Len(facts)) - 1
           /\ facts'[i].name = names[i - Len(facts)]
           /\ facts'[i].value = NoValue
           /\ facts'[i].scope = IF effect = "Declare" THEN context.scope
                                ELSE context.assignmentScope
  <2>1. facts' = Bind(names, Here, "Ordinary", effect, context)
    BY <1>1
  <2>. QED BY <1>3, <1>4, <2>1, FactsBound
<1>7. (FactsLie /\ FactsRise)'
  <2>1. ASSUME NEW i \in 1..Len(facts'), i > Len(facts)
        PROVE  /\ facts'[i].at = Here + (i - Len(facts)) - 1
               /\ facts'[i].name = symbols'[facts'[i].at].name
               /\ facts'[i].value = NoValue
               /\ scopes'[facts'[i].scope].start <= Here
               /\ scopes'[facts'[i].scope].start \in Nat
    <3>1. /\ facts'[i].at = Here + (i - Len(facts)) - 1 /\ i - Len(facts) \in 1..Len(names)
          /\ facts'[i].name = names[i - Len(facts)] /\ facts'[i].value = NoValue
          /\ facts'[i].scope \in 1..Len(scopes)
      BY <1>3, <1>6, <2>1
    <3>2. facts'[i].name = symbols'[facts'[i].at].name
      <4>1. facts'[i].at - Len(symbols) = i - Len(facts)
            /\ facts'[i].at \in 1..Len(symbols') /\ facts'[i].at > Len(symbols)
        BY <1>3, <1>5, <3>1
      <4>. QED BY <1>5, <3>1, <4>1
    <3>3. scopes[facts'[i].scope].start \in 1..Here
      BY <3>1 DEF NestInv, ScopesNest
    <3>4. scopes'[facts'[i].scope].start \in 1..Here
      BY <1>2, <3>3
    <3>5. scopes'[facts'[i].scope].start <= Here /\ scopes'[facts'[i].scope].start \in Nat
      BY <1>3, <3>4
    <3>. QED BY <3>1, <3>2, <3>5
  <2>2. \A s \in 1..Len(scopes) : scopes'[s].start = scopes[s].start
    BY <1>2
  <2>3. Len(names) <= Len(names)
    BY <1>5
  <2>. QED BY <1>5, <1>6, <2>1, <2>2, <2>3, MoreFactsFollow
<1>8. /\ Len(open') = Len(open) + 1
      /\ \A i \in 1..Len(open) : open'[i] = open[i]
      /\ open'[Len(open) + 1].from = Here + Len(names)
      /\ open'[Len(open) + 1].facts = (Len(facts) + 1)..(Len(facts) + Len(names))
  BY <1>1, NodeEntered
<1>9. ASSUME NEW i \in 1..Len(open'), NEW j \in open'[i].facts
      PROVE  j \in 1..Len(facts') /\ facts'[j].at < open'[i].from
  <2>1. CASE i \in 1..Len(open)
    <3>1. Len(facts') \in Nat /\ Len(facts') >= Len(facts)
      BY <1>3, <1>5, <1>6
    <3>2. \A k \in 1..Len(facts) : facts'[k].at = facts[k].at
      BY <1>6
    <3>3. open'[i] = open[i] /\ j \in open[i].facts
      BY <1>8, <1>9, <2>1
    <3>. QED BY <2>1, <3>1, <3>2, <3>3, NodesStillCollect
  <2>2. CASE i = Len(open) + 1
    <3>1. /\ j \in (Len(facts) + 1)..(Len(facts) + Len(names))
          /\ open'[i].from = Here + Len(names)
      BY <1>8, <1>9, <2>2
    <3>2. j \in 1..Len(facts') /\ j > Len(facts)
      BY <1>3, <1>5, <1>6, <3>1
    <3>3. facts'[j].at = Here + (j - Len(facts)) - 1
      BY <1>6, <3>2
    <3>. QED BY <1>3, <1>5, <3>1, <3>2, <3>3
  <2>. QED BY <1>3, <1>8, <2>1, <2>2
<1>10. NodesCollect'
  BY <1>9 DEF NodesCollect
<1>. QED BY <1>7, <1>10 DEF FactsInv

\* A scope opened with a parameter, or with nothing to collect.
LEMMA OpenScopeFollows ==
  ASSUME ScopesInv, NestInv, FactsInv, NEW start, NEW mayEscape,
         PushRange(start, mayEscape), start = Here \/ UNCHANGED facts,
         NEW name \in Names \cup {Other}, NEW scope \in Nat, Read(<<name>>, scope),
         \/ UNCHANGED facts
         \/ /\ name \in Names /\ context'.scope = Pushed
            /\ facts' = Bind(<<name>>, Here, "Parameter", "Declare", context'),
         NEW kind, NEW from, Enter(Node(kind, Pushed, from, {}))
  PROVE  FactsInv'
<1>1. /\ Len(symbols) \in Nat /\ Here = Len(symbols) + 1 /\ Here \in Nat
      /\ Len(scopes) \in Nat /\ Len(facts) \in Nat /\ Len(open) \in Nat
      /\ facts \in Seq(Facts)
  BY Referred DEF ScopesInv, Types
<1>2. /\ Len(symbols') = Len(symbols) + 1
      /\ \A p \in 1..Len(symbols) : symbols'[p] = symbols[p]
      /\ symbols'[Here].name = name
  <2>1. <<name>> \in Seq(Names \cup {Other}) /\ Len(<<name>>) = 1 /\ <<name>>[1] = name
    OBVIOUS
  <2>2. /\ Len(symbols') = Len(symbols) + 1
        /\ \A p \in 1..Len(symbols) : symbols'[p] = symbols[p]
        /\ \A p \in 1..Len(symbols') :
             p > Len(symbols) => symbols'[p].name = <<name>>[p - Len(symbols)]
    BY <2>1, TokensRead
  <2>3. Here \in 1..Len(symbols') /\ Here > Len(symbols) /\ Here - Len(symbols) = 1
    BY <1>1, <2>2
  <2>. QED BY <2>1, <2>2, <2>3
<1>3. /\ Pushed = Len(scopes) + 1
      /\ \A s \in 1..Len(scopes) : scopes'[s].start = scopes[s].start
      /\ scopes'[Pushed].start = start
  BY ScopePushed
<1>4. /\ (FactsLie /\ FactsRise)' /\ Len(facts') \in Nat /\ Len(facts') >= Len(facts)
      /\ \A i \in 1..Len(facts) : facts'[i] = facts[i]
  <2>1. CASE UNCHANGED facts
    <3>1. Len(symbols') \in Nat /\ Len(symbols') >= Len(symbols)
      BY <1>1, <1>2
    <3>. QED BY <1>1, <1>2, <1>3, <2>1, <3>1, SameFactsFollow
  <2>2. CASE /\ name \in Names /\ context'.scope = Pushed /\ start = Here
             /\ facts' = Bind(<<name>>, Here, "Parameter", "Declare", context')
    <3>1. <<name>> \in Seq(Names) /\ Len(<<name>>) = 1 /\ <<name>>[1] = name
      BY <2>2
    <3>2. /\ Len(facts') = Len(facts) + 1
          /\ \A i \in 1..Len(facts) : facts'[i] = facts[i]
          /\ \A i \in 1..Len(facts') : i > Len(facts) =>
               /\ i - Len(facts) \in 1..1
               /\ facts'[i].at = Here + (i - Len(facts)) - 1
               /\ facts'[i].name = <<name>>[i - Len(facts)]
               /\ facts'[i].value = NoValue
               /\ facts'[i].scope = Pushed
      <4>1. PICK names, effect, where :
              /\ names = <<name>> /\ effect = "Declare" /\ where = context'
              /\ facts' = Bind(names, Here, "Parameter", effect, where)
        BY <2>2
      <4>2. /\ Len(facts') = Len(facts) + Len(names)
            /\ \A i \in 1..Len(facts) : facts'[i] = facts[i]
            /\ \A i \in 1..Len(facts') : i > Len(facts) =>
                 /\ i - Len(facts) \in 1..Len(names)
                 /\ facts'[i].at = Here + (i - Len(facts)) - 1
                 /\ facts'[i].name = names[i - Len(facts)]
                 /\ facts'[i].value = NoValue
                 /\ facts'[i].scope = IF effect = "Declare" THEN where.scope
                                      ELSE where.assignmentScope
        <5>1. names \in Seq(Names) /\ facts' = Bind(names, Here, "Parameter", effect, where)
          BY <3>1, <4>1
        <5>. QED BY <1>1, <5>1, FactsBound
      <4>. QED BY <2>2, <3>1, <4>1, <4>2
    <3>3. ASSUME NEW i \in 1..Len(facts'), i > Len(facts)
          PROVE  /\ facts'[i].at = Here + (i - Len(facts)) - 1
                 /\ facts'[i].name = symbols'[facts'[i].at].name
                 /\ facts'[i].value = NoValue
                 /\ scopes'[facts'[i].scope].start <= Here
                 /\ scopes'[facts'[i].scope].start \in Nat
      <4>1. i - Len(facts) = 1
        BY <3>2, <3>3
      <4>. QED BY <1>1, <1>2, <1>3, <2>2, <3>1, <3>2, <3>3, <4>1
    <3>. QED BY <1>1, <1>2, <1>3, <3>2, <3>3, MoreFactsFollow
  <2>. QED BY <2>1, <2>2
<1>5. /\ Len(open') = Len(open) + 1
      /\ \A i \in 1..Len(open) : open'[i] = open[i]
      /\ open'[Len(open) + 1].facts = {}
  BY NodeEntered
<1>6. ASSUME NEW i \in 1..Len(open'), NEW j \in open'[i].facts
      PROVE  j \in 1..Len(facts') /\ facts'[j].at < open'[i].from
  <2>1. i \in 1..Len(open) /\ open'[i] = open[i]
    BY <1>1, <1>5, <1>6
  <2>. QED BY <1>4, <1>6, <2>1, NodesStillCollect
<1>7. NodesCollect'
  BY <1>6 DEF NodesCollect
<1>. QED BY <1>4, <1>7 DEF FactsInv

LEMMA OpenLambdaFollows == ScopesInv /\ NestInv /\ FactsInv /\ OpenLambda => FactsInv'
<1>. SUFFICES ASSUME ScopesInv, NestInv, FactsInv, OpenLambda PROVE FactsInv'
  OBVIOUS
<1>1. PICK name \in Names \cup {Other} :
        /\ Read(<<name>>, Pushed)
        /\ facts' = IF name = Other THEN facts
                    ELSE Bind(<<name>>, Here, "Parameter", "Declare", context')
  BY DEF OpenLambda
<1>2. /\ PushRange(Here, TRUE) /\ context'.scope = Pushed /\ Pushed \in Nat
      /\ Enter(Node("lambda", Pushed, Here + 1, {}))
  <2>1. Pushed \in Nat
    BY Referred DEF Pushed
  <2>. QED BY <2>1 DEF OpenLambda
<1>3. \/ UNCHANGED facts
      \/ /\ name \in Names /\ context'.scope = Pushed
         /\ facts' = Bind(<<name>>, Here, "Parameter", "Declare", context')
  BY <1>1, <1>2
<1>. QED BY <1>1, <1>2, <1>3, OpenScopeFollows

LEMMA OpenForFollows == ScopesInv /\ NestInv /\ FactsInv /\ OpenFor => FactsInv'
<1>. SUFFICES ASSUME ScopesInv, NestInv, FactsInv, OpenFor PROVE FactsInv'
  OBVIOUS
<1>1. PICK name \in Names :
        /\ Read(<<name>>, Pushed)
        /\ facts' = Bind(<<name>>, Here, "Parameter", "Declare", context')
  BY DEF OpenFor
<1>2. /\ PushRange(Here, FALSE) /\ Pushed \in Nat
      /\ Enter(Node("for", Pushed, Here + 1, {}))
  <2>1. Pushed \in Nat
    BY Referred DEF Pushed
  <2>. QED BY <2>1 DEF OpenFor
<1>3. context'.scope = Pushed
  BY DEF OpenFor, ScopesInv, Types, Contexts
<1>. QED BY <1>1, <1>2, <1>3, OpenScopeFollows

LEMMA OpenClauseFollows == ScopesInv /\ NestInv /\ FactsInv /\ OpenClause => FactsInv'
<1>. SUFFICES ASSUME ScopesInv, NestInv, FactsInv, OpenClause PROVE FactsInv'
  OBVIOUS
<1>1. PICK kind \in {"Branch", "LoopClause"}, keyword \in BOOLEAN :
        /\ PushRange(IF keyword THEN Here ELSE Here + 1, kind = "Branch")
        /\ Read(<<Other>>, IF keyword THEN Pushed ELSE context.scope)
  BY DEF OpenClause
<1>2. /\ Enter(Node("clause", Pushed, Here + 1, {})) /\ UNCHANGED facts
      /\ (IF keyword THEN Pushed ELSE context.scope) \in Nat
  BY Referred DEF OpenClause, Pushed
<1>. QED BY <1>1, <1>2, OpenScopeFollows

\* The values a node gives end where it is left, and began behind the targets.
LEMMA CloseFollows == ScopesInv /\ NestInv /\ FactsInv /\ Close => FactsInv'
<1>. SUFFICES ASSUME ScopesInv, NestInv, FactsInv, Close PROVE FactsInv'
  OBVIOUS
<1>. DEFINE node == open[Len(open)]
<1>1. /\ DOMAIN scopes = 1..Len(scopes) /\ Len(scopes) \in Nat
      /\ DOMAIN facts = 1..Len(facts) /\ Len(facts) \in Nat
      /\ \A s \in 1..Len(scopes) : scopes[s] \in ScopeRecords
      /\ \A i \in 1..Len(facts) : facts[i] \in Facts /\ facts[i].scope \in 1..Len(scopes)
      /\ open \in Seq(Nodes) /\ open # <<>>
  BY Referred DEF ScopesInv, Types, Close
<1>2. Len(open) \in Nat \ {0} /\ \A i \in 1..Len(open) : open[i] \in Nodes
  BY <1>1
<1>3. /\ UNCHANGED symbols /\ open' = Front(open)
      /\ scopes' = [s \in DOMAIN scopes |->
                      IF s = node.scope
                      THEN [scopes[s] EXCEPT !.stop = Here] ELSE scopes[s]]
      /\ facts' = [i \in DOMAIN facts |->
                     IF i \in node.facts
                     THEN [facts[i] EXCEPT
                             !.value = [start |-> node.from, stop |-> Here]]
                     ELSE facts[i]]
  BY DEF Close, Last
<1>4. \A i \in node.facts : i \in 1..Len(facts) /\ facts[i].at < node.from
  BY <1>2 DEF FactsInv, NodesCollect
<1>. HIDE DEF node
<1>5. \A s \in 1..Len(scopes) : scopes'[s].start = scopes[s].start
  <2>. SUFFICES ASSUME NEW s \in 1..Len(scopes)
                PROVE  scopes'[s].start = scopes[s].start
    OBVIOUS
  <2>1. scopes[s] \in ScopeRecords
    BY <1>1
  <2>. QED BY <1>1, <1>3, <2>1 DEF ScopeRecords
<1>6. /\ Len(facts') = Len(facts)
      /\ \A i \in 1..Len(facts) :
           /\ facts'[i].at = facts[i].at /\ facts'[i].name = facts[i].name
           /\ facts'[i].scope = facts[i].scope
           /\ \/ facts'[i].value = facts[i].value
              \/ facts[i].at < node.from /\ facts'[i].value.start = node.from
  <2>1. ASSUME NEW i \in 1..Len(facts)
        PROVE  /\ facts'[i].at = facts[i].at /\ facts'[i].name = facts[i].name
               /\ facts'[i].scope = facts[i].scope
               /\ \/ facts'[i].value = facts[i].value
                  \/ facts[i].at < node.from /\ facts'[i].value.start = node.from
    <3>1. facts[i] \in Facts
      BY <1>1
    <3>. QED BY <1>1, <1>3, <1>4, <3>1 DEF Facts
  <2>2. Len(facts') = Len(facts)
    BY <1>1, <1>3
  <2>. QED BY <2>1, <2>2
<1>7. FactsLie'
  <2>1. ASSUME NEW i \in 1..Len(facts)
        PROVE  /\ facts'[i].at \in 1..Len(symbols)
               /\ symbols[facts'[i].at].name = facts'[i].name
               /\ scopes'[facts'[i].scope].start <= facts'[i].at
               /\ facts'[i].value = NoValue \/ facts'[i].at < facts'[i].value.start
    BY <1>1, <1>5, <1>6 DEF FactsInv, FactsLie
  <2>. QED BY <1>3, <1>6, <2>1 DEF FactsLie, NoValue
<1>8. FactsRise'
  BY <1>6 DEF FactsInv, FactsRise
<1>9. NodesCollect'
  <2>1. Len(open') = Len(open) - 1 /\ \A i \in 1..Len(open') : open'[i] = open[i]
    <3>1. open' = SubSeq(open, 1, Len(open) - 1)
      BY <1>3 DEF Front
    <3>2. open' = [i \in 1..(Len(open) - 1) |-> open[i]]
      BY <1>1, <1>2, <3>1
    <3>. QED BY <1>2, <3>2
  <2>2. ASSUME NEW i \in 1..Len(open'), NEW j \in open'[i].facts
        PROVE  j \in 1..Len(facts') /\ facts'[j].at < open'[i].from
    BY <1>1, <1>2, <1>6, <2>1, NodesStillCollect
  <2>. QED BY <2>2 DEF NodesCollect
<1>. QED BY <1>7, <1>8, <1>9 DEF FactsInv

\* Facts are collected from left to right, each of the token it names, in a
\* scope that began before it, and its value comes behind it.
THEOREM FactsAlwaysFollow == Spec => []FactsInv
<1>1. Init => FactsInv
  BY DEF Init, FactsInv, FactsLie, FactsRise, NodesCollect
<1>2. FactsInv /\ UNCHANGED vars => FactsInv'
  BY DEF FactsInv, FactsLie, FactsRise, NodesCollect, vars, NoValue
<1>3. ScopesInv /\ NestInv /\ FactsInv /\ [Next]_vars => FactsInv'
  BY <1>2, ReadTokenFollows, OpenAssignmentFollows, OpenLambdaFollows,
     OpenForFollows, OpenClauseFollows, CloseFollows DEF Next
<1>. QED BY <1>1, <1>3, ScopesAlwaysInv, ScopesAlwaysNest, PTL DEF Spec
-----------------------------------------------------------------------------
(* Climbing the scopes. *)

\* What the climb from a scope is, one scope at a time.  That there is such a
\* function is an induction over the scopes, parents first.
LEMMA ChainClimbs ==
  ASSUME ScopesInv
  PROVE  \A s \in 1..Len(scopes) :
           Chain(s) = IF s = 1 THEN {1} ELSE {s} \cup Chain(scopes[s].parent)
<1>. DEFINE climb(f, s) == IF s = 1 THEN {1} ELSE {s} \cup f[scopes[s].parent]
            upTo(k, f) == f = [s \in 1..k |-> climb(f, s)]
            P == {k \in 0..Len(scopes) : \E f : upTo(k, f)}
<1>1. /\ Len(scopes) \in Nat /\ DOMAIN scopes = 1..Len(scopes)
      /\ \A s \in 1..Len(scopes) : s # 1 => scopes[s].parent \in 1..(s - 1)
  <2>1. \A s \in 2..Len(scopes) : scopes[s].parent \in 1..(s - 1)
    BY DEF ScopesInv
  <2>. QED BY <2>1, Referred
<1>2. Len(scopes) \in P
  <2>1. 0 \in P
    <3>. DEFINE f == [s \in 1..0 |-> {}]
    <3>1. f = [s \in 1..0 |-> climb(f, s)]
      OBVIOUS
    <3>2. 0 \in 0..Len(scopes) /\ upTo(0, f)
      BY <1>1, <3>1
    <3>. HIDE DEF upTo, f
    <3>. QED BY <3>2
  <2>2. ASSUME NEW m \in 1..Len(scopes), m \notin P, m - 1 \in P
        PROVE  FALSE
    <3>1. PICK f : upTo(m - 1, f)
      BY <2>2
    <3>2. DOMAIN f = 1..(m - 1) /\ \A s \in 1..(m - 1) : f[s] = climb(f, s)
      BY <3>1
    <3>. DEFINE g == [s \in 1..m |-> IF s = m THEN climb(f, m) ELSE f[s]]
    <3>3. ASSUME NEW s \in 1..m PROVE g[s] = climb(g, s)
      <4>1. CASE s = 1
        BY <2>2, <3>2, <4>1
      <4>2. CASE s # 1
        <5>1. scopes[s].parent \in 1..(s - 1) /\ scopes[s].parent \in 1..m
              /\ scopes[s].parent # m
          BY <1>1, <2>2, <4>2
        <5>2. g[scopes[s].parent] = f[scopes[s].parent]
          BY <5>1
        <5>3. g[s] = climb(f, s)
          <6>1. CASE s = m
            BY <6>1
          <6>2. CASE s # m
            <7>1. s \in 1..(m - 1) /\ g[s] = f[s]
              BY <2>2, <6>2
            <7>. QED BY <3>2, <7>1
          <6>. QED BY <6>1, <6>2
        <5>. QED BY <4>2, <5>2, <5>3
      <4>. QED BY <4>1, <4>2
    <3>. HIDE DEF climb
    <3>4. g = [s \in 1..m |-> climb(g, s)]
      BY <3>3
    <3>5. upTo(m, g) /\ m \in 0..Len(scopes)
      BY <3>4, <2>2
    <3>. QED BY <2>2, <3>5
  <2>. HIDE DEF P
  <2>. QED BY <1>1, <2>1, <2>2, FirstFailure
<1>. DEFINE chain == CHOOSE f : upTo(Len(scopes), f)
<1>3. upTo(Len(scopes), chain)
  <2>1. \E f : upTo(Len(scopes), f)
    BY <1>2
  <2>. HIDE DEF upTo
  <2>. QED BY <2>1
<1>4. \A s \in 1..Len(scopes) : Chain(s) = chain[s]
  BY <1>1 DEF Chain
<1>. HIDE DEF chain
<1>5. \A s \in 1..Len(scopes) : chain[s] = climb(chain, s)
  BY <1>3
<1>6. ASSUME NEW s \in 1..Len(scopes)
      PROVE  Chain(s) = IF s = 1 THEN {1} ELSE {s} \cup Chain(scopes[s].parent)
  <2>1. CASE s = 1
    BY <1>4, <1>5, <2>1
  <2>2. CASE s # 1
    <3>1. scopes[s].parent \in 1..Len(scopes)
      BY <1>1, <2>2
    <3>2. Chain(s) = {s} \cup chain[scopes[s].parent]
      BY <1>4, <1>5, <2>2
    <3>. QED BY <1>4, <2>2, <3>1, <3>2
  <2>. QED BY <2>1, <2>2
<1>. QED BY <1>6

\* A climb starts at its scope and goes to the file, never inwards.
LEMMA ChainBelow ==
  ASSUME ScopesInv, NEW s \in 1..Len(scopes)
  PROVE  s \in Chain(s) /\ 1 \in Chain(s) /\ Chain(s) \subseteq 1..s
<1>. DEFINE T == {t \in 1..Len(scopes) :
                    ~(t \in Chain(t) /\ 1 \in Chain(t) /\ Chain(t) \subseteq 1..t)}
<1>1. /\ Len(scopes) \in Nat
      /\ \A t \in 1..Len(scopes) : t # 1 => scopes[t].parent \in 1..(t - 1)
  <2>1. \A t \in 2..Len(scopes) : scopes[t].parent \in 1..(t - 1)
    BY DEF ScopesInv
  <2>. QED BY <2>1, Referred
<1>2. ASSUME T # {} PROVE FALSE
  <2>0. T \subseteq Nat
    OBVIOUS
  <2>1. PICK m \in T : \A t \in T : m <= t
    <3>. HIDE DEF T
    <3>. QED BY <1>2, <2>0, LeastNumber
  <2>2. m # 1
    BY <1>1, ChainClimbs
  <2>. DEFINE up == scopes[m].parent
  <2>3. up \in 1..(m - 1) /\ Chain(m) = {m} \cup Chain(up)
    BY <1>1, <2>2, ChainClimbs
  <2>4. up \in 1..Len(scopes) /\ up \notin T
    BY <1>1, <2>1, <2>3
  <2>5. 1 \in Chain(up) /\ Chain(up) \subseteq 1..up
    BY <2>4
  <2>6. m \in Chain(m) /\ 1 \in Chain(m) /\ Chain(m) \subseteq 1..m
    BY <2>3, <2>5
  <2>. QED BY <2>1, <2>6
<1>. QED BY <1>2
-----------------------------------------------------------------------------
(* The registry, one fact at a time. *)

LEMMA MaxOfUpTo == \A n \in Nat \ {0} : Max(1..n) = n
<1>. SUFFICES ASSUME NEW n \in Nat \ {0} PROVE Max(1..n) = n
  OBVIOUS
<1>1. 1..n \subseteq 0..n /\ 1..n # {} /\ n \in 1..n
  OBVIOUS
<1>2. Max(1..n) \in 1..n /\ \A k \in 1..n : k <= Max(1..n)
  BY <1>1, MaxIsGreatest
<1>. QED BY <1>1, <1>2

\* The fold over the facts is what its steps give, from the first fact on.
LEMMA RegistryUnfolds ==
  ASSUME NEW n \in Nat, NEW col, DOMAIN col = 1..n
  PROVE  \E r : /\ r[0] = <<>> /\ RegistryOf(col) = r[n]
                /\ \A i \in 1..n : r[i] = CollectDefinition(r[i - 1], col[i])
<1>. DEFINE step(f, s) == IF s = {} THEN <<>>
                          ELSE CollectDefinition(f[s \ {Max(s)}], col[Max(s)])
            upTo(k, f) == f = [s \in SUBSET (1..k) |-> step(f, s)]
            P == {k \in 0..n : \E f : upTo(k, f)}
<1>1. n \in P
  <2>1. 0 \in P
    <3>. DEFINE f == [s \in SUBSET (1..0) |-> <<>>]
    <3>1. \A s \in SUBSET (1..0) : s = {}
      OBVIOUS
    <3>2. f = [s \in SUBSET (1..0) |-> step(f, s)]
      BY <3>1
    <3>3. 0 \in 0..n /\ upTo(0, f)
      BY <3>2
    <3>. HIDE DEF upTo, f
    <3>. QED BY <3>3
  <2>2. ASSUME NEW m \in 1..n, m \notin P, m - 1 \in P
        PROVE  FALSE
    <3>1. PICK f : upTo(m - 1, f)
      BY <2>2
    <3>2. \A s \in SUBSET (1..(m - 1)) : f[s] = step(f, s)
      BY <3>1
    <3>. DEFINE g == [s \in SUBSET (1..m) |->
                        IF m \in s THEN step(f, s) ELSE f[s]]
    <3>3. ASSUME NEW s \in SUBSET (1..m) PROVE g[s] = step(g, s)
      <4>1. CASE s = {}
        <5>1. s \in SUBSET (1..(m - 1)) /\ m \notin s
          BY <4>1
        <5>. QED BY <3>2, <4>1, <5>1
      <4>2. CASE s # {}
        <5>1. Max(s) \in s /\ \A k \in s : k <= Max(s)
          <6>1. s \subseteq 0..m /\ m \in Nat
            OBVIOUS
          <6>. QED BY <4>2, <6>1, MaxIsGreatest
        <5>2. s \ {Max(s)} \in SUBSET (1..m) /\ m \notin s \ {Max(s)}
          <6>1. Max(s) \in 1..m /\ m \in Nat
            <7>1. s \subseteq 1..m /\ Max(s) \in s
              BY <5>1, Zenon
            <7>2. m \in Nat
              OBVIOUS
            <7>. QED BY <7>1, <7>2, Zenon
          <6>2. m \in s => Max(s) = m
            BY <5>1, <6>1
          <6>. QED BY <6>2
        <5>3. g[s \ {Max(s)}] = f[s \ {Max(s)}]
          BY <5>2
        <5>4. g[s] = step(f, s)
          <6>1. CASE m \in s
            BY <6>1
          <6>2. CASE m \notin s
            <7>1. s \in SUBSET (1..(m - 1))
              BY <6>2
            <7>. QED BY <3>2, <6>2, <7>1
          <6>. QED BY <6>1, <6>2
        <5>. QED BY <4>2, <5>3, <5>4
      <4>. QED BY <4>1, <4>2
    <3>. HIDE DEF step
    <3>4. g = [s \in SUBSET (1..m) |-> step(g, s)]
      BY <3>3
    <3>. HIDE DEF g
    <3>5. upTo(m, g) /\ m \in 0..n
      BY <3>4, <2>2
    <3>. QED BY <2>2, <3>5
  <2>. HIDE DEF P
  <2>. QED BY <2>1, <2>2, FirstFailure
<1>. DEFINE iter == CHOOSE f : upTo(n, f)
<1>2. upTo(n, iter)
  <2>1. \E f : upTo(n, f)
    BY <1>1
  <2>. HIDE DEF upTo
  <2>. QED BY <2>1
<1>3. RegistryOf(col) = iter[1..n]
  BY DEF RegistryOf, FoldLeft, MapThenFoldSet
<1>. HIDE DEF iter
<1>4. \A s \in SUBSET (1..n) : iter[s] = step(iter, s)
  BY <1>2
<1>. DEFINE r == [i \in 0..n |-> iter[1..i]]
<1>5. r[0] = <<>>
  <2>1. 1..0 = {} /\ 1..0 \in SUBSET (1..n) /\ 0 \in 0..n
    OBVIOUS
  <2>2. iter[1..0] = <<>>
    BY <1>4, <2>1
  <2>. QED BY <2>1, <2>2
<1>6. ASSUME NEW i \in 1..n
      PROVE  r[i] = CollectDefinition(r[i - 1], col[i])
  <2>1. /\ 1..i \in SUBSET (1..n) /\ 1..i # {} /\ i \in 0..n /\ i - 1 \in 0..n
        /\ (1..i) \ {i} = 1..(i - 1)
    <3>1. /\ 1..i \in SUBSET (1..n) /\ i \in 1..i /\ i \in 0..n /\ i - 1 \in 0..n
      OBVIOUS
    <3>2. \A k : k \in (1..i) \ {i} <=> k \in 1..(i - 1)
      OBVIOUS
    <3>. QED BY <3>1, <3>2
  <2>2. Max(1..i) = i
    BY MaxOfUpTo
  <2>3. iter[1..i] = step(iter, 1..i)
    BY <1>4, <2>1
  <2>4. iter[1..i] = CollectDefinition(iter[1..(i - 1)], col[i])
    BY <2>1, <2>2, <2>3
  <2>. QED BY <2>1, <2>4
<1>7. RegistryOf(col) = r[n]
  BY <1>3
<1>. HIDE DEF r
<1>. QED BY <1>5, <1>6, <1>7
-----------------------------------------------------------------------------
(* Looking a name up. *)

States == [at : Nat, value : Values, scope : Nat]

\* Renaming puts a fresh name in.
AnyName == Names \cup {Fresh}

BindingRecords ==
  [name : AnyName, at : Nat, scope : Nat, role : {"Parameter", "Ordinary"},
   export : BOOLEAN, byAssignment : BOOLEAN, states : Seq(States)]

BindingsRise(r) == \A b, c \in 1..Len(r) : b < c => r[b].at < r[c].at

\* What a lookup may find: a binding, or a fact, of the name in a scope of the
\* climb, and in the scope it starts from only what comes before.
Visible(x, name, scope, p) ==
  x.name = name /\ x.scope \in Chain(scope) /\ (x.scope = scope => x.at <= p)

\* It is outside the other one, or before it in the same scope.
Yields(x, y) == x.scope < y.scope \/ (x.scope = y.scope /\ x.at <= y.at)

LEMMA LookupFinds ==
  ASSUME ScopesInv, NEW r \in Seq(BindingRecords), BindingsRise(r),
         NEW name, NEW scope \in 1..Len(scopes), NEW p \in Nat
  PROVE  LET b == BindingFromScope(r, name, scope, p)
         IN  \/ /\ b = None
                /\ \A c \in 1..Len(r) : ~Visible(r[c], name, scope, p)
             \/ /\ b \in 1..Len(r) /\ Visible(r[b], name, scope, p)
                /\ \A c \in 1..Len(r) : Visible(r[c], name, scope, p) => Yields(r[c], r[b])
<1>. DEFINE found(s) == {b \in DOMAIN r : /\ r[b].name = name /\ r[b].scope = s
                                          /\ s = scope => r[b].at <= p}
            homes == {s \in Chain(scope) : found(s) # {}}
            last(s) == CHOOSE b \in found(s) : \A c \in found(s) : r[c].at <= r[b].at
            b == BindingFromScope(r, name, scope, p)
<1>1. b = IF homes = {} THEN None ELSE last(Max(homes))
  BY DEF BindingFromScope, LastOf
<1>2. /\ DOMAIN r = 1..Len(r) /\ Len(r) \in Nat
      /\ \A c \in 1..Len(r) : r[c].at \in Nat /\ r[c].scope \in Nat
  <2>1. \A c \in 1..Len(r) : r[c] \in BindingRecords
    OBVIOUS
  <2>2. DOMAIN r = 1..Len(r) /\ Len(r) \in Nat
    OBVIOUS
  <2>. QED BY <2>1, <2>2 DEF BindingRecords
<1>3. homes \subseteq 0..Len(scopes)
  <2>1. Chain(scope) \subseteq 1..scope /\ Len(scopes) \in Nat
    BY ChainBelow, Referred
  <2>. QED BY <2>1
<1>4. \A c \in 1..Len(r) :
        Visible(r[c], name, scope, p) <=> r[c].scope \in homes /\ c \in found(r[c].scope)
  BY <1>2 DEF Visible
<1>5. CASE homes = {}
  <2>. HIDE DEF homes, found, last
  <2>. QED BY <1>1, <1>4, <1>5
<1>6. CASE homes # {}
  <2>. DEFINE h == Max(homes)
  <2>1. h \in homes /\ \A s \in homes : s <= h
    <3>. HIDE DEF homes
    <3>. QED BY <1>3, <1>6, MaxIsGreatest, Referred
  <2>2. h \in Nat /\ found(h) # {} /\ found(h) \subseteq 1..Len(r)
    BY <1>2, <1>3, <2>1
  <2>. HIDE DEF h, homes
  <2>3. PICK m \in found(h) : \A c \in found(h) : c <= m
    <3>1. found(h) \subseteq 0..Len(r)
      BY <1>2, <2>2
    <3>. HIDE DEF found
    <3>. QED BY <1>2, <2>2, <3>1, GreatestNumber
  <2>4. \A c \in found(h) : r[c].at <= r[m].at
    <3>. HIDE DEF found
    <3>1. ASSUME NEW c \in found(h) PROVE r[c].at <= r[m].at
      <4>1. c \in 1..Len(r) /\ m \in 1..Len(r) /\ c <= m
        BY <2>2, <2>3
      <4>. QED BY <1>2, <4>1 DEF BindingsRise
    <3>. QED BY <3>1
  <2>5. last(h) \in found(h) /\ \A c \in found(h) : r[c].at <= r[last(h)].at
    <3>. HIDE DEF found
    <3>. QED BY <2>4
  <2>6. b = last(h)
    BY <1>1, <1>6 DEF h
  <2>. HIDE DEF last, b
  <2>7. b \in 1..Len(r) /\ r[b].scope = h /\ Visible(r[b], name, scope, p)
    <3>1. b \in 1..Len(r) /\ b \in found(h)
      BY <2>2, <2>5, <2>6
    <3>2. r[b].scope = h
      BY <3>1
    <3>. HIDE DEF found
    <3>. QED BY <1>4, <2>1, <3>1, <3>2
  <2>8. ASSUME NEW c \in 1..Len(r), Visible(r[c], name, scope, p)
        PROVE  Yields(r[c], r[b])
    <3>. HIDE DEF found
    <3>1. r[c].scope \in homes /\ c \in found(r[c].scope) /\ r[c].scope <= h
      BY <1>4, <2>1, <2>8
    <3>2. CASE r[c].scope = h
      BY <2>5, <2>6, <2>7, <3>1, <3>2 DEF Yields
    <3>3. CASE r[c].scope # h
      BY <1>2, <2>2, <2>7, <3>1, <3>3 DEF Yields
    <3>. QED BY <3>2, <3>3
  <2>. QED BY <2>7, <2>8 DEF b
<1>. QED BY <1>5, <1>6

-----------------------------------------------------------------------------
(* What the registry holds of a set of facts. *)

Same(x, y) == x.name = y.name /\ x.scope = y.scope

\* The facts that make a binding: declarations, and the first assignment of a
\* name in a scope.
Introduces(F, f) ==
  f.effect = "Declare" \/ ~\E g \in F : Same(g, f) /\ g.at < f.at

\* The first state of a binding is of the fact that introduces it.
IsState(F, binding, k, f) ==
  /\ Same(f, binding) /\ binding.states[k] = StateOf(f)
  /\ k = 1 => Introduces(F, f) /\ f.role = binding.role /\ f.export = binding.export
  /\ k # 1 => ~Introduces(F, f)

\* An assignment goes to the last binding of its name and scope before it.
TakenByLast(r) ==
  \A b, c \in 1..Len(r) : \A k \in 1..Len(r[b].states) :
    Same(r[c], r[b]) /\ r[c].at <= r[b].states[k].at => r[c].at <= r[b].at

StatesHold(F, binding) ==
  /\ Len(binding.states) >= 1 /\ binding.at = binding.states[1].at
  /\ \A k \in 1..Len(binding.states) : \E f \in F : IsState(F, binding, k, f)
  /\ \A k, l \in 1..Len(binding.states) :
       k < l => binding.states[k].at < binding.states[l].at

\* Every fact is one state of one binding.
Sound(r, F) ==
  /\ r \in Seq(BindingRecords) /\ BindingsRise(r) /\ TakenByLast(r)
  /\ \A b \in 1..Len(r) : StatesHold(F, r[b])
  /\ \A f \in F : \E b \in 1..Len(r) : \E k \in 1..Len(r[b].states) :
       r[b].states[k].at = f.at

\* A fact collected after others takes nothing from them.
LEMMA IntroducedBefore ==
  ASSUME NEW F, \A g \in F : g.at \in Nat, NEW f, f.at \in Nat,
         \A g \in F : g.at < f.at
  PROVE  \A g \in F : Introduces(F \cup {f}, g) <=> Introduces(F, g)
BY DEF Introduces

\* Facts with a name of the text, or the fresh one.
AnyFacts == [name : AnyName, at : Nat, value : Values,
             role : {"Parameter", "Ordinary"}, effect : {"Declare", "Assign"},
             scope : Nat, export : BOOLEAN]

\* Where the facts of a registry say their bindings are.
LEMMA BindingAt ==
  ASSUME NEW F \in SUBSET AnyFacts, NEW r, Sound(r, F), NEW b \in 1..Len(r)
  PROVE  /\ r[b] \in BindingRecords /\ Len(r[b].states) \in Nat
         /\ 1 \in 1..Len(r[b].states)
         /\ \E f \in F : Same(f, r[b]) /\ f.at = r[b].at /\ Introduces(F, f)
                         /\ f.role = r[b].role /\ f.export = r[b].export
<1>1. r \in Seq(BindingRecords) /\ StatesHold(F, r[b])
  BY DEF Sound
<1>2. r[b] \in BindingRecords
  BY <1>1
<1>3. r[b].states \in Seq(States)
  BY <1>2 DEF BindingRecords
<1>4. Len(r[b].states) \in Nat /\ 1 \in 1..Len(r[b].states)
  BY <1>1, <1>3 DEF StatesHold
<1>5. PICK f \in F : IsState(F, r[b], 1, f)
  BY <1>1, <1>4 DEF StatesHold
<1>6. r[b].at = f.at
  BY <1>1, <1>5 DEF StatesHold, IsState, StateOf
<1>. QED BY <1>2, <1>4, <1>5, <1>6 DEF IsState

\* No two facts are of one place.
Distinct(F) == \A f, g \in F : f.at = g.at => f = g

\* A fact before all of a binding's states has one of its name and scope.
LEMMA BoundBefore ==
  ASSUME NEW F \in SUBSET AnyFacts, Distinct(F), NEW r, Sound(r, F), NEW f
  PROVE  (\E c \in 1..Len(r) : Same(r[c], f)) <=> (\E g \in F : Same(g, f))
<1>1. ASSUME NEW c \in 1..Len(r), Same(r[c], f) PROVE \E g \in F : Same(g, f)
  BY <1>1, BindingAt DEF Same
<1>2. ASSUME NEW g \in F, Same(g, f) PROVE \E c \in 1..Len(r) : Same(r[c], f)
  <2>1. PICK c \in 1..Len(r) : \E k \in 1..Len(r[c].states) : r[c].states[k].at = g.at
    BY DEF Sound
  <2>2. PICK k \in 1..Len(r[c].states) : r[c].states[k].at = g.at
    BY <2>1
  <2>3. PICK h \in F : IsState(F, r[c], k, h)
    BY <2>2 DEF Sound, StatesHold
  <2>4. h.at = g.at
    BY <2>2, <2>3 DEF IsState, StateOf
  <2>5. h = g
    BY <2>4 DEF Distinct
  <2>. QED BY <1>2, <2>3, <2>5 DEF IsState, Same
<1>. QED BY <1>1, <1>2

\* A fact that is collected makes a binding, or goes to the last of its name and
\* scope.
LEMMA CollectKeeps ==
  ASSUME ScopesInv, NEW F \in SUBSET AnyFacts, Distinct(F), NEW r, Sound(r, F),
         NEW f \in AnyFacts, f.scope \in 1..Len(scopes), \A g \in F : g.at < f.at
  PROVE  Sound(CollectDefinition(r, f), F \cup {f})
<1>. DEFINE b == BindingFromScope(r, f.name, f.scope, f.at)
            G == F \cup {f}
<1>1. /\ r \in Seq(BindingRecords) /\ Len(r) \in Nat /\ BindingsRise(r) /\ TakenByLast(r)
      /\ \A c \in 1..Len(r) : StatesHold(F, r[c])
      /\ \A g \in F : \E c \in 1..Len(r) : \E k \in 1..Len(r[c].states) :
           r[c].states[k].at = g.at
      /\ \A c \in 1..Len(r) :
           /\ r[c] \in BindingRecords /\ r[c].at \in Nat /\ r[c].scope \in Nat
           /\ r[c].states \in Seq(States) /\ Len(r[c].states) \in Nat
  <2>1. r \in Seq(BindingRecords)
    BY DEF Sound
  <2>2. \A c \in 1..Len(r) : r[c] \in BindingRecords
    BY <2>1
  <2>3. ASSUME NEW c \in 1..Len(r)
        PROVE  /\ r[c].at \in Nat /\ r[c].scope \in Nat
               /\ r[c].states \in Seq(States) /\ Len(r[c].states) \in Nat
    <3>1. r[c].at \in Nat /\ r[c].scope \in Nat /\ r[c].states \in Seq(States)
      <4>. HIDE DEF States
      <4>. QED BY <2>2 DEF BindingRecords
    <3>. QED BY <3>1
  <2>4. Len(r) \in Nat
    BY <2>1
  <2>. QED BY <2>1, <2>2, <2>3, <2>4 DEF Sound
<1>2. /\ f.at \in Nat /\ f.scope \in Nat /\ \A g \in F : g.at \in Nat
      /\ f.name \in AnyName /\ f.role \in {"Parameter", "Ordinary"}
      /\ f.export \in BOOLEAN /\ f.value \in Values /\ f.effect \in {"Declare", "Assign"}
  BY DEF AnyFacts
<1>3. \A c \in 1..Len(r) : \A k \in 1..Len(r[c].states) :
        r[c].states[k].at \in Nat /\ r[c].states[k].at < f.at
  <2>. SUFFICES ASSUME NEW c \in 1..Len(r), NEW k \in 1..Len(r[c].states)
                PROVE  r[c].states[k].at \in Nat /\ r[c].states[k].at < f.at
    OBVIOUS
  <2>1. PICK g \in F : IsState(F, r[c], k, g)
    BY <1>1 DEF StatesHold
  <2>. QED BY <1>2, <2>1 DEF IsState, StateOf
<1>4. \A c \in 1..Len(r) : r[c].at < f.at /\ 1 \in 1..Len(r[c].states)
                           /\ r[c].at = r[c].states[1].at
  BY <1>1, <1>3 DEF StatesHold
\* The lookup finds the last binding of the name and scope, if there is one.
<1>5. (\E c \in 1..Len(r) : Same(r[c], f)) =>
        /\ b \in 1..Len(r) /\ Same(r[b], f)
        /\ \A c \in 1..Len(r) : Same(r[c], f) => r[c].at <= r[b].at
  <2>. SUFFICES ASSUME NEW d \in 1..Len(r), Same(r[d], f)
                PROVE  /\ b \in 1..Len(r) /\ Same(r[b], f)
                       /\ \A c \in 1..Len(r) : Same(r[c], f) => r[c].at <= r[b].at
    OBVIOUS
  <2>1. f.scope \in Chain(f.scope) /\ Chain(f.scope) \subseteq 1..f.scope
    BY ChainBelow
  <2>2. \A c \in 1..Len(r) : Same(r[c], f) => Visible(r[c], f.name, f.scope, f.at)
    BY <1>1, <1>2, <1>4, <2>1 DEF Same, Visible
  <2>3. /\ b \in 1..Len(r) /\ Visible(r[b], f.name, f.scope, f.at)
        /\ \A c \in 1..Len(r) :
             Visible(r[c], f.name, f.scope, f.at) => Yields(r[c], r[b])
    BY <1>1, <1>2, <2>2, LookupFinds
  <2>. HIDE DEF b
  <2>4. \A c \in 1..Len(r) : Same(r[c], f) => Yields(r[c], r[b])
    BY <2>2, <2>3
  <2>5. r[b].scope \in 1..f.scope /\ r[b].name = f.name
    BY <2>1, <2>3 DEF Visible
  <2>. QED BY <1>1, <1>2, <2>3, <2>4, <2>5 DEF Same, Yields
<1>6. b # None /\ r[b].scope = f.scope => \E c \in 1..Len(r) : Same(r[c], f)
  <2>. SUFFICES ASSUME b # None, r[b].scope = f.scope
                PROVE  \E c \in 1..Len(r) : Same(r[c], f)
    OBVIOUS
  <2>1. b \in 1..Len(r) /\ Visible(r[b], f.name, f.scope, f.at)
    BY <1>1, <1>2, LookupFinds
  <2>. HIDE DEF b
  <2>. QED BY <2>1 DEF Visible, Same
<1>7. (\E c \in 1..Len(r) : Same(r[c], f)) <=> ~\A g \in F : ~Same(g, f)
  BY BoundBefore
<1>8. CASE f.effect = "Assign" /\ \E c \in 1..Len(r) : Same(r[c], f)
  <2>. DEFINE q == CollectDefinition(r, f)
              grown == Append(r[b].states, StateOf(f))
  <2>1. /\ b \in 1..Len(r) /\ Same(r[b], f)
        /\ \A c \in 1..Len(r) : Same(r[c], f) => r[c].at <= r[b].at
    BY <1>5, <1>8
  <2>2. q = [r EXCEPT ![b].states = grown]
    <3>1. b # None /\ r[b].scope = f.scope
      BY <1>1, <2>1 DEF Same, None
    <3>. QED BY <1>8, <3>1 DEF CollectDefinition, AddBindingState
  <2>3. ~Introduces(G, f)
    <3>1. \E g \in F : Same(g, f)
      BY <1>7, <1>8
    <3>. QED BY <1>8, <3>1 DEF Introduces
  <2>4. /\ grown \in Seq(States) /\ Len(grown) = Len(r[b].states) + 1
        /\ \A k \in 1..Len(r[b].states) : grown[k] = r[b].states[k]
        /\ grown[Len(r[b].states) + 1] = StateOf(f)
    <3>1. StateOf(f) \in States
      BY <1>2 DEF StateOf, States
    <3>2. r[b].states \in Seq(States)
      BY <1>1, <2>1
    <3>. QED BY <3>1, <3>2
  <2>. HIDE DEF b, grown
  <2>5. /\ Len(q) = Len(r)
        /\ \A c \in 1..Len(r) : c # b => q[c] = r[c]
        /\ q[b] = [r[b] EXCEPT !.states = grown]
    BY <1>1, <2>1, <2>2
  <2>6. /\ q[b] \in BindingRecords /\ q[b].states = grown /\ q[b].at = r[b].at
        /\ q[b].name = r[b].name /\ q[b].scope = r[b].scope /\ q[b].role = r[b].role
        /\ q[b].export = r[b].export
    <3>1. r[b] \in BindingRecords
      BY <1>1, <2>1
    <3>. QED BY <2>4, <2>5, <3>1 DEF BindingRecords
  <2>7. q \in Seq(BindingRecords)
    <3>1. q \in [1..Len(r) -> BindingRecords]
      BY <1>1, <2>1, <2>2, <2>5, <2>6
    <3>. QED BY <1>1, <3>1
  <2>. HIDE DEF q
  <2>8. /\ \A c \in 1..Len(r) : q[c].at = r[c].at /\ Same(q[c], r[c])
        /\ \A c \in 1..Len(r) : \A k \in 1..Len(r[c].states) : q[c].states[k] = r[c].states[k]
        /\ \A c \in 1..Len(r) : q[c].role = r[c].role /\ q[c].export = r[c].export
        /\ \A c \in 1..Len(r) : Len(q[c].states) = IF c = b THEN Len(r[b].states) + 1
                                                  ELSE Len(r[c].states)
    BY <2>4, <2>5, <2>6 DEF Same
  <2>9. BindingsRise(q)
    BY <1>1, <2>5, <2>8 DEF BindingsRise
  <2>10. TakenByLast(q)
    <3>1. ASSUME NEW d \in 1..Len(r), NEW c \in 1..Len(r),
                 NEW k \in 1..Len(q[d].states), Same(r[c], r[d]),
                 r[c].at <= q[d].states[k].at
          PROVE  r[c].at <= r[d].at
      <4>1. CASE k \in 1..Len(r[d].states)
        BY <1>1, <2>8, <3>1, <4>1 DEF TakenByLast
      <4>2. CASE d = b
        <5>1. Same(r[c], f)
          BY <2>1, <3>1, <4>2 DEF Same
        <5>. QED BY <2>1, <4>2, <5>1
      <4>. QED BY <2>8, <4>1, <4>2
    <3>. QED BY <2>5, <2>8, <3>1 DEF TakenByLast, Same
  <2>11. ASSUME NEW c \in 1..Len(r), NEW k \in 1..Len(q[c].states)
         PROVE  k \in 1..Len(r[c].states) \/ (c = b /\ k = Len(r[b].states) + 1)
    <3>1. /\ Len(q[c].states) = IF c = b THEN Len(r[b].states) + 1 ELSE Len(r[c].states)
          /\ Len(r[c].states) \in Nat /\ Len(r[b].states) \in Nat
      BY <1>1, <2>1, <2>8
    <3>. QED BY <3>1
  <2>12. ASSUME NEW c \in 1..Len(r), NEW k \in 1..Len(r[c].states)
         PROVE  k \in 1..Len(q[c].states) /\ q[c].states[k] = r[c].states[k]
    <3>1. /\ Len(q[c].states) = IF c = b THEN Len(r[b].states) + 1 ELSE Len(r[c].states)
          /\ Len(r[c].states) \in Nat /\ Len(r[b].states) \in Nat
      BY <1>1, <2>1, <2>8
    <3>. QED BY <2>8, <3>1
  <2>13. ASSUME NEW c \in 1..Len(r) PROVE StatesHold(G, q[c])
    <3>1. Len(q[c].states) >= 1 /\ q[c].at = q[c].states[1].at
      BY <1>1, <1>4, <2>1, <2>8
    <3>2. ASSUME NEW k \in 1..Len(q[c].states)
          PROVE  \E g \in G : IsState(G, q[c], k, g)
      <4>1. CASE k \in 1..Len(r[c].states)
        <5>1. PICK g \in F : IsState(F, r[c], k, g)
          BY <1>1, <4>1 DEF StatesHold
        <5>2. Introduces(G, g) <=> Introduces(F, g)
          BY <1>2, IntroducedBefore
        <5>3. IsState(G, q[c], k, g)
          BY <2>8, <4>1, <5>1, <5>2 DEF IsState, Same
        <5>. QED BY <5>3
      <4>2. CASE c = b /\ k = Len(r[b].states) + 1
        <5>1. q[c].states[k] = StateOf(f) /\ k # 1 /\ Same(f, q[c])
          BY <1>1, <1>4, <2>1, <2>4, <2>6, <4>2 DEF Same
        <5>2. IsState(G, q[c], k, f)
          BY <2>3, <5>1 DEF IsState
        <5>. QED BY <5>2
      <4>. QED BY <2>11, <4>1, <4>2
    <3>3. ASSUME NEW k \in 1..Len(q[c].states), NEW l \in 1..Len(q[c].states), k < l
          PROVE  q[c].states[k].at < q[c].states[l].at
      <4>1. k \in 1..Len(r[c].states) /\ q[c].states[k] = r[c].states[k]
        <5>1. /\ Len(q[c].states) = IF c = b THEN Len(r[b].states) + 1 ELSE Len(r[c].states)
              /\ Len(r[c].states) \in Nat /\ Len(r[b].states) \in Nat
          BY <1>1, <2>1, <2>8
        <5>2. k \in 1..Len(r[c].states)
          BY <3>3, <5>1
        <5>. QED BY <2>12, <5>2
      <4>2. CASE l \in 1..Len(r[c].states)
        BY <1>1, <2>8, <3>3, <4>1, <4>2 DEF StatesHold
      <4>3. CASE c = b /\ l = Len(r[b].states) + 1
        <5>1. q[c].states[l].at = f.at
          BY <2>4, <2>6, <4>3 DEF StateOf
        <5>. QED BY <1>3, <4>1, <5>1
      <4>. QED BY <2>11, <4>2, <4>3
    <3>. QED BY <3>1, <3>2, <3>3 DEF StatesHold
  <2>14. ASSUME NEW g \in G
         PROVE  \E c \in 1..Len(q) : \E k \in 1..Len(q[c].states) : q[c].states[k].at = g.at
    <3>1. CASE g \in F
      <4>1. PICK c \in 1..Len(r) : \E k \in 1..Len(r[c].states) : r[c].states[k].at = g.at
        BY <1>1, <3>1
      <4>2. PICK k \in 1..Len(r[c].states) : r[c].states[k].at = g.at
        BY <4>1
      <4>3. k \in 1..Len(q[c].states) /\ q[c].states[k].at = g.at
        BY <2>12, <4>2
      <4>. QED BY <2>5, <4>3
    <3>2. CASE g = f
      <4>. DEFINE k == Len(r[b].states) + 1
      <4>1. k \in 1..Len(q[b].states) /\ q[b].states[k].at = f.at
        BY <1>1, <2>1, <2>4, <2>6, <2>8 DEF StateOf
      <4>. QED BY <2>1, <2>5, <3>2, <4>1
    <3>. QED BY <3>1, <3>2
  <2>. QED BY <2>5, <2>7, <2>9, <2>10, <2>13, <2>14 DEF Sound, q
<1>9. CASE ~(f.effect = "Assign" /\ \E c \in 1..Len(r) : Same(r[c], f))
  <2>. DEFINE q == CollectDefinition(r, f)
              new == [name |-> f.name, at |-> f.at, scope |-> f.scope, role |-> f.role,
                      export |-> f.export, byAssignment |-> f.effect = "Assign",
                      states |-> <<StateOf(f)>>]
  <2>1. q = Append(r, new)
    BY <1>6, <1>9 DEF CollectDefinition, AddBinding
  <2>2. Introduces(G, f)
    <3>1. CASE f.effect = "Declare"
      BY <3>1 DEF Introduces
    <3>2. CASE f.effect = "Assign"
      <4>1. \A g \in F : ~Same(g, f)
        BY <1>7, <1>9, <3>2
      <4>. QED BY <1>2, <4>1 DEF Introduces
    <3>. QED BY <1>2, <3>1, <3>2
  <2>3. /\ new \in BindingRecords /\ Len(new.states) = 1 /\ new.states[1] = StateOf(f)
        /\ new.at = f.at /\ new.name = f.name /\ new.scope = f.scope
        /\ new.role = f.role /\ new.export = f.export
    <3>1. StateOf(f) \in States
      BY <1>2 DEF StateOf, States
    <3>2. <<StateOf(f)>> \in Seq(States)
      BY <3>1
    <3>. HIDE DEF States
    <3>. QED BY <1>2, <3>2 DEF BindingRecords
  <2>. HIDE DEF new
  <2>4. /\ q \in Seq(BindingRecords) /\ Len(q) = Len(r) + 1
        /\ \A c \in 1..Len(r) : q[c] = r[c]
        /\ q[Len(r) + 1] = new
        /\ \A c \in 1..Len(q) : c \in 1..Len(r) \/ c = Len(r) + 1
    BY <1>1, <2>1, <2>3
  <2>. HIDE DEF q
  <2>5. BindingsRise(q)
    <3>1. ASSUME NEW c \in 1..Len(q), NEW d \in 1..Len(q), c < d
          PROVE  q[c].at < q[d].at
      <4>1. c \in 1..Len(r)
        BY <1>1, <2>4, <3>1
      <4>. QED BY <1>1, <1>4, <2>3, <2>4, <3>1, <4>1 DEF BindingsRise
    <3>. QED BY <3>1 DEF BindingsRise
  <2>6. TakenByLast(q)
    <3>1. ASSUME NEW d \in 1..Len(q), NEW c \in 1..Len(q),
                 NEW k \in 1..Len(q[d].states), Same(q[c], q[d]),
                 q[c].at <= q[d].states[k].at
          PROVE  q[c].at <= q[d].at
      <4>1. CASE d = Len(r) + 1
        BY <1>1, <1>2, <1>4, <2>3, <2>4, <4>1
      <4>2. CASE d \in 1..Len(r) /\ c \in 1..Len(r)
        BY <1>1, <2>4, <3>1, <4>2 DEF TakenByLast
      <4>3. CASE d \in 1..Len(r) /\ c = Len(r) + 1
        BY <1>2, <1>3, <2>3, <2>4, <3>1, <4>3
      <4>. QED BY <2>4, <4>1, <4>2, <4>3
    <3>. QED BY <3>1 DEF TakenByLast
  <2>7. ASSUME NEW c \in 1..Len(q) PROVE StatesHold(G, q[c])
    <3>1. CASE c \in 1..Len(r)
      <4>1. q[c] = r[c] /\ StatesHold(F, r[c])
        BY <1>1, <2>4, <3>1
      <4>2. ASSUME NEW k \in 1..Len(r[c].states)
            PROVE  \E g \in G : IsState(G, r[c], k, g)
        <5>1. PICK g \in F : IsState(F, r[c], k, g)
          BY <4>1 DEF StatesHold
        <5>2. Introduces(G, g) <=> Introduces(F, g)
          BY <1>2, IntroducedBefore
        <5>3. IsState(G, r[c], k, g)
          BY <5>1, <5>2 DEF IsState
        <5>. QED BY <5>3
      <4>3. StatesHold(G, r[c])
        BY <4>1, <4>2 DEF StatesHold
      <4>. QED BY <4>1, <4>3
    <3>2. CASE c = Len(r) + 1
      <4>1. q[c] = new
        BY <2>4, <3>2
      <4>2. \A k \in 1..Len(new.states) : k = 1 /\ IsState(G, new, k, f)
        BY <2>2, <2>3 DEF IsState, Same
      <4>3. new.at = new.states[1].at
        BY <2>3 DEF StateOf
      <4>4. \A k \in 1..Len(new.states) : \E g \in G : IsState(G, new, k, g)
        BY <4>2
      <4>5. \A k, l \in 1..Len(new.states) : ~(k < l)
        BY <4>2
      <4>6. Len(new.states) >= 1
        BY <2>3
      <4>7. StatesHold(G, new)
        BY <4>3, <4>4, <4>5, <4>6 DEF StatesHold
      <4>. QED BY <4>1, <4>7
    <3>. QED BY <2>4, <3>1, <3>2
  <2>8. ASSUME NEW g \in G
        PROVE  \E c \in 1..Len(q) : \E k \in 1..Len(q[c].states) : q[c].states[k].at = g.at
    <3>1. CASE g \in F
      <4>1. PICK c \in 1..Len(r) : \E k \in 1..Len(r[c].states) : r[c].states[k].at = g.at
        BY <1>1, <3>1
      <4>2. c \in 1..Len(q) /\ q[c] = r[c]
        BY <1>1, <2>4
      <4>. QED BY <4>1, <4>2
    <3>2. CASE g = f
      <4>1. Len(q) \in 1..Len(q) /\ q[Len(q)] = new
        BY <1>1, <2>4
      <4>2. 1 \in 1..Len(new.states) /\ new.states[1].at = f.at
        BY <2>3 DEF StateOf
      <4>. QED BY <3>2, <4>1, <4>2
    <3>. QED BY <3>1, <3>2
  <2>. QED BY <2>4, <2>5, <2>6, <2>7, <2>8 DEF Sound, q
<1>. QED BY <1>8, <1>9

FactsOf(collected) == {collected[i] : i \in DOMAIN collected}

\* Facts as a walk collects them, and as renaming or deleting leaves them.
Follows(collected) ==
  /\ collected \in Seq(AnyFacts)
  /\ \A i, j \in 1..Len(collected) : i < j => collected[i].at < collected[j].at
  /\ \A i \in 1..Len(collected) : collected[i].scope \in 1..Len(scopes)

\* The registry holds every fact once, as a state of the binding it belongs to.
LEMMA RegistrySound ==
  ASSUME ScopesInv, NEW collected, Follows(collected)
  PROVE  /\ Sound(RegistryOf(collected), FactsOf(collected))
         /\ FactsOf(collected) \in SUBSET AnyFacts /\ Distinct(FactsOf(collected))
<1>. DEFINE n == Len(collected)
            first(i) == {collected[j] : j \in 1..i}
<1>1. /\ n \in Nat /\ DOMAIN collected = 1..n
      /\ \A i \in 1..n : /\ collected[i] \in AnyFacts
                         /\ collected[i].scope \in 1..Len(scopes)
  BY DEF Follows
<1>2. \A i \in 1..n : collected[i].at \in Nat
  BY <1>1 DEF AnyFacts
<1>3. \A i, j \in 1..n : i < j => collected[i].at < collected[j].at
  BY DEF Follows
<1>4. ASSUME NEW i \in 0..n
      PROVE  first(i) \in SUBSET AnyFacts /\ Distinct(first(i))
  <2>1. 1..i \subseteq 1..n
    BY <1>1
  <2>2. ASSUME NEW j \in 1..i, NEW k \in 1..i, collected[j].at = collected[k].at
        PROVE  j = k
    BY <1>2, <1>3, <2>1, <2>2
  <2>. QED BY <1>1, <2>1, <2>2 DEF Distinct
<1>5. PICK r : /\ r[0] = <<>> /\ RegistryOf(collected) = r[n]
               /\ \A i \in 1..n : r[i] = CollectDefinition(r[i - 1], collected[i])
  BY <1>1, RegistryUnfolds
<1>. DEFINE P == {i \in 0..n : Sound(r[i], first(i))}
<1>6. 0 \in P
  <2>1. first(0) = {}
    OBVIOUS
  <2>2. Sound(<<>>, {})
    BY DEF Sound, BindingsRise, TakenByLast
  <2>. HIDE DEF first
  <2>3. r[0] = <<>> /\ 0 \in 0..n
    BY <1>1, <1>5
  <2>4. Sound(r[0], first(0))
    BY <2>1, <2>2, <2>3, Zenon
  <2>. QED BY <2>3, <2>4
<1>7. ASSUME NEW m \in 1..n, m \notin P, m - 1 \in P PROVE FALSE
  <2>1. m - 1 \in 0..n /\ m \in 0..n /\ Sound(r[m - 1], first(m - 1))
    BY <1>1, <1>7
  <2>2. first(m) = first(m - 1) \cup {collected[m]}
    <3>1. \A j : j \in 1..m <=> j \in 1..(m - 1) \/ j = m
      OBVIOUS
    <3>. QED BY <3>1
  <2>3. \A g \in first(m - 1) : g.at < collected[m].at
    BY <1>1, <1>3
  <2>4. first(m - 1) \in SUBSET AnyFacts /\ Distinct(first(m - 1))
    BY <1>4, <2>1
  <2>5. collected[m] \in AnyFacts /\ collected[m].scope \in 1..Len(scopes)
    BY <1>1
  <2>. HIDE DEF first
  <2>6. Sound(CollectDefinition(r[m - 1], collected[m]), first(m - 1) \cup {collected[m]})
    BY <2>1, <2>3, <2>4, <2>5, CollectKeeps
  <2>7. m \in P
    BY <1>5, <2>1, <2>2, <2>6
  <2>. QED BY <1>7, <2>7
<1>8. n \in P
  <2>. HIDE DEF P
  <2>. QED BY <1>1, <1>6, <1>7, FirstFailure
<1>9. FactsOf(collected) = first(n) /\ n \in 0..n
  BY <1>1 DEF FactsOf
<1>. QED BY <1>4, <1>5, <1>8, <1>9
-----------------------------------------------------------------------------
(* What a lookup finds, said of the facts. *)

\* The places of the facts a lookup may find, each with the scope it is in.
Seen(F, name, scope, p) ==
  {<<f.scope, f.at>> : f \in {g \in F : Introduces(F, g) /\ Visible(g, name, scope, p)}}

\* Where the binding that is found is introduced.
AnchorIn(bindings, name, scope, p) ==
  LET b == BindingFromScope(bindings, name, scope, p)
  IN  IF b = None THEN None ELSE bindings[b].at

\* The innermost, and of these the last.
Nearest(S, anchor) ==
  \/ S = {} /\ anchor = None
  \/ \E x \in S : /\ anchor = x[2]
                  /\ \A y \in S : y[1] < x[1] \/ (y[1] = x[1] /\ y[2] <= x[2])

\* A fact that introduces a binding has that binding.
LEMMA IntroducesOne ==
  ASSUME NEW F \in SUBSET AnyFacts, Distinct(F), NEW r, Sound(r, F),
         NEW f \in F, Introduces(F, f)
  PROVE  \E c \in 1..Len(r) : /\ Same(f, r[c]) /\ f.at = r[c].at
                              /\ f.role = r[c].role /\ f.export = r[c].export
<1>1. PICK c \in 1..Len(r) : \E k \in 1..Len(r[c].states) : r[c].states[k].at = f.at
  BY DEF Sound
<1>2. PICK k \in 1..Len(r[c].states) : r[c].states[k].at = f.at
  BY <1>1
<1>3. PICK g \in F : IsState(F, r[c], k, g)
  BY <1>2 DEF Sound, StatesHold
<1>4. g = f
  BY <1>2, <1>3 DEF IsState, StateOf, Distinct
<1>5. k = 1
  BY <1>3, <1>4 DEF IsState
<1>6. r[c].at = r[c].states[1].at
  BY DEF Sound, StatesHold
<1>. QED BY <1>2, <1>3, <1>4, <1>5, <1>6 DEF IsState

LEMMA AnchorIsNearest ==
  ASSUME ScopesInv, NEW F \in SUBSET AnyFacts, Distinct(F), NEW r, Sound(r, F),
         NEW name, NEW scope \in 1..Len(scopes), NEW p \in Nat
  PROVE  Nearest(Seen(F, name, scope, p), AnchorIn(r, name, scope, p))
<1>. DEFINE b == BindingFromScope(r, name, scope, p)
            S == Seen(F, name, scope, p)
<1>1. /\ r \in Seq(BindingRecords) /\ BindingsRise(r)
      /\ \A f \in F : f.at \in Nat /\ f.scope \in Nat
  BY DEF Sound, AnyFacts
<1>2. \/ /\ b = None
         /\ \A c \in 1..Len(r) : ~Visible(r[c], name, scope, p)
      \/ /\ b \in 1..Len(r) /\ Visible(r[b], name, scope, p)
         /\ \A c \in 1..Len(r) : Visible(r[c], name, scope, p) => Yields(r[c], r[b])
  BY <1>1, LookupFinds
<1>3. AnchorIn(r, name, scope, p) = IF b = None THEN None ELSE r[b].at
  BY DEF AnchorIn
<1>. HIDE DEF b
<1>4. ASSUME NEW f \in F, Introduces(F, f), Visible(f, name, scope, p)
      PROVE  \E c \in 1..Len(r) : /\ Visible(r[c], name, scope, p)
                                  /\ f.scope = r[c].scope /\ f.at = r[c].at
  <2>1. PICK c \in 1..Len(r) : Same(f, r[c]) /\ f.at = r[c].at
    BY <1>4, IntroducesOne
  <2>. QED BY <1>4, <2>1 DEF Visible, Same
<1>5. CASE b = None /\ \A c \in 1..Len(r) : ~Visible(r[c], name, scope, p)
  <2>1. S = {}
    BY <1>4, <1>5 DEF Seen
  <2>. HIDE DEF S
  <2>2. S = {} /\ AnchorIn(r, name, scope, p) = None
    BY <1>3, <1>5, <2>1
  <2>. QED BY <2>2 DEF Nearest, S
<1>6. CASE /\ b \in 1..Len(r) /\ Visible(r[b], name, scope, p)
           /\ \A c \in 1..Len(r) : Visible(r[c], name, scope, p) => Yields(r[c], r[b])
  <2>1. PICK f \in F : Same(f, r[b]) /\ f.at = r[b].at /\ Introduces(F, f)
    BY <1>6, BindingAt
  <2>2. Visible(f, name, scope, p)
    BY <1>6, <2>1 DEF Visible, Same
  <2>. DEFINE x == <<f.scope, f.at>>
  <2>3. x \in S
    BY <2>1, <2>2 DEF Seen
  <2>4. ASSUME NEW y \in S PROVE y[1] < x[1] \/ (y[1] = x[1] /\ y[2] <= x[2])
    <3>1. PICK g \in F : /\ Introduces(F, g) /\ Visible(g, name, scope, p)
                         /\ y = <<g.scope, g.at>>
      BY DEF Seen
    <3>2. PICK c \in 1..Len(r) : /\ Visible(r[c], name, scope, p)
                                 /\ g.scope = r[c].scope /\ g.at = r[c].at
      BY <1>4, <3>1
    <3>3. Yields(r[c], r[b])
      BY <1>6, <3>2
    <3>4. f.scope = r[b].scope /\ y[1] = g.scope /\ y[2] = g.at
      BY <2>1, <3>1 DEF Same
    <3>. QED BY <2>1, <3>2, <3>3, <3>4 DEF Yields
  <2>5. b # None
    BY <1>6 DEF None
  <2>6. AnchorIn(r, name, scope, p) = x[2]
    BY <1>3, <2>1, <2>5
  <2>. HIDE DEF S, x
  <2>. QED BY <2>3, <2>4, <2>6 DEF Nearest, S
<1>. QED BY <1>2, <1>5, <1>6

\* There is one nearest.
LEMMA NearestIsOne ==
  ASSUME NEW S, \A x \in S : x[1] \in Nat /\ x[2] \in Nat,
         NEW a, NEW c, Nearest(S, a), Nearest(S, c)
  PROVE  a = c
BY DEF Nearest

LEMMA SeenPlaces ==
  ASSUME NEW F \in SUBSET AnyFacts, NEW name, NEW scope, NEW p
  PROVE  \A x \in Seen(F, name, scope, p) : x[1] \in Nat /\ x[2] \in Nat
BY DEF Seen, AnyFacts
-----------------------------------------------------------------------------
(* The registry of a text. *)

Collected == FactsOf(facts)

\* The registry of the facts of a walk.
LEMMA TextSound ==
  ASSUME ScopesInv, FactsInv
  PROVE  /\ Follows(facts) /\ Sound(RegistryOf(facts), Collected)
         /\ Collected \in SUBSET AnyFacts /\ Distinct(Collected)
         /\ \A f \in Collected : \E i \in 1..Len(facts) : f = facts[i]
         /\ \A i \in 1..Len(facts) : facts[i] \in Collected
         /\ \A f \in Collected :
              /\ f.at \in 1..Len(symbols) /\ symbols[f.at].name = f.name
              /\ f.name \in Names /\ f.scope \in 1..Len(scopes)
<1>1. facts \in Seq(Facts)
  BY DEF ScopesInv, Types
<1>2. /\ DOMAIN facts = 1..Len(facts) /\ Len(facts) \in Nat
      /\ \A i \in 1..Len(facts) : facts[i] \in Facts
  BY <1>1
<1>3. \A i \in 1..Len(facts) : facts[i] \in AnyFacts /\ facts[i].name \in Names
  BY <1>2 DEF Facts, AnyFacts, AnyName
<1>4. facts \in Seq(AnyFacts)
  <2>1. \A i \in 1..Len(facts) : facts[i] \in AnyFacts
    BY <1>3
  <2>2. facts \in [1..Len(facts) -> AnyFacts]
    <3>1. facts = [i \in 1..Len(facts) |-> facts[i]]
      <4>. HIDE DEF Facts
      <4>. QED BY <1>1
    <3>. QED BY <2>1, <3>1
  <2>. QED BY <1>2, <2>2
<1>5. Follows(facts)
  <2>1. \A i \in 1..Len(facts) : facts[i].scope \in 1..Len(scopes)
    BY Referred
  <2>. QED BY <1>4, <2>1 DEF Follows, FactsInv, FactsRise
<1>6. /\ \A f \in Collected : \E i \in 1..Len(facts) : f = facts[i]
      /\ \A i \in 1..Len(facts) : facts[i] \in Collected
  BY <1>2 DEF Collected, FactsOf
<1>7. ASSUME NEW f \in Collected
      PROVE  /\ f.at \in 1..Len(symbols) /\ symbols[f.at].name = f.name
             /\ f.name \in Names /\ f.scope \in 1..Len(scopes)
  <2>1. PICK i \in 1..Len(facts) : f = facts[i]
    BY <1>6
  <2>2. f.at \in 1..Len(symbols) /\ symbols[f.at].name = f.name
    BY <2>1 DEF FactsInv, FactsLie
  <2>3. f.scope \in 1..Len(scopes)
    BY <2>1, Referred
  <2>. QED BY <1>3, <2>1, <2>2, <2>3
<1>8. /\ Sound(RegistryOf(facts), Collected)
      /\ Collected \in SUBSET AnyFacts /\ Distinct(Collected)
  BY <1>5, RegistrySound DEF Collected
<1>. QED BY <1>5, <1>6, <1>7, <1>8

\* Whatever a name resolves to at a place, completion has it: both climb the
\* same scopes, in programs of any nesting.
THEOREM CompletionAlwaysOffersWhatResolves == Spec => []CompletionOffersWhatResolves
<1>1. ScopesInv /\ NestInv /\ FactsInv => CompletionOffersWhatResolves
  <2>. SUFFICES ASSUME ScopesInv, NestInv, FactsInv,
                       NEW p \in DOMAIN symbols, NEW n \in Names,
                       BindingFromScope(Text.bindings, n, Text.at[p], p) # None
                PROVE  n \in InScopeBindings(Text.bindings, Text.at[p])
    BY DEF CompletionOffersWhatResolves
  <2>1. Text.bindings = RegistryOf(facts) /\ Text.at[p] = At(p)
    BY DEF Text
  <2>2. At(p) \in 1..Len(scopes) /\ p \in Nat
    BY AtIsItsScope, Referred
  <2>. DEFINE r == RegistryOf(facts)
              b == BindingFromScope(r, n, At(p), p)
  <2>3. r \in Seq(BindingRecords) /\ BindingsRise(r)
    BY TextSound DEF Sound
  <2>4. b \in 1..Len(r) /\ Visible(r[b], n, At(p), p)
    BY <2>1, <2>2, <2>3, LookupFinds
  <2>5. DOMAIN r = 1..Len(r)
    BY <2>3
  <2>. HIDE DEF r, b
  <2>6. n \in InScopeBindings(r, At(p))
    BY <2>4, <2>5 DEF InScopeBindings, Visible
  <2>. QED BY <2>1, <2>6 DEF r
<1>. QED BY <1>1, ScopesAlwaysInv, ScopesAlwaysNest, FactsAlwaysFollow, PTL

\* The parts of a state that a registry has of a set of facts.
LEMMA StateOfBinding ==
  ASSUME NEW F \in SUBSET AnyFacts, NEW r, Sound(r, F), NEW b \in DOMAIN r,
         NEW k \in DOMAIN r[b].states
  PROVE  /\ b \in 1..Len(r) /\ Len(r[b].states) \in Nat
         /\ DOMAIN r[b].states = 1..Len(r[b].states)
         /\ k \in 1..Len(r[b].states) /\ r[b].states[k].scope = r[b].scope
         /\ \E f \in F : IsState(F, r[b], k, f) /\ f.at = r[b].states[k].at
<1>1. r \in Seq(BindingRecords)
  BY DEF Sound
<1>2. b \in 1..Len(r) /\ r[b] \in BindingRecords
  BY <1>1
<1>3. r[b].states \in Seq(States)
  <2>. HIDE DEF States
  <2>. QED BY <1>2 DEF BindingRecords
<1>4. /\ Len(r[b].states) \in Nat /\ DOMAIN r[b].states = 1..Len(r[b].states)
      /\ k \in 1..Len(r[b].states)
  BY <1>3
<1>5. PICK f \in F : IsState(F, r[b], k, f)
  BY <1>2, <1>4 DEF Sound, StatesHold
<1>6. f.at = r[b].states[k].at /\ r[b].states[k].scope = r[b].scope
  BY <1>5 DEF IsState, StateOf, Same
<1>. QED BY <1>2, <1>4, <1>5, <1>6

\* In the scope of a binding, the place of each of its states finds it.
LEMMA DefinitionFindsItself ==
  ASSUME ScopesInv, NestInv, FactsInv, RangesDiffer,
         NEW b \in DOMAIN Text.bindings,
         \A k \in DOMAIN Text.bindings[b].states :
           symbols[Text.bindings[b].states[k].at].scope = Text.bindings[b].scope
  PROVE  FindsItself(Text, b)
<1>. DEFINE r == RegistryOf(facts)
            s == r[b].scope
<1>1. Text.bindings = r
  BY DEF Text
<1>2. Sound(r, Collected) /\ Collected \in SUBSET AnyFacts
  BY TextSound
<1>3. r \in Seq(BindingRecords) /\ BindingsRise(r) /\ TakenByLast(r)
  BY <1>2 DEF Sound
<1>. SUFFICES ASSUME NEW k \in DOMAIN r[b].states
              PROVE  /\ Bound(Text, r[b].states[k].at) = b
                     /\ StateFromScope(r[b], Text.at[r[b].states[k].at],
                                       r[b].states[k].at) = k
  BY <1>1 DEF FindsItself
<1>. DEFINE p == r[b].states[k].at
<1>. HIDE DEF r
<1>4. /\ b \in 1..Len(r) /\ DOMAIN r[b].states = 1..Len(r[b].states)
      /\ k \in 1..Len(r[b].states) /\ Len(r[b].states) \in Nat
      /\ \A j \in 1..Len(r[b].states) : r[b].states[j].scope = s
  <2>1. b \in DOMAIN r
    BY <1>1
  <2>2. /\ b \in 1..Len(r) /\ DOMAIN r[b].states = 1..Len(r[b].states)
        /\ k \in 1..Len(r[b].states) /\ Len(r[b].states) \in Nat
    BY <1>2, <2>1, StateOfBinding
  <2>3. ASSUME NEW j \in DOMAIN r[b].states PROVE r[b].states[j].scope = s
    BY <1>2, <2>1, StateOfBinding
  <2>. QED BY <2>2, <2>3
<1>5. PICK f \in Collected : IsState(Collected, r[b], k, f) /\ f.at = p
  BY <1>1, <1>2, StateOfBinding
<1>6. /\ p \in 1..Len(symbols) /\ symbols[p].name = r[b].name
      /\ s \in 1..Len(scopes) /\ p \in DOMAIN symbols /\ p \in Nat
  BY <1>5, TextSound, Referred DEF IsState, Same
<1>7. At(p) = s
  <2>1. symbols[p].scope = s
    BY <1>1
  <2>2. /\ At(p) \in 1..Len(scopes) /\ scopes[At(p)].start = scopes[s].start
        /\ scopes[At(p)].stop = scopes[s].stop
    BY <1>6, <2>1, AtIsItsScope
  <2>3. DOMAIN scopes = 1..Len(scopes)
    BY Referred
  <2>. QED BY <1>6, <2>2, <2>3 DEF RangesDiffer
<1>8. Text.names[p] = r[b].name /\ Text.at[p] = s
  BY <1>6, <1>7 DEF Text
<1>9. \A c \in 1..Len(r) : r[c].at \in Nat /\ r[c].scope \in Nat
  <2>1. \A c \in 1..Len(r) : r[c] \in BindingRecords
    BY <1>3
  <2>. QED BY <2>1 DEF BindingRecords
<1>10. s \in Chain(s) /\ Chain(s) \subseteq 1..s /\ s \in Nat
  BY <1>6, ChainBelow
<1>11. Bound(Text, p) = b
  <2>. DEFINE c == BindingFromScope(r, r[b].name, s, p)
  <2>1. r[b].at <= p
    <3>1. /\ r[b].at = r[b].states[1].at
          /\ \A j, l \in 1..Len(r[b].states) :
               j < l => r[b].states[j].at < r[b].states[l].at
      BY <1>2, <1>4 DEF Sound, StatesHold
    <3>2. 1 \in 1..Len(r[b].states) /\ (k = 1 \/ 1 < k)
      BY <1>4
    <3>. QED BY <1>4, <1>6, <1>9, <3>1, <3>2
  <2>2. Visible(r[b], r[b].name, s, p)
    BY <1>10, <2>1 DEF Visible
  <2>3. /\ c \in 1..Len(r) /\ Visible(r[c], r[b].name, s, p)
        /\ \A d \in 1..Len(r) : Visible(r[d], r[b].name, s, p) => Yields(r[d], r[c])
    BY <1>3, <1>4, <1>6, <2>2, LookupFinds
  <2>4. Bound(Text, p) = c
    BY <1>1, <1>8 DEF Bound
  <2>. HIDE DEF c, p, s
  <2>5. Yields(r[b], r[c]) /\ r[c].scope \in Chain(s) /\ r[c].name = r[b].name
        /\ (r[c].scope = s => r[c].at <= p)
    BY <1>4, <2>2, <2>3 DEF Visible
  <2>6. Same(r[c], r[b]) /\ r[c].at <= p /\ r[b].at <= r[c].at
    BY <1>4, <1>9, <1>10, <2>3, <2>5 DEF Yields, Same, s
  <2>7. r[c].at <= r[b].at
    BY <1>3, <1>4, <2>3, <2>6 DEF TakenByLast, p
  <2>8. r[c].at = r[b].at
    BY <1>4, <1>9, <2>3, <2>6, <2>7
  <2>9. c = b
    BY <1>3, <1>4, <1>9, <2>3, <2>8 DEF BindingsRise
  <2>. QED BY <2>4, <2>9
<1>12. StateFromScope(r[b], s, p) = k
  <2>. DEFINE here(t) == {j \in DOMAIN r[b].states :
                            /\ r[b].states[j].scope = t /\ r[b].states[j].at = p}
              done(t) == {j \in DOMAIN r[b].states :
                            /\ r[b].states[j].scope = t
                            /\ t = s => EffectiveFrom(r[b].states[j]) <= p}
              homes == {t \in Chain(s) : here(t) \cup done(t) # {}}
  <2>1. here(s) = {k}
    <3>1. \A j, l \in 1..Len(r[b].states) :
            j < l => r[b].states[j].at < r[b].states[l].at
      BY <1>2, <1>4 DEF Sound, StatesHold
    <3>2. \A j \in 1..Len(r[b].states) : r[b].states[j].at \in Nat
      <4>1. ASSUME NEW j \in DOMAIN r[b].states
            PROVE  \E g \in Collected : g.at = r[b].states[j].at
        <5>1. b \in DOMAIN r
          BY <1>1
        <5>2. \E g \in Collected :
                IsState(Collected, r[b], j, g) /\ g.at = r[b].states[j].at
          BY <1>2, <5>1, StateOfBinding
        <5>. QED BY <5>2
      <4>. QED BY <1>2, <1>4, <4>1 DEF AnyFacts
    <3>3. ASSUME NEW j \in 1..Len(r[b].states), r[b].states[j].at = p PROVE j = k
      <4>1. k \in 1..Len(r[b].states) /\ p \in Nat
        BY <1>4, <3>2
      <4>2. ~(j < k)
        <5>1. j < k => r[b].states[j].at < p
          BY <3>1, <4>1
        <5>. QED BY <3>3, <4>1, <5>1
      <4>3. ~(k < j)
        <5>1. k < j => p < r[b].states[j].at
          BY <3>1, <4>1
        <5>. QED BY <3>3, <4>1, <5>1
      <4>4. j \in Nat /\ k \in Nat
        BY <1>4
      <4>. QED BY <4>2, <4>3, <4>4
    <3>. QED BY <1>4, <3>3
  <2>2. s \in homes /\ homes \subseteq 0..s
    BY <1>10, <2>1
  <2>. HIDE DEF homes
  <2>3. Max(homes) = s
    <3>1. Max(homes) \in homes /\ \A t \in homes : t <= Max(homes)
      BY <1>10, <2>2, MaxIsGreatest
    <3>. QED BY <1>10, <2>2, <3>1
  <2>4. Min(here(s)) = k
    <3>1. {k} \subseteq Nat /\ {k} # {}
      BY <1>4
    <3>2. Min({k}) \in {k}
      BY <3>1, MinIsLeast
    <3>. QED BY <2>1, <3>2
  <2>5. StateFromScope(r[b], s, p) =
          IF homes = {} THEN 1 ELSE IF here(Max(homes)) # {} THEN Min(here(Max(homes)))
          ELSE CHOOSE j \in done(Max(homes)) : \A l \in done(Max(homes)) :
                 LET e == EffectiveFrom(r[b].states[l])
                     g == EffectiveFrom(r[b].states[j])
                 IN  e < g \/ (e = g /\ l <= j)
    BY DEF StateFromScope, homes
  <2>. HIDE DEF here, done
  <2>. QED BY <2>1, <2>2, <2>3, <2>4, <2>5
<1>. QED BY <1>8, <1>11, <1>12

\* Each target of a binding is looked up as the binding and the state it is, and
\* no state is in another scope than its binding, whatever the program.
THEOREM DefinitionsAlwaysHold == Spec => []DefinitionsHold
<1>1. ScopesInv /\ NestInv /\ FactsInv => DefinitionsFindThemselves
  BY DefinitionFindsItself DEF DefinitionsFindThemselves
<1>2. ScopesInv /\ NestInv /\ FactsInv => AssignmentsStayInTheirScope
  <2>. SUFFICES ASSUME ScopesInv, FactsInv, NEW b \in DOMAIN RegistryOf(facts),
                       NEW k \in DOMAIN RegistryOf(facts)[b].states
                PROVE  RegistryOf(facts)[b].states[k].scope = RegistryOf(facts)[b].scope
    BY DEF AssignmentsStayInTheirScope
  <2>. DEFINE r == RegistryOf(facts)
  <2>1. Sound(r, Collected) /\ Collected \in SUBSET AnyFacts
    BY TextSound
  <2>2. b \in DOMAIN r /\ k \in DOMAIN r[b].states
    OBVIOUS
  <2>. HIDE DEF r
  <2>3. r[b].states[k].scope = r[b].scope
    BY <2>1, <2>2, StateOfBinding
  <2>. QED BY <2>3 DEF r
<1>. QED
  BY <1>1, <1>2, ScopesAlwaysInv, ScopesAlwaysNest, FactsAlwaysFollow, PTL
     DEF DefinitionsHold
-----------------------------------------------------------------------------
(* Renaming. *)

\* The use of a name, and what it is bound to.
LEMMA UseIsLookedUp ==
  ASSUME ScopesInv, NestInv, FactsInv, NEW q \in Uses(Text)
  PROVE  /\ q \in DOMAIN symbols /\ q \in Nat /\ q # None
         /\ Text.names[q] = symbols[q].name /\ Text.names[q] \in Names
         /\ Text.at[q] = At(q) /\ At(q) \in 1..Len(scopes)
         /\ Bound(Text, q) = BindingFromScope(RegistryOf(facts), Text.names[q], At(q), q)
         /\ Anchor(Text, q) = AnchorIn(RegistryOf(facts), Text.names[q], At(q), q)
         /\ Bound(Text, q) # None => /\ Bound(Text, q) \in 1..Len(RegistryOf(facts))
                                     /\ RegistryOf(facts)[Bound(Text, q)].name = Text.names[q]
<1>1. q \in DOMAIN symbols /\ symbols[q].name # Other
  BY DEF Uses, Text
<1>2. symbols \in Seq(Tokens) /\ q \in 1..Len(symbols)
  BY <1>1, Referred DEF ScopesInv, Types
<1>3. symbols[q].name \in Names
  <2>1. symbols[q] \in Tokens
    BY <1>2
  <2>. QED BY <1>1, <2>1 DEF Tokens
<1>4. Text.names[q] = symbols[q].name /\ Text.at[q] = At(q) /\ Text.bindings = RegistryOf(facts)
  BY <1>1 DEF Text
<1>5. At(q) \in 1..Len(scopes) /\ q \in Nat
  BY <1>1, <1>2, AtIsItsScope
<1>6. Bound(Text, q) = BindingFromScope(RegistryOf(facts), Text.names[q], At(q), q)
  BY <1>4 DEF Bound
<1>7. Anchor(Text, q) = AnchorIn(RegistryOf(facts), Text.names[q], At(q), q)
  BY <1>4 DEF Anchor, AnchorIn, Bound
<1>8. ASSUME Bound(Text, q) # None
      PROVE  /\ Bound(Text, q) \in 1..Len(RegistryOf(facts))
             /\ RegistryOf(facts)[Bound(Text, q)].name = Text.names[q]
  <2>. DEFINE r == RegistryOf(facts)
  <2>1. r \in Seq(BindingRecords) /\ BindingsRise(r)
    BY TextSound DEF Sound
  <2>. HIDE DEF r
  <2>2. BindingFromScope(r, Text.names[q], At(q), q) # None
    BY <1>6, <1>8 DEF r
  <2>3. /\ BindingFromScope(r, Text.names[q], At(q), q) \in 1..Len(r)
        /\ Visible(r[BindingFromScope(r, Text.names[q], At(q), q)], Text.names[q], At(q), q)
    BY <1>5, <2>1, <2>2, LookupFinds
  <2>. QED BY <1>6, <2>3 DEF Visible, r
<1>. QED BY <1>1, <1>2, <1>3, <1>4, <1>5, <1>6, <1>7, <1>8 DEF None

\* A fact, and the same fact with the fresh name when its place is edited.
Turned(E, f) == IF f.at \in E THEN [f EXCEPT !.name = Fresh] ELSE f

LEMMA TurnedParts ==
  ASSUME NEW E, NEW f \in AnyFacts
  PROVE  /\ Turned(E, f) \in AnyFacts
         /\ Turned(E, f).at = f.at /\ Turned(E, f).scope = f.scope
         /\ Turned(E, f).effect = f.effect
         /\ Turned(E, f).name = IF f.at \in E THEN Fresh ELSE f.name
BY DEF Turned, AnyFacts, AnyName

\* Facts that are renamed together introduce what they did.
LEMMA TurnedIntroduces ==
  ASSUME NEW F \in SUBSET AnyFacts, Distinct(F), NEW r, Sound(r, F), NEW E, NEW N,
         \A f \in F : f.name # Fresh,
         \A f \in F : f.at \in E => f.name = N,
         \A c \in 1..Len(r) : \A k \in 1..Len(r[c].states) :
           r[c].states[k].at \in E <=> r[c].at \in E
  PROVE  \A f \in F : Introduces({Turned(E, g) : g \in F}, Turned(E, f)) <=> Introduces(F, f)
<1>. SUFFICES ASSUME NEW f \in F
              PROVE  Introduces({Turned(E, g) : g \in F}, Turned(E, f)) <=> Introduces(F, f)
  OBVIOUS
<1>1. \A g \in F : Same(Turned(E, g), Turned(E, f))
                     <=> Same(g, f) /\ (g.at \in E <=> f.at \in E)
  BY TurnedParts DEF Same
<1>2. /\ Turned(E, f).effect = f.effect
      /\ \A g \in F : Turned(E, g).at < Turned(E, f).at <=> g.at < f.at
  BY TurnedParts
<1>3. CASE Introduces(F, f)
  <2>1. CASE f.effect = "Declare"
    BY <1>2, <1>3, <2>1 DEF Introduces
  <2>2. CASE f.effect # "Declare"
    <3>1. \A g \in F : ~(Same(g, f) /\ g.at < f.at)
      BY <1>3, <2>2 DEF Introduces
    <3>2. \A g \in F : ~(Same(Turned(E, g), Turned(E, f)) /\ Turned(E, g).at < Turned(E, f).at)
      BY <1>1, <1>2, <3>1
    <3>3. Introduces({Turned(E, g) : g \in F}, Turned(E, f))
      BY <3>2 DEF Introduces
    <3>. QED BY <1>3, <3>3
  <2>. QED BY <2>1, <2>2
<1>4. CASE ~Introduces(F, f)
  <2>1. f.effect # "Declare"
    BY <1>4 DEF Introduces
  <2>2. PICK c \in 1..Len(r) : \E k \in 1..Len(r[c].states) : r[c].states[k].at = f.at
    BY DEF Sound
  <2>3. PICK k \in 1..Len(r[c].states) : r[c].states[k].at = f.at
    BY <2>2
  <2>4. PICK g \in F : IsState(F, r[c], k, g)
    BY <2>3 DEF Sound, StatesHold
  <2>5. g = f /\ Same(f, r[c])
    BY <2>3, <2>4 DEF IsState, StateOf, Distinct
  <2>6. k # 1
    BY <1>4, <2>4, <2>5 DEF IsState
  <2>7. PICK h \in F : Same(h, r[c]) /\ h.at = r[c].at
    BY BindingAt
  <2>8. h.at < f.at
    <3>1. /\ r[c].at = r[c].states[1].at
          /\ \A j, l \in 1..Len(r[c].states) :
               j < l => r[c].states[j].at < r[c].states[l].at
      BY DEF Sound, StatesHold
    <3>2. Len(r[c].states) \in Nat
      BY BindingAt
    <3>3. 1 \in 1..Len(r[c].states) /\ 1 < k
      BY <2>3, <2>6, <3>2
    <3>. QED BY <2>3, <2>7, <3>1, <3>3
  <2>9. Same(h, f) /\ (h.at \in E <=> f.at \in E)
    BY <2>3, <2>5, <2>7 DEF Same
  <2>10. Same(Turned(E, h), Turned(E, f)) /\ Turned(E, h).at < Turned(E, f).at
    BY <1>1, <1>2, <2>8, <2>9
  <2>11. ~Introduces({Turned(E, x) : x \in F}, Turned(E, f))
    BY <1>2, <2>1, <2>10 DEF Introduces
  <2>. QED BY <1>4, <2>11
<1>. QED BY <1>3, <1>4

\* The facts of a walk after the edits.
EditedFacts(edited) ==
  [i \in DOMAIN facts |-> IF facts[i].at \in edited
                          THEN [facts[i] EXCEPT !.name = Fresh] ELSE facts[i]]

LEMMA EditedSound ==
  ASSUME ScopesInv, FactsInv, NEW E
  PROVE  LET F == {Turned(E, f) : f \in Collected}
         IN  /\ Sound(RegistryOf(EditedFacts(E)), F)
             /\ F \in SUBSET AnyFacts /\ Distinct(F)
<1>. DEFINE col == EditedFacts(E)
<1>1. /\ \A i \in 1..Len(facts) : facts[i] \in AnyFacts
      /\ \A i, j \in 1..Len(facts) : i < j => facts[i].at < facts[j].at
      /\ \A i \in 1..Len(facts) : facts[i].scope \in 1..Len(scopes)
      /\ DOMAIN facts = 1..Len(facts) /\ Len(facts) \in Nat
  BY TextSound, Referred DEF Follows
<1>2. /\ DOMAIN col = 1..Len(facts)
      /\ \A i \in 1..Len(facts) : col[i] = Turned(E, facts[i])
      /\ col = [i \in 1..Len(facts) |-> Turned(E, facts[i])]
  BY <1>1 DEF EditedFacts, Turned
<1>3. \A i \in 1..Len(facts) : /\ col[i] \in AnyFacts /\ col[i].at = facts[i].at
                               /\ col[i].scope = facts[i].scope
  BY <1>1, <1>2, TurnedParts
<1>. HIDE DEF col
<1>4. col \in Seq(AnyFacts) /\ Len(col) = Len(facts)
  <2>1. col \in [1..Len(facts) -> AnyFacts]
    BY <1>2, <1>3
  <2>. QED BY <1>1, <1>2, <2>1
<1>5. Follows(col)
  BY <1>1, <1>3, <1>4 DEF Follows
<1>6. FactsOf(col) = {Turned(E, f) : f \in Collected}
  BY <1>1, <1>2 DEF FactsOf, Collected
<1>. QED BY <1>5, <1>6, RegistrySound DEF col

\* Edits at all the places of some bindings, and at the uses of these, leave
\* every use where it is bound.
LEMMA EditsKeepAnchors ==
  ASSUME ScopesInv, NestInv, FactsInv,
         \A c \in DOMAIN Text.bindings : FindsItself(Text, c),
         NEW E \in SUBSET Uses(Text), NEW B, NEW N,
         \A q \in Uses(Text) :
           Bound(Text, q) # None => (q \in E <=> Bound(Text, q) \in B),
         \A q \in E : Text.names[q] = N,
         NEW q \in Uses(Text)
  PROVE  Anchor(Renamed(Text, E), q) = Anchor(Text, q)
<1>. DEFINE r == RegistryOf(facts)
            F == Collected
            G == {Turned(E, f) : f \in F}
            name == IF q \in E THEN Fresh ELSE Text.names[q]
            S == Seen(F, Text.names[q], At(q), q)
            T == Seen(G, name, At(q), q)
<1>1. /\ Sound(r, F) /\ F \in SUBSET AnyFacts /\ Distinct(F)
      /\ \A f \in F : /\ f.at \in 1..Len(symbols) /\ symbols[f.at].name = f.name
                      /\ f.name \in Names
  BY TextSound
<1>2. Sound(RegistryOf(EditedFacts(E)), G) /\ G \in SUBSET AnyFacts /\ Distinct(G)
  BY EditedSound
<1>3. /\ Anchor(Text, q) = AnchorIn(r, Text.names[q], At(q), q)
      /\ At(q) \in 1..Len(scopes) /\ q \in Nat /\ q \in DOMAIN symbols
      /\ Text.names[q] \in Names
  BY UseIsLookedUp
<1>4. Anchor(Renamed(Text, E), q) = AnchorIn(RegistryOf(EditedFacts(E)), name, At(q), q)
  <2>1. /\ Renamed(Text, E).bindings = RegistryOf(EditedFacts(E))
        /\ Renamed(Text, E).names[q] = name
        /\ Renamed(Text, E).at[q] = At(q)
    BY <1>3 DEF Renamed, Text, EditedFacts
  <2>. QED BY <2>1 DEF Anchor, AnchorIn, Bound
<1>. HIDE DEF r, F
\* Each state of a binding is edited with it.
<1>5. ASSUME NEW c \in 1..Len(r), NEW k \in 1..Len(r[c].states)
      PROVE  r[c].states[k].at \in E <=> c \in B
  <2>1. Text.bindings = r
    BY DEF Text, r
  <2>2. c \in DOMAIN r /\ DOMAIN r[c].states = 1..Len(r[c].states)
    <3>1. r \in Seq(BindingRecords)
      BY <1>1 DEF Sound
    <3>2. r[c] \in BindingRecords
      BY <3>1
    <3>3. r[c].states \in Seq(States)
      <4>. HIDE DEF States
      <4>. QED BY <3>2 DEF BindingRecords
    <3>. QED BY <3>1, <3>3
  <2>. DEFINE p == r[c].states[k].at
  <2>3. Bound(Text, p) = c
    BY <2>1, <2>2 DEF FindsItself
  <2>4. PICK f \in F : f.at = p
    <3>1. k \in DOMAIN r[c].states
      BY <2>2
    <3>2. \E f \in F : IsState(F, r[c], k, f) /\ f.at = r[c].states[k].at
      <4>1. F \in SUBSET AnyFacts
        BY <1>1
      <4>2. Sound(r, F)
        BY <1>1
      <4>3. c \in DOMAIN r
        BY <2>2
      <4>. QED BY ONLY <3>1, <4>1, <4>2, <4>3, StateOfBinding
    <3>. QED BY <3>2
  <2>5. p \in Uses(Text)
    <3>1. symbols[p].name \in Names /\ p \in DOMAIN symbols
      BY <1>1, <2>4, Referred
    <3>. QED BY <3>1, ScopesAssumption DEF Uses, Text
  <2>6. c # None
    BY DEF None
  <2>. QED BY <2>3, <2>5, <2>6
<1>6. \A c \in 1..Len(r) : \A k \in 1..Len(r[c].states) :
        r[c].states[k].at \in E <=> r[c].at \in E
  <2>1. ASSUME NEW c \in 1..Len(r) PROVE r[c].at \in E <=> c \in B
    <3>1. 1 \in 1..Len(r[c].states)
      BY <1>1, BindingAt
    <3>2. r[c].at = r[c].states[1].at
      BY <1>1 DEF Sound, StatesHold
    <3>. QED BY <1>5, <3>1, <3>2
  <2>. QED BY <1>5, <2>1
<1>7. \A f \in F : f.name # Fresh /\ (f.at \in E => f.name = N)
  <2>1. ASSUME NEW f \in F, f.at \in E PROVE f.name = N
    <3>1. Text.names[f.at] = symbols[f.at].name
      BY <2>1 DEF Uses, Text
    <3>. QED BY <1>1, <2>1, <3>1
  <2>. QED BY <1>1, <2>1, ScopesAssumption
<1>8. \A f \in F : Introduces(G, Turned(E, f)) <=> Introduces(F, f)
  BY <1>1, <1>6, <1>7, TurnedIntroduces
\* What is seen is what was seen and is edited as the use is.
<1>9. ASSUME NEW f \in F
      PROVE  Visible(Turned(E, f), name, At(q), q)
               <=> Visible(f, Text.names[q], At(q), q) /\ (f.at \in E <=> q \in E)
  <2>1. /\ Turned(E, f).at = f.at /\ Turned(E, f).scope = f.scope
        /\ Turned(E, f).name = IF f.at \in E THEN Fresh ELSE f.name
    BY <1>1, TurnedParts
  <2>2. Turned(E, f).name = name
          <=> f.name = Text.names[q] /\ (f.at \in E <=> q \in E)
    <3>1. f.name # Fresh /\ Text.names[q] # Fresh
      BY <1>3, <1>7, ScopesAssumption
    <3>2. q \in E => Text.names[q] = N
      OBVIOUS
    <3>3. f.at \in E => f.name = N
      BY <1>7
    <3>. QED BY <2>1, <3>1, <3>2, <3>3
  <2>. QED BY <2>1, <2>2 DEF Visible
<1>10. T = {x \in S : x[2] \in E <=> q \in E}
  <2>1. ASSUME NEW x \in T PROVE x \in S /\ (x[2] \in E <=> q \in E)
    <3>1. PICK f \in F : /\ Introduces(G, Turned(E, f))
                         /\ Visible(Turned(E, f), name, At(q), q)
                         /\ x = <<Turned(E, f).scope, Turned(E, f).at>>
      BY DEF Seen
    <3>2. x = <<f.scope, f.at>>
      BY <1>1, <3>1, TurnedParts
    <3>. QED BY <1>8, <1>9, <3>1, <3>2 DEF Seen
  <2>2. ASSUME NEW x \in S, x[2] \in E <=> q \in E PROVE x \in T
    <3>1. PICK f \in F : /\ Introduces(F, f) /\ Visible(f, Text.names[q], At(q), q)
                         /\ x = <<f.scope, f.at>>
      BY DEF Seen
    <3>2. x = <<Turned(E, f).scope, Turned(E, f).at>>
      BY <1>1, <3>1, TurnedParts
    <3>3. Introduces(G, Turned(E, f)) /\ Visible(Turned(E, f), name, At(q), q)
      BY <1>8, <1>9, <2>2, <3>1
    <3>. QED BY <3>2, <3>3 DEF Seen
  <2>. QED BY <2>1, <2>2
<1>. HIDE DEF G, name
<1>11. Nearest(S, AnchorIn(r, Text.names[q], At(q), q))
  BY <1>1, <1>3, AnchorIsNearest
<1>12. Nearest(T, AnchorIn(RegistryOf(EditedFacts(E)), name, At(q), q))
  BY <1>2, <1>3, AnchorIsNearest
<1>13. \A x \in S \cup T : x[1] \in Nat /\ x[2] \in Nat
  BY <1>1, <1>2, SeenPlaces
<1>14. Nearest(T, Anchor(Text, q))
  <2>1. CASE S = {}
    <3>1. T = {}
      BY <1>10, <2>1
    <3>2. Anchor(Text, q) = None
      <4>. HIDE DEF S
      <4>. QED BY <1>3, <1>11, <2>1 DEF Nearest
    <3>. HIDE DEF T
    <3>. QED BY <3>1, <3>2 DEF Nearest
  <2>2. CASE S # {}
    <3>. HIDE DEF S, T
    <3>1. PICK x \in S : /\ Anchor(Text, q) = x[2]
                         /\ \A y \in S : y[1] < x[1] \/ (y[1] = x[1] /\ y[2] <= x[2])
      BY <1>3, <1>11, <2>2 DEF Nearest
    <3>2. x[2] # None
      <4>1. PICK f \in F : x = <<f.scope, f.at>>
        BY DEF S, Seen
      <4>. QED BY <1>1, <4>1 DEF None
    <3>3. Bound(Text, q) # None
      BY <3>1, <3>2 DEF Anchor
    <3>4. x[2] \in E <=> q \in E
      <4>. DEFINE c == Bound(Text, q)
      <4>1. c \in 1..Len(r) /\ x[2] = r[c].at
        BY <3>1, <3>3, UseIsLookedUp DEF Anchor, Text, r
      <4>. HIDE DEF c
      <4>2. 1 \in 1..Len(r[c].states)
        BY <1>1, <4>1, BindingAt
      <4>3. r[c].at = r[c].states[1].at
        BY <1>1, <4>1 DEF Sound, StatesHold
      <4>4. x[2] \in E <=> c \in B
        BY <1>5, <4>1, <4>2, <4>3
      <4>. QED BY <3>3, <4>4 DEF c
    <3>5. x \in T /\ \A y \in T : y \in S
      BY <1>10, <3>4
    <3>. QED BY <3>1, <3>5 DEF Nearest
  <2>. QED BY <2>1, <2>2
<1>. HIDE DEF S, T
<1>. QED BY <1>4, <1>12, <1>13, <1>14, NearestIsOne

\* What is edited when a binding is renamed is all of it.
LEMMA RenameEdits ==
  ASSUME ScopesInv, NestInv, FactsInv, NEW b \in DOMAIN Text.bindings
  PROVE  LET E == RenameRanges(Text, b)
             r == RegistryOf(facts)
             N == r[b].name
             B == IF r[b].scope = 1
                  THEN {c \in 1..Len(r) : r[c].name = N /\ r[c].scope = 1} ELSE {b}
         IN  /\ E \in SUBSET Uses(Text)
             /\ \A q \in Uses(Text) :
                  Bound(Text, q) # None => (q \in E <=> Bound(Text, q) \in B)
             /\ \A q \in E : Text.names[q] = N
<1>. DEFINE r == RegistryOf(facts)
            E == RenameRanges(Text, b)
            N == r[b].name
            B == IF r[b].scope = 1
                 THEN {c \in 1..Len(r) : r[c].name = N /\ r[c].scope = 1} ELSE {b}
<1>1. Text.bindings = r /\ b \in 1..Len(r)
  <2>1. r \in Seq(BindingRecords)
    BY TextSound DEF Sound
  <2>. QED BY <2>1 DEF Text
<1>2. \A q \in Uses(Text) :
        Bound(Text, q) # None => /\ Bound(Text, q) \in 1..Len(r)
                                 /\ r[Bound(Text, q)].name = Text.names[q]
  BY UseIsLookedUp
<1>. HIDE DEF r
<1>3. CASE r[b].scope = 1
  <2>1. E = {q \in Uses(Text) : /\ Text.names[q] = N
                                /\ Bound(Text, q) # None => r[Bound(Text, q)].scope = 1}
    BY <1>1, <1>3 DEF RenameRanges, GlobalReferenceRanges
  <2>. HIDE DEF E
  <2>2. /\ E \in SUBSET Uses(Text)
        /\ \A q \in Uses(Text) :
             Bound(Text, q) # None => (q \in E <=> Bound(Text, q) \in B)
        /\ \A q \in E : Text.names[q] = N
    BY <1>2, <1>3, <2>1
  <2>. QED BY <2>2 DEF E, r
<1>4. CASE r[b].scope # 1
  <2>1. E = {q \in Uses(Text) : Bound(Text, q) = b}
    BY <1>1, <1>4 DEF RenameRanges, ReferenceRanges
  <2>2. b # None
    BY <1>1 DEF None
  <2>. HIDE DEF E
  <2>3. /\ E \in SUBSET Uses(Text)
        /\ \A q \in Uses(Text) :
             Bound(Text, q) # None => (q \in E <=> Bound(Text, q) \in B)
        /\ \A q \in E : Text.names[q] = N
    BY <1>2, <1>4, <2>1, <2>2
  <2>. QED BY <2>3 DEF E, r
<1>. QED BY <1>3, <1>4

\* Renaming a binding to a name no text has leaves every use bound where it was,
\* in every program each of whose definitions is found at its own place.
THEOREM RenameAlwaysKeepsMeaning == Spec => []RenameKeepsMeaning
<1>1. ScopesInv /\ NestInv /\ FactsInv => RenameKeepsMeaning
  <2>. SUFFICES ASSUME ScopesInv, NestInv, FactsInv,
                       \A c \in DOMAIN Text.bindings : FindsItself(Text, c),
                       NEW b \in DOMAIN Text.bindings, NEW q \in Uses(Text)
                PROVE  Anchor(Renamed(Text, RenameRanges(Text, b)), q) = Anchor(Text, q)
    BY DEF RenameKeepsMeaning
  <2>. DEFINE r == RegistryOf(facts)
              E == RenameRanges(Text, b)
              N == r[b].name
              B == IF r[b].scope = 1
                   THEN {c \in 1..Len(r) : r[c].name = N /\ r[c].scope = 1} ELSE {b}
  <2>1. /\ E \in SUBSET Uses(Text)
        /\ \A p \in Uses(Text) :
             Bound(Text, p) # None => (p \in E <=> Bound(Text, p) \in B)
        /\ \A p \in E : Text.names[p] = N
    BY RenameEdits
  <2>. HIDE DEF E, B, N
  <2>2. Anchor(Renamed(Text, E), q) = Anchor(Text, q)
    BY <2>1, EditsKeepAnchors
  <2>. QED BY <2>2 DEF E
<1>. QED BY <1>1, ScopesAlwaysInv, ScopesAlwaysNest, FactsAlwaysFollow, PTL
-----------------------------------------------------------------------------
(* Deleting what is reported as unused. *)

\* Every fact but one.
LEMMA RemovedSound ==
  ASSUME ScopesInv, FactsInv, NEW i \in DOMAIN facts
  PROVE  LET F == Collected \ {facts[i]}
         IN  /\ Sound(RegistryOf(RemoveAt(facts, i)), F)
             /\ F \in SUBSET AnyFacts /\ Distinct(F)
<1>. DEFINE n == Len(facts)
            front == SubSeq(facts, 1, i - 1)
            back == SubSeq(facts, i + 1, n)
            col == RemoveAt(facts, i)
<1>1. /\ \A j \in 1..n : facts[j] \in AnyFacts /\ facts[j].scope \in 1..Len(scopes)
      /\ \A j, k \in 1..n : j < k => facts[j].at < facts[k].at
      /\ DOMAIN facts = 1..n /\ n \in Nat /\ i \in 1..n
  BY TextSound, Referred DEF Follows
<1>2. /\ front \in Seq(AnyFacts) /\ Len(front) = i - 1
      /\ \A j \in 1..(i - 1) : front[j] = facts[j]
  <2>1. \A j \in 1..(i - 1) : facts[j] \in AnyFacts
    BY <1>1
  <2>2. /\ front \in Seq(AnyFacts)
        /\ Len(front) = IF 1 <= i - 1 THEN (i - 1) - 1 + 1 ELSE 0
        /\ \A j \in 1..((i - 1) - 1 + 1) : front[j] = facts[1 + j - 1]
    BY <1>1, <2>1, SubSeqProperties
  <2>. HIDE DEF front
  <2>. QED BY <1>1, <2>2
<1>3. /\ back \in Seq(AnyFacts) /\ Len(back) = n - i
      /\ \A j \in 1..(n - i) : back[j] = facts[i + j]
  <2>1. \A j \in (i + 1)..n : facts[j] \in AnyFacts
    BY <1>1
  <2>2. /\ back \in Seq(AnyFacts)
        /\ Len(back) = IF i + 1 <= n THEN n - (i + 1) + 1 ELSE 0
        /\ \A j \in 1..(n - (i + 1) + 1) : back[j] = facts[(i + 1) + j - 1]
    BY <1>1, <2>1, SubSeqProperties
  <2>. HIDE DEF back
  <2>3. \A j \in 1..(n - i) : back[j] = facts[i + j]
    <3>1. ASSUME NEW j \in 1..(n - i) PROVE back[j] = facts[i + j]
      <4>1. j \in 1..(n - (i + 1) + 1) /\ (i + 1) + j - 1 = i + j
        BY <1>1
      <4>. QED BY <2>2, <4>1
    <3>. QED BY <3>1
  <2>. QED BY <1>1, <2>2, <2>3
<1>4. col = front \o back
  BY DEF RemoveAt
<1>. HIDE DEF front, back, col
<1>5. /\ col \in Seq(AnyFacts) /\ Len(col) = n - 1 /\ DOMAIN col = 1..(n - 1)
      /\ \A j \in 1..(n - 1) : col[j] = IF j < i THEN facts[j] ELSE facts[j + 1]
  <2>1. /\ col \in Seq(AnyFacts) /\ Len(col) = (i - 1) + (n - i)
        /\ \A j \in 1..((i - 1) + (n - i)) :
             col[j] = IF j <= i - 1 THEN front[j] ELSE back[j - (i - 1)]
    <3>1. /\ col \in Seq(AnyFacts) /\ Len(col) = Len(front) + Len(back)
          /\ \A j \in 1..(Len(front) + Len(back)) :
               col[j] = IF j <= Len(front) THEN front[j] ELSE back[j - Len(front)]
      BY <1>2, <1>3, <1>4, ConcatProperties
    <3>. QED BY <1>2, <1>3, <3>1
  <2>2. (i - 1) + (n - i) = n - 1
    BY <1>1
  <2>3. ASSUME NEW j \in 1..(n - 1)
        PROVE  col[j] = IF j < i THEN facts[j] ELSE facts[j + 1]
    <3>1. CASE j < i
      BY <1>1, <1>2, <2>1, <2>2, <3>1
    <3>2. CASE ~(j < i)
      <4>1. j - (i - 1) \in 1..(n - i) /\ i + (j - (i - 1)) = j + 1 /\ ~(j <= i - 1)
        BY <1>1, <3>2
      <4>2. back[j - (i - 1)] = facts[j + 1]
        BY <1>3, <4>1
      <4>. QED BY <2>1, <2>2, <3>2, <4>1, <4>2
    <3>. QED BY <3>1, <3>2
  <2>4. DOMAIN col = 1..(n - 1)
    BY <2>1, <2>2
  <2>. QED BY <2>1, <2>2, <2>3, <2>4
<1>6. Follows(col)
  <2>1. ASSUME NEW j \in 1..(n - 1)
        PROVE  /\ (IF j < i THEN j ELSE j + 1) \in 1..n
               /\ col[j] = facts[IF j < i THEN j ELSE j + 1]
    BY <1>1, <1>5
  <2>2. ASSUME NEW j \in 1..(n - 1), NEW k \in 1..(n - 1), j < k
        PROVE  col[j].at < col[k].at
    <3>1. (IF j < i THEN j ELSE j + 1) < (IF k < i THEN k ELSE k + 1)
      BY <1>1, <2>2
    <3>. QED BY <1>1, <2>1, <3>1
  <2>3. \A j \in 1..(n - 1) : col[j].scope \in 1..Len(scopes)
    BY <1>1, <2>1
  <2>. QED BY <1>5, <2>2, <2>3 DEF Follows
<1>7. FactsOf(col) = Collected \ {facts[i]}
  <2>1. ASSUME NEW x \in FactsOf(col) PROVE x \in Collected \ {facts[i]}
    <3>1. PICK j \in 1..(n - 1) : x = col[j]
      BY <1>5 DEF FactsOf
    <3>. DEFINE k == IF j < i THEN j ELSE j + 1
    <3>2. k \in 1..n /\ k # i /\ x = facts[k]
      BY <1>1, <1>5, <3>1
    <3>3. facts[k] # facts[i]
      <4>1. k < i \/ i < k
        BY <1>1, <3>2
      <4>2. facts[k].at \in Nat /\ facts[i].at \in Nat
        BY <1>1, <3>2 DEF AnyFacts
      <4>. HIDE DEF k
      <4>3. facts[k].at # facts[i].at
        BY <1>1, <3>2, <4>1, <4>2
      <4>. QED BY <4>3
    <3>. QED BY <1>1, <3>2, <3>3 DEF Collected, FactsOf
  <2>2. ASSUME NEW x \in Collected, x # facts[i] PROVE x \in FactsOf(col)
    <3>1. PICK k \in 1..n : x = facts[k]
      BY TextSound
    <3>. DEFINE j == IF k < i THEN k ELSE k - 1
    <3>2. k # i
      BY <2>2, <3>1
    <3>3. j \in 1..(n - 1) /\ facts[k] = IF j < i THEN facts[j] ELSE facts[j + 1]
      BY <1>1, <3>2
    <3>. HIDE DEF j
    <3>4. x = col[j]
      BY <1>5, <3>1, <3>3
    <3>. QED BY <1>5, <3>3, <3>4 DEF FactsOf
  <2>. QED BY <2>1, <2>2
<1>8. Sound(RegistryOf(col), FactsOf(col)) /\ FactsOf(col) \in SUBSET AnyFacts
      /\ Distinct(FactsOf(col))
  BY <1>6, RegistrySound
<1>. QED BY <1>7, <1>8 DEF col

\* Without the fact that introduces a binding, a use that is not of the binding
\* finds what it found: an assignment that introduces its name only now is seen
\* by no use that finds nothing, and is nearer to none.
LEMMA OthersStay ==
  ASSUME NEW F \in SUBSET AnyFacts, NEW f \in F, Introduces(F, f),
         NEW name, NEW scope, NEW p \in Nat,
         NEW a, Nearest(Seen(F, name, scope, p), a), a # f.at,
         NEW c, Nearest(Seen(F \ {f}, name, scope, p), c)
  PROVE  c = a
<1>. DEFINE S == Seen(F, name, scope, p)
            T == Seen(F \ {f}, name, scope, p)
<1>1. \A h \in F : h.at \in Nat /\ h.scope \in Nat
  BY DEF AnyFacts
<1>2. \A x \in S \cup T : x[1] \in Nat /\ x[2] \in Nat
  BY SeenPlaces
\* What introduces its name only now comes after the deleted fact and no other.
<1>3. ASSUME NEW h \in F \ {f}, Introduces(F \ {f}, h), ~Introduces(F, h)
      PROVE  /\ Same(f, h) /\ f.at < h.at
             /\ \A k \in F : Same(k, h) /\ k.at < h.at => k = f
  BY <1>3 DEF Introduces
<1>4. \A h \in F \ {f} : Introduces(F, h) => Introduces(F \ {f}, h)
  BY DEF Introduces
<1>5. ASSUME NEW h \in F \ {f}, Introduces(F \ {f}, h), ~Introduces(F, h),
             Visible(h, name, scope, p)
      PROVE  Visible(f, name, scope, p) /\ <<f.scope, f.at>> \in S
  <2>1. Same(f, h) /\ f.at < h.at
    BY <1>3, <1>5
  <2>2. h.scope = scope => f.at <= p
    <3>1. CASE h.scope = scope
      <4>1. h.at <= p
        BY <1>5, <3>1 DEF Visible
      <4>. QED BY <1>1, <2>1, <4>1
    <3>. QED BY <3>1
  <2>3. Visible(f, name, scope, p)
    BY <1>5, <2>1, <2>2 DEF Visible, Same
  <2>. QED BY <2>3 DEF Seen
<1>6. ASSUME NEW h \in F \ {f}, Introduces(F, h), Visible(h, name, scope, p)
      PROVE  <<h.scope, h.at>> \in S /\ <<h.scope, h.at>> \in T
  BY <1>4, <1>6 DEF Seen
<1>7. ASSUME NEW y \in T
      PROVE  \E h \in F \ {f} : /\ Introduces(F \ {f}, h) /\ Visible(h, name, scope, p)
                                /\ y = <<h.scope, h.at>>
  BY DEF Seen
<1>8. ASSUME NEW x \in S
      PROVE  \E h \in F : /\ Introduces(F, h) /\ Visible(h, name, scope, p)
                          /\ x = <<h.scope, h.at>>
  BY DEF Seen
<1>. HIDE DEF S, T
<1>9. Nearest(T, a)
  <2>1. CASE S = {} /\ a = None
    <3>1. ASSUME NEW y \in T PROVE FALSE
      <4>1. PICK h \in F \ {f} : /\ Introduces(F \ {f}, h) /\ Visible(h, name, scope, p)
                                 /\ y = <<h.scope, h.at>>
        BY <1>7
      <4>. QED BY <1>5, <1>6, <2>1, <4>1
    <3>. QED BY <2>1, <3>1 DEF Nearest
  <2>2. ASSUME NEW x \in S, a = x[2],
               \A y \in S : y[1] < x[1] \/ (y[1] = x[1] /\ y[2] <= x[2])
        PROVE  Nearest(T, a)
    <3>1. PICK k \in F : /\ Introduces(F, k) /\ Visible(k, name, scope, p)
                         /\ x = <<k.scope, k.at>>
      BY <1>8
    <3>2. k # f /\ x[1] = k.scope /\ x[2] = k.at
      BY <2>2, <3>1
    <3>3. x \in T
      BY <1>6, <3>1, <3>2
    <3>4. ASSUME NEW y \in T PROVE y[1] < x[1] \/ (y[1] = x[1] /\ y[2] <= x[2])
      <4>1. PICK h \in F \ {f} : /\ Introduces(F \ {f}, h) /\ Visible(h, name, scope, p)
                                 /\ y = <<h.scope, h.at>>
        BY <1>7
      <4>2. CASE Introduces(F, h)
        BY <1>6, <2>2, <4>1, <4>2
      <4>3. CASE ~Introduces(F, h)
        <5>1. /\ Same(f, h) /\ f.at < h.at /\ <<f.scope, f.at>> \in S
              /\ \A j \in F : Same(j, h) /\ j.at < h.at => j = f
          BY <1>3, <1>5, <4>1, <4>3
        <5>2. f.scope < k.scope \/ (f.scope = k.scope /\ f.at <= k.at)
          <6>. DEFINE z == <<f.scope, f.at>>
          <6>1. z[1] < x[1] \/ (z[1] = x[1] /\ z[2] <= x[2])
            BY <2>2, <5>1
          <6>. QED BY <3>2, <6>1
        <5>3. y[1] = f.scope /\ y[2] = h.at
          BY <4>1, <5>1 DEF Same
        <5>4. CASE f.scope = k.scope
          <6>1. Same(k, h)
            BY <3>1, <4>1, <5>1, <5>4 DEF Same, Visible
          <6>2. ~(k.at < h.at)
            BY <3>2, <5>1, <6>1
          <6>. QED BY <1>1, <3>2, <5>3, <5>4, <6>2
        <5>. QED BY <1>1, <3>2, <5>2, <5>3, <5>4
      <4>. QED BY <4>2, <4>3
    <3>. QED BY <2>2, <3>3, <3>4 DEF Nearest
  <2>. QED BY <2>1, <2>2 DEF Nearest, S
<1>. QED BY <1>2, <1>9, NearestIsOne DEF T

\* Deleting what introduces a variable that is reported as unused leaves every
\* other use bound where it was, in programs of any length and nesting.
THEOREM UnusedAlwaysCanGo == Spec => []UnusedCanGo
<1>1. ScopesInv /\ NestInv /\ FactsInv => UnusedCanGo
  <2>. SUFFICES ASSUME ScopesInv, NestInv, FactsInv, NEW b \in Reported(Text),
                       NEW q \in Uses(Text) \ {Text.bindings[b].at}
                PROVE  Anchor(Without(Text, b), q) = Anchor(Text, q)
    BY DEF UnusedCanGo
  <2>. DEFINE r == RegistryOf(facts)
              F == Collected
              i == CHOOSE j \in DOMAIN facts : facts[j].at = r[b].at
              f == facts[i]
              left == RegistryOf(RemoveAt(facts, i))
  <2>1. /\ Sound(r, F) /\ F \in SUBSET AnyFacts /\ Distinct(F)
        /\ \A g \in F : \E j \in 1..Len(facts) : g = facts[j]
        /\ \A j \in 1..Len(facts) : facts[j] \in F
        /\ DOMAIN facts = 1..Len(facts)
    BY TextSound, Referred
  <2>2. Text.bindings = r /\ b \in 1..Len(r)
        /\ ~\E p \in Uses(Text) : Bound(Text, p) = b /\ p # r[b].at
    <3>1. r \in Seq(BindingRecords)
      BY <2>1 DEF Sound
    <3>2. b \in DOMAIN Text.bindings \ UsedBindings(Text) /\ Text.bindings = r
      BY DEF Reported, Text
    <3>. QED BY <3>1, <3>2 DEF UsedBindings
  <2>3. i \in DOMAIN facts /\ f \in F /\ f.at = r[b].at /\ Introduces(F, f)
    <3>. HIDE DEF r
    <3>1. PICK g \in F : g.at = r[b].at /\ Introduces(F, g)
      BY <2>1, <2>2, BindingAt
    <3>2. \E j \in DOMAIN facts : facts[j].at = r[b].at
      BY <2>1, <3>1
    <3>3. i \in DOMAIN facts /\ facts[i].at = r[b].at
      BY <3>2
    <3>4. f \in F /\ f.at = r[b].at
      BY <2>1, <3>3
    <3>5. f = g
      BY <2>1, <3>1, <3>4 DEF Distinct
    <3>. QED BY <3>1, <3>3, <3>4, <3>5
  <2>4. /\ Sound(left, F \ {f}) /\ F \ {f} \in SUBSET AnyFacts /\ Distinct(F \ {f})
    BY <2>3, RemovedSound
  <2>5. /\ Anchor(Text, q) = AnchorIn(r, Text.names[q], At(q), q)
        /\ At(q) \in 1..Len(scopes) /\ q \in Nat /\ Text.at[q] = At(q)
        /\ Bound(Text, q) # None => Bound(Text, q) \in 1..Len(r)
    BY UseIsLookedUp
  <2>6. Anchor(Without(Text, b), q) = AnchorIn(left, Text.names[q], At(q), q)
    <3>1. /\ Without(Text, b).bindings = left /\ Without(Text, b).names = Text.names
          /\ Without(Text, b).at = Text.at
      BY DEF Without, Text
    <3>. QED BY <2>5, <3>1 DEF Anchor, AnchorIn, Bound
  <2>7. Anchor(Text, q) # f.at
    <3>. HIDE DEF r, i
    <3>1. \A c \in 1..Len(r) : r[c].at \in Nat /\ r[c].at # None
      <4>1. \A c \in 1..Len(r) : \E g \in F : g.at = r[c].at
        BY <2>1, BindingAt
      <4>2. \A g \in F : g.at \in Nat /\ g.at # None
        BY TextSound, Referred DEF None
      <4>. QED BY <4>1, <4>2
    <3>2. Bound(Text, q) # b
      BY <2>2
    <3>3. Anchor(Text, q) = IF Bound(Text, q) = None THEN None ELSE r[Bound(Text, q)].at
      BY <2>2 DEF Anchor
    <3>4. \A c \in 1..Len(r) : c # b => r[c].at # r[b].at
      <4>1. BindingsRise(r)
        BY <2>1 DEF Sound
      <4>. QED BY <2>2, <3>1, <4>1 DEF BindingsRise
    <3>. QED BY <2>2, <2>3, <2>5, <3>1, <3>2, <3>3, <3>4
  <2>. HIDE DEF r, F, f, left, i
  <2>8. Nearest(Seen(F, Text.names[q], At(q), q), AnchorIn(r, Text.names[q], At(q), q))
    BY <2>1, <2>5, AnchorIsNearest
  <2>9. Nearest(Seen(F \ {f}, Text.names[q], At(q), q),
                AnchorIn(left, Text.names[q], At(q), q))
    BY <2>4, <2>5, AnchorIsNearest
  <2>10. AnchorIn(left, Text.names[q], At(q), q) = AnchorIn(r, Text.names[q], At(q), q)
    BY <2>1, <2>3, <2>5, <2>7, <2>8, <2>9, OthersStay
  <2>. QED BY <2>5, <2>6, <2>10
<1>. QED BY <1>1, ScopesAlwaysInv, ScopesAlwaysNest, FactsAlwaysFollow, PTL
-----------------------------------------------------------------------------
(* The outline. *)

\* One scope further down.
Lower(D, reached) ==
  reached \cup {d.child : d \in {c \in D : NearestContainer(D, c.scope) \in reached}}

\* The outline is what its steps give, from the file down.
LEMMA OutlineUnfolds ==
  ASSUME NEW n \in Nat, DOMAIN scopes = 1..n, NEW D
  PROVE  \E r : /\ r[0] = {1}
                /\ \A d \in D : NearestContainer(D, d.scope) \in r[n] => d \in Outlined(D)
                /\ \A i \in 1..n : r[i] = Lower(D, r[i - 1])
<1>. DEFINE step(f, s) == IF s = {} THEN {1}
                          ELSE Lower(D, f[s \ {Max(s)}])
            upTo(k, f) == f = [s \in SUBSET (1..k) |-> step(f, s)]
            P == {k \in 0..n : \E f : upTo(k, f)}
<1>1. n \in P
  <2>1. 0 \in P
    <3>. DEFINE f == [s \in SUBSET (1..0) |-> {1}]
    <3>1. \A s \in SUBSET (1..0) : s = {}
      OBVIOUS
    <3>2. f = [s \in SUBSET (1..0) |-> step(f, s)]
      BY <3>1
    <3>3. 0 \in 0..n /\ upTo(0, f)
      BY <3>2
    <3>. HIDE DEF upTo, f
    <3>. QED BY <3>3
  <2>2. ASSUME NEW m \in 1..n, m \notin P, m - 1 \in P
        PROVE  FALSE
    <3>1. PICK f : upTo(m - 1, f)
      BY <2>2
    <3>2. \A s \in SUBSET (1..(m - 1)) : f[s] = step(f, s)
      BY <3>1
    <3>. DEFINE g == [s \in SUBSET (1..m) |->
                        IF m \in s THEN step(f, s) ELSE f[s]]
    <3>3. ASSUME NEW s \in SUBSET (1..m) PROVE g[s] = step(g, s)
      <4>1. CASE s = {}
        <5>1. s \in SUBSET (1..(m - 1)) /\ m \notin s
          BY <4>1
        <5>. QED BY <3>2, <4>1, <5>1
      <4>2. CASE s # {}
        <5>1. Max(s) \in s /\ \A k \in s : k <= Max(s)
          <6>1. s \subseteq 0..m /\ m \in Nat
            OBVIOUS
          <6>. QED BY <4>2, <6>1, MaxIsGreatest
        <5>2. s \ {Max(s)} \in SUBSET (1..m) /\ m \notin s \ {Max(s)}
          <6>1. Max(s) \in 1..m /\ m \in Nat
            <7>1. s \subseteq 1..m /\ Max(s) \in s
              BY <5>1, Zenon
            <7>2. m \in Nat
              OBVIOUS
            <7>. QED BY <7>1, <7>2, Zenon
          <6>2. m \in s => Max(s) = m
            BY <5>1, <6>1
          <6>. QED BY <6>2
        <5>3. g[s \ {Max(s)}] = f[s \ {Max(s)}]
          BY <5>2
        <5>4. g[s] = step(f, s)
          <6>1. CASE m \in s
            BY <6>1
          <6>2. CASE m \notin s
            <7>1. s \in SUBSET (1..(m - 1))
              BY <6>2
            <7>. QED BY <3>2, <6>2, <7>1
          <6>. QED BY <6>1, <6>2
        <5>. QED BY <4>2, <5>3, <5>4
      <4>. QED BY <4>1, <4>2
    <3>. HIDE DEF step
    <3>4. g = [s \in SUBSET (1..m) |-> step(g, s)]
      BY <3>3
    <3>. HIDE DEF g
    <3>5. upTo(m, g) /\ m \in 0..n
      BY <3>4, <2>2
    <3>. QED BY <2>2, <3>5
  <2>. HIDE DEF P
  <2>. QED BY <2>1, <2>2, FirstFailure
<1>. DEFINE iter == CHOOSE f : upTo(n, f)
<1>2. upTo(n, iter)
  <2>1. \E f : upTo(n, f)
    BY <1>1
  <2>. HIDE DEF upTo
  <2>. QED BY <2>1
<1>3. Outlined(D) = {d \in D : NearestContainer(D, d.scope) \in iter[1..n]}
  <2>1. DOMAIN [s \in DOMAIN scopes |-> s] = 1..n
    OBVIOUS
  <2>. QED BY <2>1 DEF Outlined, FoldLeft, MapThenFoldSet, Lower
<1>. HIDE DEF iter
<1>4. \A s \in SUBSET (1..n) : iter[s] = step(iter, s)
  BY <1>2
<1>. DEFINE r == [i \in 0..n |-> iter[1..i]]
<1>5. r[0] = {1}
  <2>1. 1..0 = {} /\ 1..0 \in SUBSET (1..n) /\ 0 \in 0..n
    OBVIOUS
  <2>2. iter[1..0] = {1}
    BY <1>4, <2>1
  <2>. QED BY <2>1, <2>2
<1>6. ASSUME NEW i \in 1..n
      PROVE  r[i] = Lower(D, r[i - 1])
  <2>1. /\ 1..i \in SUBSET (1..n) /\ 1..i # {} /\ i \in 0..n /\ i - 1 \in 0..n
        /\ (1..i) \ {i} = 1..(i - 1)
    <3>1. /\ 1..i \in SUBSET (1..n) /\ i \in 1..i /\ i \in 0..n /\ i - 1 \in 0..n
      OBVIOUS
    <3>2. \A k : k \in (1..i) \ {i} <=> k \in 1..(i - 1)
      OBVIOUS
    <3>. QED BY <3>1, <3>2
  <2>2. Max(1..i) = i
    BY MaxOfUpTo
  <2>3. iter[1..i] = step(iter, 1..i)
    BY <1>4, <2>1
  <2>4. iter[1..i] = Lower(D, iter[1..(i - 1)])
    BY <2>1, <2>2, <2>3
  <2>. QED BY <2>1, <2>4
<1>7. \A d \in D : NearestContainer(D, d.scope) \in r[n] => d \in Outlined(D)
  BY <1>3
<1>. HIDE DEF r
<1>. QED BY <1>5, <1>6, <1>7

\* The scope of what a declaration is given lies inside the declaration's: it
\* starts after the target, which its own scope has begun before.
LEMMA ChildrenAreBelow ==
  ASSUME ScopesInv, NestInv, FactsInv, NEW d \in Declarations(RegistryOf(facts))
  PROVE  /\ d.scope \in 1..Len(scopes)
         /\ d.child = None \/ (d.child \in 1..Len(scopes) /\ d.scope < d.child)
<1>. DEFINE r == RegistryOf(facts)
<1>1. /\ Sound(r, Collected) /\ Collected \in SUBSET AnyFacts
      /\ \A f \in Collected : \E i \in 1..Len(facts) : f = facts[i]
      /\ \A f \in Collected : f.scope \in 1..Len(scopes)
  BY TextSound
<1>. HIDE DEF r
<1>0. PICK b \in DOMAIN r : \E k \in DOMAIN r[b].states :
        d = [at |-> r[b].states[k].at, scope |-> r[b].states[k].scope,
             child |-> WithRange(r[b].states[k].value)]
  BY DEF Declarations, r
<1>2. PICK k \in DOMAIN r[b].states :
        d = [at |-> r[b].states[k].at, scope |-> r[b].states[k].scope,
             child |-> WithRange(r[b].states[k].value)]
  BY <1>0
<1>3. PICK f \in Collected : IsState(Collected, r[b], k, f)
  <2>1. \E f \in Collected : IsState(Collected, r[b], k, f) /\ f.at = r[b].states[k].at
    <3>1. Sound(r, Collected) /\ Collected \in SUBSET AnyFacts
      BY <1>1
    <3>. QED BY ONLY <1>2, <3>1, StateOfBinding
  <2>. QED BY <2>1
<1>4. d.scope = f.scope /\ d.child = WithRange(f.value)
  <2>1. r[b].states[k] = StateOf(f)
    BY <1>3 DEF IsState
  <2>. QED BY <1>2, <2>1 DEF StateOf
<1>5. PICK i \in 1..Len(facts) : f = facts[i]
  BY <1>1
<1>6. /\ scopes[f.scope].start <= f.at
      /\ f.value = NoValue \/ f.at < f.value.start
      /\ f.scope \in 1..Len(scopes) /\ f.at \in Nat
  <2>1. /\ scopes[f.scope].start <= f.at
        /\ f.value = NoValue \/ f.at < f.value.start
    BY <1>5 DEF FactsInv, FactsLie
  <2>. QED BY <1>1, <2>1 DEF AnyFacts
<1>7. /\ \A s \in 1..Len(scopes) : scopes[s].start \in Nat /\ scopes[s].start >= 1
      /\ \A s, t \in 1..Len(scopes) : s < t => scopes[s].start <= scopes[t].start
      /\ DOMAIN scopes = 1..Len(scopes) /\ Len(scopes) \in Nat
  <2>1. \A s \in 1..Len(scopes) : scopes[s].start \in 1..Here
    BY DEF NestInv, ScopesNest
  <2>2. \A s, t \in 1..Len(scopes) : s < t => scopes[s].start <= scopes[t].start
    BY DEF NestInv, ScopesNest
  <2>. QED BY <2>1, <2>2, Referred
<1>8. CASE d.child # None
  <2>. DEFINE same == {s \in DOMAIN scopes : scopes[s].start = f.value.start
                                             /\ scopes[s].stop = f.value.stop}
  <2>1. d.child = IF same = {} THEN None ELSE Min(same)
    BY <1>4 DEF WithRange
  <2>2. same # {} /\ same \subseteq Nat
    <3>1. same \subseteq Nat
      BY <1>7
    <3>. HIDE DEF same
    <3>. QED BY <1>8, <2>1, <3>1
  <2>3. d.child \in same
    <3>. HIDE DEF same
    <3>. QED BY <2>1, <2>2, MinIsLeast
  <2>4. d.child \in 1..Len(scopes) /\ scopes[d.child].start = f.value.start
    BY <1>7, <2>3
  <2>5. f.at < f.value.start
    <3>1. CASE f.value = NoValue
      <4>1. scopes[d.child].start = 0
        BY <2>4, <3>1 DEF NoValue
      <4>. QED BY <1>7, <2>4, <4>1
    <3>. QED BY <1>6, <3>1
  <2>6. scopes[f.scope].start < scopes[d.child].start
    BY <1>6, <1>7, <2>4, <2>5
  <2>. QED BY <1>4, <1>6, <1>7, <2>4, <2>6
<1>. QED BY <1>4, <1>6, <1>8

\* What hangs nowhere in the tree would hang under a declaration whose scope is
\* reached later or never; the scopes that have children are reached in their
\* order, so that there is none, in programs of any length and nesting.
THEOREM OutlineAlwaysHoldsEveryState == Spec => []OutlineHoldsEveryState
<1>1. ScopesInv /\ NestInv /\ FactsInv => OutlineHoldsEveryState
  <2>. SUFFICES ASSUME ScopesInv, NestInv, FactsInv
                PROVE  Outlined(Declarations(RegistryOf(facts)))
                         = Declarations(RegistryOf(facts))
    BY DEF OutlineHoldsEveryState
  <2>. DEFINE D == Declarations(RegistryOf(facts))
              n == Len(scopes)
              of(d) == NearestContainer(D, d.scope)
  <2>1. n \in Nat /\ n >= 1 /\ DOMAIN scopes = 1..n
    BY Referred DEF ScopesInv
  <2>2. \A d \in D : /\ d.scope \in 1..n
                     /\ d.child = None \/ (d.child \in 1..n /\ d.scope < d.child)
    BY ChildrenAreBelow
  <2>. HIDE DEF D
  <2>3. PICK r : /\ r[0] = {1}
                 /\ \A d \in D : of(d) \in r[n] => d \in Outlined(D)
                 /\ \A i \in 1..n : r[i] = Lower(D, r[i - 1])
    <3>1. n \in Nat
      BY <2>1
    <3>2. DOMAIN scopes = 1..n
      BY <2>1
    <3>. HIDE DEF n
    <3>3. PICK tree : tree = Outlined(D)
      OBVIOUS
    <3>. QED BY ONLY <3>1, <3>2, <3>3, OutlineUnfolds
  <2>. HIDE DEF n
  <2>4. ASSUME NEW d \in D
        PROVE  of(d) \in Containers(D) /\ of(d) \in 1..d.scope
    <3>. DEFINE around == Chain(d.scope) \cap Containers(D)
    <3>1. 1 \in Chain(d.scope) /\ Chain(d.scope) \subseteq 1..d.scope
      BY <2>2, ChainBelow DEF n
    <3>2. around # {} /\ around \subseteq 0..d.scope /\ d.scope \in Nat
      BY <2>2, <3>1 DEF Containers
    <3>. HIDE DEF around
    <3>3. Max(around) \in around
      BY <3>2, MaxIsGreatest
    <3>. QED BY <3>1, <3>3 DEF NearestContainer, around
  <2>. HIDE DEF of
  <2>5. Containers(D) \subseteq 1..n
    BY <2>1, <2>2 DEF Containers, None
  <2>. DEFINE P == {i \in 0..n : \A c \in Containers(D) : c <= i + 1 => c \in r[i]}
  <2>6. 0 \in P
    BY <2>1, <2>3, <2>5
  <2>7. ASSUME NEW m \in 1..n, m \notin P, m - 1 \in P PROVE FALSE
    <3>1. r[m] = Lower(D, r[m - 1]) /\ \A c \in Containers(D) : c <= m => c \in r[m - 1]
      BY <2>1, <2>3, <2>5, <2>7
    <3>2. ASSUME NEW c \in Containers(D), c <= m + 1 PROVE c \in r[m]
      <4>1. CASE c <= m
        BY <3>1, <4>1 DEF Lower
      <4>2. CASE c = m + 1
        <5>1. c # 1
          BY <2>1, <4>2
        <5>2. PICK d \in D : c = d.child /\ d.child # None
          BY <5>1 DEF Containers
        <5>3. of(d) \in Containers(D) /\ of(d) <= m
          BY <2>1, <2>2, <2>4, <4>2, <5>2
        <5>4. of(d) \in r[m - 1]
          BY <3>1, <5>3
        <5>. QED BY <3>1, <5>2, <5>4 DEF Lower, of
      <4>. QED BY <2>1, <2>5, <3>2, <4>1, <4>2
    <3>3. m \in 0..n
      BY <2>1
    <3>. QED BY <2>7, <3>2, <3>3
  <2>8. n \in P
    <3>. HIDE DEF P
    <3>. QED BY <2>1, <2>6, <2>7, FirstFailure
  <2>9. \A d \in D : of(d) \in r[n]
    BY <2>1, <2>4, <2>5, <2>8
  <2>10. Outlined(D) = D
    <3>1. Outlined(D) \subseteq D
      BY DEF Outlined
    <3>. QED BY <2>3, <2>9, <3>1
  <2>. QED BY <2>10 DEF D
<1>. QED BY <1>1, ScopesAlwaysInv, ScopesAlwaysNest, FactsAlwaysFollow, PTL

=============================================================================
