------------------------------- MODULE Transfers -------------------------------
(***************************************************************************)
(* Where return, break and continue go, and what is highlighted around a   *)
(* cursor: control_transfer_target of src/src/analysis.rs, its diagnostic, *)
(* and src/src/capabilities/document_highlight.rs.                         *)
(*                                                                         *)
(* A program is a sequence of tokens and the nodes of its tree, each with  *)
(* its first and last token.  What the fields of a node hold follows from  *)
(* `op`: the arrow of a lambda, the do of a loop body (0 without one) and  *)
(* the last token of what a call applies.  A name has the number of its    *)
(* binding (module Scopes), 0 where it has none.                           *)
(***************************************************************************)
EXTENDS Sequences, Integers, FiniteSets

CONSTANTS Programs,  \* records of tokens and nodes
          Callables  \* names whose indexed object can be called

VARIABLES program, cursor, highlights

vars == <<program, cursor, highlights>>

-----------------------------------------------------------------------------
(* The tree. *)

Tokens == program.tokens
Nodes == program.nodes

\* A token that is no node's only one.
Leaf(i) == [kind |-> Tokens[i].kind, first |-> i, last |-> i, op |-> 0]

Holds(n, i) == n.first <= i /\ i <= n.last
Within(n, m) == m.first <= n.first /\ n.last <= m.last /\ n # m
Ancestors(n) == {m \in Nodes : Within(n, m)}
Smallest(nodes) == CHOOSE n \in nodes : \A m \in nodes : n.last - n.first <= m.last - m.first
Largest(nodes) == CHOOSE n \in nodes : \A m \in nodes : m.last - m.first <= n.last - n.first

Root == [kind |-> "file", first |-> 0, last |-> Len(Tokens) + 1, op |-> 0]
Parent(n) == IF Ancestors(n) = {} THEN Root ELSE Smallest(Ancestors(n))

\* The child of a node that begins at a token.
ChildAt(n, i) ==
  LET nodes == {m \in Nodes : Within(m, n) /\ m.first = i}
  IN  IF nodes = {} THEN Leaf(i) ELSE Largest(nodes)

\* Whether a token is itself a child of the node.
Bare(n, i) == Holds(n, i) /\ Parent(Leaf(i)) = n

-----------------------------------------------------------------------------
(* Where a transfer goes. *)

TransferKinds == {"return", "break", "continue"}
AllTransfers == {n \in Nodes : n.kind \in TransferKinds}
HasValue(t) == t.first < t.last

Nowhere == [kind |-> "nowhere", owner |-> Root, at |-> 0]
Target(kind, owner, at) == [kind |-> kind, owner |-> owner, at |-> at]

RECURSIVE DirectCallbackCallable(_)
\* The name a lambda is the last argument of, or 0: through parentheses, and
\* sequences it ends.
DirectCallbackCallable(argument) ==
  LET parent == Parent(argument)
  IN  CASE parent.kind = "holder" -> DirectCallbackCallable(parent)
        [] parent.kind = "sequence" ->
             IF argument.last = parent.last - 1 THEN DirectCallbackCallable(parent) ELSE 0
        [] parent.kind = "call" ->
             IF argument.first = parent.op + 1 /\ argument.last = parent.last
                  /\ parent.op = parent.first /\ Tokens[parent.first].kind = "symbol"
             THEN parent.first ELSE 0
        [] OTHER -> 0

\* Mutant: whatever a lambda is passed to calls it in a loop.
AnyCallback(lambda) ==
  LET at == DirectCallbackCallable(lambda)
  IN  IF at = 0 THEN Nowhere ELSE Target("callback", lambda, at)

CallbackTarget(lambda) ==
  LET at == DirectCallbackCallable(lambda)
  IN  IF /\ at # 0
         /\ Tokens[at].binding = 0 /\ Tokens[at].word \in Callables
         /\ Tokens[at].word \in {"apply", "scan"}
      THEN Target("callback", lambda, at) ELSE Nowhere

\* The body of a loop gives values to a list up to its do.
LoopTarget(t, body) ==
  LET listed == IF body.op = 0 THEN Tokens[body.first].word = "list" ELSE t.last < body.op
      loop == Parent(body)
  IN  Target(IF listed THEN "list" ELSE "do", loop, loop.first)

\* control_transfer_target: the first lambda or loop body around it decides.
ControlTransferTarget(t) ==
  LET deciding == {n \in Ancestors(t) : n.kind \in {"lambda", "body"}}
      nearest == Smallest(deciding)
  IN  IF deciding = {} THEN Nowhere
      ELSE IF nearest.kind = "body" THEN LoopTarget(t, nearest)
      ELSE IF t.kind # "return" THEN CallbackTarget(nearest)
      ELSE IF nearest.op < t.first THEN Target("function", nearest, nearest.op)
      ELSE Nowhere

\* ControlTransferTarget::accepts
Accepts(target, t) ==
  \/ target.kind = "function" /\ t.kind = "return"
  \/ target.kind = "list" /\ t.kind \in {"break", "continue"}
  \/ target.kind = "callback" /\ t.kind = "break"
  \/ target.kind = "do" /\ (t.kind = "break" \/ (t.kind = "continue" /\ ~HasValue(t)))

\* diagnose_control_transfer
Reported == {t \in AllTransfers : ~Accepts(ControlTransferTarget(t), t)}

-----------------------------------------------------------------------------
(* What is highlighted: sets of tokens. *)

\* for_each_control_transfer: the keywords of the transfers that go to an owner.
TransfersTo(owner) ==
  {t.first : t \in {t \in AllTransfers : /\ ControlTransferTarget(t).kind # "nowhere"
                                         /\ ControlTransferTarget(t).owner = owner}}

Clauses == {"range", "body", "then", "else", "except"}
Statements == {"if", "loop", "try"}

\* Mutant: the keywords of everything in the statement.
KeywordsInside(n) == {i \in DOMAIN Tokens : Holds(n, i) /\ Tokens[i].kind = "keyword"}

\* statement_keyword_tokens: its own and those of its clauses.
StatementKeywords(n) ==
  {i \in DOMAIN Tokens :
     /\ Holds(n, i) /\ Tokens[i].kind = "keyword"
     /\ LET parent == Parent(Leaf(i))
        IN  parent = n \/ (parent.kind \in Clauses /\ Parent(parent) = n)}

Symbol(i) == Tokens[i].kind = "symbol"

\* reference_ranges_resolved: the places of one binding.
ReferenceHighlights(i) ==
  {j \in DOMAIN Tokens : Symbol(i) /\ Symbol(j) /\ Tokens[i].binding # 0
                           /\ Tokens[j].binding = Tokens[i].binding}

\* unbound_symbol_highlights: the places of one name that has no binding there.
UnboundHighlights(i) ==
  {j \in DOMAIN Tokens : Symbol(i) /\ Tokens[i].binding = 0 /\ Tokens[j] = Tokens[i]}

Bracketed(e) ==
  /\ e.first < e.last
  /\ Tokens[e.first].kind = "open" /\ Bare(e, e.first)
  /\ Tokens[e.last].kind = "close" /\ Bare(e, e.last)

RECURSIVE BoundaryMarkers(_)
\* expression_boundary_markers
BoundaryMarkers(e) ==
  IF e.kind = "prefix"
  THEN LET operand == ChildAt(e, e.first + 1)
       IN  {e.first} \cup IF Bracketed(operand) THEN {} ELSE BoundaryMarkers(operand)
  ELSE IF Bracketed(e)
  THEN {e.first, e.last}
         \cup IF e.first + 1 = e.last THEN {} ELSE BoundaryMarkers(ChildAt(e, e.first + 1))
  ELSE IF e.first = e.last THEN {e.first}
  ELSE BoundaryMarkers(ChildAt(e, e.first))

Muted(i) == IF Tokens[i].kind = "semi" /\ Parent(Leaf(i)).kind = "muted"
            THEN {Parent(Leaf(i))} ELSE {}

\* semicolon_expression_highlight
SemicolonHighlights(i) ==
  UNION {{i} \cup BoundaryMarkers(ChildAt(muted, muted.first)) : muted \in Muted(i)}

\* control_transfer_highlights: of a transfer's keyword.
TransferHighlights(i) ==
  LET around == {t \in AllTransfers : Holds(t, i)}
      target == ControlTransferTarget(Smallest(around))
  IN  IF around = {} \/ Smallest(around).first # i \/ target.kind = "nowhere" THEN {}
      ELSE (IF target.kind \in {"list", "do"} THEN StatementKeywords(target.owner)
            ELSE {target.at})
             \cup TransfersTo(target.owner)

\* control_owner_highlights: of the arrow of the lambda or a keyword of the loop
\* that is nearest.
OwnerHighlights(i) ==
  LET around == {n \in Nodes : n.kind \in {"lambda", "loop"} /\ Holds(n, i)}
      owner == Smallest(around)
      heads == IF owner.kind = "lambda" THEN {owner.op} ELSE StatementKeywords(owner)
  IN  IF around = {} \/ i \notin heads THEN {} ELSE heads \cup TransfersTo(owner)

\* keyword_sequence_highlights
KeywordHighlights(i) ==
  LET around == {n \in Nodes : n.kind \in Statements /\ Holds(n, i)}
      keywords == StatementKeywords(Smallest(around))
  IN  IF around = {} \/ i \notin keywords THEN {} ELSE keywords

\* document_highlights: the first of these that has any.
DocumentHighlights(i) ==
  LET alternatives == <<ReferenceHighlights(i), UnboundHighlights(i), SemicolonHighlights(i),
                        TransferHighlights(i), OwnerHighlights(i), KeywordHighlights(i)>>
      some == {k \in DOMAIN alternatives : alternatives[k] # {}}
  IN  IF Tokens[i].word \in {"null", "true", "false"} \/ some = {} THEN {}
      ELSE alternatives[CHOOSE k \in some : \A l \in some : k <= l]

Init == program \in Programs /\ cursor = 0 /\ highlights = {}

\* The cursor comes to a token: an answer depends on no other one, so a model has
\* one.
Rest(i) ==
  /\ cursor = 0
  /\ cursor' = i
  /\ highlights' = DocumentHighlights(i)
  /\ UNCHANGED program

Next == \E i \in DOMAIN Tokens : Rest(i)

Spec == Init /\ [][Next]_vars

-----------------------------------------------------------------------------
(* Properties. *)

\* The calls of apply and scan whose last argument is a lambda.
CalledInALoop(call, lambda) ==
  /\ call.kind = "call" /\ call.op = call.first /\ Within(lambda, call) /\ call.op < lambda.first
  /\ Tokens[call.op].word \in {"apply", "scan"} /\ Tokens[call.op].binding = 0
  /\ \A j \in (lambda.last + 1)..call.last : Tokens[j].kind = "close"
  /\ \A n \in Nodes : Within(lambda, n) /\ Within(n, call) => n.kind \in {"holder", "sequence"}

\* What the language gives a transfer to: of the regions around it the smallest
\* that takes its kind, unless a lambda is between.
Regions(t) ==
  {[owner |-> n, takes |-> {"return"}, from |-> n.op + 1, to |-> n.last] :
     n \in {n \in Nodes : n.kind = "lambda"}}
    \cup {[owner |-> Parent(n), from |-> n.first, to |-> IF n.op = 0 THEN n.last ELSE n.op - 1,
           takes |-> IF Tokens[n.first].word = "list" \/ ~HasValue(t)
                     THEN {"break", "continue"} ELSE {"break"}] :
            n \in {n \in Nodes : n.kind = "body"}}
    \cup {[owner |-> Parent(n), from |-> n.op, to |-> n.last,
           takes |-> IF HasValue(t) THEN {"break"} ELSE {"break", "continue"}] :
            n \in {n \in Nodes : n.kind = "body" /\ n.op # 0}}
    \cup {[owner |-> n, from |-> n.first, to |-> n.last,
           takes |-> IF \E c \in Nodes : CalledInALoop(c, n) THEN {"break"} ELSE {}] :
            n \in {n \in Nodes : n.kind = "lambda"}}

RunsIn(t) == {r \in Regions(t) : r.from <= t.first /\ t.last <= r.to}

\* For a break or a continue the nearest region has to take it; a return goes
\* through the loops to the nearest function.
Received(t) ==
  IF t.kind = "return" THEN \E r \in RunsIn(t) : "return" \in r.takes
  ELSE \E r \in RunsIn(t) :
         /\ t.kind \in r.takes
         /\ \A s \in RunsIn(t) : "return" \notin s.takes => s.from <= r.from

InLoopOfFunction(t) ==
  t.kind = "return" /\ ControlTransferTarget(t).kind \in {"list", "do"}

\* The transfers reported are those nothing takes, but for a return in a loop.
ReportedWhereNothingTakesIt ==
  \A t \in AllTransfers : ~InLoopOfFunction(t) => (t \in Reported <=> ~Received(t))

\* "`return` can only be used inside a function body"
\* (src/src/analysis/diagnostics.rs:633): it is reported only where it is not.
ReturnsInFunctionsStand ==
  \A t \in Reported : t.kind = "return" =>
    ~\E f \in Nodes : f.kind = "lambda" /\ f.op < t.first /\ t.last <= f.last

IsControl(i) == Tokens[i].kind \in {"keyword", "arrow"}

\* Wherever in a group of keywords and transfers the cursor comes to rest, the
\* same group is shown, apart from the function's arrow or the callback's callable.
GroupsAgree ==
  cursor # 0 /\ IsControl(cursor) =>
    \A i \in highlights : IsControl(i) =>
      {j \in DocumentHighlights(i) : Tokens[j].kind = "keyword"}
        = {j \in highlights : Tokens[j].kind = "keyword"}

\* What a semicolon marks begins its statement, stays in it, and pairs brackets.
SemicolonsMarkTheirStatement ==
  cursor # 0 => \A muted \in Muted(cursor) :
    LET of(kind) == {i \in highlights : Tokens[i].kind = kind}
    IN  /\ muted.first \in highlights /\ \A i \in highlights : Holds(muted, i)
        /\ Cardinality(of("open")) = Cardinality(of("close"))

\* The highlights of a cursor hold together: both of the above.
HighlightsAgree == GroupsAgree /\ SemicolonsMarkTheirStatement

=============================================================================
