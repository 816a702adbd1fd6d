------------------------------- MODULE Rewrites -------------------------------
(***************************************************************************)
(* Hints about control expressions and the quick fixes that rewrite them:  *)
(* src/src/analysis/diagnostics.rs and src/src/capabilities/code_actions.rs. *)
(*                                                                         *)
(* A fix replaces the text of a node by text put together from the texts   *)
(* of its parts, and the result is read anew.  So a text here is a         *)
(* sequence of tokens, each with whether white space stands before it; the *)
(* parser and what an expression does are the external part.  A program is *)
(* one expression.                                                         *)
(***************************************************************************)
EXTENDS Sequences, Integers, FiniteSets, FiniteSetsExt

CONSTANTS Texts,     \* the texts a user may begin with
          Variables, \* symbols that have a value
          Call       \* a call, which does something and may fail

VARIABLES
  text,   \* what the editor shows
  fixes   \* the quick fixes it can ask for there

vars == <<text, fixes>>

Keywords == {"if", "then", "else", "try", "except", "while", "do", "not"}
Comparisons == {"==", "!=", "===", "=!=", "<", "<=", ">", ">="}
Symbols == Variables \cup {"null"}

Token(word, blank) == [word |-> word, blank |-> blank]
Spaced(piece) == [piece EXCEPT ![1].blank = TRUE]
Tight(piece) == [piece EXCEPT ![1].blank = FALSE]
Word(word) == <<Token(word, TRUE)>>

-----------------------------------------------------------------------------
(* The parser.  A node has its first and last token and its parts; a part that *)
(* is not there is Absent.  An if or a try takes every clause it can.      *)

Absent == [kind |-> "absent", first |-> 0, last |-> 0, parts |-> <<>>]
Broken == [Absent EXCEPT !.kind = "broken"]

Node(kind, first, last, parts) ==
  IF \E i \in DOMAIN parts : parts[i].kind = "broken" THEN Broken
  ELSE [kind |-> kind, first |-> first, last |-> last, parts |-> parts]

WordAt(t, i) == IF i \in DOMAIN t THEN t[i].word ELSE "end"
End(node) == node.last + 1

Operators(level) == CASE level = 0 -> {"=", "??="} [] level = 1 -> {"??"} [] level = 3 -> Comparisons

RECURSIVE Parsed(_, _, _), Statements(_, _)

\* A clause that may follow: its keyword and its expression.
Clause(t, i, keyword) == IF WordAt(t, i) = keyword THEN Parsed(t, i + 1, 0) ELSE Absent
After(i, clause) == IF clause = Absent THEN i ELSE End(clause)

Primary(t, i) ==
  LET word == WordAt(t, i)
      head == Parsed(t, i + 1, 0)
      then == Clause(t, End(head), "then")
      else == Clause(t, After(End(head), then), "else")
      except == Clause(t, After(End(head), then), "except")
      body == Clause(t, End(head), "do")
      last == After(After(After(End(head), then), else), except) - 1
      inside == Statements(t, i + 1)
      closer == IF inside = <<>> THEN 0 ELSE End(inside[Len(inside)])
  IN  CASE word \in Symbols \cup {Call} -> Node(word, i, i, <<>>)
        [] word = "if" /\ head # Broken /\ then # Absent ->
             Node("if", i, last, <<head, then, else>>)
        [] word = "try" /\ head # Broken -> Node("try", i, last, <<head, then, else, except>>)
        [] word = "while" /\ head # Broken /\ body # Absent ->
             Node("while", i, body.last, <<head, body>>)
        [] word = "(" /\ inside # <<>> /\ WordAt(t, closer) = ")" ->
             Node("holder", i, closer, inside)
        [] OTHER -> Broken

\* Expressions, each but the last one muted, and the last one perhaps.
Statements(t, i) ==
  LET one == Parsed(t, i, 0)
      muted == Node("muted", one.first, End(one), <<one>>)
  IN  IF one = Broken THEN <<>>
      ELSE IF WordAt(t, End(one)) # ";" THEN <<one>>
      ELSE IF WordAt(t, End(muted)) = ")" THEN <<muted>>
      ELSE LET rest == Statements(t, End(muted))
           IN  IF rest = <<>> THEN <<>> ELSE <<muted>> \o rest

\* From the weakest operators to the strongest.
Parsed(t, i, level) ==
  IF level = 4 THEN Primary(t, i)
  ELSE IF level = 2
  THEN IF WordAt(t, i) = "not"
       THEN LET operand == Parsed(t, i + 1, 2) IN Node("not", i, operand.last, <<operand>>)
       ELSE Parsed(t, i, 3)
  ELSE LET left == Parsed(t, i, level + 1)
           operator == WordAt(t, End(left))
       IN  IF left = Broken \/ operator \notin Operators(level) THEN left
           ELSE LET right == Parsed(t, End(left) + 1, IF level = 3 THEN 4 ELSE level)
                IN  Node(operator, i, right.last, <<left, right>>)

\* Words that touch are one word.
WordsTouch(t) ==
  \E i \in 2..Len(t) : /\ ~t[i].blank
                       /\ t[i - 1].word \in Keywords \cup Symbols
                       /\ t[i].word \in Keywords \cup Symbols \cup {Call}

Tree(t) ==
  LET tree == Parsed(t, 1, 0) IN IF WordsTouch(t) \/ tree.last # Len(t) THEN Broken ELSE tree

RECURSIVE NodesOf(_)
NodesOf(node) ==
  IF node = Absent THEN {}
  ELSE {node} \cup UNION {NodesOf(node.parts[i]) : i \in DOMAIN node.parts}

-----------------------------------------------------------------------------
(* What an expression does: its value or a failure, and the calls it makes. *)
(* An environment has the values of the variables and what the call gives. *)

Given(value, env, log) == [value |-> value, env |-> env, log |-> log]
Rank(value) == CASE value = "null" -> 0 [] value = "false" -> 1 [] value = "true" -> 2
Truth(condition) == IF condition THEN "true" ELSE "false"

Compare(operator, left, right) ==
  Truth(CASE operator \in {"==", "==="} -> left = right
          [] operator \in {"!=", "=!="} -> left # right
          [] operator = "<"  -> Rank(left) < Rank(right)
          [] operator = "<=" -> Rank(left) <= Rank(right)
          [] operator = ">"  -> Rank(left) > Rank(right)
          [] operator = ">=" -> Rank(left) >= Rank(right))

RECURSIVE Does(_, _, _)

\* The next part, unless there is none or the one before failed.
Then(before, part) ==
  IF before.value = "failure" THEN before
  ELSE IF part = Absent THEN [before EXCEPT !.value = "null"]
  ELSE Does(part, before.env, before.log)

\* A condition is true or false, or it is a failure.
Branch(condition, yes, no) ==
  CASE condition.value = "true"  -> Then(condition, yes)
    [] condition.value = "false" -> Then(condition, no)
    [] OTHER -> [condition EXCEPT !.value = "failure"]

RECURSIVE InTurn(_, _)
InTurn(before, parts) ==
  IF parts = <<>> THEN before ELSE InTurn(Then(before, Head(parts)), Tail(parts))

Assigned(given, name) ==
  IF given.value = "failure" THEN given ELSE [given EXCEPT !.env[name] = given.value]

Does(node, env, log) ==
  LET part(k) == node.parts[k]
      first == Does(part(1), env, log)
      second == Then(first, part(2))
  IN  CASE node.kind = "null" -> Given("null", env, log)
        [] node.kind \in Variables -> Given(env[node.kind], env, log)
        [] node.kind = Call -> Given(env[Call], env, Append(log, Call))
        [] node.kind = "muted" -> Then(first, Absent)
        [] node.kind = "holder" -> InTurn(first, Tail(node.parts))
        [] node.kind = "not" ->
             IF first.value \in {"true", "false"}
             THEN [first EXCEPT !.value = Truth(@ = "false")]
             ELSE [first EXCEPT !.value = "failure"]
        [] node.kind \in Comparisons ->
             IF second.value = "failure" THEN second
             ELSE [second EXCEPT !.value = Compare(node.kind, first.value, @)]
        [] node.kind = "??" -> IF first.value = "null" THEN second ELSE first
        [] node.kind = "=" -> Assigned(Does(part(2), env, log), part(1).kind)
        [] node.kind = "??=" ->
             IF first.value = "null" THEN Assigned(second, part(1).kind) ELSE first
        [] node.kind = "if" -> Branch(first, part(2), part(3))
        [] node.kind = "while" -> Then(Branch(first, part(2), Absent), Absent)
        [] node.kind = "try" ->
             IF first.value = "failure"
             THEN Then([first EXCEPT !.value = "null"], IF part(3) = Absent THEN part(4) ELSE part(3))
             ELSE IF part(2) = Absent THEN first ELSE second

Environments ==
  {[v \in Variables \cup {Call} |-> IF v = Call THEN c ELSE values[v]] :
     values \in [Variables -> {"true", "false", "null"}], c \in {"true", "failure"}}

\* "broken" when the text is no expression, or a target of an assignment no name.
Meaning(t) ==
  LET tree == Tree(t)
      assigns == {n \in NodesOf(tree) : n.kind \in {"=", "??="}}
  IN  IF tree = Broken \/ \E n \in assigns : n.parts[1].kind \notin Variables
      THEN [env \in Environments |-> Given("broken", env, <<>>)]
      ELSE [env \in Environments |-> Does(tree, env, <<>>)]

-----------------------------------------------------------------------------
(* The rules.  Each gives the text to put in the place of a node, or <<>>. *)

Piece(t, node) == SubSeq(t, node.first, node.last)
Value(node) == node.parts[Len(node.parts)]

\* The text after the words of a fix.
Put(word, t, node) == Word(word) \o Spaced(Piece(t, node))

RECURSIVE ParenthesizedValue(_)
\* parenthesized_value, with final_value_child.
ParenthesizedValue(node) ==
  IF node.kind # "holder" THEN node
  ELSE IF Value(node).kind = "muted" THEN Absent ELSE ParenthesizedValue(Value(node))

\* Mutant: the statements before the last one are forgotten here too.
UnwrapToValue(node) == IF node.kind = "holder" THEN Value(node) ELSE node

\* unwrap_parentheses.
Unwrap(node) == IF node.kind = "holder" /\ Len(node.parts) = 1 THEN node.parts[1] ELSE node

ControlHolders(tree) ==
  {n.parts[1] : n \in {n \in NodesOf(tree) : /\ n.kind \in {"if", "while", "try"}
                                             /\ n.parts[1].kind = "holder"}}

\* redundant_control_parentheses_inner.
WithoutParentheses(t, node) ==
  IF node.kind = "holder" /\ ParenthesizedValue(node) # Absent
  THEN Piece(t, ParenthesizedValue(node)) ELSE <<>>

\* Mutant: the opposite of less is greater.
StrictlyOpposite(operator) ==
  CASE operator = "==" -> "!=" [] operator = "!=" -> "==" [] operator = "===" -> "=!="
    [] operator = "=!=" -> "===" [] operator = "<" -> ">" [] operator = "<=" -> ">="
    [] operator = ">" -> "<" [] operator = ">=" -> "<="

\* negated_binary_operator.
Opposite(operator) ==
  CASE operator = "==" -> "!=" [] operator = "!=" -> "==" [] operator = "===" -> "=!="
    [] operator = "=!=" -> "===" [] operator = "<" -> ">=" [] operator = "<=" -> ">"
    [] operator = ">" -> "<=" [] operator = ">=" -> "<"

\* negated_condition_text.
Negated(t, node) ==
  IF node.kind = "not" THEN Piece(t, node.parts[1])
  ELSE IF node.kind \in Comparisons
  THEN Piece(t, node.parts[1]) \o Word(Opposite(node.kind)) \o Spaced(Piece(t, node.parts[2]))
  ELSE IF node.kind \in {"=", "??=", "??"}
  THEN Word("not") \o Word("(") \o Tight(Piece(t, node)) \o Tight(Word(")"))
  ELSE Put("not", t, node)

IfThen(condition, then) == Word("if") \o Spaced(condition) \o Word("then") \o Spaced(then)

\* if_null_branch_rewrite.
IfNullBranch(t, node) ==
  LET condition == node.parts[1]
      then == node.parts[2]
      else == node.parts[3]
  IN  IF else = Absent THEN <<>>
      ELSE IF else.kind = "null" THEN IfThen(Piece(t, condition), Piece(t, then))
      ELSE IF then.kind = "null" THEN IfThen(Negated(t, condition), Piece(t, else))
      ELSE <<>>

\* Mutant: the simplified condition may be the one there was.
AnyCondition(t, node) ==
  IF node.kind = "not" THEN Negated(t, Unwrap(node.parts[1])) ELSE <<>>

\* simplify_condition.
SimplifiedCondition(t, node) ==
  LET simplified == Negated(t, Unwrap(node.parts[1]))
  IN  IF node.kind = "not" /\ Spaced(simplified) # Spaced(Piece(t, node)) THEN simplified ELSE <<>>

\* if_condition_rewrite.
IfCondition(t, node) ==
  LET condition == SimplifiedCondition(t, node.parts[1])
      else == node.parts[3]
  IN  IF condition = <<>> THEN <<>>
      ELSE IfThen(condition, Piece(t, node.parts[2]))
             \o IF else = Absent THEN <<>>
                ELSE Spaced(SubSeq(t, else.first - 1, else.last))

\* try_statement_rewrite.
SimplifiedTry(t, node) ==
  LET value == Piece(t, node.parts[1])
      then == node.parts[2]
      else == node.parts[3]
      simple == Word("try") \o Spaced(value)
  IN  IF then # Absent /\ else = Absent /\ Spaced(Piece(t, then)) = Spaced(value) THEN simple
      ELSE IF else.kind = "null"
      THEN simple \o IF then = Absent THEN <<>> ELSE Put("then", t, then)
      ELSE <<>>

RECURSIVE ElseIfChain(_, _)

\* flatten_then_if_chain.
FlattenedThen(t, node) ==
  LET nested == Unwrap(node.parts[2])
      chain == ElseIfChain(t, nested)
  IN  IF nested.kind # "if" \/ node.parts[3] = Absent THEN <<>>
      ELSE IfThen(Negated(t, node.parts[1]), Piece(t, node.parts[3]))
             \o Word("else") \o Spaced(IF chain = <<>> THEN Piece(t, nested) ELSE chain)

\* flatten_parenthesized_else_if_chain: in the place of the else branch, as it stands.
FlattenedElse(t, node) ==
  LET else == node.parts[3]
      nested == Unwrap(else)
      chain == ElseIfChain(t, nested)
      flat == IF chain = <<>> THEN Piece(t, nested) ELSE chain
  IN  IF nested.kind # "if" \/ (nested = else /\ chain = <<>>) THEN <<>>
      ELSE SubSeq(t, node.first, else.first - 1) \o [flat EXCEPT ![1].blank = t[else.first].blank]

\* else_if_chain_rewrite.
ElseIfChain(t, node) ==
  IF node.kind # "if" THEN <<>>
  ELSE IF FlattenedThen(t, node) # <<>> THEN FlattenedThen(t, node) ELSE FlattenedElse(t, node)

\* coalescence_parts: the subject and what replaces it, or <<>>.
CoalescenceParts(node) ==
  LET condition == node.parts[1]
      sides == {k \in 1..2 : condition.parts[k].kind # "null"}
      subject == condition.parts[CHOOSE k \in sides : TRUE]
      whenNull == condition.kind = "==="
      fallback == node.parts[IF whenNull THEN 2 ELSE 3]
      repeated == node.parts[IF whenNull THEN 3 ELSE 2]
  IN  IF /\ condition.kind \in {"===", "=!="} /\ Cardinality(sides) = 1
         /\ subject.kind \in Symbols /\ node.parts[3] # Absent
         /\ ParenthesizedValue(repeated).kind = subject.kind
      THEN <<subject, fallback>> ELSE <<>>

\* coalescence_rewrite, of an assignment or an if that is not the value of one.
Coalesced(t, node, parents) ==
  LET one(conditional) == CoalescenceParts(conditional)
      assigns(n) == /\ n.kind = "=" /\ n.parts[1].kind \in Symbols /\ n.parts[2].kind = "if"
                    /\ one(n.parts[2]) # <<>> /\ one(n.parts[2])[1].kind = n.parts[1].kind
      parts == one(IF node.kind = "=" THEN node.parts[2] ELSE node)
  IN  IF node.kind = "=" /\ assigns(node)
      THEN Piece(t, parts[1]) \o Put("??=", t, parts[2])
      ELSE IF node.kind = "if" /\ parts # <<>> /\ ~\E p \in parents : assigns(p)
      THEN Piece(t, parts[1]) \o Put("??", t, parts[2])
      ELSE <<>>

Parents(tree, node) == {p \in NodesOf(tree) : \E k \in DOMAIN p.parts : p.parts[k] = node}

-----------------------------------------------------------------------------
(* Hints and fixes. *)

\* What simplifiable_expression reports.
Simplifiable(t, node) ==
  \/ node.kind = "if" /\ \/ IfNullBranch(t, node) # <<>>
                         \/ IfCondition(t, node) # <<>>
                         \/ ElseIfChain(t, node) # <<>>
  \/ node.kind = "try" /\ SimplifiedTry(t, node) # <<>>

Hints(t, tree) ==
  {[rule |-> "RedundantControlParentheses", node |-> n] :
     n \in {n \in ControlHolders(tree) : WithoutParentheses(t, n) # <<>>}}
    \cup {[rule |-> "PreferCoalescence", node |-> n] :
            n \in {n \in NodesOf(tree) : Coalesced(t, n, Parents(tree, n)) # <<>>}}
    \cup {[rule |-> "SimplifiableExpression", node |-> n] :
            n \in {n \in NodesOf(tree) : Simplifiable(t, n)}}

Covers(node, place) == node.first <= place /\ place <= node.last

\* diagnostic_at: of the hints of a rule that cover a place the first in the order
\* of the nodes, which is the outermost.
HintAt(hints, rule, place) ==
  LET here == {h \in hints : h.rule = rule /\ Covers(h.node, place)}
  IN  {h \in here : \A other \in here : /\ h.node.first <= other.node.first
                                        /\ other.node.last <= h.node.last}

Enclosing(tree, kind, place) == {n \in NodesOf(tree) : n.kind = kind /\ Covers(n, place)}
Outermost(nodes) == {n \in nodes : \A m \in nodes : n.first <= m.first}
Innermost(nodes) == {n \in nodes : \A m \in nodes : m.first <= n.first}

\* A fix is the node it replaces and the new text; without a text there is none.
Fixes(node, by) == IF by = <<>> THEN {} ELSE {[node |-> node, by |-> by]}

\* available_code_actions at a place, with all the hints there are.
ActionsAt(t, tree, hints, place) ==
  LET at(rule) == {h.node : h \in HintAt(hints, rule, place)}
      simplifiable(kind) ==
        IF at("SimplifiableExpression") = {} THEN {} ELSE Enclosing(tree, kind, place)
      ifs == simplifiable("if")
  IN  UNION ({Fixes(n, WithoutParentheses(t, n)) : n \in at("RedundantControlParentheses")}
               \cup {Fixes(n, Coalesced(t, n, Parents(tree, n))) : n \in at("PreferCoalescence")}
               \cup {Fixes(n, IfNullBranch(t, n)) : n \in Innermost(ifs)}
               \cup {Fixes(n, SimplifiedTry(t, n)) : n \in Innermost(simplifiable("try"))}
               \cup {Fixes(n, IfCondition(t, n)) : n \in Innermost(ifs)}
               \cup {Fixes(n, ElseIfChain(t, n)) :
                       n \in Outermost({n \in ifs : ElseIfChain(t, n) # <<>>})})

\* The text with a node replaced; the white space before it stays.
Applied(t, fix) ==
  SubSeq(t, 1, fix.node.first - 1)
    \o [fix.by EXCEPT ![1].blank = t[fix.node.first].blank]
    \o SubSeq(t, End(fix.node), Len(t))

Offered(t) ==
  LET tree == Tree(t)
      hints == Hints(t, tree)
  IN  IF tree = Broken THEN {}
      ELSE UNION {ActionsAt(t, tree, hints, place) : place \in DOMAIN t}

Init ==
  /\ text \in {t \in Texts : Tree(t) # Broken}
  /\ fixes = Offered(text)

\* The user takes a fix, and the server looks at the text it gives.
Take == \E fix \in fixes : text' = Applied(text, fix)
Look == fixes' = Offered(text')
Next == Take /\ Look

Spec == Init /\ [][Next]_vars /\ WF_text(Take)

-----------------------------------------------------------------------------
(* Properties. *)

Conditionals(tree) == {n \in NodesOf(tree) : n.kind \in {"if", "try"}}

\* White space around every parenthesis, every conditional inside something else
\* in parentheses that are not a condition's nor negated, a condition without statements
\* before its value, and no call twice or with a handler.
Plain(t) ==
  LET tree == Tree(t)
      nodes == NodesOf(tree)
  IN  /\ \A i \in 2..Len(t) : t[i].word = "(" \/ t[i - 1].word = ")" => t[i].blank
      /\ \A n \in Conditionals(tree) : \A p \in Parents(tree, n) :
           /\ p.kind \in {"holder", "="} /\ p \notin ControlHolders(tree)
           /\ \A q \in Parents(tree, p) : q.kind # "not"
      /\ \A n \in ControlHolders(tree) : Len(n.parts) = 1
      /\ \A n \in nodes : n.kind = "=" => n = tree
      /\ \A n \in nodes : n.kind = "try" =>
           /\ n.parts[4] = Absent
           /\ n.parts[2] # Absent => \A m \in NodesOf(n.parts[1]) : m.kind # Call

\* A fix of a plain text gives one that does the same whatever its variables hold:
\* the same value or failure, the same calls in the same order.
KeepsMeaningInPlainText == [][Plain(text) => Meaning(text') = Meaning(text)]_vars

\* An if with an if in both branches: flattening it exchanges them, for ever.
TwoSided(tree) ==
  \E n \in NodesOf(tree) : /\ n.kind = "if" /\ n.parts[3] # Absent
                           /\ Unwrap(n.parts[2]).kind = "if" /\ Unwrap(n.parts[3]).kind = "if"

\* Applying one fix after another comes to an end, with no hint left that has one,
\* except where flattening goes round.
FixesComeToAnEnd == <>(fixes = {} \/ TwoSided(Tree(text)))

\* Where a hint begins there is a fix for what it covers.
EveryHintHasItsFix ==
  LET tree == Tree(text)
      hints == Hints(text, tree)
  IN  tree # Broken =>
        \A h \in hints : \E fix \in ActionsAt(text, tree, hints, h.node.first) :
          fix.node.first <= h.node.first /\ h.node.last <= fix.node.last

=============================================================================
