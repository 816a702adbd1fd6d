------------------------------ MODULE SampleTrees ------------------------------
(* Programs for the models of Transfers, put together the way the grammar does, *)
(* up to four constructs deep.                                                  *)
EXTENDS Integers, Sequences
LOCAL INSTANCE SequencesExt

T(word, kind, binding) ==
  [tokens |-> <<[word |-> word, kind |-> kind, binding |-> binding]>>, nodes |-> {}]
K(word) == T(word, "keyword", 0)
Free(word) == T(word, "symbol", 0)
Bound(word) == T(word, "symbol", 1)

Shift(n, by) == [n EXCEPT !.first = @ + by, !.last = @ + by, !.op = IF @ = 0 THEN 0 ELSE @ + by]
Glue(left, right) ==
  [tokens |-> left.tokens \o right.tokens,
   nodes |-> left.nodes \cup {Shift(n, Len(left.tokens)) : n \in right.nodes}]
Text(parts) == FoldLeft(Glue, [tokens |-> <<>>, nodes |-> {}], parts)
Tree(kind, op, parts) ==
  LET text == Text(parts)
  IN  [text EXCEPT !.nodes = @ \cup {[kind |-> kind, first |-> 1, last |-> Len(text.tokens), op |-> op]}]
Size(part) == Len(part.tokens)

Open == T("(", "open", 0)
Close == T(")", "close", 0)
Holder(e) == Tree("holder", 0, <<Open, e, Close>>)
Block(a, b) == Tree("holder", 0, <<Open, Tree("muted", 0, <<a, T(";", "semi", 0)>>), b, Close>>)
Arguments(a, b) == Tree("sequence", 0, <<Open, a, T(",", "comma", 0), b, Close>>)
Call(f, e) == Tree("call", Size(f), <<f, e>>)
Lambda(e) == Tree("lambda", 2, <<Bound("i"), T("->", "arrow", 0), e>>)
Prefix(e) == Tree("prefix", 0, <<T("-", "prefix", 0), e>>)
If(c, e) == Tree("if", 0, <<K("if"), c, Tree("then", 0, <<K("then"), e>>)>>)
Do(e) == Tree("body", 0, <<K("do"), e>>)
List(e) == Tree("body", 0, <<K("list"), e>>)
ListDo(a, b) == Tree("body", 2 + Size(a), <<K("list"), a, K("do"), b>>)
While(c, body) == Tree("loop", 0, <<K("while"), c, body>>)
For(e, body) == Tree("loop", 0, <<K("for"), Bound("i"), Tree("range", 0, <<K("to"), e>>), body>>)

x == Free("x")
Bare0(word) == Tree(word, 0, <<K(word)>>)
Valued(word) == Tree(word, 0, <<K(word), x>>)
Transfer == {Bare0(w) : w \in {"break", "continue"}} \cup {Valued(w) : w \in {"return", "break", "continue"}}

Around(e) ==
  {Lambda(e), While(x, Do(e)), While(e, Do(x)), For(e, List(x)), For(x, List(e)),
   While(x, ListDo(e, x)), For(x, ListDo(x, e)),
   Call(Free("apply"), Arguments(x, Lambda(e))), Call(Free("scan"), Holder(Lambda(e))),
   Call(Free("apply"), Arguments(Lambda(e), x)), Call(T("apply", "symbol", 2), Lambda(e)),
   Call(Free("select"), Arguments(x, Lambda(e))), Call(Free("scan"), Block(e, Lambda(x))),
   If(x, e), If(e, x), Block(e, Bare0("break")), Block(Prefix(Holder(x)), e), Prefix(e),
   Tree("return", 0, <<K("return"), e>>)}

Deepest(e) ==
  {Lambda(e), While(x, Do(e)), While(x, ListDo(e, x)), For(x, ListDo(x, e)), If(x, e),
   Call(Free("scan"), Holder(Lambda(e))), Block(e, Valued("return")), Block(Prefix(e), x)}

TreePrograms ==
  LET one == UNION {Around(e) : e \in Transfer}
      two == UNION {Deepest(e) : e \in one}
      outer == {Block(Bare0("break"), Valued("return")), Prefix(Holder(Prefix(x)))}
  IN  one \cup two \cup UNION {Deepest(e) : e \in UNION {Around(e) : e \in outer}}
=============================================================================
