------------------------------ MODULE MC_Layout ------------------------------
(* Documents put together the way the grammar does. *)
EXTENDS Layout
LOCAL INSTANCE SequencesExt

T(kind, width) == [tokens |-> <<[kind |-> kind, width |-> width]>>, nodes |-> {}]
W(width) == T("word", width)
K(width) == T("keyword", width)

Shift(n, by) == [n EXCEPT !.first = @ + by, !.last = @ + by, !.op = IF @ = 0 THEN 0 ELSE @ + by]
Glue(left, right) ==
  [tokens |-> left.tokens \o right.tokens,
   nodes |-> left.nodes \cup {Shift(n, Len(left.tokens)) : n \in right.nodes}]
Text(parts) == FoldLeft(Glue, [tokens |-> <<>>, nodes |-> {}], parts)
Tree(kind, op, parts) ==
  LET text == Text(parts)
  IN  [text EXCEPT !.nodes = @ \cup {[kind |-> kind, first |-> 1, last |-> Len(text.tokens), op |-> op]}]
After(part) == Len(part.tokens) + 1

Holder(inner) == Tree("holder", 0, <<T("open", 1), inner, T("close", 1)>>)
List(inner) == Tree("list", 0, <<T("open", 1), inner, T("close", 1)>>)
Empty == Tree("list", 0, <<T("open", 1), T("close", 1)>>)
Pair(a, b) == Text(<<a, T("comma", 1), b>>)
Bin(a, kind, b) == Tree("binary", After(a), <<a, T(kind, 2), b>>)
Lambda(a, b) == Tree("lambda", After(a), <<a, T("spaced", 2), b>>)
Prefix(a) == Tree("prefix", 1, <<T("prefix", 1), a>>)
Call(f, inner) == Tree("call", After(f), <<f, inner>>)
Then(a) == Tree("then", 0, <<K(4), a>>)
Else(a) == Tree("else", 0, <<K(4), a>>)
If(c, a) == Tree("if", 0, <<K(2), c, Then(a)>>)
IfElse(c, a, b) == Tree("if", 0, <<K(2), c, Then(a), Else(b)>>)
Try(a, b) == Tree("try", 0, <<K(3), a, Tree("except", After(W(1)) + 1, <<K(6), W(1), K(2), b>>)>>)
Do(a) == Tree("body", 0, <<K(2), a>>)
ListDo(a, b) == Tree("body", After(a) + 1, <<K(4), a, K(2), b>>)
While(c, body) == Tree("loop", 0, <<K(5), c, body>>)
Muted(a) == Tree("muted", 0, <<a, T("semi", 1)>>)

x == W(1)
word == W(4)
MCDocuments ==
  {Bin(Call(x, List(Pair(x, word))), "assign", Lambda(x, Holder(Text(<<Muted(x), word>>)))),
   Holder(IfElse(x, x, x)),
   Holder(Text(<<Muted(x), IfElse(x, x, IfElse(x, word, x))>>)),
   Holder(If(x, IfElse(x, x, word))),
   IfElse(x, Holder(word), word),
   Holder(IfElse(x, Holder(word), List(x))),
   If(x, If(x, x)),
   Bin(x, "assign", IfElse(x, x, word)),
   Bin(x, "assign", List(Pair(word, If(x, word)))),
   Holder(While(word, ListDo(x, Empty))),
   Holder(Try(x, Empty)),
   While(x, Do(Bin(Holder(x), "spaced", While(x, Do(x))))),
   Lambda(x, Empty),
   List(Pair(x, Text(<<T("comma", 1), x>>))),
   List(Text(<<Muted(x), word>>)),
   Bin(Bin(x, "factor", Prefix(word)), "spaced", Call(word, List(Pair(word, word)))),
   List(Pair(List(Pair(x, x)), List(Pair(Holder(Bin(x, "compact", x)), Empty))))}

O(layout, semi, factors) ==
  [layout |-> layout, break_after_semicolon |-> semi, compact_factors |-> factors,
   indent |-> 2, soft |-> 9, max |-> 12]
MCOptions == {O("compactElse", TRUE, FALSE), O("multiline", FALSE, TRUE), O("compact", TRUE, TRUE)}
=============================================================================
