---------------------------- MODULE SampleControls ----------------------------
(* Texts of control expressions for the models of Rewrites, put together from *)
(* smaller ones.                                                              *)
EXTENDS Sequences

Word(word) == <<[word |-> word, blank |-> TRUE]>>
Tight(piece) == [piece EXCEPT ![1].blank = FALSE]

Join(left, words, right) == left \o Word(words) \o right
Paren(e) == Word("(") \o Tight(e) \o Tight(Word(")"))
Block(a, b) == Word("(") \o Tight(a) \o Tight(Word(";")) \o b \o Tight(Word(")"))
If(c, a) == Word("if") \o c \o Word("then") \o a
IfElse(c, a, b) == If(c, a) \o Word("else") \o b
TightIf(c, a) == Word("if") \o Tight(c) \o Tight(Word("then")) \o a
Try(a) == Word("try") \o a
Not(a) == Word("not") \o a
x == Word("x")
y == Word("y")
null == Word("null")
f == Word("f()")
Less == Join(x, "<", y)
IsNull == Join(x, "===", null)

Conditions ==
  {x, Not(x), Not(Paren(Less)), Paren(Less), IsNull, Join(null, "=!=", x), Paren(Block(f, x)),
   Paren(Not(Paren(x))), Paren(Try(f)), Not(Paren(Paren(x)))}

Inner ==
  {If(x, y), IfElse(Less, y, null), IfElse(y, null, f), IfElse(IsNull, y, x), Try(f),
   Try(f) \o Word("then") \o f, Try(y) \o Word("then") \o y, Try(f) \o Word("else") \o null}

Branches == {y, null, f} \cup Inner \cup {Paren(e) : e \in Inner}

ControlTexts ==
  {If(c, b) : c \in Conditions, b \in Branches}
    \cup {IfElse(c, b, d) : c \in Conditions, b \in Branches, d \in {y, null, f}}
    \cup {IfElse(c, b, d) : c \in {x, Not(Paren(Less)), IsNull}, b \in {y, null}, d \in Branches}
    \cup {IfElse(x, b, d) : b \in Branches, d \in Branches}
    \cup {TightIf(c, y) : c \in Conditions}
    \cup {IfElse(x, y, Tight(Paren(e))) : e \in Inner}
    \cup {Join(x, "=", IfElse(c, b, d)) : c \in Conditions, b \in {x, y, null}, d \in {x, Paren(x), f}}
    \cup {Try(c) \o Word("then") \o b : c \in Conditions, b \in Branches}
    \cup {Try(c) \o Word("else") \o b : c \in Conditions, b \in Branches}
    \cup {Word("while") \o c \o Word("do") \o b : c \in Conditions, b \in Branches}
    \cup {Try(f) \o Word("then") \o f \o Word("except") \o y, Try(f) \o Word("except") \o y}
=============================================================================
