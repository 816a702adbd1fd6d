----------------------------- MODULE SampleFiles -----------------------------
(* Files for the models of Rings.  `makes` is what an element of a list of        *)
(* variables makes in Macaulay2.                                                *)

Direct(n) == [name |-> n, kind |-> "direct"]
Indexed(n) == [name |-> n, kind |-> "indexed"]

Symbol(n) == [kind |-> "symbol", name |-> n, makes |-> {Direct(n)}]
Table(n) == [kind |-> "table", name |-> n, makes |-> {Indexed(n)}]
FromTo(m, n, exclusive, makes) ==
  [kind |-> "range", from |-> m, to |-> n, exclusive |-> exclusive, makes |-> makes]
List(parts) == [kind |-> "list", parts |-> parts, makes |-> UNION {parts[i].makes : i \in DOMAIN parts}]
Option(key, n, makes) == [kind |-> key, name |-> n, makes |-> makes]

Assign(to, kind, of, elements) ==
  [to |-> to, value |-> [kind |-> kind, of |-> of, elements |-> elements]]

Lists ==
  {<<Symbol("x")>>, <<Table("x")>>, <<List(<<Symbol("y"), Symbol("x")>>), Symbol("y")>>,
   <<FromTo("x", "z", TRUE, {Direct("x"), Direct("y")})>>,
   <<FromTo("x", "y", FALSE, {Direct("x"), Direct("y")}), Symbol("x")>>,
   <<Option("Variables", "2", {Indexed("y")}), Option("VariableBaseName", "y", {})>>}

Makers == {Assign("R", "ring", "QQ", elements) : elements \in Lists}
Others ==
  {Assign("S", "ring", "QQ", elements) : elements \in Lists}
    \cup {Assign("S", "ring", "R", <<Symbol("y")>>)}
    \cup {Assign(m, kind, n, <<>>) : m, n \in {"R", "S"}, kind \in {"name", "quotient"}}
    \cup {Assign("x", "number", "QQ", <<>>), Assign("R", "number", "QQ", <<>>),
          Assign("x", "name", "y", <<>>), Assign("y", "name", "x", <<>>)}
Few == {s \in Others : s.to # "R" /\ s.value.kind # "number"}

\* Statements of all kinds around one that makes a ring.
RingFiles ==
  {<<r, a, b>> : r \in Makers, a, b \in Makers \cup Others}
    \cup {<<a, r, b>> : r \in Makers, a, b \in Others}
    \cup {<<Assign("R", "ring", "QQ", <<Symbol("x")>>), a, b, c>> : a \in Few, b, c \in Others}
=============================================================================
