----------------------------- MODULE Layout_proofs -----------------------------
(***************************************************************************)
(* Proofs about the formatter.  Every pass takes a layout to a layout in   *)
(* which line breaks stand only where the parser takes them for white      *)
(* space: a pass is a set of edits, and what has to be shown is that each  *)
(* of its edits that breaks a line does so at such a place.                *)
(***************************************************************************)
EXTENDS Layout, Numbers_proofs, SequenceTheorems, FiniteSetTheorems

Gap == [breaks : Nat, blanks : Nat]
Layouts == [1..Count -> Gap]
Stands(g) == \A i \in 2..Count : g[i].breaks > 0 => MayStand(i)
LaidOut(g) == g \in Layouts /\ Stands(g)

LayoutTypeOK ==
  /\ doc \in Documents /\ options \in Options
  /\ gaps \in Layouts
  /\ edits \in 0..MaxEdits /\ formatted \in BOOLEAN /\ fresh \in BOOLEAN

LayoutInv == LayoutTypeOK /\ BreaksStand

-----------------------------------------------------------------------------
(* The document. *)

LEMMA Parsed ==
  ASSUME doc \in Documents
  PROVE  /\ Count \in Nat /\ DOMAIN doc.tokens = 1..Count
         /\ \A i \in 1..Count : Token(i).width \in Nat
         /\ IsFiniteSet(doc.nodes)
         /\ \A n \in doc.nodes : n.first \in 1..Count /\ n.last \in 1..Count /\ n.first <= n.last
                                 /\ n.op \in 0..Count
         /\ \A n, m \in doc.nodes : n = m \/ Inside(n, m) \/ Inside(m, n) \/ n.last < m.first \/ m.last < n.first
         /\ \A n \in Delimited : n \in doc.nodes /\ Kind(n.first) = "open" /\ Kind(n.last) = "close"
                                 /\ n.first < n.last
         /\ \A n \in Delimited, m \in doc.nodes : Inside(m, n) => n.first < m.first /\ m.last < n.last
         /\ \A n, m \in Delimited : n.last = m.last => n = m
<1>1. WellFormed(doc)
  BY LayoutAssumption
<1>2. doc.tokens \in Seq([kind : STRING, width : Nat])
  BY <1>1 DEF WellFormed
<1>3. Count \in Nat /\ DOMAIN doc.tokens = 1..Count
  BY <1>2, LenProperties DEF Count
<1>4. ASSUME NEW i \in 1..Count PROVE Token(i).width \in Nat
  <2>1. doc.tokens[i] \in [kind : STRING, width : Nat]
    BY <1>2, ElementOfSeq DEF Count
  <2> QED BY <2>1 DEF Token
<1>5. IsFiniteSet(doc.nodes)
  BY <1>1 DEF WellFormed
<1>6. \A n \in doc.nodes : n.first \in 1..Count /\ n.last \in 1..Count /\ n.first <= n.last
                           /\ n.op \in 0..Count
  BY <1>1, <1>3 DEF WellFormed, Count
<1>7. \A n, m \in doc.nodes : n = m \/ Inside(n, m) \/ Inside(m, n) \/ n.last < m.first \/ m.last < n.first
  BY <1>1, Zenon DEF WellFormed
<1>8. \A n \in Delimited : n \in doc.nodes /\ Kind(n.first) = "open" /\ Kind(n.last) = "close"
  BY <1>1 DEF WellFormed, Delimited, Nodes, Kind, Token
<1>9. \A n \in Delimited : n.first < n.last
  <2>1. \A n \in Delimited : n.first # n.last
    BY <1>8
  <2> QED BY <1>6, <1>8, <2>1
<1>10. \A n \in Delimited, m \in doc.nodes : Inside(m, n) => n.first < m.first /\ m.last < n.last
  BY <1>1, Zenon DEF WellFormed, Delimited, Nodes
<1>11. ASSUME NEW n \in Delimited, NEW m \in Delimited, n.last = m.last PROVE n = m
  <2>1. n = m \/ Inside(n, m) \/ Inside(m, n) \/ n.last < m.first \/ m.last < n.first
    BY <1>7, <1>8, Zenon
  <2>2. ~Inside(n, m) /\ ~Inside(m, n)
    BY <1>6, <1>8, <1>10, <1>11
  <2> QED BY <1>6, <1>8, <1>11, <2>1, <2>2
<1> QED BY <1>3, <1>4, <1>5, <1>6, <1>7, <1>8, <1>9, <1>10, <1>11, Zenon

\* Clauses begin with a keyword, and so does the body after a second one.
LEMMA ClauseKeywords ==
  ASSUME doc \in Documents, NEW c \in Nodes({"then", "else", "except", "body"})
  PROVE  /\ c \in doc.nodes /\ Kind(c.first) = "keyword" /\ c.first < c.last
         /\ c.op # 0 => Kind(c.op) = "keyword" /\ c.first < c.op /\ c.op < c.last
<1>1. WellFormed(doc)
  BY LayoutAssumption
<1> QED BY <1>1 DEF WellFormed, Nodes, Kind, Token

\* A clause of an if or a try is a part of the statement that owns it, and begins
\* after it.
LEMMA ClauseOwned ==
  ASSUME doc \in Documents, NEW c \in Nodes({"then", "else", "except"})
  PROVE  /\ c \in doc.nodes
         /\ \E n \in Nodes({"if", "try"}) : /\ n \in Ancestors(c) /\ n.first < c.first
                                           /\ \A m \in Ancestors(c) : m = n \/ Inside(n, m)
<1>1. WellFormed(doc) /\ c \in doc.nodes /\ c.kind \in {"then", "else", "except"}
  BY LayoutAssumption DEF Nodes
<1>2. PICK n \in doc.nodes : /\ n.kind \in {"if", "try"}
                             /\ Inside(c, n) /\ n.first < c.first
                             /\ \A m \in doc.nodes : Inside(c, m) => m = n \/ Inside(n, m)
  BY <1>1 DEF WellFormed
<1>3. n \in Nodes({"if", "try"}) /\ n \in Ancestors(c)
  BY <1>2 DEF Nodes, Ancestors
<1>4. \A m \in Ancestors(c) : m = n \/ Inside(n, m)
  BY <1>2 DEF Ancestors
<1> QED BY <1>1, <1>2, <1>3, <1>4

\* Two nodes are not each a part of the other.
LEMMA InsideIsStrict ==
  ASSUME doc \in Documents, NEW n \in doc.nodes, NEW m \in doc.nodes, Inside(n, m)
  PROVE  ~Inside(m, n)
  BY Parsed DEF Inside

\* The nearest of some nodes is the one inside all the others.
LEMMA NearestIs ==
  ASSUME doc \in Documents, NEW S, S \subseteq doc.nodes, NEW n \in S,
         \A m \in S : n = m \/ Inside(n, m)
  PROVE  Nearest(S) = n
<1>1. \E k \in S : \A m \in S : k = m \/ Inside(k, m)
  BY Zenon
<1>2. Nearest(S) \in S /\ \A m \in S : Nearest(S) = m \/ Inside(Nearest(S), m)
  BY <1>1, Zenon DEF Nearest
<1>3. Nearest(S) = n \/ (Inside(Nearest(S), n) /\ Inside(n, Nearest(S)))
  BY <1>2, Zenon
<1> QED BY <1>2, <1>3, InsideIsStrict

-----------------------------------------------------------------------------
(* Layouts. *)

\* Computing the elements of a sequence leaves it as it was.
LEMMA SettledIs ==
  ASSUME NEW n \in Nat, NEW S, NEW s \in [1..n -> S]
  PROVE  Settled(s) = s
<1>1. s \in Seq(S)
  BY SeqDef
<1> QED BY <1>1, ConcatEmptySeq DEF Settled

\* A finite set has a number of members; one with members has at least one.
LEMMA Counted ==
  ASSUME NEW S, IsFiniteSet(S)
  PROVE  Cardinality(S) \in Nat /\ (Cardinality(S) > 0 <=> S # {})
  BY FS_CardinalityType, FS_EmptySet

\* The values of a function on a finite set are finitely many, and what finitely
\* many finite sets have between them is a finite set.
LEMMA FiniteValues ==
  ASSUME NEW S, IsFiniteSet(S), NEW T, NEW f \in [S -> T], \A t \in T : \E x \in S : f[x] = t
  PROVE  IsFiniteSet(T)
<1>1. f \in Surjection(S, T)
  BY DEF Surjection
<1> QED BY <1>1, FS_Surjection

LEMMA FiniteFamily ==
  ASSUME NEW S, IsFiniteSet(S), NEW T, NEW f \in [S -> T], \A x \in S : IsFiniteSet(f[x]),
         NEW all, \A u \in all : \E x \in S : u \in f[x]
  PROVE  IsFiniteSet(all)
<1>1. PICK n \in Nat : ExistsBijection(1..n, S)
  BY FS_CardinalityType
<1>2. PICK b \in [1..n -> S] : \A x \in S : \E i \in 1..n : b[i] = x
  BY <1>1 DEF ExistsBijection, Bijection, Surjection, Injection
<1> DEFINE upTo(k) == UNION {f[b[i]] : i \in 1..k}
           P == {k \in 0..n : IsFiniteSet(upTo(k))}
<1>3. n \in P
  <2>1. 0 \in P
    <3>1. upTo(0) = {}
      OBVIOUS
    <3>2. IsFiniteSet(upTo(0))
      BY <3>1, FS_EmptySet, Zenon
    <3>3. 0 \in 0..n
      OBVIOUS
    <3> HIDE DEF upTo
    <3> QED BY <3>2, <3>3
  <2>2. ASSUME NEW m \in 1..n, m \notin P, m - 1 \in P
        PROVE  FALSE
    <3>1. upTo(m) = upTo(m - 1) \cup f[b[m]]
      <4>1. 1..m = 1..(m - 1) \cup {m}
        OBVIOUS
      <4> QED BY <4>1, Zenon
    <3>2. IsFiniteSet(upTo(m - 1)) /\ IsFiniteSet(f[b[m]])
      BY <1>2, <2>2
    <3> HIDE DEF upTo
    <3>3. IsFiniteSet(upTo(m))
      BY <3>1, <3>2, FS_Union, Zenon
    <3>4. m \in 0..n
      OBVIOUS
    <3> QED BY <2>2, <3>3, <3>4
  <2> HIDE DEF P
  <2> QED BY <2>1, <2>2, FirstFailure
<1>4. all \subseteq upTo(n)
  <2>1. ASSUME NEW u \in all PROVE \E i \in 1..n : u \in f[b[i]]
    <3>1. PICK x \in S : u \in f[x]
      OBVIOUS
    <3>2. PICK i \in 1..n : b[i] = x
      BY <1>2
    <3> QED BY <3>1, <3>2
  <2> QED BY <2>1
<1>5. IsFiniteSet(upTo(n))
  BY <1>3
<1> QED BY <1>4, <1>5, FS_Subset

LEMMA RowsTyped ==
  ASSUME doc \in Documents, NEW g \in Layouts
  PROVE  /\ Rows(g) = [i \in 1..Count |-> Cardinality({j \in 2..i : g[j].breaks > 0})]
         /\ Rows(g) \in [1..Count -> Nat]
<1> DEFINE r == [i \in 1..Count |-> Cardinality({j \in 2..i : g[j].breaks > 0})]
<1>1. Count \in Nat
  BY Parsed
<1>2. ASSUME NEW i \in 1..Count PROVE r[i] \in Nat
  <2>1. IsFiniteSet(2..i)
    BY <1>1, FS_Interval
  <2>2. IsFiniteSet({j \in 2..i : g[j].breaks > 0})
    BY <2>1, FS_Subset
  <2> QED BY <2>2, Counted
<1>3. r \in [1..Count -> Nat]
  BY <1>2
<1>4. Settled(r) = r
  BY <1>1, <1>3, SettledIs
<1> QED BY <1>3, <1>4 DEF Rows

\* No row has fewer delimiters open than it closes: indentation is never negative
\* (bracket_depth subtracts with saturation, which changes nothing).
LEMMA DepthIsNat ==
  ASSUME doc \in Documents, NEW g, NEW r \in [1..Count -> Nat], NEW i \in 1..Count, NEW c
  PROVE  Depth(r, g, i, c) \in Nat
<1> DEFINE over == {n \in Delimited : r[n.first] < r[i] /\ r[i] <= r[n.last]}
           open == {r[n.first] : n \in over}
           closed == {n \in Delimited : n.last = i /\ r[n.first] < r[i]}
<1>1. IsFiniteSet(Delimited) /\ Delimited \subseteq doc.nodes
  <2>1. Delimited \subseteq doc.nodes
    BY DEF Delimited, Nodes
  <2> QED BY <2>1, Parsed, FS_Subset
<1>2. IsFiniteSet(open)
  <2>1. IsFiniteSet(over)
    BY <1>1, FS_Subset
  <2> DEFINE f == [n \in over |-> r[n.first]]
  <2>2. f \in [over -> open] /\ \A t \in open : \E n \in over : f[n] = t
    BY Zenon
  <2> HIDE DEF f, over, open
  <2> QED BY <2>1, <2>2, FiniteValues
<1>3. closed # {} => \E n \in closed : closed = {n} /\ r[n.first] \in open
  BY <1>1, Parsed
<1>4. closed # {} => Cardinality(closed) = 1 /\ open # {}
  BY <1>3, FS_Singleton
<1>5. closed = {} => Cardinality(closed) = 0
  BY FS_EmptySet
<1>6. Cardinality(open) \in Nat /\ (open # {} => Cardinality(open) > 0)
  BY <1>2, Counted
<1> HIDE DEF open, closed
<1>7. Cardinality(open) - Cardinality(closed) \in Nat
  BY <1>4, <1>5, <1>6
<1>8. BracketDepth(r, g, i) = Cardinality(open) - Cardinality(closed)
  BY DEF BracketDepth, open, closed
<1> QED BY <1>7, <1>8 DEF Depth

\* Indenting moves no line break.
LEMMA ReindentLaidOut ==
  ASSUME doc \in Documents, options \in Options, NEW g, LaidOut(g)
  PROVE  /\ LaidOut(Reindent(g))
         /\ \A i \in 1..Count : /\ Reindent(g)[i].breaks = g[i].breaks
                                /\ Reindent(g)[i].blanks =
                                     IF FirstOnRow(g, i)
                                     THEN options.indent * Depth(Rows(g), g, i, options.compact_factors)
                                     ELSE g[i].blanks
<1> DEFINE r == Rows(g)
           new(i) == IF FirstOnRow(g, i)
                     THEN [g[i] EXCEPT !.blanks = options.indent * Depth(r, g, i, options.compact_factors)]
                     ELSE g[i]
           h == [i \in DOMAIN g |-> new(i)]
<1>1. Count \in Nat /\ g \in Layouts /\ DOMAIN g = 1..Count /\ Stands(g) /\ r \in [1..Count -> Nat]
      /\ options.indent \in Nat
  BY Parsed, RowsTyped, LayoutAssumption DEF LaidOut, Layouts
<1> HIDE DEF r
<1>2. ASSUME NEW i \in 1..Count
      PROVE  /\ new(i) \in Gap /\ new(i).breaks = g[i].breaks
             /\ new(i).blanks = IF FirstOnRow(g, i)
                                THEN options.indent * Depth(r, g, i, options.compact_factors)
                                ELSE g[i].blanks
  <2>1. Depth(r, g, i, options.compact_factors) \in Nat
    BY <1>1, DepthIsNat
  <2> DEFINE d == Depth(r, g, i, options.compact_factors)
  <2>2. options.indent * d \in Nat /\ g[i] \in Gap
    BY <2>1, <1>1 DEF Layouts
  <2>3. new(i) = IF FirstOnRow(g, i) THEN [g[i] EXCEPT !.blanks = options.indent * d] ELSE g[i]
    OBVIOUS
  <2> HIDE DEF d, new
  <2>4. CASE FirstOnRow(g, i)
    BY <2>2, <2>3, <2>4 DEF Gap, d
  <2>5. CASE ~FirstOnRow(g, i)
    BY <2>2, <2>3, <2>5
  <2> QED BY <2>4, <2>5
<1> HIDE DEF new
<1>3. h \in Layouts /\ DOMAIN h = 1..Count
  BY <1>1, <1>2 DEF Layouts
<1>4. Settled(h) = h
  BY <1>1, <1>3, SettledIs DEF Layouts
<1>5. Reindent(g) = h
  BY <1>4 DEF Reindent, new, r
<1> QED BY <1>1, <1>2, <1>3, <1>5 DEF LaidOut, Stands, r

-----------------------------------------------------------------------------
(* Edits. *)

\* The edits of a pass are finitely many, and one that breaks a line does so where
\* a line break may stand.
Sound(es) == IsFiniteSet(es) /\ \A e \in es : e.at \in 2..Count /\ e.breaks = 1 => MayStand(e.at)

LEMMA ApplyLaidOut ==
  ASSUME doc \in Documents, NEW g, LaidOut(g), NEW es, Sound(es)
  PROVE  LaidOut(Apply(g, es))
<1> DEFINE here(i) == {e \in es : e.at = i}
           new(i) == IF here(i) = {} THEN g[i]
                     ELSE [breaks |-> Cardinality({e \in here(i) : e.breaks = 1}),
                           blanks |-> Cardinality({e \in here(i) : e.blanks = 1})]
           h == [i \in DOMAIN g |-> new(i)]
<1>1. Count \in Nat /\ g \in Layouts /\ DOMAIN g = 1..Count /\ Stands(g)
  BY Parsed DEF LaidOut, Layouts
<1>2. ASSUME NEW i \in 1..Count
      PROVE  /\ new(i) \in Gap
             /\ new(i).breaks > 0 => g[i].breaks > 0 \/ \E e \in es : e.at = i /\ e.breaks = 1
  <2>1. CASE here(i) = {}
    BY <1>1, <2>1 DEF Layouts
  <2>2. CASE here(i) # {}
    <3> DEFINE B == {e \in here(i) : e.breaks = 1}
               L == {e \in here(i) : e.blanks = 1}
    <3>1. IsFiniteSet(B) /\ IsFiniteSet(L)
      <4>1. B \subseteq es /\ L \subseteq es
        OBVIOUS
      <4> QED BY <4>1, FS_Subset DEF Sound
    <3>2. /\ Cardinality(B) \in Nat /\ Cardinality(L) \in Nat
          /\ Cardinality(B) > 0 => B # {}
      BY <3>1, Counted
    <3>3. new(i) = [breaks |-> Cardinality(B), blanks |-> Cardinality(L)]
      BY <2>2
    <3>4. B # {} => \E e \in es : e.at = i /\ e.breaks = 1
      OBVIOUS
    <3> HIDE DEF B, L, new
    <3> QED BY <3>2, <3>3, <3>4 DEF Gap
  <2> QED BY <2>1, <2>2
<1> HIDE DEF new
<1>3. h \in Layouts /\ DOMAIN h = 1..Count
  BY <1>1, <1>2 DEF Layouts
<1>4. Settled(h) = h
  BY <1>1, <1>3, SettledIs DEF Layouts
<1>5. LaidOut(h)
  BY <1>1, <1>2, <1>3 DEF LaidOut, Stands, Sound
<1>6. CASE Overlap(g, es)
  BY <1>6 DEF Apply
<1>7. CASE ~Overlap(g, es)
  BY <1>4, <1>5, <1>7 DEF Apply, new
<1> QED BY <1>6, <1>7

\* One edit is sound if what it breaks may be broken; so are none, those of a rule
\* that may not apply, and those of two rules or of finitely many.
LEMMA OneSound ==
  ASSUME NEW i, NEW breaks, NEW blanks, NEW by, i \in 2..Count /\ breaks = 1 => MayStand(i)
  PROVE  Sound({Edit(i, breaks, blanks, by)})
<1>1. Edit(i, breaks, blanks, by).at = i /\ Edit(i, breaks, blanks, by).breaks = breaks
  BY DEF Edit
<1> QED BY <1>1, FS_Singleton DEF Sound

LEMMA NoneSound == Sound({})
  BY FS_EmptySet DEF Sound

LEMMA WhereSound ==
  ASSUME NEW c, NEW es, c => Sound(es)
  PROVE  Sound(Where(c, es))
  BY NoneSound DEF Where

LEMMA BothSound ==
  ASSUME NEW es, NEW fs, Sound(es), Sound(fs)
  PROVE  Sound(es \cup fs)
  BY FS_Union DEF Sound

LEMMA FamilySound ==
  ASSUME NEW S, IsFiniteSet(S), NEW T, NEW f \in [S -> T], \A x \in S : Sound(f[x]),
         NEW es, \A e \in es : \E x \in S : e \in f[x]
  PROVE  Sound(es)
<1>1. IsFiniteSet(es)
  <2>1. \A x \in S : IsFiniteSet(f[x])
    BY DEF Sound
  <2> QED BY <2>1, FiniteFamily
<1> QED BY <1>1 DEF Sound

\* The edits of one rule at every token of some kinds, or at every node of some.
LEMMA TokensFinite ==
  ASSUME doc \in Documents, NEW kinds
  PROVE  IsFiniteSet(Tokens(kinds)) /\ Tokens(kinds) \subseteq 1..Count
<1>1. Tokens(kinds) \subseteq 1..Count /\ IsFiniteSet(1..Count)
  BY Parsed, FS_Interval DEF Tokens
<1> QED BY <1>1, FS_Subset

LEMMA NodesFinite ==
  ASSUME doc \in Documents, NEW kinds
  PROVE  IsFiniteSet(Nodes(kinds)) /\ Nodes(kinds) \subseteq doc.nodes
<1>1. Nodes(kinds) \subseteq doc.nodes /\ IsFiniteSet(doc.nodes)
  BY Parsed DEF Nodes
<1> QED BY <1>1, FS_Subset

-----------------------------------------------------------------------------
(* The passes that only space what is on one line. *)

LEMMA NormalizeLaidOut ==
  ASSUME doc \in Documents, NEW g, LaidOut(g)
  PROVE  LaidOut(NormalizeWhitespace(g))
<1> DEFINE commas == [i \in Tokens({"comma"}) |-> CommaEdits(g, i)]
           semis == [i \in Tokens({"semi"}) |-> SemicolonEdits(g, i)]
           calls == [n \in Nodes({"call"}) |-> CallEdits(g, n)]
           operators == [n \in Nodes({"binary", "lambda", "prefix"}) |-> OperatorEdits(g, n)]
           C == UNION {commas[i] : i \in Tokens({"comma"})}
           S == UNION {semis[i] : i \in Tokens({"semi"})}
           L == UNION {calls[n] : n \in Nodes({"call"})}
           O == UNION {operators[n] : n \in Nodes({"binary", "lambda", "prefix"})}
<1>1. Sound(C)
  <2>1. ASSUME NEW i \in Tokens({"comma"}) PROVE Sound(CommaEdits(g, i))
    <3> DEFINE blanks == IF BordersEmptySlot(i) \/ Kind(i + 1) \in {"close", "semi"} THEN 0 ELSE 1
    <3>1. Sound({Edit(i, 0, 0, i)}) /\ Sound({Edit(i + 1, 0, blanks, i)})
      BY OneSound
    <3> QED BY <3>1, WhereSound, BothSound DEF CommaEdits
  <2>2. commas \in [Tokens({"comma"}) -> {CommaEdits(g, i) : i \in Tokens({"comma"})}]
    OBVIOUS
  <2>3. \A i \in Tokens({"comma"}) : Sound(commas[i])
    BY <2>1
  <2>4. \A e \in C : \E i \in Tokens({"comma"}) : e \in commas[i]
    BY Zenon
  <2> HIDE DEF commas, C
  <2> QED BY <2>2, <2>3, <2>4, TokensFinite, FamilySound
<1>2. Sound(S)
  <2>1. ASSUME NEW i \in Tokens({"semi"}) PROVE Sound(SemicolonEdits(g, i))
    <3> DEFINE breaks == options.break_after_semicolon /\ ~TerminatesEntry(i)
               blanks == ~breaks /\ Kind(i + 1) # "close"
    <3>1. MayStand(i + 1)
      <4>1. Kind(i) = "semi" /\ i \in Int /\ (i + 1) - 1 = i
        BY Parsed DEF Tokens
      <4> QED BY <4>1 DEF MayStand
    <3>2. Sound({Edit(i, 0, 0, i)})
      BY OneSound
    <3>3. Sound({Edit(i + 1, IF breaks THEN 1 ELSE 0, IF blanks THEN 1 ELSE 0, i)})
      BY <3>1, OneSound
    <3> QED BY <3>2, <3>3, WhereSound, BothSound DEF SemicolonEdits
  <2>2. semis \in [Tokens({"semi"}) -> {SemicolonEdits(g, i) : i \in Tokens({"semi"})}]
    OBVIOUS
  <2>3. \A i \in Tokens({"semi"}) : Sound(semis[i])
    BY <2>1
  <2>4. \A e \in S : \E i \in Tokens({"semi"}) : e \in semis[i]
    BY Zenon
  <2> HIDE DEF semis, S
  <2> QED BY <2>2, <2>3, <2>4, TokensFinite, FamilySound
<1>3. Sound(L)
  <2>1. ASSUME NEW n \in Nodes({"call"}) PROVE Sound(CallEdits(g, n))
    <3>1. Sound({Edit(n.op, 0, IF IsInstallHead(n) THEN 1 ELSE 0, n.op)})
      BY OneSound
    <3> QED BY <3>1, WhereSound DEF CallEdits
  <2>2. calls \in [Nodes({"call"}) -> {CallEdits(g, n) : n \in Nodes({"call"})}]
    OBVIOUS
  <2>3. \A n \in Nodes({"call"}) : Sound(calls[n])
    BY <2>1
  <2>4. \A e \in L : \E n \in Nodes({"call"}) : e \in calls[n]
    BY Zenon
  <2> HIDE DEF calls, L
  <2> QED BY <2>2, <2>3, <2>4, NodesFinite, FamilySound
<1>4. Sound(O)
  <2> DEFINE K == {"binary", "lambda", "prefix"}
  <2>1. ASSUME NEW n \in Nodes(K) PROVE Sound(OperatorEdits(g, n))
    <3> DEFINE at(i) == Edit(i, 0, IF IsSpaced(n) THEN 1 ELSE 0, n.op)
    <3>1. Sound({Edit(n.op + 1, 0, 0, n.op)}) /\ Sound({at(n.op)}) /\ Sound({at(n.op + 1)})
      BY OneSound
    <3> DEFINE two == {at(i) : i \in {n.op, n.op + 1}}
    <3>2. two = {at(n.op)} \cup {at(n.op + 1)}
      OBVIOUS
    <3>3. Sound(two)
      <4> HIDE DEF at, two
      <4> QED BY <3>1, <3>2, BothSound
    <3> QED BY <3>1, <3>3, WhereSound DEF OperatorEdits
  <2>2. operators \in [Nodes(K) -> {OperatorEdits(g, n) : n \in Nodes(K)}]
    OBVIOUS
  <2>3. \A n \in Nodes(K) : Sound(operators[n])
    BY <2>1
  <2>4. \A e \in O : \E n \in Nodes(K) : e \in operators[n]
    BY Zenon
  <2> HIDE DEF operators, O
  <2> QED BY <2>2, <2>3, <2>4, NodesFinite, FamilySound
<1>5. Sound(((C \cup S) \cup L) \cup O)
  <2> HIDE DEF C, S, L, O
  <2> QED BY <1>1, <1>2, <1>3, <1>4, BothSound
<1>6. UNION ({CommaEdits(g, i) : i \in Tokens({"comma"})}
               \cup {SemicolonEdits(g, i) : i \in Tokens({"semi"})}
               \cup {CallEdits(g, n) : n \in Nodes({"call"})}
               \cup {OperatorEdits(g, n) : n \in Nodes({"binary", "lambda", "prefix"})})
        = ((C \cup S) \cup L) \cup O
  BY Zenon
<1> QED BY <1>5, <1>6, ApplyLaidOut DEF NormalizeWhitespace

LEMMA InlineLaidOut ==
  ASSUME doc \in Documents, NEW g, LaidOut(g)
  PROVE  LaidOut(InlineEmptyBodies(g))
<1> DEFINE S == {n \in Delimited : IsEmptyBody(n)}
           f == [n \in S |-> {Edit(n.last, 0, 0, 0)}]
<1>1. IsFiniteSet(S)
  BY NodesFinite, FS_Subset DEF Delimited
<1>2. \A n \in S : Sound(f[n])
  BY OneSound
<1>3. f \in [S -> {f[n] : n \in S}]
  OBVIOUS
<1> DEFINE es == {Edit(n.last, 0, 0, 0) : n \in S}
<1>4. \A e \in es : \E n \in S : e \in f[n]
  BY Zenon
<1>5. Sound(es)
  <2> HIDE DEF f, es, S
  <2> QED BY <1>1, <1>2, <1>3, <1>4, FamilySound
<1> QED BY <1>5, ApplyLaidOut DEF InlineEmptyBodies

-----------------------------------------------------------------------------
(* Control statements. *)

LEMMA AlternativeOwner ==
  ASSUME doc \in Documents, NEW c \in Nodes({"else", "except"})
  PROVE  /\ Owner(c) \in Controls /\ Owner(c).first < c.first /\ c.last <= Owner(c).last
         /\ HasAlternative(Owner(c))
         /\ Nearest(Ancestors(c) \cap Controls) = Owner(c)
<1>1. PICK n \in Controls : /\ n \in Ancestors(c) /\ n.first < c.first
                            /\ \A m \in Ancestors(c) : m = n \/ Inside(n, m)
  <2>1. c \in Nodes({"then", "else", "except"}) /\ Nodes({"if", "try"}) \subseteq Controls
    BY DEF Nodes, Controls
  <2> QED BY <2>1, ClauseOwned
<1>2. Ancestors(c) \subseteq doc.nodes
  BY DEF Ancestors
<1>3. Nearest(Ancestors(c)) = n
  BY <1>1, <1>2, NearestIs
<1>4. Nearest(Ancestors(c) \cap Controls) = n
  <2>1. Ancestors(c) \cap Controls \subseteq doc.nodes /\ n \in Ancestors(c) \cap Controls
    BY <1>1, <1>2
  <2>2. \A m \in Ancestors(c) \cap Controls : n = m \/ Inside(n, m)
    BY <1>1
  <2> QED BY <2>1, <2>2, NearestIs
<1>5. c.last <= n.last
  BY <1>1 DEF Ancestors, Inside
<1> QED BY <1>1, <1>3, <1>4, <1>5 DEF Owner, HasAlternative

\* The statement around an else if is a control statement that begins before it.
LEMMA OuterOf ==
  ASSUME doc \in Documents, NEW g, NEW n \in Controls, IsElseIf(g, n)
  PROVE  /\ Owner(Owner(n)) \in Controls /\ Owner(Owner(n)).first < n.first
         /\ n.last <= Owner(Owner(n)).last
         /\ HasAlternative(Owner(Owner(n)))
<1>1. PICK m \in Nodes({"else"}) : m.first + 1 = n.first /\ m.last = n.last
  BY DEF IsElseIf
<1>2. n \in doc.nodes /\ m \in doc.nodes /\ m \in Nodes({"else", "except"})
  BY <1>1 DEF Controls, Nodes
<1>3. /\ m.first \in Nat /\ m.last \in Nat /\ m.first <= m.last
      /\ n.first \in Nat /\ n.last \in Nat /\ n.first <= n.last
  BY <1>2, Parsed
<1>4. m \in Ancestors(n)
  BY <1>1, <1>2, <1>3 DEF Ancestors, Inside
<1>5. ASSUME NEW k \in Ancestors(n) PROVE m = k \/ Inside(m, k)
  <2>1. k \in doc.nodes /\ Inside(n, k)
    BY DEF Ancestors
  <2>2. k.first \in Nat /\ k.last \in Nat
    BY <2>1, Parsed
  <2>3. m = k \/ Inside(m, k) \/ Inside(k, m) \/ m.last < k.first \/ k.last < m.first
    BY <1>2, <2>1, Parsed
  <2>4. ~(m.last < k.first) /\ ~(k.last < m.first)
    BY <1>1, <1>3, <2>1, <2>2 DEF Inside
  <2>5. ~Inside(k, m)
    BY <1>1, <1>3, <2>1, <2>2 DEF Inside
  <2> QED BY <2>3, <2>4, <2>5
<1>6. Owner(n) = m
  <2>1. Ancestors(n) \subseteq doc.nodes
    BY DEF Ancestors
  <2> QED BY <1>4, <1>5, <2>1, NearestIs DEF Owner
<1>7. /\ Owner(m) \in Controls /\ Owner(m).first < m.first /\ m.last <= Owner(m).last
      /\ HasAlternative(Owner(m))
  BY <1>2, AlternativeOwner
<1>8. Owner(m).first \in Nat
  BY <1>7, Parsed DEF Controls, Nodes
<1> QED BY <1>1, <1>3, <1>6, <1>7, <1>8

\* The head of a chain of else if is reached one statement at a time.
Climbs(g, head) ==
  \A n \in Controls : head[n] = IF IsElseIf(g, n) /\ Owner(Owner(n)).kind = "if"
                                THEN head[Owner(Owner(n))] ELSE n

LEMMA HeadClimbs ==
  ASSUME doc \in Documents, NEW g
  PROVE  \E head : /\ Climbs(g, head)
                   /\ \A c : LayoutControl(g, c) = head[Nearest(Ancestors(c) \cap Controls)]
<1> DEFINE outer(n) == Owner(Owner(n))
           climb(f, n) == IF IsElseIf(g, n) /\ outer(n).kind = "if" THEN f[outer(n)] ELSE n
           low(k) == {n \in Controls : n.first <= k}
           upTo(k, f) == f = [n \in low(k) |-> climb(f, n)]
           P == {k \in 0..Count : \E f : upTo(k, f)}
<1>1. Count \in Nat /\ \A n \in Controls : n.first \in 1..Count
  BY Parsed DEF Controls, Nodes
<1>2. Count \in P
  <2>1. 0 \in P
    <3> DEFINE f == [n \in {} |-> 0]
    <3>1. low(0) = {}
      BY <1>1
    <3>2. f = [n \in low(0) |-> climb(f, n)]
      BY <3>1
    <3>3. 0 \in 0..Count /\ upTo(0, f)
      BY <1>1, <3>2
    <3> HIDE DEF upTo, f
    <3> QED BY <3>3
  <2>2. ASSUME NEW m \in 1..Count, m \notin P, m - 1 \in P
        PROVE  FALSE
    <3>1. PICK f : upTo(m - 1, f)
      BY <2>2
    <3>2. \A n \in low(m - 1) : f[n] = climb(f, n)
      BY <3>1
    <3> DEFINE h == [n \in low(m) |-> IF n.first = m THEN climb(f, n) ELSE f[n]]
    <3>3. ASSUME NEW n \in low(m) PROVE h[n] = climb(h, n)
      <4>1. h[n] = climb(f, n)
        <5>1. CASE n.first = m
          BY <5>1
        <5>2. CASE n.first # m
          <6>1. n \in low(m - 1)
            BY <1>1, <5>2
          <6> QED BY <3>2, <5>2, <6>1
        <5> QED BY <5>1, <5>2
      <4>2. CASE IsElseIf(g, n) /\ outer(n).kind = "if"
        <5>1. outer(n) \in Controls /\ outer(n).first < n.first
          BY <4>2, OuterOf
        <5>2. outer(n) \in low(m) /\ outer(n).first # m
          BY <1>1, <5>1
        <5>3. h[outer(n)] = f[outer(n)]
          BY <5>2
        <5> QED BY <4>1, <4>2, <5>3
      <4>3. CASE ~(IsElseIf(g, n) /\ outer(n).kind = "if")
        <5> HIDE DEF h
        <5> QED BY <4>1, <4>3
      <4> QED BY <4>2, <4>3
    <3>4. h = [n \in low(m) |-> h[n]]
      OBVIOUS
    <3> HIDE DEF climb, low, h
    <3>5. h = [n \in low(m) |-> climb(h, n)]
      BY <3>3, <3>4
    <3>6. upTo(m, h) /\ m \in 0..Count
      BY <3>5, <2>2
    <3> QED BY <2>2, <3>6
  <2> HIDE DEF P
  <2> QED BY <1>1, <2>1, <2>2, FirstFailure
<1> DEFINE head == CHOOSE f : f = [n \in Controls |-> climb(f, n)]
<1>3. head = [n \in Controls |-> climb(head, n)]
  <2>1. low(Count) = Controls
    BY <1>1
  <2>2. \E f : f = [n \in Controls |-> climb(f, n)]
    BY <1>2, <2>1
  <2> HIDE DEF climb
  <2> QED BY <2>2
<1>4. \A c : LayoutControl(g, c) = head[Nearest(Ancestors(c) \cap Controls)]
  BY DEF LayoutControl
<1> HIDE DEF head
<1>5. Climbs(g, head)
  BY <1>3 DEF Climbs
<1> QED BY <1>4, <1>5

\* The head that an alternative is laid out by has an alternative itself, and the
\* alternative is a part of it and not its beginning.
LEMMA HeadOfAlternative ==
  ASSUME doc \in Documents, NEW g, NEW c \in Nodes({"else", "except"})
  PROVE  /\ LayoutControl(g, c) \in Controls
         /\ HasAlternative(LayoutControl(g, c))
         /\ LayoutControl(g, c).first < c.first /\ c.last <= LayoutControl(g, c).last
<1> DEFINE good(h, n) == h \in Controls /\ HasAlternative(h) /\ h.first <= n.first /\ n.last <= h.last
<1>1. PICK head : /\ Climbs(g, head)
                  /\ \A d : LayoutControl(g, d) = head[Nearest(Ancestors(d) \cap Controls)]
  BY HeadClimbs
<1>2. \A n \in Controls : n.first \in Nat /\ n.last \in Nat /\ n.first \in 1..Count
  BY Parsed DEF Controls, Nodes
<1> DEFINE fine(k) == \A n \in Controls : n.first <= k /\ HasAlternative(n) => good(head[n], n)
           P == {k \in 0..Count : fine(k)}
<1>3. Count \in P
  <2>1. 0 \in P
    BY <1>2, Parsed
  <2>2. ASSUME NEW m \in 1..Count, m \notin P, m - 1 \in P PROVE FALSE
    <3>1. ASSUME NEW n \in Controls, n.first <= m, HasAlternative(n) PROVE good(head[n], n)
      <4>1. CASE IsElseIf(g, n) /\ Owner(Owner(n)).kind = "if"
        <5>1. head[n] = head[Owner(Owner(n))]
          BY <1>1, <4>1 DEF Climbs
        <5>2. /\ Owner(Owner(n)) \in Controls /\ Owner(Owner(n)).first < n.first
              /\ n.last <= Owner(Owner(n)).last /\ HasAlternative(Owner(Owner(n)))
          BY <4>1, OuterOf
        <5>3. good(head[Owner(Owner(n))], Owner(Owner(n)))
          <6>1. Owner(Owner(n)).first <= m - 1
            BY <1>2, <3>1, <5>2
          <6> QED BY <2>2, <5>2, <6>1
        <5> QED BY <1>2, <5>1, <5>2, <5>3
      <4>2. CASE ~(IsElseIf(g, n) /\ Owner(Owner(n)).kind = "if")
        <5>1. head[n] = n
          BY <1>1, <4>2 DEF Climbs
        <5> QED BY <1>2, <3>1, <5>1
      <4> QED BY <4>1, <4>2
    <3>2. m \in 0..Count /\ fine(m)
      BY <3>1
    <3> HIDE DEF fine
    <3> QED BY <2>2, <3>2
  <2> HIDE DEF P
  <2> QED BY <2>1, <2>2, FirstFailure, Parsed
<1> DEFINE owner == Owner(c)
<1>4. /\ owner \in Controls /\ owner.first < c.first /\ c.last <= owner.last
      /\ HasAlternative(owner) /\ LayoutControl(g, c) = head[owner]
  BY <1>1, AlternativeOwner
<1> HIDE DEF owner
<1>5. good(head[owner], owner)
  BY <1>2, <1>3, <1>4
<1>6. c.first \in Nat /\ c.last \in Nat
  BY Parsed DEF Nodes
<1> QED BY <1>2, <1>4, <1>5, <1>6

LEMMA BreakAtSound ==
  ASSUME NEW g, NEW i, i \in 2..Count => MayStand(i)
  PROVE  Sound(BreakAt(g, i))
<1>1. Sound({Break(i)})
  BY OneSound DEF Break
<1> QED BY <1>1, WhereSound DEF BreakAt

\* The expression goes on after a keyword, so its body may have a line of its own.
LEMMA BodyBreaksSound ==
  ASSUME doc \in Documents, NEW g, NEW c \in Nodes({"then", "else", "except", "body"})
  PROVE  Sound(BodyBreaks(g, c))
<1>1. c.first \in Int /\ c.op \in Int
  BY Parsed DEF Nodes
<1>2. MayStand(c.first + 1)
  <2>1. (c.first + 1) - 1 = c.first
    BY <1>1
  <2> QED BY <2>1, ClauseKeywords DEF MayStand
<1>3. c.op # 0 => MayStand(c.op + 1)
  <2>1. (c.op + 1) - 1 = c.op
    BY <1>1
  <2> QED BY <2>1, ClauseKeywords DEF MayStand
<1>4. \A last : /\ Sound(BodyBreak(g, c.first + 1, last))
                /\ c.op # 0 => Sound(BodyBreak(g, c.op + 1, last))
  BY <1>2, <1>3, BreakAtSound, NoneSound DEF BodyBreak
<1> QED BY <1>4, WhereSound, BothSound DEF BodyBreaks

\* An alternative has a line of its own only between the delimiters around its
\* statement: outside them the line break would end the statement.
LEMMA AlternativeMayStand ==
  ASSUME doc \in Documents, NEW g, NEW c \in Nodes({"else", "except"}), BreaksAreParseable(g, c)
  PROVE  MayStand(c.first)
<1> DEFINE head == LayoutControl(g, c)
<1>1. /\ head \in Controls /\ HasAlternative(head)
      /\ head.first < c.first /\ c.last <= head.last
  BY HeadOfAlternative
<1>2. PICK n \in Ancestors(head) : n \in Delimited
  BY <1>1 DEF BreaksAreParseable
<1> HIDE DEF head
<1>3. n.first <= head.first /\ head.last <= n.last
  BY <1>2 DEF Ancestors, Inside
<1>4. /\ c.first \in Nat /\ c.last \in Nat /\ c.first <= c.last
      /\ head.first \in Nat /\ head.last \in Nat /\ n.first \in Nat /\ n.last \in Nat
  BY <1>1, <1>2, Parsed DEF Nodes, Controls
<1>5. n.first < c.first /\ c.first <= n.last
  BY <1>1, <1>3, <1>4
<1> QED BY <1>2, <1>5 DEF MayStand

LEMMA ClauseSound ==
  ASSUME doc \in Documents, NEW g, NEW c \in Nodes({"then", "else", "except", "body"}),
         BreaksAreParseable(g, c)
  PROVE  Sound(ClauseEdits(g, c))
<1>1. Sound(BodyBreaks(g, c))
  BY BodyBreaksSound
<1>2. c.kind \in {"else", "except"} => Sound(BreakAt(g, c.first))
  <2>1. c.kind \in {"else", "except"} => c \in Nodes({"else", "except"})
    BY DEF Nodes
  <2> QED BY <2>1, AlternativeMayStand, BreakAtSound
<1>3. CASE c.kind = "else"
  <2> DEFINE joined == IF g[c.first].breaks > 0 THEN {Edit(c.first, 0, 1, 0)} ELSE {}
  <2>1. Sound(joined)
    BY OneSound, NoneSound
  <2>2. Sound(IF FollowsCloser(c) THEN joined ELSE BreakAt(g, c.first))
    BY <1>2, <1>3, <2>1
  <2>3. Sound(ElseEdits(g, c))
    BY <1>1, <2>2, WhereSound, BothSound DEF ElseEdits
  <2>4. ClauseEdits(g, c) = ElseEdits(g, c)
    BY <1>3 DEF ClauseEdits
  <2> QED BY <2>3, <2>4
<1>4. CASE c.kind = "except"
  <2>1. ClauseEdits(g, c) = BreakAt(g, c.first) \cup BodyBreaks(g, c)
    BY <1>4 DEF ClauseEdits
  <2> QED BY <1>1, <1>2, <1>4, <2>1, BothSound
<1>5. CASE c.kind \in {"then", "body"}
  <2>1. ClauseEdits(g, c) = BodyBreaks(g, c)
    BY <1>5 DEF ClauseEdits
  <2> QED BY <1>1, <2>1
<1> QED BY <1>3, <1>4, <1>5 DEF Nodes

LEMMA ControlFlowLaidOut ==
  ASSUME doc \in Documents, NEW g, LaidOut(g)
  PROVE  LaidOut(FormatControlFlow(g))
<1> DEFINE S == {c \in Nodes({"then", "else", "except", "body"}) : BreaksAreParseable(g, c)}
           f == [c \in S |-> ClauseEdits(g, c)]
           es == UNION {ClauseEdits(g, c) : c \in S}
<1>1. IsFiniteSet(S)
  BY NodesFinite, FS_Subset
<1>2. \A c \in S : Sound(f[c])
  BY ClauseSound
<1>3. f \in [S -> {f[c] : c \in S}] /\ \A e \in es : \E c \in S : e \in f[c]
  BY Zenon
<1>4. Sound(es)
  <2> HIDE DEF f, es, S
  <2> QED BY <1>1, <1>2, <1>3, FamilySound
<1> QED BY <1>4, ApplyLaidOut DEF FormatControlFlow

-----------------------------------------------------------------------------
(* Breaking long lines. *)

\* A bounded set of numbers has the one that Greatest takes of it, and Least.
LEMMA GreatestIs ==
  ASSUME NEW n \in Nat, NEW T, T \subseteq 0..n, T # {}
  PROVE  Greatest(T) \in T /\ \A k \in T : k <= Greatest(T)
<1>1. \E m \in T : \A k \in T : k <= m
  BY GreatestNumber
<1> QED BY <1>1 DEF Greatest

LEMMA LeastIs ==
  ASSUME NEW T, T \subseteq Nat, T # {}
  PROVE  Least(T) \in T /\ \A k \in T : Least(T) <= k
<1>1. \E m \in T : \A k \in T : m <= k
  BY LeastNumber
<1> QED BY <1>1 DEF Least

LEMMA WrapMayStand ==
  ASSUME doc \in Documents, NEW g, NEW i \in 2..Count, MayBreakBefore(g, i)
  PROVE  MayStand(i)
<1>1. CASE \E n \in Delimited : n.first = i - 1 /\ n.last # i
  BY <1>1, Parsed DEF MayStand
<1>2. CASE Kind(i - 1) = "comma"
  BY <1>2 DEF MayStand
<1>3. CASE \E n \in Nodes({"binary", "lambda"}) :
             n.op = i - 1 /\ LineFinal(i - 1, options.compact_factors)
  BY <1>3 DEF MayStand, LineFinal
<1> QED BY <1>1, <1>2, <1>3 DEF MayBreakBefore

\* The row a line is broken in, and the place it is broken at.
Breakable(g, row) == {i \in RowTokens(Rows(g), row) : MayBreakBefore(g, i)}
Place(g, row) ==
  LET within(width) == {i \in Breakable(g, row) : EndOf(Columns(g), i - 1) <= width}
  IN  IF within(options.soft) # {} THEN Greatest(within(options.soft))
      ELSE IF within(options.max) # {} THEN Greatest(within(options.max))
      ELSE Least(Breakable(g, row))
WideRows(g) == {row \in 0..Rows(g)[Count] : TooWide(Rows(g), Columns(g), row) /\ Breakable(g, row) # {}}

LEMMA WrapEditsAre == ASSUME NEW g PROVE WrapEdits(g) = {Break(Place(g, row)) : row \in WideRows(g)}
  BY DEF WrapEdits, Place, WideRows, Breakable

LEMMA PlaceIs ==
  ASSUME doc \in Documents, NEW g, NEW row, Breakable(g, row) # {}
  PROVE  Place(g, row) \in Breakable(g, row) /\ Breakable(g, row) \subseteq 2..Count
<1> DEFINE within(width) == {i \in Breakable(g, row) : EndOf(Columns(g), i - 1) <= width}
<1>1. Breakable(g, row) \subseteq 2..Count /\ Count \in Nat
  BY Parsed DEF Breakable, MayBreakBefore, SameLine
<1>2. \A width : within(width) # {} => Greatest(within(width)) \in Breakable(g, row)
  <2>1. ASSUME NEW width, within(width) # {} PROVE Greatest(within(width)) \in within(width)
    <3>1. within(width) \subseteq 0..Count
      BY <1>1
    <3> HIDE DEF within
    <3> QED BY <1>1, <2>1, <3>1, GreatestIs
  <2> QED BY <2>1
<1>3. Least(Breakable(g, row)) \in Breakable(g, row)
  <2>1. Breakable(g, row) \subseteq Nat
    BY <1>1
  <2> QED BY <2>1, LeastIs
<1> HIDE DEF within
<1> QED BY <1>1, <1>2, <1>3 DEF Place, within

LEMMA WrapSound ==
  ASSUME doc \in Documents, NEW g, LaidOut(g)
  PROVE  Sound(WrapEdits(g))
<1> DEFINE f == [row \in WideRows(g) |-> {Break(Place(g, row))}]
<1>1. IsFiniteSet(WideRows(g))
  <2>1. Count = 0 => WideRows(g) = {}
    BY DEF WideRows, Breakable, RowTokens
  <2>2. Count # 0 => Rows(g)[Count] \in Nat
    BY Parsed, RowsTyped DEF LaidOut
  <2>3. Count # 0 => IsFiniteSet(0..Rows(g)[Count])
    BY <2>2, FS_Interval
  <2> QED BY <2>1, <2>3, FS_Subset, FS_EmptySet DEF WideRows
<1>2. ASSUME NEW row \in WideRows(g) PROVE Sound(f[row])
  <2>1. Place(g, row) \in 2..Count /\ MayBreakBefore(g, Place(g, row))
    BY PlaceIs DEF WideRows, Breakable
  <2>2. MayStand(Place(g, row))
    BY <2>1, WrapMayStand
  <2> QED BY <2>2, OneSound DEF Break
<1>3. f \in [WideRows(g) -> {f[row] : row \in WideRows(g)}]
  OBVIOUS
<1>4. \A e \in WrapEdits(g) : \E row \in WideRows(g) : e \in f[row]
  BY WrapEditsAre
<1> HIDE DEF f
<1> QED BY <1>1, <1>2, <1>3, <1>4, FamilySound

\* One round of wrap_long_lines.
Wrapped(g) == IF WrapEdits(g) = {} THEN g ELSE Reindent(Apply(g, WrapEdits(g)))

\* The rounds come one after the other, the last of them is what is left.
LEMMA WrapRounds ==
  ASSUME doc \in Documents, NEW g
  PROVE  \E after : /\ after[0] = g /\ WrapLongLines(g) = after[Count]
                    /\ \A k \in 1..Count : after[k] = Wrapped(after[k - 1])
<1> DEFINE step(f, k) == IF k = 0 THEN g ELSE Wrapped(f[k - 1])
           upTo(k, f) == f = [j \in 0..k |-> step(f, j)]
           P == {k \in 0..Count : \E f : upTo(k, f)}
<1>1. Count \in Nat
  BY Parsed
<1>2. Count \in P
  <2>1. 0 \in P
    <3> DEFINE f == [j \in 0..0 |-> g]
    <3>1. f = [j \in 0..0 |-> step(f, j)]
      <4>1. \A j \in 0..0 : step(f, j) = g
        OBVIOUS
      <4> QED BY <4>1
    <3>2. 0 \in 0..Count /\ upTo(0, f)
      BY <1>1, <3>1
    <3> HIDE DEF upTo, f
    <3> QED BY <3>2
  <2>2. ASSUME NEW m \in 1..Count, m \notin P, m - 1 \in P PROVE FALSE
    <3>1. PICK f : upTo(m - 1, f)
      BY <2>2
    <3>2. \A j \in 0..(m - 1) : f[j] = step(f, j)
      BY <3>1
    <3> DEFINE h == [j \in 0..m |-> IF j = m THEN step(f, j) ELSE f[j]]
    <3>3. ASSUME NEW j \in 0..m PROVE h[j] = step(h, j)
      <4>1. h[j] = step(f, j)
        <5>1. CASE j = m
          BY <5>1
        <5>2. CASE j # m
          <6>1. j \in 0..(m - 1)
            BY <5>2
          <6> QED BY <3>2, <5>2, <6>1
        <5> QED BY <5>1, <5>2
      <4>2. j # 0 => h[j - 1] = f[j - 1]
        OBVIOUS
      <4> HIDE DEF h
      <4> QED BY <4>1, <4>2
    <3>4. h = [j \in 0..m |-> h[j]]
      OBVIOUS
    <3> HIDE DEF step, h
    <3>5. h = [j \in 0..m |-> step(h, j)]
      BY <3>3, <3>4
    <3>6. upTo(m, h) /\ m \in 0..Count
      BY <3>5, <2>2
    <3> QED BY <2>2, <3>6
  <2> HIDE DEF P
  <2> QED BY <1>1, <2>1, <2>2, FirstFailure
<1> DEFINE after == CHOOSE f : f = [j \in 0..Count |-> step(f, j)]
<1>3. after = [j \in 0..Count |-> step(after, j)]
  <2>1. \E f : f = [j \in 0..Count |-> step(f, j)]
    BY <1>2
  <2> HIDE DEF step
  <2> QED BY <2>1
<1>4. WrapLongLines(g) = after[Count]
  BY DEF WrapLongLines, Wrapped
<1> HIDE DEF after
<1>5. after[0] = g /\ \A k \in 1..Count : after[k] = Wrapped(after[k - 1])
  <2>1. \A j \in 0..Count : after[j] = step(after, j)
    BY <1>3
  <2> QED BY <1>1, <2>1
<1> QED BY <1>4, <1>5

LEMMA WrapLaidOut ==
  ASSUME doc \in Documents, options \in Options, NEW g, LaidOut(g)
  PROVE  LaidOut(WrapLongLines(g))
<1>1. PICK after : /\ after[0] = g /\ WrapLongLines(g) = after[Count]
                   /\ \A k \in 1..Count : after[k] = Wrapped(after[k - 1])
  BY WrapRounds
<1> DEFINE P == {k \in 0..Count : LaidOut(after[k])}
<1>2. Count \in Nat
  BY Parsed
<1>3. 0 \in P
  BY <1>1, <1>2
<1>4. ASSUME NEW m \in 1..Count, m \notin P, m - 1 \in P PROVE FALSE
  <2>1. LaidOut(after[m - 1]) /\ after[m] = Wrapped(after[m - 1])
    BY <1>1, <1>4
  <2>2. LaidOut(Wrapped(after[m - 1]))
    BY <2>1, WrapSound, ApplyLaidOut, ReindentLaidOut DEF Wrapped
  <2> QED BY <1>4, <2>1, <2>2
<1>5. Count \in P
  <2> HIDE DEF P
  <2> QED BY <1>2, <1>3, <1>4, FirstFailure
<1> QED BY <1>1, <1>5

LEMMA ClosersLaidOut ==
  ASSUME doc \in Documents, NEW g, LaidOut(g)
  PROVE  LaidOut(SeparateClosers(g))
<1> DEFINE S == {n \in Delimited : /\ Rows(g)[n.first] < Rows(g)[n.last]
                                   /\ FirstOnRow(g, n.first + 1)
                                   /\ SameLine(g, n.last)}
           f == [n \in S |-> {Break(n.last)}]
           es == {Break(n.last) : n \in S}
<1>1. IsFiniteSet(S)
  BY NodesFinite, FS_Subset DEF Delimited
<1>2. ASSUME NEW n \in S PROVE Sound(f[n])
  <2>1. MayStand(n.last)
    BY Parsed DEF MayStand
  <2> QED BY <2>1, OneSound DEF Break
<1>3. f \in [S -> {f[n] : n \in S}] /\ \A e \in es : \E n \in S : e \in f[n]
  BY Zenon
<1>4. Sound(es)
  <2> HIDE DEF f, es, S
  <2> QED BY <1>1, <1>2, <1>3, FamilySound
<1> QED BY <1>4, ApplyLaidOut DEF SeparateClosers

LEMMA FormattedLaidOut ==
  ASSUME doc \in Documents, options \in Options, NEW g, LaidOut(g)
  PROVE  LaidOut(Formatted(g))
<1>1. LaidOut(NormalizeWhitespace(g))
  BY NormalizeLaidOut
<1>2. LaidOut(InlineEmptyBodies(NormalizeWhitespace(g)))
  BY <1>1, InlineLaidOut
<1>3. LaidOut(FormatControlFlow(InlineEmptyBodies(NormalizeWhitespace(g))))
  BY <1>2, ControlFlowLaidOut
<1>4. LaidOut(Reindent(FormatControlFlow(InlineEmptyBodies(NormalizeWhitespace(g)))))
  BY <1>3, ReindentLaidOut
<1>5. LaidOut(WrapLongLines(Reindent(FormatControlFlow(InlineEmptyBodies(NormalizeWhitespace(g))))))
  BY <1>4, WrapLaidOut
<1> QED BY <1>5, ClosersLaidOut, ReindentLaidOut DEF Formatted

-----------------------------------------------------------------------------
(* Rows and columns. *)

\* Rows grow from token to token; two tokens are on one row when no line break
\* comes after the first and not after the second.
LEMMA SameRow ==
  ASSUME doc \in Documents, NEW g \in Layouts, NEW i \in 1..Count, NEW j \in 1..Count, i <= j
  PROVE  /\ Rows(g)[i] \in Nat /\ Rows(g)[j] \in Nat /\ Rows(g)[i] <= Rows(g)[j]
         /\ Rows(g)[i] = Rows(g)[j] <=> \A k \in (i + 1)..j : g[k].breaks = 0
<1> DEFINE A(k) == {l \in 2..k : g[l].breaks > 0}
<1>1. Count \in Nat /\ Rows(g)[i] = Cardinality(A(i)) /\ Rows(g)[j] = Cardinality(A(j))
      /\ Rows(g)[i] \in Nat /\ Rows(g)[j] \in Nat
  BY Parsed, RowsTyped
<1>2. A(i) \subseteq A(j)
  BY <1>1
<1>3. IsFiniteSet(A(j))
  <2>1. IsFiniteSet(2..j)
    BY <1>1, FS_Interval
  <2> QED BY <2>1, FS_Subset
<1>4. Cardinality(A(i)) <= Cardinality(A(j)) /\ (Cardinality(A(i)) = Cardinality(A(j)) => A(i) = A(j))
  <2> HIDE DEF A
  <2> QED BY <1>2, <1>3, FS_Subset
<1>5. A(i) = A(j) <=> \A k \in (i + 1)..j : g[k].breaks = 0
  <2>1. ASSUME A(i) = A(j), NEW k \in (i + 1)..j PROVE g[k].breaks = 0
    <3>1. g[k].breaks \in Nat /\ k \in 2..j /\ k \notin A(i)
      BY <1>1 DEF Layouts, Gap
    <3> QED BY <2>1, <3>1
  <2>2. ASSUME \A k \in (i + 1)..j : g[k].breaks = 0 PROVE A(j) \subseteq A(i)
    BY <1>1, <2>2
  <2> QED BY <1>2, <2>1, <2>2
<1> HIDE DEF A
<1> QED BY <1>1, <1>4, <1>5

LEMMA RowBegins ==
  ASSUME doc \in Documents, NEW g \in Layouts, NEW i \in 1..Count, NEW j \in 1..Count, FirstOnRow(g, j)
  PROVE  i < j <=> Rows(g)[i] < Rows(g)[j]
<1>1. Count \in Nat /\ Rows(g)[i] \in Nat /\ Rows(g)[j] \in Nat
  BY Parsed, RowsTyped
<1>2. CASE i < j
  <2>1. g[j].breaks > 0 /\ j \in (i + 1)..j /\ g[j].breaks \in Nat
    BY <1>1, <1>2 DEF FirstOnRow, Layouts, Gap
  <2>2. Rows(g)[i] <= Rows(g)[j]
    BY <1>2, SameRow
  <2>3. Rows(g)[i] # Rows(g)[j]
    <3>1. ~\A k \in (i + 1)..j : g[k].breaks = 0
      BY <2>1
    <3> QED BY <1>2, <3>1, SameRow
  <2> QED BY <1>1, <1>2, <2>2, <2>3
<1>3. CASE j <= i
  <2>1. Rows(g)[j] <= Rows(g)[i]
    BY <1>3, SameRow
  <2> QED BY <1>1, <1>3, <2>1
<1> QED BY <1>1, <1>2, <1>3

\* Every token has one on its row that begins it.
LEMMA RowLead ==
  ASSUME doc \in Documents, NEW g \in Layouts, NEW i \in 1..Count
  PROVE  \E y \in 1..i : /\ FirstOnRow(g, y) /\ Rows(g)[y] = Rows(g)[i]
                         /\ \A k \in (y + 1)..i : g[k].breaks = 0
<1> DEFINE T == {y \in 1..i : FirstOnRow(g, y)}
<1>1. Count \in Nat /\ 1 \in T
  BY Parsed DEF FirstOnRow
<1>2. PICK y \in T : \A k \in T : k <= y
  <2>1. T \subseteq 0..i /\ T # {} /\ i \in Nat
    BY <1>1
  <2> HIDE DEF T
  <2> QED BY <2>1, GreatestNumber
<1>3. \A k \in (y + 1)..i : g[k].breaks = 0
  <2>1. ASSUME NEW k \in (y + 1)..i PROVE g[k].breaks = 0
    <3>1. k \in 1..i /\ k \notin T /\ g[k].breaks \in Nat
      BY <1>1, <1>2 DEF Layouts, Gap
    <3> QED BY <3>1 DEF FirstOnRow
  <2> QED BY <2>1
<1>4. Rows(g)[y] = Rows(g)[i]
  BY <1>1, <1>3, SameRow
<1> QED BY <1>2, <1>3, <1>4

\* The columns of a row are added up from its beginning.
LEMMA ColumnsUnfold ==
  ASSUME doc \in Documents, NEW g \in Layouts
  PROVE  /\ Columns(g) \in [1..Count -> Nat]
         /\ \A i \in 1..Count : Columns(g)[i] =
              IF FirstOnRow(g, i) THEN g[i].blanks
              ELSE Columns(g)[i - 1] + Token(i - 1).width + g[i].blanks
<1> DEFINE step(f, i) == IF FirstOnRow(g, i) THEN g[i].blanks
                         ELSE f[i - 1] + Token(i - 1).width + g[i].blanks
           upTo(k, f) == f = [j \in 1..k |-> step(f, j)]
           P == {k \in 0..Count : \E f : upTo(k, f)}
<1>1. Count \in Nat /\ \A i \in 1..Count : g[i].blanks \in Nat /\ Token(i).width \in Nat
  BY Parsed DEF Layouts, Gap
<1>2. Count \in P
  <2>1. 0 \in P
    <3> DEFINE f == [j \in 1..0 |-> 0]
    <3>1. f = [j \in 1..0 |-> step(f, j)]
      OBVIOUS
    <3>2. 0 \in 0..Count /\ upTo(0, f)
      BY <1>1, <3>1
    <3> HIDE DEF upTo, f
    <3> QED BY <3>2
  <2>2. ASSUME NEW m \in 1..Count, m \notin P, m - 1 \in P PROVE FALSE
    <3>1. PICK f : upTo(m - 1, f)
      BY <2>2
    <3>2. \A j \in 1..(m - 1) : f[j] = step(f, j)
      BY <3>1
    <3> DEFINE h == [j \in 1..m |-> IF j = m THEN step(f, j) ELSE f[j]]
    <3>3. ASSUME NEW j \in 1..m PROVE h[j] = step(h, j)
      <4>1. h[j] = step(f, j)
        <5>1. CASE j = m
          BY <5>1
        <5>2. CASE j # m
          <6>1. j \in 1..(m - 1)
            BY <5>2
          <6> QED BY <3>2, <5>2, <6>1
        <5> QED BY <5>1, <5>2
      <4>2. ~FirstOnRow(g, j) => h[j - 1] = f[j - 1]
        BY DEF FirstOnRow
      <4> HIDE DEF h
      <4> QED BY <4>1, <4>2
    <3>4. h = [j \in 1..m |-> h[j]]
      OBVIOUS
    <3> HIDE DEF step, h
    <3>5. h = [j \in 1..m |-> step(h, j)]
      BY <3>3, <3>4
    <3>6. upTo(m, h) /\ m \in 0..Count
      BY <3>5, <2>2
    <3> QED BY <2>2, <3>6
  <2> HIDE DEF P
  <2> QED BY <1>1, <2>1, <2>2, FirstFailure
<1> DEFINE column == CHOOSE f : f = [j \in 1..Count |-> step(f, j)]
<1>3. column = [j \in 1..Count |-> step(column, j)]
  <2>1. \E f : f = [j \in 1..Count |-> step(f, j)]
    BY <1>2
  <2> HIDE DEF step
  <2> QED BY <2>1
<1>4. Columns(g) = Settled(column)
  BY DEF Columns
<1> HIDE DEF column
<1>5. \A j \in 1..Count : column[j] = step(column, j)
  BY <1>3
<1>6. \A j \in 1..Count : column[j] \in Nat
  <2> DEFINE Q == {k \in 0..Count : \A j \in 1..k : column[j] \in Nat}
  <2>1. 0 \in Q
    BY <1>1
  <2>2. ASSUME NEW m \in 1..Count, m \notin Q, m - 1 \in Q PROVE FALSE
    <3>1. CASE FirstOnRow(g, m)
      <4>1. column[m] \in Nat
        BY <1>1, <1>5, <3>1
      <4> QED BY <2>2, <4>1
    <3>2. CASE ~FirstOnRow(g, m)
      <4>1. m # 1 /\ m - 1 \in 1..Count /\ m - 1 \in 1..(m - 1)
        BY <1>1, <3>2 DEF FirstOnRow
      <4>2. column[m] = column[m - 1] + Token(m - 1).width + g[m].blanks
        BY <1>5, <3>2
      <4>3. column[m - 1] \in Nat /\ Token(m - 1).width \in Nat /\ g[m].blanks \in Nat
        BY <1>1, <2>2, <4>1
      <4>4. column[m] \in Nat
        BY <4>2, <4>3
      <4> QED BY <2>2, <4>4
    <3> QED BY <3>1, <3>2
  <2>3. Count \in Q
    <3> HIDE DEF Q
    <3> QED BY <1>1, <2>1, <2>2, FirstFailure
  <2> QED BY <2>3
<1>7. column \in [1..Count -> Nat]
  BY <1>3, <1>6
<1>8. Columns(g) = column
  BY <1>1, <1>4, <1>7, SettledIs
<1> QED BY <1>5, <1>7, <1>8

\* On one row columns grow, and by what is on the row.
LEMMA ColumnsShift ==
  ASSUME doc \in Documents, NEW g \in Layouts, NEW h \in Layouts,
         NEW i \in 1..Count, NEW j \in 1..Count, i <= j,
         \A k \in (i + 1)..j : g[k] = h[k] /\ g[k].breaks = 0
  PROVE  /\ Columns(h)[j] - Columns(h)[i] = Columns(g)[j] - Columns(g)[i]
         /\ Columns(g)[i] <= Columns(g)[j]
<1> DEFINE c == Columns(g)
           d == Columns(h)
           P == {k \in 0..(j - i) : d[i + k] - d[i] = c[i + k] - c[i] /\ c[i] <= c[i + k]}
<1>1. Count \in Nat /\ c \in [1..Count -> Nat] /\ d \in [1..Count -> Nat]
      /\ \A k \in 1..Count : Token(k).width \in Nat /\ g[k].blanks \in Nat
  BY Parsed, ColumnsUnfold DEF Layouts, Gap
<1>2. ASSUME NEW k \in (i + 1)..j
      PROVE  /\ c[k] = c[k - 1] + Token(k - 1).width + g[k].blanks
             /\ d[k] = d[k - 1] + Token(k - 1).width + g[k].blanks
  <2>1. k \in 1..Count /\ k # 1 /\ ~FirstOnRow(g, k) /\ ~FirstOnRow(h, k)
    BY <1>1, <1>2 DEF FirstOnRow
  <2> QED BY <1>2, <2>1, ColumnsUnfold
<1> HIDE DEF c, d
<1>3. 0 \in P
  BY <1>1
<1>4. ASSUME NEW m \in 1..(j - i), m \notin P, m - 1 \in P PROVE FALSE
  <2>1. i + m \in (i + 1)..j /\ (i + m) - 1 = i + (m - 1) /\ i + m \in 1..Count /\ i + (m - 1) \in 1..Count
    BY <1>1
  <2>2. /\ c[i + m] = c[i + (m - 1)] + Token(i + (m - 1)).width + g[i + m].blanks
        /\ d[i + m] = d[i + (m - 1)] + Token(i + (m - 1)).width + g[i + m].blanks
    BY <1>2, <2>1
  <2>3. /\ c[i + (m - 1)] \in Nat /\ d[i + (m - 1)] \in Nat /\ c[i] \in Nat /\ d[i] \in Nat
        /\ Token(i + (m - 1)).width \in Nat /\ g[i + m].blanks \in Nat
    BY <1>1, <2>1
  <2>4. d[i + (m - 1)] - d[i] = c[i + (m - 1)] - c[i] /\ c[i] <= c[i + (m - 1)]
    BY <1>4
  <2>5. d[i + m] - d[i] = c[i + m] - c[i] /\ c[i] <= c[i + m]
    BY <2>2, <2>3, <2>4
  <2> QED BY <1>4, <2>5
<1>5. j - i \in P
  <2>1. j - i \in Nat
    BY <1>1
  <2> HIDE DEF P
  <2> QED BY <1>3, <1>4, <2>1, FirstFailure
<1>6. i + (j - i) = j
  BY <1>1
<1> QED BY <1>5, <1>6 DEF c, d

\* What comes later on a row ends later.
LEMMA EndsGrow ==
  ASSUME doc \in Documents, NEW g \in Layouts, NEW i \in 1..Count, NEW j \in 1..Count, i <= j,
         Rows(g)[i] = Rows(g)[j]
  PROVE  EndOf(Columns(g), i) <= EndOf(Columns(g), j)
<1>1. /\ Count \in Nat /\ \A k \in (i + 1)..j : g[k].breaks = 0
      /\ Columns(g)[i] \in Nat /\ Columns(g)[j] \in Nat
      /\ Token(i).width \in Nat /\ Token(j).width \in Nat
  BY Parsed, ColumnsUnfold, SameRow
<1>2. CASE i = j
  BY <1>1, <1>2 DEF EndOf
<1>3. CASE i < j
  <2>1. i + 1 \in 1..Count /\ i + 1 <= j /\ ~FirstOnRow(g, i + 1) /\ (i + 1) - 1 = i
        /\ \A l \in ((i + 1) + 1)..j : g[l].breaks = 0
    BY <1>1, <1>3 DEF FirstOnRow
  <2>2. Columns(g)[i + 1] = Columns(g)[i] + Token(i).width + g[i + 1].blanks
        /\ g[i + 1].blanks \in Nat
    BY <2>1, ColumnsUnfold DEF Layouts, Gap
  <2>3. Columns(g)[i + 1] <= Columns(g)[j]
    BY <2>1, ColumnsShift
  <2> QED BY <1>1, <2>2, <2>3 DEF EndOf
<1> QED BY <1>1, <1>2, <1>3

-----------------------------------------------------------------------------
(* Wrapping comes to an end. *)

\* What edits that do not meet do to the gaps: a gap without one stays, and one
\* with a line break among its edits breaks.
LEMMA ApplyIs ==
  ASSUME doc \in Documents, NEW g \in Layouts, NEW es, IsFiniteSet(es), ~Overlap(g, es),
         NEW i \in 1..Count
  PROVE  /\ (\A e \in es : e.at # i) => Apply(g, es)[i] = g[i]
         /\ (\E e \in es : e.at = i /\ e.breaks = 1) => Apply(g, es)[i].breaks > 0
<1> DEFINE here(k) == {e \in es : e.at = k}
           new(k) == IF here(k) = {} THEN g[k]
                     ELSE [breaks |-> Cardinality({e \in here(k) : e.breaks = 1}),
                           blanks |-> Cardinality({e \in here(k) : e.blanks = 1})]
           h == [k \in DOMAIN g |-> new(k)]
<1>1. Count \in Nat /\ DOMAIN g = 1..Count
  BY Parsed DEF Layouts
<1>2. h \in [1..Count -> {new(k) : k \in 1..Count}]
  BY <1>1
<1>3. Apply(g, es) = h
  <2>1. Settled(h) = h
    BY <1>1, <1>2, SettledIs
  <2> QED BY <2>1 DEF Apply
<1>4. h[i] = new(i)
  BY <1>1
<1>5. (\A e \in es : e.at # i) => here(i) = {}
  OBVIOUS
<1>6. ASSUME \E e \in es : e.at = i /\ e.breaks = 1 PROVE new(i).breaks > 0
  <2> DEFINE B == {e \in here(i) : e.breaks = 1}
             L == {e \in here(i) : e.blanks = 1}
  <2>1. B # {} /\ here(i) # {}
    BY <1>6
  <2>2. B \subseteq es
    OBVIOUS
  <2>3. new(i) = [breaks |-> Cardinality(B), blanks |-> Cardinality(L)]
    BY <2>1
  <2> HIDE DEF B, L, new
  <2>4. Cardinality(B) > 0
    BY <2>1, <2>2, FS_Subset, Counted
  <2> QED BY <2>3, <2>4
<1>7. here(i) = {} => new(i) = g[i]
  OBVIOUS
<1> HIDE DEF here, new, h
<1> QED BY <1>3, <1>4, <1>5, <1>6, <1>7

BreaksOf(g) == {i \in 2..Count : g[i].breaks > 0}

LEMMA BreaksFinite ==
  ASSUME doc \in Documents, NEW g
  PROVE  /\ IsFiniteSet(BreaksOf(g)) /\ Cardinality(BreaksOf(g)) \in Nat
         /\ Count # 0 => Cardinality(BreaksOf(g)) < Count
<1>1. Count \in Nat /\ IsFiniteSet(2..Count) /\ BreaksOf(g) \subseteq 2..Count
      /\ (Count # 0 => Cardinality(2..Count) = Count - 1)
  <2>1. Count \in Nat /\ 2 \in Int /\ Count \in Int
    BY Parsed
  <2>2. IsFiniteSet(2..Count) /\ Cardinality(2..Count) = IF 2 > Count THEN 0 ELSE Count - 2 + 1
    BY <2>1, FS_Interval
  <2>3. Count # 0 => Cardinality(2..Count) = Count - 1
    BY <2>1, <2>2
  <2> QED BY <2>1, <2>2, <2>3 DEF BreaksOf
<1>2. /\ IsFiniteSet(BreaksOf(g)) /\ Cardinality(BreaksOf(g)) <= Cardinality(2..Count)
      /\ Cardinality(BreaksOf(g)) \in Nat
  BY <1>1, FS_Subset, Counted
<1> QED BY <1>1, <1>2

\* A round that finds a line to wrap breaks one more line, and joins none.
LEMMA RoundBreaks ==
  ASSUME doc \in Documents, options \in Options, NEW g, LaidOut(g), WrapEdits(g) # {}
  PROVE  Cardinality(BreaksOf(g)) < Cardinality(BreaksOf(Wrapped(g)))
<1> DEFINE es == WrapEdits(g)
           h == Apply(g, es)
<1>1. g \in Layouts /\ Sound(es) /\ LaidOut(h)
  BY WrapSound, ApplyLaidOut DEF LaidOut
<1>2. ASSUME NEW row \in WideRows(g)
      PROVE  /\ Break(Place(g, row)) \in es
             /\ Place(g, row) \in 2..Count /\ g[Place(g, row)].breaks = 0
             /\ Rows(g)[Place(g, row)] = row
             /\ Break(Place(g, row)).at = Place(g, row) /\ Break(Place(g, row)).breaks = 1
  <2>1. Place(g, row) \in Breakable(g, row) /\ Place(g, row) \in 2..Count
    BY PlaceIs DEF WideRows
  <2>2. g[Place(g, row)].breaks = 0 /\ Rows(g)[Place(g, row)] = row
    BY <2>1 DEF Breakable, MayBreakBefore, SameLine, RowTokens
  <2> QED BY <2>1, <2>2, WrapEditsAre DEF Break, Edit
<1>3. \A e \in es : \E row \in WideRows(g) : e = Break(Place(g, row))
  BY WrapEditsAre
<1> HIDE DEF es
<1>4. ~Overlap(g, es)
  <2>1. ASSUME NEW e \in es, NEW other \in es, e.at = other.at PROVE e = other
    <3>1. PICK row \in WideRows(g) : e = Break(Place(g, row))
      BY <1>3
    <3>2. PICK low \in WideRows(g) : other = Break(Place(g, low))
      BY <1>3
    <3>3. row = low
      BY <1>2, <2>1, <3>1, <3>2
    <3> QED BY <3>1, <3>2, <3>3
  <2> QED BY <2>1 DEF Overlap
<1>5. IsFiniteSet(es)
  BY <1>1 DEF Sound
<1>6. BreaksOf(g) \subseteq BreaksOf(h)
  <2>1. ASSUME NEW i \in BreaksOf(g) PROVE i \in BreaksOf(h)
    <3>1. i \in 2..Count /\ i \in 1..Count /\ g[i].breaks > 0
      BY Parsed DEF BreaksOf
    <3>2. \A e \in es : e.at # i
      BY <1>2, <1>3, <3>1
    <3>3. h[i] = g[i]
      BY <1>1, <1>4, <1>5, <3>1, <3>2, ApplyIs
    <3> QED BY <3>1, <3>3 DEF BreaksOf
  <2> QED BY <2>1
<1>7. PICK row \in WideRows(g) : TRUE
  BY <1>3 DEF es
<1>8. Place(g, row) \in BreaksOf(h) /\ Place(g, row) \notin BreaksOf(g)
  <2>1. Place(g, row) \in 1..Count
    BY <1>2, Parsed
  <2>2. h[Place(g, row)].breaks > 0
    BY <1>1, <1>2, <1>4, <1>5, <2>1, ApplyIs
  <2> QED BY <1>2, <2>2 DEF BreaksOf
<1>9. BreaksOf(Reindent(h)) = BreaksOf(h)
  <2>1. \A i \in 1..Count : Reindent(h)[i].breaks = h[i].breaks
    BY <1>1, ReindentLaidOut
  <2> QED BY <2>1, Parsed DEF BreaksOf
<1>10. Wrapped(g) = Reindent(h)
  BY DEF Wrapped, es
<1> HIDE DEF h
<1>11. Cardinality(BreaksOf(g)) < Cardinality(BreaksOf(h))
  <2>1. /\ Cardinality(BreaksOf(g)) <= Cardinality(BreaksOf(h))
        /\ Cardinality(BreaksOf(g)) = Cardinality(BreaksOf(h)) => BreaksOf(g) = BreaksOf(h)
    BY <1>6, BreaksFinite, FS_Subset
  <2> QED BY <1>8, <2>1, BreaksFinite
<1> QED BY <1>9, <1>10, <1>11

\* Wrapping ends with no line that is too wide and could be broken.
LEMMA WrapSettles ==
  ASSUME doc \in Documents, options \in Options, NEW g, LaidOut(g)
  PROVE  WideRows(WrapLongLines(g)) = {}
<1>1. PICK after : /\ after[0] = g /\ WrapLongLines(g) = after[Count]
                   /\ \A k \in 1..Count : after[k] = Wrapped(after[k - 1])
  BY WrapRounds
<1> DEFINE size(k) == Cardinality(BreaksOf(after[k]))
           done(k) == LaidOut(after[k]) /\ (WrapEdits(after[k]) = {} \/ k <= size(k))
           P == {k \in 0..Count : done(k)}
<1>2. Count \in Nat
  BY Parsed
<1>3. 0 \in P
  <2>1. size(0) \in Nat
    BY BreaksFinite
  <2> QED BY <1>1, <1>2, <2>1
<1>4. ASSUME NEW m \in 1..Count, m \notin P, m - 1 \in P PROVE FALSE
  <2>1. LaidOut(after[m - 1]) /\ after[m] = Wrapped(after[m - 1])
        /\ (WrapEdits(after[m - 1]) = {} \/ m - 1 <= size(m - 1))
    BY <1>1, <1>4
  <2>2. LaidOut(after[m])
    BY <2>1, WrapSound, ApplyLaidOut, ReindentLaidOut DEF Wrapped
  <2>3. CASE WrapEdits(after[m - 1]) = {}
    <3>1. after[m] = after[m - 1]
      BY <2>1, <2>3 DEF Wrapped
    <3>2. done(m)
      BY <2>2, <2>3, <3>1
    <3> HIDE DEF done
    <3> QED BY <1>4, <3>2
  <2>4. CASE WrapEdits(after[m - 1]) # {}
    <3>1. size(m - 1) < size(m)
      BY <2>1, <2>4, RoundBreaks
    <3>2. size(m - 1) \in Nat /\ size(m) \in Nat
      BY BreaksFinite
    <3> HIDE DEF size
    <3>3. m <= size(m)
      BY <2>1, <2>4, <3>1, <3>2
    <3>4. done(m)
      BY <2>2, <3>3
    <3> HIDE DEF done
    <3> QED BY <1>4, <3>4
  <2> QED BY <2>3, <2>4
<1>5. Count \in P
  <2> HIDE DEF P
  <2> QED BY <1>2, <1>3, <1>4, FirstFailure
<1>6. WrapEdits(after[Count]) = {}
  <2>1. CASE Count = 0
    <3>1. WideRows(after[Count]) = {}
      BY <2>1 DEF WideRows, Breakable, RowTokens
    <3> QED BY <3>1, WrapEditsAre
  <2>2. CASE Count # 0
    <3>1. size(Count) < Count /\ size(Count) \in Nat
      BY <2>2, BreaksFinite
    <3> HIDE DEF size
    <3> QED BY <1>2, <1>5, <3>1
  <2> QED BY <2>1, <2>2
<1>7. WideRows(after[Count]) = {}
  BY <1>6, WrapEditsAre
<1> QED BY <1>1, <1>7

-----------------------------------------------------------------------------
(* Closers on lines of their own. *)

\* The delimited nodes whose closer gets a line of its own.
Splits(g) == {n \in Delimited : /\ Rows(g)[n.first] < Rows(g)[n.last]
                                /\ FirstOnRow(g, n.first + 1)
                                /\ SameLine(g, n.last)}

LEMMA ClosersAre ==
  ASSUME doc \in Documents, NEW g, LaidOut(g), NEW i \in 1..Count
  PROVE  /\ (\A n \in Splits(g) : n.last # i) => SeparateClosers(g)[i] = g[i]
         /\ (\E n \in Splits(g) : n.last = i) => SeparateClosers(g)[i].breaks > 0 /\ g[i].breaks = 0
<1> DEFINE es == {Break(n.last) : n \in Splits(g)}
           f == [n \in Splits(g) |-> Break(n.last)]
<1>1. g \in Layouts /\ SeparateClosers(g) = Apply(g, es)
  BY DEF LaidOut, SeparateClosers, Splits
<1>2. IsFiniteSet(es)
  <2>1. IsFiniteSet(Splits(g))
    BY NodesFinite, FS_Subset DEF Splits, Delimited
  <2>2. f \in [Splits(g) -> es] /\ \A e \in es : \E n \in Splits(g) : f[n] = e
    BY Zenon
  <2> HIDE DEF es, f
  <2> QED BY <2>1, <2>2, FiniteValues
<1>3. ~Overlap(g, es)
  BY DEF Overlap, Break, Edit
<1>4. ASSUME \A n \in Splits(g) : n.last # i PROVE Apply(g, es)[i] = g[i]
  <2>1. \A e \in es : e.at # i
    BY <1>4 DEF Break, Edit
  <2> HIDE DEF es
  <2> QED BY <1>1, <1>2, <1>3, <2>1, ApplyIs
<1>5. ASSUME \E n \in Splits(g) : n.last = i PROVE Apply(g, es)[i].breaks > 0 /\ g[i].breaks = 0
  <2>1. \E e \in es : e.at = i /\ e.breaks = 1
    <3>1. PICK n \in Splits(g) : n.last = i
      BY <1>5
    <3>2. Break(n.last) \in es /\ Break(n.last).at = i /\ Break(n.last).breaks = 1
      BY <3>1 DEF Break, Edit
    <3> HIDE DEF es
    <3> QED BY <3>2
  <2>2. g[i].breaks = 0
    BY <1>5 DEF Splits, SameLine
  <2> HIDE DEF es
  <2> QED BY <1>1, <1>2, <1>3, <2>1, <2>2, ApplyIs
<1> QED BY <1>1, <1>4, <1>5

\* The delimiters a token is between, and the rows that those begin on.
Around(x) == {n \in Delimited : n.first < x /\ x <= n.last}
ClosesAt(x) == {n \in Delimited : n.last = x}
OpenRows(g, x) == {Rows(g)[n.first] : n \in Around(x)}

LEMMA OpenRowsFinite ==
  ASSUME doc \in Documents, NEW g, NEW x
  PROVE  IsFiniteSet(OpenRows(g, x)) /\ Cardinality(OpenRows(g, x)) \in Nat
<1> DEFINE f == [n \in Around(x) |-> Rows(g)[n.first]]
<1>1. IsFiniteSet(Around(x))
  BY NodesFinite, FS_Subset DEF Around, Delimited
<1>2. f \in [Around(x) -> OpenRows(g, x)] /\ \A t \in OpenRows(g, x) : \E n \in Around(x) : f[n] = t
  BY Zenon DEF OpenRows
<1> HIDE DEF f
<1>3. IsFiniteSet(OpenRows(g, x))
  BY <1>1, <1>2, FiniteValues
<1> QED BY <1>3, Counted

\* At the beginning of a row.
LEMMA BracketDepthIs ==
  ASSUME doc \in Documents, NEW g \in Layouts, NEW x \in 1..Count, FirstOnRow(g, x)
  PROVE  BracketDepth(Rows(g), g, x) = Cardinality(OpenRows(g, x)) - Cardinality(ClosesAt(x))
<1> DEFINE r == Rows(g)
           over == {n \in Delimited : r[n.first] < r[x] /\ r[x] <= r[n.last]}
           open == {r[n.first] : n \in over}
           closed == {n \in Delimited : n.last = x /\ r[n.first] < r[x]}
<1>1. ASSUME NEW n \in Delimited
      PROVE  /\ n.first \in 1..Count /\ n.last \in 1..Count /\ n.first < n.last
             /\ n.first < x <=> r[n.first] < r[x]
             /\ x <= n.last <=> r[x] <= r[n.last]
  <2>1. n.first \in 1..Count /\ n.last \in 1..Count /\ n.first < n.last /\ Count \in Nat
    BY Parsed
  <2>2. r[x] \in Nat /\ r[n.last] \in Nat
    BY <2>1, RowsTyped
  <2>3. /\ n.first < x <=> r[n.first] < r[x]
        /\ n.last < x <=> r[n.last] < r[x]
    BY <2>1, RowBegins
  <2> HIDE DEF r
  <2> QED BY <2>1, <2>2, <2>3
<1> HIDE DEF r
<1>2. over = Around(x)
  BY <1>1 DEF Around
<1>3. closed = ClosesAt(x)
  BY <1>1 DEF ClosesAt
<1>4. open = OpenRows(g, x)
  BY <1>2 DEF OpenRows, r
<1>5. BracketDepth(r, g, x) = Cardinality(open) - Cardinality(closed)
  BY DEF BracketDepth
<1> HIDE DEF open, closed, over
<1> QED BY <1>3, <1>4, <1>5 DEF r

\* Delimiters that begin on one row and are open at a token still begin on one row
\* when closers have been separated: a closer between them would close neither, and
\* the one it closes would straddle the first.
LEMMA StillOneRow ==
  ASSUME doc \in Documents, NEW g, LaidOut(g), NEW x \in 1..Count, NEW n \in Around(x), NEW m \in Around(x),
         Rows(g)[n.first] = Rows(g)[m.first]
  PROVE  Rows(SeparateClosers(g))[n.first] = Rows(SeparateClosers(g))[m.first]
<1>1. ASSUME NEW a \in Around(x), NEW b \in Around(x), a.first <= b.first,
             Rows(g)[a.first] = Rows(g)[b.first]
      PROVE  Rows(SeparateClosers(g))[a.first] = Rows(SeparateClosers(g))[b.first]
  <2>0. /\ a \in Delimited /\ a \in doc.nodes /\ b \in Delimited
        /\ a.first \in 1..Count /\ a.last \in 1..Count /\ b.first \in 1..Count /\ b.last \in 1..Count
        /\ b.first < x /\ x <= a.last /\ Count \in Nat
    BY Parsed DEF Around
  <2>1. g \in Layouts /\ SeparateClosers(g) \in Layouts
    BY ClosersLaidOut DEF LaidOut
  <2>2. \A k \in (a.first + 1)..b.first : g[k].breaks = 0
    BY <1>1, <2>0, <2>1, SameRow
  <2>3. ASSUME NEW k \in (a.first + 1)..b.first PROVE SeparateClosers(g)[k].breaks = 0
    <3>1. k \in 1..Count
      BY <2>0
    <3>2. ASSUME NEW p \in Splits(g), p.last = k PROVE FALSE
      <4>1. /\ p \in Delimited /\ p \in doc.nodes /\ p.first \in 1..Count /\ p.last \in 1..Count
            /\ Rows(g)[p.first] < Rows(g)[p.last]
        BY Parsed DEF Splits
      <4>2. Rows(g)[a.first] = Rows(g)[k]
        <5>1. a.first <= k /\ \A l \in (a.first + 1)..k : g[l].breaks = 0
          BY <2>0, <2>2
        <5> QED BY <2>0, <2>1, <3>1, <5>1, SameRow
      <4>3. p.first < a.first
        <5>1. a.first <= p.first => Rows(g)[a.first] <= Rows(g)[p.first]
          BY <2>0, <2>1, <4>1, SameRow
        <5>2. Rows(g)[a.first] \in Nat /\ Rows(g)[p.first] \in Nat
          BY <2>0, <2>1, <4>1, RowsTyped
        <5> QED BY <2>0, <3>2, <4>1, <4>2, <5>1, <5>2
      <4>4. a.first < p.last /\ p.last < a.last
        BY <2>0, <3>2, Parsed DEF Around
      <4>5. p = a \/ Inside(p, a) \/ Inside(a, p) \/ p.last < a.first \/ a.last < p.first
        BY <2>0, <4>1, Parsed
      <4> QED BY <2>0, <4>1, <4>3, <4>4, <4>5 DEF Inside
    <3>3. SeparateClosers(g)[k] = g[k]
      BY <3>1, <3>2, ClosersAre
    <3> QED BY <2>2, <3>3
  <2> QED BY <1>1, <2>0, <2>1, <2>3, SameRow
<1>2. n.first <= m.first \/ m.first <= n.first
  BY Parsed DEF Around
<1> QED BY <1>1, <1>2

LEMMA OpenRowsShrink ==
  ASSUME doc \in Documents, NEW g, LaidOut(g), NEW x \in 1..Count, NEW y, Around(x) \subseteq Around(y)
  PROVE  Cardinality(OpenRows(SeparateClosers(g), x)) <= Cardinality(OpenRows(g, y))
<1> DEFINE r == Rows(g)
           s == Rows(SeparateClosers(g))
           A == {r[n.first] : n \in Around(x)}
           moved(row) == CHOOSE t : \E n \in Around(x) : r[n.first] = row /\ s[n.first] = t
           f == [row \in A |-> moved(row)]
           B == OpenRows(SeparateClosers(g), x)
<1>1. A \subseteq OpenRows(g, y)
  BY DEF OpenRows
<1>2. IsFiniteSet(A) /\ Cardinality(A) <= Cardinality(OpenRows(g, y))
  <2> HIDE DEF A
  <2> QED BY <1>1, OpenRowsFinite, FS_Subset
<1>3. \A n, m \in Around(x) : r[n.first] = r[m.first] => s[n.first] = s[m.first]
  BY StillOneRow
<1>4. ASSUME NEW n \in Around(x) PROVE moved(r[n.first]) = s[n.first]
  <2> HIDE DEF r, s
  <2> QED BY <1>3
<1>5. \A row \in A : \E n \in Around(x) : row = r[n.first]
  OBVIOUS
<1>6. B = {s[n.first] : n \in Around(x)}
  BY DEF OpenRows
<1> HIDE DEF moved, r, s
<1>7. f \in [A -> B]
  <2>1. \A row \in A : moved(row) \in B
    BY <1>4, <1>5, <1>6
  <2> QED BY <2>1
<1>8. \A t \in B : \E row \in A : f[row] = t
  <2>1. ASSUME NEW t \in B PROVE \E row \in A : f[row] = t
    <3>1. PICK n \in Around(x) : t = s[n.first]
      BY <1>6
    <3>2. r[n.first] \in A
      OBVIOUS
    <3>3. f[r[n.first]] = t
      BY <1>4, <3>1, <3>2
    <3> QED BY <3>2, <3>3
  <2> QED BY <2>1
<1> HIDE DEF A, f
<1>9. Cardinality(B) <= Cardinality(A)
  <2>1. f \in Surjection(A, B)
    BY <1>7, <1>8 DEF Surjection
  <2> QED BY <1>2, <2>1, FS_Surjection
<1>10. Cardinality(B) \in Nat /\ Cardinality(A) \in Nat /\ Cardinality(OpenRows(g, y)) \in Nat
  BY <1>2, OpenRowsFinite, Counted
<1> QED BY <1>2, <1>9, <1>10

\* A closer is no operand, no body and no clause: its line is not indented further.
LEMMA CloserContinuesNothing ==
  ASSUME doc \in Documents, NEW g, NEW q \in Delimited, NEW c
  PROVE  ~Continues(g, q.last, c)
<1> DEFINE x == q.last
<1>0. /\ q \in doc.nodes /\ q.first \in Nat /\ x \in Nat /\ q.first < x
      /\ Kind(q.first) = "open" /\ Kind(x) = "close"
      /\ \A m \in doc.nodes : Inside(m, q) => q.first < m.first /\ m.last < x
  BY Parsed
<1>1. ASSUME NEW n \in doc.nodes, n.op = x - 1, n.first < n.op, n.op < n.last,
             \A m \in doc.nodes : Inside(m, n) => m.last < n.op \/ n.op < m.first,
             Kind(n.op) # "open", n # q
      PROVE  FALSE
  <2>1. n.first \in Nat /\ n.last \in Nat /\ n.op \in Nat
    BY <1>1, Parsed
  <2>2. n.op # q.first
    BY <1>0, <1>1
  <2>3. n = q \/ Inside(n, q) \/ Inside(q, n) \/ n.last < q.first \/ q.last < n.first
    BY <1>0, <1>1, Parsed
  <2>4. ~Inside(n, q) /\ ~(n.last < q.first) /\ ~(q.last < n.first)
    BY <1>0, <1>1, <2>1
  <2>5. ~Inside(q, n)
    <3>1. Inside(q, n) => q.last < n.op \/ n.op < q.first
      BY <1>0, <1>1
    <3> QED BY <1>0, <1>1, <2>1, <3>1
  <2> QED BY <1>1, <2>3, <2>4, <2>5
<1>2. ~\E n \in Nodes({"binary", "lambda"}) :
         /\ n.op = x - 1 /\ LineFinal(n.op, c)
         /\ ~(n.kind = "binary" /\ Kind(n.op) = "assign" /\ Is({"if"}, x, n.last))
  <2>1. ASSUME NEW n \in Nodes({"binary", "lambda"}), n.op = x - 1, LineFinal(n.op, c) PROVE FALSE
    <3>1. WellFormed(doc) /\ n \in doc.nodes /\ n.kind \in {"binary", "lambda"}
      BY LayoutAssumption DEF Nodes
    <3>2. n.first < n.op /\ n.op < n.last
      BY <3>1 DEF WellFormed
    <3>3. \A m \in doc.nodes : Inside(m, n) => m.last < n.op \/ n.op < m.first
      BY <3>1 DEF WellFormed
    <3>4. Kind(n.op) # "open"
      BY <2>1 DEF LineFinal
    <3>5. n # q
      BY <3>1 DEF Delimited, Nodes
    <3> QED BY <1>1, <2>1, <3>1, <3>2, <3>3, <3>4, <3>5
  <2> QED BY <2>1
<1>3. ~\E n \in Nodes({"then", "else", "body"}) : n.first = x - 1
  <2>1. ASSUME NEW n \in Nodes({"then", "else", "body"}), n.first = x - 1 PROVE FALSE
    <3>1. n \in Nodes({"then", "else", "except", "body"})
      BY DEF Nodes
    <3>2. n \in doc.nodes /\ Kind(n.first) = "keyword" /\ n.first < n.last
      BY <3>1, ClauseKeywords
    <3>3. n.first \in Nat /\ n.last \in Nat /\ n # q /\ n.first # q.first
      BY <1>0, <3>2, Parsed
    <3>4. n = q \/ Inside(n, q) \/ Inside(q, n) \/ n.last < q.first \/ q.last < n.first
      BY <1>0, <3>2, Parsed
    <3>5. ~Inside(n, q)
      BY <1>0, <2>1, <3>2, <3>3
    <3>6. ~Inside(q, n)
      BY <1>0, <2>1, <3>3 DEF Inside
    <3> QED BY <1>0, <2>1, <3>2, <3>3, <3>4, <3>5, <3>6
  <2> QED BY <2>1
<1>4. ~\E n \in Nodes({"except", "body"}) : n.op # 0 /\ n.op = x - 1
  <2>1. ASSUME NEW n \in Nodes({"except", "body"}), n.op # 0, n.op = x - 1 PROVE FALSE
    <3>1. n \in Nodes({"then", "else", "except", "body"})
      BY DEF Nodes
    <3>2. n \in doc.nodes /\ Kind(n.op) = "keyword" /\ n.first < n.op /\ n.op < n.last
      BY <2>1, <3>1, ClauseKeywords
    <3>3. WellFormed(doc) /\ n.kind \in {"except", "body"}
      BY LayoutAssumption DEF Nodes
    <3>4. \A m \in doc.nodes : Inside(m, n) => m.last < n.op \/ n.op < m.first
      BY <3>2, <3>3 DEF WellFormed
    <3>5. n # q
      BY <3>3 DEF Delimited, Nodes
    <3> QED BY <1>1, <2>1, <3>2, <3>4, <3>5
  <2> QED BY <2>1
<1>5. ~\E n \in Nodes({"then", "else"}) : n.first = x
  <2>1. \A n \in Nodes({"then", "else"}) : Kind(n.first) = "keyword"
    BY ClauseKeywords DEF Nodes
  <2> QED BY <1>0, <2>1
<1> HIDE DEF x
<1>6. ~Continues(g, x, c)
  BY <1>2, <1>3, <1>4, <1>5 DEF Continues
<1> QED BY <1>6 DEF x

\* What a line continues depends only on where control statements begin.
LEMMA ContinuesSame ==
  ASSUME doc \in Documents, NEW g, NEW h, NEW i, NEW c,
         \A n \in Nodes({"if", "try"}) : g[n.first].breaks = h[n.first].breaks
  PROVE  Continues(g, i, c) <=> Continues(h, i, c)
<1>1. ASSUME NEW n \in Nodes({"then", "else"})
      PROVE  Nearest(Ancestors(n) \cap Nodes({"if", "try"})) \in Nodes({"if", "try"})
  <2>1. n \in Nodes({"then", "else", "except"})
    BY DEF Nodes
  <2>2. PICK o \in Nodes({"if", "try"}) : /\ o \in Ancestors(n)
                                          /\ \A m \in Ancestors(n) : m = o \/ Inside(o, m)
    BY <2>1, ClauseOwned
  <2> DEFINE above == Ancestors(n) \cap Nodes({"if", "try"})
  <2>3. above \subseteq doc.nodes /\ o \in above /\ \A m \in above : o = m \/ Inside(o, m)
    BY <2>2 DEF Nodes
  <2>4. Nearest(above) = o
    <3> HIDE DEF above
    <3> QED BY <2>3, NearestIs
  <2> QED BY <2>4
<1>2. \A n \in Nodes({"if", "try"}) : /\ BeginsItsLine(g, n) <=> BeginsItsLine(h, n)
                                      /\ IsElseIf(g, n) <=> IsElseIf(h, n)
  BY DEF BeginsItsLine, FirstOnRow, IsElseIf
<1> DEFINE dangling(l) ==
             \E n \in Nodes({"then", "else"}) :
               /\ n.first = i
               /\ LET owner == Nearest(Ancestors(n) \cap Nodes({"if", "try"}))
                  IN  ~BeginsItsLine(l, owner) /\ ~IsElseIf(l, owner)
<1>3. dangling(g) <=> dangling(h)
  BY <1>1, <1>2
<1>4. \A l : Continues(l, i, c) <=>
        \/ \E n \in Nodes({"binary", "lambda"}) :
             /\ n.op = i - 1 /\ LineFinal(n.op, c)
             /\ ~(n.kind = "binary" /\ Kind(n.op) = "assign" /\ Is({"if"}, i, n.last))
        \/ \E n \in Nodes({"then", "else", "body"}) : n.first = i - 1
        \/ \E n \in Nodes({"except", "body"}) : n.op # 0 /\ n.op = i - 1
        \/ dangling(l)
  BY Zenon DEF Continues
<1> HIDE DEF dangling
<1> QED BY <1>3, <1>4

\* Separating closers indents no line further than the line its beginning was on.
LEMMA DepthShrinks ==
  ASSUME doc \in Documents, NEW g, LaidOut(g), NEW x \in 1..Count, NEW y \in 1..Count, NEW c,
         FirstOnRow(SeparateClosers(g), x), FirstOnRow(g, y), y <= x, Rows(g)[y] = Rows(g)[x]
  PROVE  Depth(Rows(SeparateClosers(g)), SeparateClosers(g), x, c) <= Depth(Rows(g), g, y, c)
<1> DEFINE s == SeparateClosers(g)
           more(l, i) == IF Continues(l, i, c) THEN 1 ELSE 0
<1>1. g \in Layouts /\ s \in Layouts /\ Count \in Nat
  BY ClosersLaidOut, Parsed DEF LaidOut
<1>2. /\ Depth(Rows(s), s, x, c) = (Cardinality(OpenRows(s, x)) - Cardinality(ClosesAt(x))) + more(s, x)
      /\ Depth(Rows(g), g, y, c) = (Cardinality(OpenRows(g, y)) - Cardinality(ClosesAt(y))) + more(g, y)
  BY <1>1, BracketDepthIs DEF Depth
<1>3. Cardinality(OpenRows(s, x)) \in Nat /\ Cardinality(OpenRows(g, y)) \in Nat
  BY OpenRowsFinite
<1>4. \A i : IsFiniteSet(ClosesAt(i)) /\ Cardinality(ClosesAt(i)) \in Nat /\ Cardinality(ClosesAt(i)) <= 1
             /\ (ClosesAt(i) # {} => Cardinality(ClosesAt(i)) = 1)
  <2>1. ASSUME NEW i PROVE ClosesAt(i) = {} \/ \E n : ClosesAt(i) = {n}
    BY Parsed DEF ClosesAt
  <2>2. ASSUME NEW i
        PROVE  /\ IsFiniteSet(ClosesAt(i)) /\ Cardinality(ClosesAt(i)) \in Nat
               /\ Cardinality(ClosesAt(i)) <= 1
               /\ ClosesAt(i) # {} => Cardinality(ClosesAt(i)) = 1
    <3>1. CASE ClosesAt(i) = {}
      BY <3>1, FS_EmptySet
    <3>2. CASE \E n : ClosesAt(i) = {n}
      <4>1. PICK n : ClosesAt(i) = {n}
        BY <3>2
      <4>2. IsFiniteSet({n}) /\ Cardinality({n}) = 1
        BY FS_Singleton
      <4>3. IsFiniteSet(ClosesAt(i)) /\ Cardinality(ClosesAt(i)) = 1
        BY <4>1, <4>2
      <4> QED BY <4>3
    <3> QED BY <2>1, <3>1, <3>2
  <2> QED BY <2>2
<1>5. CASE x = y
  <2>1. Cardinality(OpenRows(s, x)) <= Cardinality(OpenRows(g, y))
    BY <1>5, OpenRowsShrink
  <2>2. Continues(s, x, c) <=> Continues(g, y, c)
    <3>1. \A n \in Nodes({"if", "try"}) : s[n.first].breaks = g[n.first].breaks
      <4>1. ASSUME NEW n \in Nodes({"if", "try"}) PROVE s[n.first] = g[n.first]
        <5>1. n \in doc.nodes /\ Kind(n.first) = "keyword"
          BY LayoutAssumption DEF Nodes, WellFormed, Kind, Token
        <5>2. n.first \in 1..Count
          BY <5>1, Parsed
        <5>3. \A p \in Splits(g) : p.last # n.first
          BY <5>1, Parsed DEF Splits
        <5> QED BY <5>2, <5>3, ClosersAre
      <4> QED BY <4>1
    <3> HIDE DEF s
    <3> QED BY <1>5, <3>1, ContinuesSame
  <2>3. Cardinality(ClosesAt(x)) = Cardinality(ClosesAt(y)) /\ more(s, x) = more(g, y)
    BY <1>5, <2>2
  <2>4. more(g, y) \in Nat /\ Cardinality(ClosesAt(y)) \in Nat
    BY <1>4
  <2>5. Depth(Rows(s), s, x, c) <= Depth(Rows(g), g, y, c)
    <3> HIDE DEF s, more
    <3> QED BY <1>2, <1>3, <2>1, <2>3, <2>4
  <2> QED BY <2>5
<1>6. CASE x # y
  <2>1. g[x].breaks = 0
    BY <1>1, <1>6, SameRow
  <2>2. PICK q \in Splits(g) : q.last = x
    <3>1. s[x].breaks > 0 /\ s[x] # g[x]
      BY <1>6, <2>1 DEF FirstOnRow
    <3> QED BY <3>1, ClosersAre
  <2>3. /\ q \in Delimited /\ q \in doc.nodes /\ q.first \in 1..Count /\ q.last \in 1..Count
        /\ Rows(g)[q.first] < Rows(g)[q.last]
    BY <2>2, Parsed DEF Splits
  <2>4. q.first < y
    BY <1>1, <2>2, <2>3, RowBegins
  <2>5. Around(x) \subseteq Around(y)
    <3>1. ASSUME NEW n \in Around(x) PROVE n \in Around(y)
      <4>1. /\ n \in Delimited /\ n \in doc.nodes /\ n.first \in Nat /\ n.last \in Nat
            /\ n.first < x /\ x <= n.last
        BY Parsed DEF Around
      <4>2. n = q \/ Inside(n, q) \/ Inside(q, n) \/ n.last < q.first \/ q.last < n.first
        BY <2>3, <4>1, Parsed
      <4>3. Inside(n, q) => n.last < q.last
        BY <2>3, <4>1, Parsed
      <4>4. n.first <= q.first
        BY <1>1, <2>2, <2>3, <4>1, <4>2, <4>3 DEF Inside
      <4>5. n.first < y /\ y <= n.last
        BY <1>1, <2>3, <2>4, <4>1, <4>4
      <4> QED BY <4>1, <4>5 DEF Around
    <3> QED BY <3>1
  <2>6. Cardinality(OpenRows(s, x)) <= Cardinality(OpenRows(g, y))
    BY <2>5, OpenRowsShrink
  <2>7. Cardinality(ClosesAt(x)) = 1
    <3>1. q \in ClosesAt(x)
      BY <2>2, <2>3 DEF ClosesAt
    <3> QED BY <1>4, <3>1
  <2>8. more(s, x) = 0
    BY <2>2, <2>3, CloserContinuesNothing
  <2>9. Cardinality(ClosesAt(y)) \in Nat /\ Cardinality(ClosesAt(y)) <= 1 /\ more(g, y) \in Nat
    BY <1>4
  <2>10. Depth(Rows(s), s, x, c) <= Depth(Rows(g), g, y, c)
    <3> HIDE DEF s, more
    <3> QED BY <1>2, <1>3, <2>6, <2>7, <2>8, <2>9
  <2> QED BY <2>10
<1> QED BY <1>5, <1>6

-----------------------------------------------------------------------------
(* The formatted text fits where it can. *)

Fits(g) ==
  LET r == Rows(g)
      column == Columns(g)
  IN  \A row \in 0..r[Count] :
        TooWide(r, column, row) => \A i \in RowTokens(r, row) : ~MayBreakBefore(g, i)

\* Every line begins where the tree has it begin.
Indented(g) ==
  \A i \in 1..Count : FirstOnRow(g, i) =>
    g[i].blanks = options.indent * Depth(Rows(g), g, i, options.compact_factors)

LEMMA RowsSame ==
  ASSUME doc \in Documents, NEW g \in Layouts, NEW h \in Layouts,
         \A i \in 1..Count : g[i].breaks = h[i].breaks
  PROVE  Rows(g) = Rows(h)
<1>1. \A i \in 1..Count : {j \in 2..i : g[j].breaks > 0} = {j \in 2..i : h[j].breaks > 0}
  BY Parsed
<1>2. \A i \in 1..Count : Rows(g)[i] = Rows(h)[i]
  BY <1>1, RowsTyped
<1> QED BY <1>2, RowsTyped

LEMMA ReindentIndents ==
  ASSUME doc \in Documents, options \in Options, NEW g, LaidOut(g)
  PROVE  Indented(Reindent(g)) /\ Rows(Reindent(g)) = Rows(g)
<1> DEFINE h == Reindent(g)
           c == options.compact_factors
<1>1. g \in Layouts /\ h \in Layouts
  BY ReindentLaidOut DEF LaidOut
<1>2. \A i \in 1..Count : h[i].breaks = g[i].breaks
  BY ReindentLaidOut
<1>3. Rows(h) = Rows(g)
  BY <1>1, <1>2, RowsSame
<1>4. \A n \in Nodes({"if", "try"}) : g[n.first].breaks = h[n.first].breaks
  BY <1>2, Parsed DEF Nodes
<1>5. ASSUME NEW i \in 1..Count, FirstOnRow(h, i)
      PROVE  h[i].blanks = options.indent * Depth(Rows(h), h, i, c)
  <2>1. FirstOnRow(g, i)
    BY <1>2, <1>5 DEF FirstOnRow
  <2>2. h[i].blanks = options.indent * Depth(Rows(g), g, i, c)
    BY <2>1, ReindentLaidOut
  <2>3. Continues(h, i, c) <=> Continues(g, i, c)
    <3> HIDE DEF h
    <3> QED BY <1>4, ContinuesSame
  <2>4. BracketDepth(Rows(g), h, i) = BracketDepth(Rows(g), g, i)
    BY DEF BracketDepth
  <2> HIDE DEF h
  <2>5. Depth(Rows(h), h, i, c) = Depth(Rows(g), g, i, c)
    BY <1>3, <2>3, <2>4 DEF Depth
  <2> QED BY <2>2, <2>5
<1> QED BY <1>3, <1>5 DEF Indented

LEMMA WrapIndents ==
  ASSUME doc \in Documents, options \in Options, NEW g, LaidOut(g), Indented(g)
  PROVE  Indented(WrapLongLines(g))
<1>1. PICK after : /\ after[0] = g /\ WrapLongLines(g) = after[Count]
                   /\ \A k \in 1..Count : after[k] = Wrapped(after[k - 1])
  BY WrapRounds
<1> DEFINE done(k) == LaidOut(after[k]) /\ Indented(after[k])
           P == {k \in 0..Count : done(k)}
<1>2. Count \in Nat
  BY Parsed
<1>3. 0 \in P
  BY <1>1, <1>2
<1>4. ASSUME NEW m \in 1..Count, m \notin P, m - 1 \in P PROVE FALSE
  <2>1. LaidOut(after[m - 1]) /\ Indented(after[m - 1]) /\ after[m] = Wrapped(after[m - 1])
    BY <1>1, <1>4
  <2>2. LaidOut(after[m]) /\ Indented(after[m])
    BY <2>1, WrapSound, ApplyLaidOut, ReindentLaidOut, ReindentIndents DEF Wrapped
  <2> QED BY <1>4, <2>2
<1>5. Count \in P
  <2> HIDE DEF P
  <2> QED BY <1>2, <1>3, <1>4, FirstFailure
<1> QED BY <1>1, <1>5

LEMMA ScaledLess ==
  ASSUME NEW a \in Nat, NEW b \in Nat, NEW k \in Nat, a <= b
  PROVE  k * a <= k * b /\ k * a \in Nat /\ k * b \in Nat
<1>1. k * a \in Nat /\ k * b \in Nat /\ k * (b - a) \in Nat
  OBVIOUS
<1>2. k * b = k * a + k * (b - a)
  OBVIOUS
<1> QED BY <1>1, <1>2

LEMMA ClosersFit ==
  ASSUME doc \in Documents, options \in Options, NEW g, LaidOut(g), Indented(g), WideRows(g) = {}
  PROVE  Fits(Reindent(SeparateClosers(g)))
<1> DEFINE s == SeparateClosers(g)
           h == Reindent(s)
           cf == options.compact_factors
<1>1. /\ Count \in Nat /\ g \in Layouts /\ s \in Layouts /\ h \in Layouts /\ LaidOut(s)
      /\ options.max \in Nat /\ options.indent \in Nat
  BY ClosersLaidOut, ReindentLaidOut, Parsed, LayoutAssumption DEF LaidOut
<1>2. \A k \in 1..Count : /\ h[k].breaks = s[k].breaks
                          /\ h[k].blanks = IF FirstOnRow(s, k)
                                           THEN options.indent * Depth(Rows(s), s, k, cf)
                                           ELSE s[k].blanks
  BY <1>1, ReindentLaidOut
<1>3. Rows(h) = Rows(s)
  BY <1>1, ReindentIndents
<1>4. ASSUME NEW k \in 2..Count, h[k].breaks = 0 PROVE h[k] = g[k]
  <2>1. k \in 1..Count /\ s[k].breaks = 0 /\ ~FirstOnRow(s, k)
    BY <1>1, <1>2, <1>4 DEF FirstOnRow
  <2>2. s[k] = g[k]
    BY <2>1, ClosersAre
  <2>3. h[k].blanks = s[k].blanks /\ h[k].breaks = s[k].breaks
    BY <1>2, <2>1
  <2>4. h[k] \in Gap /\ s[k] \in Gap
    BY <1>1, <2>1 DEF Layouts
  <2> HIDE DEF s, h
  <2>5. h[k] = s[k]
    BY <2>3, <2>4 DEF Gap
  <2> QED BY <2>2, <2>5
<1> SUFFICES ASSUME NEW row \in 0..Rows(h)[Count], TooWide(Rows(h), Columns(h), row),
                    NEW i \in RowTokens(Rows(h), row), MayBreakBefore(h, i)
             PROVE  FALSE
  BY DEF Fits
<1> DEFINE e == Greatest(RowTokens(Rows(h), row))
<1>5. /\ e \in 1..Count /\ Rows(h)[e] = row /\ EndOf(Columns(h), e) > options.max
      /\ i \in 2..Count /\ Rows(h)[i] = row /\ i <= e /\ h[i].breaks = 0
  <2>1. RowTokens(Rows(h), row) \subseteq 0..Count /\ RowTokens(Rows(h), row) # {}
    BY <1>1 DEF RowTokens
  <2>2. e \in RowTokens(Rows(h), row) /\ \A k \in RowTokens(Rows(h), row) : k <= e
    BY <1>1, <2>1, GreatestIs
  <2> QED BY <2>2 DEF TooWide, RowTokens, MayBreakBefore, SameLine
<1> HIDE DEF e
<1>6. PICK x \in 1..e : /\ FirstOnRow(h, x) /\ Rows(h)[x] = Rows(h)[e]
                        /\ \A k \in (x + 1)..e : h[k].breaks = 0
  BY <1>1, <1>5, RowLead
<1>7. x \in 1..Count /\ \A k \in (x + 1)..e : h[k] = g[k] /\ h[k].breaks = 0
  BY <1>1, <1>4, <1>5, <1>6
<1>8. PICK y \in 1..x : /\ FirstOnRow(g, y) /\ Rows(g)[y] = Rows(g)[x]
                        /\ \A k \in (y + 1)..x : g[k].breaks = 0
  BY <1>1, <1>7, RowLead
<1>9. x <= i
  <2>1. ~(i < x)
    <3>1. i < x => Rows(h)[i] < Rows(h)[x]
      BY <1>1, <1>5, <1>6, <1>7, RowBegins
    <3>2. Rows(h)[i] = Rows(h)[x] /\ Rows(h)[x] \in Nat
      BY <1>1, <1>5, <1>6, <1>7, RowsTyped
    <3> QED BY <3>1, <3>2
  <2> QED BY <1>1, <1>5, <1>7, <2>1
<1> HIDE DEF s, h
<1>10. Rows(g)[i] = Rows(g)[e]
  <2>1. i \in 1..Count /\ \A k \in (i + 1)..e : g[k].breaks = 0
    BY <1>1, <1>5, <1>7, <1>9
  <2> QED BY <1>1, <1>5, <2>1, SameRow
<1>11. MayBreakBefore(g, i)
  <2>1. g[i].breaks = 0
    BY <1>4, <1>5
  <2> QED BY <1>5, <2>1 DEF MayBreakBefore, SameLine
<1>12. EndOf(Columns(g), e) <= options.max
  <2> DEFINE low == Rows(g)[e]
             E == Greatest(RowTokens(Rows(g), low))
  <2>1. low \in 0..Rows(g)[Count]
    <3>1. Rows(g)[e] <= Rows(g)[Count] /\ Rows(g)[e] \in Nat /\ Rows(g)[Count] \in Nat
      BY <1>1, <1>5, SameRow
    <3> QED BY <3>1
  <2>2. i \in Breakable(g, low)
    BY <1>1, <1>5, <1>10, <1>11 DEF Breakable, RowTokens
  <2>3. ~TooWide(Rows(g), Columns(g), low)
    BY <2>1, <2>2 DEF WideRows
  <2>4. RowTokens(Rows(g), low) \subseteq 0..Count /\ e \in RowTokens(Rows(g), low)
    BY <1>1, <1>5 DEF RowTokens
  <2>5. E \in RowTokens(Rows(g), low) /\ e <= E
    BY <1>1, <2>4, GreatestIs
  <2>6. E \in 1..Count /\ Rows(g)[E] = Rows(g)[e]
    BY <2>5 DEF RowTokens
  <2>7. EndOf(Columns(g), e) <= EndOf(Columns(g), E)
    BY <1>1, <1>5, <2>5, <2>6, EndsGrow
  <2>8. ~(EndOf(Columns(g), E) > options.max)
    BY <2>3, <2>4 DEF TooWide
  <2>9. EndOf(Columns(g), E) \in Nat /\ EndOf(Columns(g), e) \in Nat
    <3>1. ASSUME NEW k \in 1..Count PROVE EndOf(Columns(g), k) \in Nat
      <4>1. Columns(g)[k] \in Nat /\ Token(k).width \in Nat
        BY <1>1, ColumnsUnfold, Parsed
      <4> QED BY <4>1 DEF EndOf
    <3> HIDE DEF E
    <3> QED BY <1>5, <2>6, <3>1
  <2> HIDE DEF E
  <2> QED BY <1>1, <2>7, <2>8, <2>9
<1>13. Columns(h)[x] <= Columns(g)[x]
  <2> DEFINE a == Depth(Rows(s), s, x, cf)
             b == Depth(Rows(g), g, y, cf)
  <2>1. y \in 1..Count /\ y <= x /\ FirstOnRow(s, x)
    BY <1>1, <1>2, <1>6, <1>7 DEF FirstOnRow
  <2>2. a <= b
    BY <1>7, <1>8, <2>1, DepthShrinks DEF s
  <2>3. a \in Nat /\ b \in Nat
    BY <1>1, <1>7, <2>1, RowsTyped, DepthIsNat
  <2>4. Columns(h)[x] = options.indent * a
    <3>1. Columns(h)[x] = h[x].blanks
      BY <1>1, <1>6, <1>7, ColumnsUnfold
    <3> QED BY <1>2, <1>7, <2>1, <3>1
  <2>5. Columns(g)[y] = options.indent * b
    <3>1. Columns(g)[y] = g[y].blanks
      BY <1>1, <1>8, <2>1, ColumnsUnfold
    <3> QED BY <1>8, <2>1, <3>1 DEF Indented
  <2>6. Columns(g)[y] <= Columns(g)[x]
    BY <1>1, <1>7, <1>8, <2>1, ColumnsShift
  <2>7. Columns(g)[x] \in Nat
    BY <1>1, <1>7, ColumnsUnfold
  <2> HIDE DEF a, b
  <2>8. options.indent * a <= options.indent * b /\ options.indent * a \in Nat /\ options.indent * b \in Nat
    BY <1>1, <2>2, <2>3, ScaledLess
  <2> QED BY <2>4, <2>5, <2>6, <2>7, <2>8
<1>14. Columns(h)[e] - Columns(h)[x] = Columns(g)[e] - Columns(g)[x]
  BY <1>1, <1>5, <1>7, ColumnsShift
<1>15. /\ Columns(h)[e] \in Nat /\ Columns(h)[x] \in Nat /\ Columns(g)[e] \in Nat /\ Columns(g)[x] \in Nat
       /\ Token(e).width \in Nat
  BY <1>1, <1>5, <1>7, ColumnsUnfold, Parsed
<1> QED BY <1>1, <1>5, <1>12, <1>13, <1>14, <1>15 DEF EndOf

LEMMA FormattedFits ==
  ASSUME doc \in Documents, options \in Options, NEW g, LaidOut(g)
  PROVE  Fits(Formatted(g))
<1> DEFINE flow == FormatControlFlow(InlineEmptyBodies(NormalizeWhitespace(g)))
           wrapped == WrapLongLines(Reindent(flow))
<1>1. LaidOut(flow)
  BY NormalizeLaidOut, InlineLaidOut, ControlFlowLaidOut
<1>2. LaidOut(Reindent(flow)) /\ Indented(Reindent(flow))
  BY <1>1, ReindentLaidOut, ReindentIndents
<1>3. LaidOut(wrapped) /\ Indented(wrapped) /\ WideRows(wrapped) = {}
  BY <1>2, WrapLaidOut, WrapIndents, WrapSettles
<1>4. Fits(Reindent(SeparateClosers(wrapped)))
  BY <1>3, ClosersFit
<1> QED BY <1>4 DEF Formatted

-----------------------------------------------------------------------------
(* Folds: any lines with their depths. *)

Line == [line : Nat, depth : Nat, closer : BOOLEAN]

\* Lines one below the other.
IsText(lines) ==
  /\ lines \in Seq(Line)
  /\ \A j, k \in 1..Len(lines) : j < k => lines[j].line < lines[k].line

\* The lines deeper lines come after; the first line after one that is not deeper,
\* and where the block between them ends.
Heads(lines) == {j \in 1..Len(lines) : j + 1 \in 1..Len(lines) /\ lines[j].depth < lines[j + 1].depth}
Out(lines, j) == {k \in 1..Len(lines) : k > j /\ lines[k].depth <= lines[j].depth}
NextOut(lines, j) == IF Out(lines, j) = {} THEN Len(lines) + 1 ELSE Least(Out(lines, j))
BlockEnd(lines, j) ==
  IF Out(lines, j) # {} /\ lines[NextOut(lines, j)].closer THEN NextOut(lines, j)
  ELSE NextOut(lines, j) - 1
Block(lines, j) == [start |-> lines[j].line, end |-> lines[BlockEnd(lines, j)].line]

LEMMA TextLines ==
  ASSUME NEW lines, IsText(lines)
  PROVE  /\ Len(lines) \in Nat
         /\ \A j \in 1..Len(lines) : lines[j] \in Line /\ lines[j].line \in Nat /\ lines[j].depth \in Nat
<1>1. lines \in Seq(Line) /\ Len(lines) \in Nat
  BY LenProperties DEF IsText
<1>2. \A j \in 1..Len(lines) : lines[j] \in Line
  BY <1>1, ElementOfSeq
<1> QED BY <1>1, <1>2 DEF Line

LEMMA NextOutIs ==
  ASSUME NEW lines, IsText(lines), NEW j \in 1..Len(lines)
  PROVE  /\ NextOut(lines, j) \in (j + 1)..(Len(lines) + 1)
         /\ NextOut(lines, j) = Len(lines) + 1 <=> Out(lines, j) = {}
         /\ NextOut(lines, j) # Len(lines) + 1 => lines[NextOut(lines, j)].depth <= lines[j].depth
         /\ \A k \in (j + 1)..Len(lines) : k < NextOut(lines, j) => lines[j].depth < lines[k].depth
<1>1. /\ Len(lines) \in Nat /\ \A k \in 1..Len(lines) : lines[k].depth \in Nat
  BY TextLines
<1>2. CASE Out(lines, j) = {}
  <2>1. NextOut(lines, j) = Len(lines) + 1
    BY <1>2 DEF NextOut
  <2>2. \A k \in (j + 1)..Len(lines) : lines[j].depth < lines[k].depth
    BY <1>1, <1>2 DEF Out
  <2> QED BY <1>1, <1>2, <2>1, <2>2
<1>3. CASE Out(lines, j) # {}
  <2>1. Out(lines, j) \subseteq Nat
    BY DEF Out
  <2>2. NextOut(lines, j) \in Out(lines, j) /\ \A k \in Out(lines, j) : NextOut(lines, j) <= k
    BY <1>3, <2>1, LeastIs DEF NextOut
  <2>3. /\ NextOut(lines, j) \in 1..Len(lines) /\ NextOut(lines, j) > j
        /\ lines[NextOut(lines, j)].depth <= lines[j].depth
    BY <2>2 DEF Out
  <2>4. ASSUME NEW k \in (j + 1)..Len(lines), k < NextOut(lines, j)
        PROVE  lines[j].depth < lines[k].depth
    <3>1. k \notin Out(lines, j) /\ k \in 1..Len(lines) /\ k > j
      BY <1>1, <2>2, <2>3, <2>4
    <3> QED BY <1>1, <3>1 DEF Out
  <2> QED BY <1>1, <1>3, <2>3, <2>4
<1> QED BY <1>2, <1>3

\* A block has at least the line after its head, and ends where or before the next
\* line that is not deeper stands.
LEMMA BlockEndIs ==
  ASSUME NEW lines, IsText(lines), NEW j \in Heads(lines)
  PROVE  /\ j \in 1..Len(lines) /\ BlockEnd(lines, j) \in (j + 1)..Len(lines)
         /\ NextOut(lines, j) - 1 <= BlockEnd(lines, j) /\ BlockEnd(lines, j) <= NextOut(lines, j)
         /\ NextOut(lines, j) \in (j + 2)..(Len(lines) + 1)
         /\ lines[j].line < lines[BlockEnd(lines, j)].line
<1>1. /\ j \in 1..Len(lines) /\ j + 1 \in 1..Len(lines) /\ lines[j].depth < lines[j + 1].depth
      /\ Len(lines) \in Nat /\ \A k \in 1..Len(lines) : lines[k].depth \in Nat
  BY TextLines DEF Heads
<1>2. /\ NextOut(lines, j) \in (j + 1)..(Len(lines) + 1)
      /\ NextOut(lines, j) = Len(lines) + 1 <=> Out(lines, j) = {}
      /\ NextOut(lines, j) # Len(lines) + 1 => lines[NextOut(lines, j)].depth <= lines[j].depth
  BY <1>1, NextOutIs
<1>3. NextOut(lines, j) # j + 1
  BY <1>1, <1>2
<1>4. /\ BlockEnd(lines, j) \in (j + 1)..Len(lines)
      /\ NextOut(lines, j) - 1 <= BlockEnd(lines, j) /\ BlockEnd(lines, j) <= NextOut(lines, j)
  <2>1. \/ Out(lines, j) # {} /\ BlockEnd(lines, j) = NextOut(lines, j)
        \/ BlockEnd(lines, j) = NextOut(lines, j) - 1
    BY ZenonT(20) DEF BlockEnd
  <2>2. Out(lines, j) # {} => NextOut(lines, j) # Len(lines) + 1
    BY <1>2, Zenon
  <2> QED BY <1>1, <1>2, <1>3, <2>1, <2>2, SMTT(30)
<1>5. lines[j].line < lines[BlockEnd(lines, j)].line
  BY <1>1, <1>4 DEF IsText
<1> QED BY <1>1, <1>2, <1>3, <1>4, <1>5

Closed(open, end) == UNION {Fold(o, end) : o \in open}

\* One line of collect_indent_fold_ranges.
FoldStep(lines, k, before) ==
  LET ended == {o \in before.open : o.depth >= lines[k].depth}
  IN  IF lines[k].depth > lines[k - 1].depth
      THEN [before EXCEPT !.open = @ \cup {lines[k - 1]}]
      ELSE IF lines[k].depth < lines[k - 1].depth
      THEN [open |-> before.open \ ended,
            ranges |-> before.ranges \cup Closed(ended, FoldEnd(lines[k - 1], lines[k]))]
      ELSE before

NoFolds == [open |-> {}, ranges |-> {}]

LEMMA FoldsUnfold ==
  ASSUME NEW lines, Len(lines) \in Nat
  PROVE  \E after : /\ after[0] = NoFolds /\ (Len(lines) > 0 => after[1] = NoFolds)
                    /\ \A k \in 2..Len(lines) : after[k] = FoldStep(lines, k, after[k - 1])
                    /\ Folds(lines) = after[Len(lines)].ranges
                         \cup Closed(after[Len(lines)].open, lines[Len(lines)])
<1> DEFINE N == Len(lines)
           step(f, k) == IF k <= 1 THEN NoFolds ELSE FoldStep(lines, k, f[k - 1])
           upTo(k, f) == f = [j \in 0..k |-> step(f, j)]
           P == {k \in 0..N : \E f : upTo(k, f)}
<1>1. N \in P
  <2>1. 0 \in P
    <3> DEFINE f == [j \in 0..0 |-> NoFolds]
    <3>1. f = [j \in 0..0 |-> step(f, j)]
      <4>1. \A j \in 0..0 : step(f, j) = NoFolds
        OBVIOUS
      <4> QED BY <4>1
    <3>2. 0 \in 0..N /\ upTo(0, f)
      BY <3>1
    <3> HIDE DEF upTo, f
    <3> QED BY <3>2
  <2>2. ASSUME NEW m \in 1..N, m \notin P, m - 1 \in P PROVE FALSE
    <3>1. PICK f : upTo(m - 1, f)
      BY <2>2
    <3>2. \A j \in 0..(m - 1) : f[j] = step(f, j)
      BY <3>1
    <3> DEFINE h == [j \in 0..m |-> IF j = m THEN step(f, j) ELSE f[j]]
    <3>3. ASSUME NEW j \in 0..m PROVE h[j] = step(h, j)
      <4>1. h[j] = step(f, j)
        <5>1. CASE j = m
          BY <5>1
        <5>2. CASE j # m
          <6>1. j \in 0..(m - 1)
            BY <5>2
          <6> QED BY <3>2, <5>2, <6>1
        <5> QED BY <5>1, <5>2
      <4>2. j > 1 => h[j - 1] = f[j - 1]
        OBVIOUS
      <4> HIDE DEF h
      <4> QED BY <4>1, <4>2
    <3>4. h = [j \in 0..m |-> h[j]]
      OBVIOUS
    <3> HIDE DEF step, h
    <3>5. h = [j \in 0..m |-> step(h, j)]
      BY <3>3, <3>4
    <3>6. upTo(m, h) /\ m \in 0..N
      BY <3>5, <2>2
    <3> QED BY <2>2, <3>6
  <2> HIDE DEF P
  <2> QED BY <2>1, <2>2, FirstFailure
<1> DEFINE after == CHOOSE f : f = [j \in 0..N |-> step(f, j)]
<1>2. after = [j \in 0..N |-> step(after, j)]
  <2>1. \E f : f = [j \in 0..N |-> step(f, j)]
    BY <1>1
  <2> HIDE DEF step
  <2> QED BY <2>1
<1>3. Folds(lines) = after[N].ranges \cup Closed(after[N].open, lines[N])
  BY DEF Folds, FoldStep, NoFolds, Closed
<1> HIDE DEF after
<1>4. \A j \in 0..N : after[j] = step(after, j)
  BY <1>2
<1>5. after[0] = NoFolds /\ (N > 0 => after[1] = NoFolds)
  BY <1>4
<1>6. \A k \in 2..N : after[k] = FoldStep(lines, k, after[k - 1])
  BY <1>4
<1> QED BY <1>3, <1>5, <1>6

\* What is open after a line, and the blocks that have ended by then.
OpenHeads(lines, k) == {j \in Heads(lines) : j < k /\ k < NextOut(lines, j)}
EndedHeads(lines, k) == {j \in Heads(lines) : NextOut(lines, j) <= k}
HeadLines(lines, heads) == {lines[j] : j \in heads}
Blocks(lines, heads) == {Block(lines, j) : j \in heads}
OpenAt(lines, k) == HeadLines(lines, OpenHeads(lines, k))
EndedAt(lines, k) == Blocks(lines, EndedHeads(lines, k))

\* A block ends at the first line that is less deep than the line before and not
\* deeper than its head.
LEMMA BlockPasses ==
  ASSUME NEW lines, IsText(lines), NEW k \in 2..Len(lines), NEW j \in Heads(lines),
         j < k, k - 1 < NextOut(lines, j)
  PROVE  /\ NextOut(lines, j) = k <=> lines[j].depth >= lines[k].depth
         /\ NextOut(lines, j) # k <=> k < NextOut(lines, j)
         /\ NextOut(lines, j) = k =>
              /\ lines[k].depth < lines[k - 1].depth
              /\ BlockEnd(lines, j) = IF lines[k].closer THEN k ELSE k - 1
<1>1. /\ Len(lines) \in Nat /\ \A i \in 1..Len(lines) : lines[i].depth \in Nat
  BY TextLines
<1>2. /\ j \in 1..Len(lines) /\ NextOut(lines, j) \in (j + 2)..(Len(lines) + 1)
  BY BlockEndIs
<1>3. /\ NextOut(lines, j) = Len(lines) + 1 <=> Out(lines, j) = {}
      /\ NextOut(lines, j) # Len(lines) + 1 => lines[NextOut(lines, j)].depth <= lines[j].depth
      /\ \A i \in (j + 1)..Len(lines) : i < NextOut(lines, j) => lines[j].depth < lines[i].depth
  BY <1>2, NextOutIs
<1>4. NextOut(lines, j) # k <=> k < NextOut(lines, j)
  BY <1>1, <1>2
<1>5. NextOut(lines, j) = k => lines[j].depth >= lines[k].depth
  BY <1>1, <1>2, <1>3
<1>6. k < NextOut(lines, j) => ~ (lines[j].depth >= lines[k].depth)
  <2>1. k \in (j + 1)..Len(lines)
    BY <1>1, <1>2
  <2> QED BY <1>1, <1>2, <1>3, <2>1
<1>7. ASSUME NextOut(lines, j) = k
      PROVE  /\ lines[k].depth < lines[k - 1].depth
             /\ BlockEnd(lines, j) = IF lines[k].closer THEN k ELSE k - 1
  <2>1. k - 1 \in (j + 1)..Len(lines) /\ k - 1 < NextOut(lines, j)
    BY <1>1, <1>2, <1>7
  <2>2. lines[j].depth < lines[k - 1].depth
    BY <1>3, <2>1
  <2>3. lines[k].depth < lines[k - 1].depth
    BY <1>1, <1>2, <1>5, <1>7, <2>1, <2>2, SMTT(30)
  <2>4. Out(lines, j) # {}
    BY <1>1, <1>3, <1>7
  <2>5. BlockEnd(lines, j) = IF lines[k].closer THEN k ELSE k - 1
    BY <1>7, <2>4, Zenon DEF BlockEnd
  <2> QED BY <2>3, <2>5
<1> QED BY <1>4, <1>5, <1>6, <1>7

LEMMA FoldStepUp ==
  ASSUME NEW lines, IsText(lines), NEW k \in 2..Len(lines), lines[k].depth > lines[k - 1].depth
  PROVE  /\ OpenAt(lines, k) = OpenAt(lines, k - 1) \cup {lines[k - 1]}
         /\ EndedAt(lines, k) = EndedAt(lines, k - 1)
<1>1. /\ Len(lines) \in Nat /\ \A i \in 1..Len(lines) : lines[i].depth \in Nat
  BY TextLines
<1>2. k - 1 \in Heads(lines)
  BY <1>1 DEF Heads
<1>3. \A j \in Heads(lines) : /\ j \in 1..Len(lines) /\ NextOut(lines, j) \in (j + 2)..(Len(lines) + 1)
  BY BlockEndIs
<1>4. \A j \in Heads(lines) : j < k /\ k - 1 < NextOut(lines, j) => k < NextOut(lines, j)
  <2> SUFFICES ASSUME NEW j \in Heads(lines), j < k, k - 1 < NextOut(lines, j)
               PROVE  k < NextOut(lines, j)
    OBVIOUS
  <2>1. NextOut(lines, j) = k => lines[k].depth < lines[k - 1].depth
    BY BlockPasses
  <2>2. NextOut(lines, j) # k
    BY <1>1, <2>1
  <2> QED BY <1>3, <2>2
<1>5. OpenHeads(lines, k) = OpenHeads(lines, k - 1) \cup {k - 1}
  BY <1>1, <1>2, <1>3, <1>4 DEF OpenHeads
<1>6. EndedHeads(lines, k) = EndedHeads(lines, k - 1)
  BY <1>1, <1>3, <1>4 DEF EndedHeads
<1> QED BY <1>5, <1>6 DEF OpenAt, EndedAt, HeadLines, Blocks

LEMMA FoldStepSame ==
  ASSUME NEW lines, IsText(lines), NEW k \in 2..Len(lines), lines[k].depth = lines[k - 1].depth
  PROVE  /\ OpenAt(lines, k) = OpenAt(lines, k - 1)
         /\ EndedAt(lines, k) = EndedAt(lines, k - 1)
<1>1. /\ Len(lines) \in Nat /\ \A i \in 1..Len(lines) : lines[i].depth \in Nat
  BY TextLines
<1>2. k - 1 \notin Heads(lines)
  BY <1>1 DEF Heads
<1>3. \A j \in Heads(lines) : /\ j \in 1..Len(lines) /\ NextOut(lines, j) \in (j + 2)..(Len(lines) + 1)
  BY BlockEndIs
<1>4. \A j \in Heads(lines) : j < k /\ k - 1 < NextOut(lines, j) => k < NextOut(lines, j)
  <2> SUFFICES ASSUME NEW j \in Heads(lines), j < k, k - 1 < NextOut(lines, j)
               PROVE  k < NextOut(lines, j)
    OBVIOUS
  <2>1. NextOut(lines, j) = k => lines[k].depth < lines[k - 1].depth
    BY BlockPasses
  <2>2. NextOut(lines, j) # k
    BY <1>1, <2>1
  <2> QED BY <1>3, <2>2
<1>5. OpenHeads(lines, k) = OpenHeads(lines, k - 1)
  BY <1>1, <1>2, <1>3, <1>4 DEF OpenHeads
<1>6. EndedHeads(lines, k) = EndedHeads(lines, k - 1)
  BY <1>1, <1>3, <1>4, SMTT(30) DEF EndedHeads
<1> QED BY <1>5, <1>6 DEF OpenAt, EndedAt, HeadLines, Blocks

LEMMA FoldsTogether ==
  ASSUME NEW lines, NEW E, NEW end, \A j \in E : Fold(lines[j], end) = {Block(lines, j)}
  PROVE  Closed(HeadLines(lines, E), end) = Blocks(lines, E)
<1>1. ASSUME NEW f, f \in Closed(HeadLines(lines, E), end) PROVE f \in Blocks(lines, E)
  <2>1. PICK o \in HeadLines(lines, E) : f \in Fold(o, end)
    BY <1>1 DEF Closed
  <2>2. PICK j \in E : o = lines[j]
    BY <2>1 DEF HeadLines
  <2>3. f = Block(lines, j)
    BY <2>1, <2>2
  <2> QED BY <2>3 DEF Blocks
<1>2. ASSUME NEW f, f \in Blocks(lines, E) PROVE f \in Closed(HeadLines(lines, E), end)
  <2>1. PICK j \in E : f = Block(lines, j)
    BY <1>2 DEF Blocks
  <2>2. f \in Fold(lines[j], end) /\ lines[j] \in HeadLines(lines, E)
    BY <2>1 DEF HeadLines
  <2> QED BY <2>2 DEF Closed
<1> QED BY <1>1, <1>2

LEMMA FoldStepDown ==
  ASSUME NEW lines, IsText(lines), NEW k \in 2..Len(lines), lines[k].depth < lines[k - 1].depth
  PROVE  LET ended == {o \in OpenAt(lines, k - 1) : o.depth >= lines[k].depth}
         IN  /\ OpenAt(lines, k) = OpenAt(lines, k - 1) \ ended
             /\ EndedAt(lines, k) = EndedAt(lines, k - 1)
                  \cup Closed(ended, FoldEnd(lines[k - 1], lines[k]))
<1> DEFINE E == {j \in OpenHeads(lines, k - 1) : lines[j].depth >= lines[k].depth}
           ended == {o \in OpenAt(lines, k - 1) : o.depth >= lines[k].depth}
           end == FoldEnd(lines[k - 1], lines[k])
<1>1. /\ Len(lines) \in Nat /\ \A i \in 1..Len(lines) : lines[i].depth \in Nat
  BY TextLines
<1>2. k - 1 \notin Heads(lines)
  BY <1>1 DEF Heads
<1>3. \A j \in Heads(lines) : /\ j \in 1..Len(lines) /\ NextOut(lines, j) \in (j + 2)..(Len(lines) + 1)
  BY BlockEndIs
<1>4. \A j \in Heads(lines) : j < k /\ k - 1 < NextOut(lines, j) =>
        /\ NextOut(lines, j) = k <=> lines[j].depth >= lines[k].depth
        /\ NextOut(lines, j) # k <=> k < NextOut(lines, j)
        /\ NextOut(lines, j) = k => BlockEnd(lines, j) = IF lines[k].closer THEN k ELSE k - 1
  BY BlockPasses
<1>5. OpenHeads(lines, k) = OpenHeads(lines, k - 1) \ E
  BY <1>1, <1>2, <1>3, <1>4 DEF OpenHeads
<1>6. EndedHeads(lines, k) = EndedHeads(lines, k - 1) \cup E
  BY <1>1, <1>2, <1>3, <1>4, SMTT(30) DEF OpenHeads, EndedHeads
<1>7. ended = HeadLines(lines, E)
  BY DEF OpenAt, HeadLines
<1>8. OpenAt(lines, k) = OpenAt(lines, k - 1) \ ended
  BY <1>5 DEF OpenAt, HeadLines
<1>9. \A j \in E : Fold(lines[j], end) = {Block(lines, j)}
  <2> SUFFICES ASSUME NEW j \in E PROVE Fold(lines[j], end) = {Block(lines, j)}
    OBVIOUS
  <2>1. j \in Heads(lines) /\ j < k /\ k - 1 < NextOut(lines, j) /\ lines[j].depth >= lines[k].depth
    BY <1>1, <1>3 DEF OpenHeads
  <2>2. BlockEnd(lines, j) = IF lines[k].closer THEN k ELSE k - 1
    BY <1>4, <2>1
  <2>3. end = lines[BlockEnd(lines, j)]
    BY <2>2 DEF FoldEnd
  <2>4. lines[j].line < lines[BlockEnd(lines, j)].line
    BY <2>1, BlockEndIs
  <2> QED BY <2>3, <2>4 DEF Fold, Block
<1> HIDE DEF end, E
<1>10. Closed(ended, end) = Blocks(lines, E)
  <2> HIDE DEF ended
  <2> QED BY <1>7, <1>9, FoldsTogether
<1> HIDE DEF ended
<1>11. EndedAt(lines, k) = EndedAt(lines, k - 1) \cup Closed(ended, end)
  BY <1>6, <1>10 DEF EndedAt, Blocks
<1> QED BY <1>8, <1>11 DEF end, ended

LEMMA FoldStepIs ==
  ASSUME NEW lines, IsText(lines), NEW k \in 2..Len(lines)
  PROVE  FoldStep(lines, k, [open |-> OpenAt(lines, k - 1), ranges |-> EndedAt(lines, k - 1)])
           = [open |-> OpenAt(lines, k), ranges |-> EndedAt(lines, k)]
<1>1. lines[k].depth \in Nat /\ lines[k - 1].depth \in Nat
  <2>1. k - 1 \in 1..Len(lines) /\ k \in 1..Len(lines)
    BY TextLines
  <2> QED BY <2>1, TextLines
<1>2. CASE lines[k].depth > lines[k - 1].depth
  BY <1>2, FoldStepUp DEF FoldStep
<1>3. CASE lines[k].depth = lines[k - 1].depth
  <2>1. ~ (lines[k].depth > lines[k - 1].depth) /\ ~ (lines[k].depth < lines[k - 1].depth)
    BY <1>1, <1>3
  <2> QED BY <1>3, <2>1, FoldStepSame DEF FoldStep
<1>4. CASE lines[k].depth < lines[k - 1].depth
  <2>1. ~ (lines[k].depth > lines[k - 1].depth)
    BY <1>1, <1>4
  <2> QED BY <1>4, <2>1, FoldStepDown DEF FoldStep
<1> QED BY <1>1, <1>2, <1>3, <1>4

\* The folds are the blocks of the lines that deeper lines come after.
LEMMA FoldsAre ==
  ASSUME NEW lines, IsText(lines)
  PROVE  \A f : f \in Folds(lines) <=> \E j \in Heads(lines) : f = Block(lines, j)
<1> DEFINE N == Len(lines)
<1>1. N \in Nat /\ \A i \in 1..N : lines[i].depth \in Nat
  BY TextLines
<1>2. PICK after : /\ after[0] = NoFolds /\ (N > 0 => after[1] = NoFolds)
                   /\ \A k \in 2..N : after[k] = FoldStep(lines, k, after[k - 1])
                   /\ Folds(lines) = after[N].ranges \cup Closed(after[N].open, lines[N])
  BY <1>1, FoldsUnfold
<1>3. \A j \in Heads(lines) : /\ j \in 1..N /\ j + 1 \in 1..N
                              /\ NextOut(lines, j) \in (j + 2)..(N + 1)
                              /\ lines[j].line < lines[BlockEnd(lines, j)].line
  BY BlockEndIs DEF Heads
<1>4. \A k \in 0..N : k <= 1 => OpenAt(lines, k) = {} /\ EndedAt(lines, k) = {}
  <2> SUFFICES ASSUME NEW k \in 0..N, k <= 1 PROVE OpenAt(lines, k) = {} /\ EndedAt(lines, k) = {}
    OBVIOUS
  <2>1. OpenHeads(lines, k) = {} /\ EndedHeads(lines, k) = {}
    BY <1>1, <1>3 DEF OpenHeads, EndedHeads
  <2> QED BY <2>1 DEF OpenAt, EndedAt, HeadLines, Blocks
<1> DEFINE P == {k \in 0..N : after[k] = [open |-> OpenAt(lines, k), ranges |-> EndedAt(lines, k)]}
<1>5. N \in P
  <2>1. 0 \in P
    <3>1. OpenAt(lines, 0) = {} /\ EndedAt(lines, 0) = {} /\ 0 \in 0..N
      BY <1>1, <1>4
    <3> QED BY <1>2, <3>1 DEF NoFolds
  <2>2. ASSUME NEW m \in 1..N, m \notin P, m - 1 \in P PROVE FALSE
    <3>1. CASE m = 1
      <4>1. OpenAt(lines, 1) = {} /\ EndedAt(lines, 1) = {} /\ N > 0 /\ 1 \in 0..N
        BY <1>1, <1>4, <3>1
      <4>2. after[1] = [open |-> OpenAt(lines, 1), ranges |-> EndedAt(lines, 1)]
        BY <1>2, <4>1, Zenon DEF NoFolds
      <4>3. 1 \in P
        BY <4>1, <4>2
      <4> QED BY <2>2, <3>1, <4>3, Zenon
    <3>2. CASE m # 1
      <4>1. m \in 2..N /\ after[m - 1] = [open |-> OpenAt(lines, m - 1), ranges |-> EndedAt(lines, m - 1)]
        BY <1>1, <2>2, <3>2
      <4>2. after[m] = FoldStep(lines, m, after[m - 1])
        BY <1>2, <4>1
      <4>3. after[m] = [open |-> OpenAt(lines, m), ranges |-> EndedAt(lines, m)]
        BY <4>1, <4>2, FoldStepIs
      <4> QED BY <2>2, <4>3
    <3> QED BY <3>1, <3>2
  <2> HIDE DEF P
  <2> QED BY <1>1, <2>1, <2>2, FirstFailure
<1>6. Folds(lines) = EndedAt(lines, N) \cup Closed(OpenAt(lines, N), lines[N])
  BY <1>2, <1>5
<1>7. \A j \in OpenHeads(lines, N) : Fold(lines[j], lines[N]) = {Block(lines, j)}
  <2> SUFFICES ASSUME NEW j \in OpenHeads(lines, N) PROVE Fold(lines[j], lines[N]) = {Block(lines, j)}
    OBVIOUS
  <2>1. j \in Heads(lines) /\ j \in 1..N /\ NextOut(lines, j) = N + 1
    BY <1>1, <1>3 DEF OpenHeads
  <2>2. Out(lines, j) = {}
    BY <2>1, NextOutIs
  <2>3. BlockEnd(lines, j) = N
    BY <1>1, <2>1, <2>2 DEF BlockEnd
  <2> QED BY <1>3, <2>1, <2>3 DEF Fold, Block
<1>8. Closed(OpenAt(lines, N), lines[N]) = Blocks(lines, OpenHeads(lines, N))
  BY <1>7, FoldsTogether DEF OpenAt
<1>9. Heads(lines) = EndedHeads(lines, N) \cup OpenHeads(lines, N)
  BY <1>1, <1>3 DEF EndedHeads, OpenHeads
<1> QED BY <1>6, <1>8, <1>9 DEF EndedAt, Blocks

\* Of two folds one lies in the other, or they lie one after the other.
LEMMA BlocksNest ==
  ASSUME NEW lines, IsText(lines), NEW i \in Heads(lines), NEW j \in Heads(lines), i < j
  PROVE  BlockEnd(lines, i) <= j \/ BlockEnd(lines, j) <= BlockEnd(lines, i)
<1>1. /\ Len(lines) \in Nat /\ \A k \in 1..Len(lines) : lines[k].depth \in Nat
  BY TextLines
<1>2. /\ i \in 1..Len(lines) /\ BlockEnd(lines, i) \in (i + 1)..Len(lines)
      /\ NextOut(lines, i) - 1 <= BlockEnd(lines, i) /\ BlockEnd(lines, i) <= NextOut(lines, i)
      /\ NextOut(lines, i) \in (i + 2)..(Len(lines) + 1)
  BY BlockEndIs
<1>3. /\ j \in 1..Len(lines) /\ BlockEnd(lines, j) \in (j + 1)..Len(lines)
      /\ NextOut(lines, j) - 1 <= BlockEnd(lines, j) /\ BlockEnd(lines, j) <= NextOut(lines, j)
      /\ NextOut(lines, j) \in (j + 2)..(Len(lines) + 1)
  BY BlockEndIs
<1>4. CASE NextOut(lines, i) <= j
  BY <1>1, <1>2, <1>3, <1>4
<1>5. CASE j < NextOut(lines, i)
  <2>1. lines[i].depth < lines[j].depth
    BY <1>1, <1>2, <1>3, <1>5, NextOutIs
  <2>2. /\ NextOut(lines, i) # Len(lines) + 1 => lines[NextOut(lines, i)].depth <= lines[i].depth
        /\ \A k \in (j + 1)..Len(lines) : k < NextOut(lines, j) => lines[j].depth < lines[k].depth
    BY <1>2, <1>3, NextOutIs
  <2>3. NextOut(lines, j) <= NextOut(lines, i)
    <3> SUFFICES ASSUME NextOut(lines, i) < NextOut(lines, j) PROVE FALSE
      BY <1>2, <1>3
    <3>1. NextOut(lines, i) \in (j + 1)..Len(lines)
      BY <1>1, <1>2, <1>3, <1>5
    <3>2. lines[NextOut(lines, i)].depth <= lines[i].depth /\ NextOut(lines, i) \in 1..Len(lines)
      BY <1>1, <1>2, <1>3, <2>2, <3>1
    <3>3. lines[j].depth < lines[NextOut(lines, i)].depth
      BY <2>2, <3>1
    <3>4. lines[i].depth \in Nat /\ lines[j].depth \in Nat /\ lines[NextOut(lines, i)].depth \in Nat
      BY <1>1, <1>2, <1>3, <3>2
    <3> QED BY <2>1, <3>2, <3>3, <3>4
  <2>4. CASE NextOut(lines, j) = NextOut(lines, i)
    <3>1. NextOut(lines, i) = Len(lines) + 1 <=> Out(lines, i) = {}
      BY <1>2, NextOutIs
    <3>2. NextOut(lines, j) = Len(lines) + 1 <=> Out(lines, j) = {}
      BY <1>3, NextOutIs
    <3>3. BlockEnd(lines, j) = BlockEnd(lines, i)
      BY <2>4, <3>1, <3>2, Zenon DEF BlockEnd
    <3> QED BY <1>2, <1>3, <3>3
  <2>5. CASE NextOut(lines, j) < NextOut(lines, i)
    BY <1>2, <1>3, <2>5
  <2> QED BY <1>2, <1>3, <2>3, <2>4, <2>5
<1> QED BY <1>1, <1>2, <1>3, <1>4, <1>5

AtRow(lines, row) == CHOOSE k \in DOMAIN lines : lines[k].line = row

LEMMA AtRowIs ==
  ASSUME NEW lines, IsText(lines), NEW k \in 1..Len(lines)
  PROVE  AtRow(lines, lines[k].line) = k
<1>1. /\ Len(lines) \in Nat /\ \A j \in 1..Len(lines) : lines[j].line \in Nat
      /\ DOMAIN lines = 1..Len(lines)
  BY TextLines, LenProperties DEF IsText
<1>2. \A j \in DOMAIN lines : lines[j].line = lines[k].line => j = k
  <2> SUFFICES ASSUME NEW j \in 1..Len(lines), lines[j].line = lines[k].line PROVE j = k
    BY <1>1
  <2>1. ~ (j < k) /\ ~ (k < j)
    BY <1>1 DEF IsText
  <2> QED BY <1>1, <2>1
<1>3. \E j \in DOMAIN lines : lines[j].line = lines[k].line
  BY <1>1
<1>4. AtRow(lines, lines[k].line) \in DOMAIN lines
      /\ lines[AtRow(lines, lines[k].line)].line = lines[k].line
  BY <1>3, Zenon DEF AtRow
<1> QED BY <1>2, <1>4

\* What FoldsAreBlocks says of the lines of a text.
EndsAt(lines, j) ==
  LET out == {k \in DOMAIN lines : k > j /\ lines[k].depth <= lines[j].depth}
      next == IF out = {} THEN Len(lines) + 1 ELSE Least(out)
  IN  IF out # {} /\ lines[next].closer THEN next ELSE next - 1

Blocky(lines) ==
  /\ \A f \in Folds(lines) : AtRow(lines, f.end) = EndsAt(lines, AtRow(lines, f.start))
  /\ \A f, h \in Folds(lines) : \/ f.end <= h.start \/ h.end <= f.start
                                \/ f.start <= h.start /\ h.end <= f.end
                                \/ h.start <= f.start /\ f.end <= h.end
  /\ \A k \in 2..Len(lines) : lines[k].depth > lines[k - 1].depth =>
       \E f \in Folds(lines) : f.start = lines[k - 1].line /\ lines[k].line <= f.end

LEMMA EndsAtBlockEnd ==
  ASSUME NEW lines, IsText(lines), NEW j
  PROVE  EndsAt(lines, j) = BlockEnd(lines, j)
<1>1. DOMAIN lines = 1..Len(lines)
  BY LenProperties DEF IsText
<1>2. {k \in DOMAIN lines : k > j /\ lines[k].depth <= lines[j].depth} = Out(lines, j)
  BY <1>1, Zenon DEF Out
<1> QED BY <1>2, Zenon DEF EndsAt, BlockEnd, NextOut

LEMMA TextIsBlocky ==
  ASSUME NEW lines, IsText(lines)
  PROVE  Blocky(lines)
<1>1. /\ Len(lines) \in Nat
      /\ \A k \in 1..Len(lines) : lines[k].line \in Nat /\ lines[k].depth \in Nat
      /\ \A j, k \in 1..Len(lines) : j < k => lines[j].line < lines[k].line
  BY TextLines DEF IsText
<1>2. \A f : f \in Folds(lines) <=> \E j \in Heads(lines) : f = Block(lines, j)
  BY FoldsAre
<1>3. \A j \in Heads(lines) : /\ j \in 1..Len(lines) /\ BlockEnd(lines, j) \in (j + 1)..Len(lines)
                              /\ BlockEnd(lines, j) \in 1..Len(lines)
                              /\ lines[j].line < lines[BlockEnd(lines, j)].line
  BY <1>1, BlockEndIs
<1>4. ASSUME NEW f \in Folds(lines)
      PROVE  AtRow(lines, f.end) = EndsAt(lines, AtRow(lines, f.start))
  <2>1. PICK j \in Heads(lines) : f = Block(lines, j)
    BY <1>2
  <2>2. f.start = lines[j].line /\ f.end = lines[BlockEnd(lines, j)].line
    BY <2>1 DEF Block
  <2>3. AtRow(lines, f.start) = j
    BY <1>3, <2>2, AtRowIs
  <2>4. AtRow(lines, f.end) = BlockEnd(lines, j)
    BY <1>3, <2>2, AtRowIs
  <2> QED BY <2>3, <2>4, EndsAtBlockEnd
<1>5. ASSUME NEW i \in Heads(lines), NEW j \in Heads(lines), i < j
      PROVE  \/ lines[BlockEnd(lines, i)].line <= lines[j].line
             \/ /\ lines[i].line <= lines[j].line
                /\ lines[BlockEnd(lines, j)].line <= lines[BlockEnd(lines, i)].line
  <2>1. BlockEnd(lines, i) <= j \/ BlockEnd(lines, j) <= BlockEnd(lines, i)
    BY <1>5, BlocksNest
  <2>2. \A x, y \in 1..Len(lines) : x <= y => lines[x].line <= lines[y].line
    BY <1>1
  <2>3. /\ BlockEnd(lines, i) \in 1..Len(lines) /\ BlockEnd(lines, j) \in 1..Len(lines)
        /\ i \in 1..Len(lines) /\ j \in 1..Len(lines) /\ i <= j
    BY <1>1, <1>3, <1>5
  <2> QED BY <2>1, <2>2, <2>3
<1>6. ASSUME NEW f \in Folds(lines), NEW h \in Folds(lines)
      PROVE  \/ f.end <= h.start \/ h.end <= f.start
             \/ f.start <= h.start /\ h.end <= f.end
             \/ h.start <= f.start /\ f.end <= h.end
  <2>1. PICK i \in Heads(lines) : f = Block(lines, i)
    BY <1>2
  <2>2. PICK j \in Heads(lines) : h = Block(lines, j)
    BY <1>2
  <2>3. /\ f.start = lines[i].line /\ f.end = lines[BlockEnd(lines, i)].line
        /\ h.start = lines[j].line /\ h.end = lines[BlockEnd(lines, j)].line
    BY <2>1, <2>2 DEF Block
  <2>4. CASE i = j
    BY <1>1, <1>3, <2>3, <2>4
  <2>5. CASE i < j
    BY <1>5, <2>3, <2>5
  <2>6. CASE j < i
    BY <1>5, <2>3, <2>6
  <2> QED BY <1>1, <1>3, <2>4, <2>5, <2>6
<1>7. ASSUME NEW k \in 2..Len(lines), lines[k].depth > lines[k - 1].depth
      PROVE  \E f \in Folds(lines) : f.start = lines[k - 1].line /\ lines[k].line <= f.end
  <2>1. k - 1 \in Heads(lines)
    BY <1>1, <1>7 DEF Heads
  <2>2. Block(lines, k - 1) \in Folds(lines)
    BY <1>2, <2>1
  <2>3. BlockEnd(lines, k - 1) \in k..Len(lines)
    BY <1>1, <1>3, <2>1
  <2>4. lines[k].line <= lines[BlockEnd(lines, k - 1)].line
    BY <1>1, <2>3
  <2> QED BY <2>2, <2>4 DEF Block
<1> QED BY <1>4, <1>6, <1>7 DEF Blocky

-----------------------------------------------------------------------------
(* Folds: the lines of a layout. *)

\* How many of some numbers are no greater than one.
Rank(S, i) == Cardinality({j \in S : j <= i})

\* Every rank is that of one of the numbers.
LEMMA RankTaken ==
  ASSUME NEW n \in Nat, NEW S, S \subseteq 1..n, NEW k \in 1..Cardinality(S)
  PROVE  \E i \in S : Rank(S, i) = k
<1> DEFINE upTo(i) == {j \in S : j <= i}
           P == {i \in 0..n : Rank(S, i) < k}
<1>0. \A j : j \in S => j \in Nat /\ 1 <= j /\ j <= n
  OBVIOUS
<1>1. IsFiniteSet(S) /\ Cardinality(S) \in Nat
  <2>1. IsFiniteSet(1..n)
    BY FS_Interval
  <2>2. IsFiniteSet(S)
    BY <2>1, FS_Subset
  <2> QED BY <2>2, FS_CardinalityType
<1>2. \A i \in 0..n : IsFiniteSet(upTo(i)) /\ Rank(S, i) \in Nat /\ Rank(S, i) = Cardinality(upTo(i))
  <2> SUFFICES ASSUME NEW i \in 0..n PROVE IsFiniteSet(upTo(i)) /\ Cardinality(upTo(i)) \in Nat
    BY DEF Rank
  <2>1. upTo(i) \subseteq S
    OBVIOUS
  <2>2. IsFiniteSet(upTo(i))
    BY <1>1, <2>1, FS_Subset
  <2> QED BY <2>2, FS_CardinalityType
<1>3. 0 \in P
  <2>1. upTo(0) = {}
    BY <1>0
  <2>2. Rank(S, 0) = 0
    BY <1>2, <2>1, FS_EmptySet
  <2> QED BY <2>2
<1>4. n \notin P
  <2>1. upTo(n) = S
    BY <1>0
  <2>2. Rank(S, n) = Cardinality(S)
    BY <1>2, <2>1
  <2> QED BY <1>1, <2>2
<1>5. PICK m \in 1..n : m \notin P /\ m - 1 \in P
  <2> HIDE DEF P
  <2> QED BY <1>3, <1>4, FirstFailure
<1>6. m \in 0..n /\ m - 1 \in 0..n /\ Rank(S, m - 1) < k /\ k <= Rank(S, m)
  <2>1. m \in 0..n /\ m - 1 \in 0..n
    OBVIOUS
  <2>2. Rank(S, m) \in Nat
    BY <1>2, <2>1
  <2>3. ~ (Rank(S, m) < k)
    BY <1>5, <2>1
  <2>4. k \in Nat
    BY <1>1
  <2> QED BY <1>5, <2>1, <2>2, <2>3, <2>4
<1>7. CASE m \in S
  <2>1. upTo(m) = upTo(m - 1) \cup {m} /\ m \notin upTo(m - 1)
    BY <1>0, <1>7
  <2> HIDE DEF upTo
  <2>2. Cardinality(upTo(m)) = Cardinality(upTo(m - 1)) + 1
    BY <1>2, <1>6, <2>1, FS_AddElement
  <2>3. Rank(S, m) = k
    BY <1>2, <1>6, <2>2
  <2> QED BY <1>7, <2>3
<1>8. CASE m \notin S
  <2>1. upTo(m) = upTo(m - 1)
    BY <1>0, <1>8
  <2> HIDE DEF upTo
  <2> QED BY <1>2, <1>6, <2>1
<1> QED BY <1>7, <1>8

LEMMA RankGrows ==
  ASSUME NEW S, IsFiniteSet(S), S \subseteq Nat, NEW i \in S, NEW j \in S, Rank(S, i) < Rank(S, j)
  PROVE  i < j
<1> SUFFICES ASSUME j <= i PROVE FALSE
  OBVIOUS
<1>1. {x \in S : x <= j} \subseteq {x \in S : x <= i}
  <2>1. \A x : x \in S => x \in Nat
    OBVIOUS
  <2> QED BY <2>1
<1>2. IsFiniteSet({x \in S : x <= i})
  <2>1. {x \in S : x <= i} \subseteq S
    OBVIOUS
  <2> QED BY <2>1, FS_Subset
<1>3. Rank(S, j) <= Rank(S, i) /\ Rank(S, i) \in Nat /\ Rank(S, j) \in Nat
  BY <1>1, <1>2, FS_Subset, FS_CardinalityType DEF Rank
<1> QED BY <1>3

RowHeads(g) == {i \in 1..Count : FirstOnRow(g, i)}
Nth(g, k) == CHOOSE i \in RowHeads(g) : Rank(RowHeads(g), i) = k

LEMMA NthIs ==
  ASSUME doc \in Documents, NEW g, NEW k \in 1..Cardinality(RowHeads(g))
  PROVE  Nth(g, k) \in RowHeads(g) /\ Rank(RowHeads(g), Nth(g, k)) = k
<1>1. Count \in Nat /\ RowHeads(g) \subseteq 1..Count
  BY Parsed DEF RowHeads
<1>2. \E i \in RowHeads(g) : Rank(RowHeads(g), i) = k
  BY <1>1, RankTaken
<1> QED BY <1>2, Zenon DEF Nth

LEMMA LinesAre ==
  ASSUME NEW g
  PROVE  Lines(g) = [k \in 1..Cardinality(RowHeads(g)) |->
                       [line |-> Rows(g)[Nth(g, k)], depth |-> Depth(Rows(g), g, Nth(g, k), FALSE),
                        closer |-> \E n \in Delimited : /\ n.last = Nth(g, k)
                                                        /\ Rows(g)[n.first] < Rows(g)[n.last]]]
BY DEF Lines, RowHeads, Nth, Rank

\* The lines of a layout lie one below the other.
LEMMA LinesAreText ==
  ASSUME doc \in Documents, NEW g \in Layouts
  PROVE  IsText(Lines(g))
<1> DEFINE N == Cardinality(RowHeads(g))
           closer(k) == \E n \in Delimited : n.last = Nth(g, k) /\ Rows(g)[n.first] < Rows(g)[n.last]
           line(k) == [line |-> Rows(g)[Nth(g, k)], depth |-> Depth(Rows(g), g, Nth(g, k), FALSE),
                       closer |-> closer(k)]
<1>1. Count \in Nat /\ RowHeads(g) \subseteq 1..Count /\ IsFiniteSet(RowHeads(g)) /\ N \in Nat
  <2>1. Count \in Nat /\ RowHeads(g) \subseteq 1..Count
    BY Parsed DEF RowHeads
  <2>2. IsFiniteSet(1..Count)
    BY <2>1, FS_Interval
  <2>3. IsFiniteSet(RowHeads(g))
    BY <2>1, <2>2, FS_Subset
  <2> QED BY <2>1, <2>3, FS_CardinalityType
<1>2. Rows(g) \in [1..Count -> Nat]
  BY RowsTyped
<1>3. \A k \in 1..N : Nth(g, k) \in RowHeads(g) /\ Nth(g, k) \in 1..Count /\ Rank(RowHeads(g), Nth(g, k)) = k
  BY <1>1, NthIs
<1>4. \A k \in 1..N : line(k) \in Line
  <2> SUFFICES ASSUME NEW k \in 1..N PROVE line(k) \in Line
    OBVIOUS
  <2>1. Rows(g)[Nth(g, k)] \in Nat
    BY <1>2, <1>3
  <2>2. Depth(Rows(g), g, Nth(g, k), FALSE) \in Nat
    BY <1>2, <1>3, DepthIsNat
  <2>3. closer(k) \in BOOLEAN
    BY Zenon
  <2> HIDE DEF closer
  <2> QED BY <2>1, <2>2, <2>3 DEF Line
<1>5. Lines(g) = [k \in 1..N |-> line(k)]
  BY LinesAre, Zenon
<1> HIDE DEF line, N
<1>6. Lines(g) \in Seq(Line) /\ Len(Lines(g)) = N /\ \A k \in 1..N : Lines(g)[k] = line(k)
  <2>1. Lines(g) \in [1..N -> Line]
    BY <1>4, <1>5
  <2>2. Lines(g) \in Seq(Line)
    BY <1>1, <2>1, SeqDef
  <2>3. Len(Lines(g)) = N
    BY <1>1, <2>1, <2>2, LenProperties
  <2> QED BY <1>5, <2>2, <2>3
<1>7. ASSUME NEW j \in 1..N, NEW k \in 1..N, j < k
      PROVE  Lines(g)[j].line < Lines(g)[k].line
  <2>1. /\ Nth(g, j) \in RowHeads(g) /\ Nth(g, j) \in 1..Count /\ Rank(RowHeads(g), Nth(g, j)) = j
        /\ Nth(g, k) \in RowHeads(g) /\ Nth(g, k) \in 1..Count /\ Rank(RowHeads(g), Nth(g, k)) = k
        /\ RowHeads(g) \subseteq Nat
    BY <1>1, <1>3
  <2>2. Nth(g, j) < Nth(g, k)
    BY <1>1, <1>7, <2>1, RankGrows
  <2>3. FirstOnRow(g, Nth(g, k))
    BY <2>1 DEF RowHeads
  <2>4. Rows(g)[Nth(g, j)] < Rows(g)[Nth(g, k)]
    BY <2>1, <2>2, <2>3, RowBegins
  <2>5. line(j).line = Rows(g)[Nth(g, j)] /\ line(k).line = Rows(g)[Nth(g, k)]
    BY DEF line
  <2> QED BY <1>6, <2>4, <2>5
<1> QED BY <1>6, <1>7 DEF IsText

-----------------------------------------------------------------------------
(* The steps. *)

LEMMA SameDocument ==
  ASSUME doc' = doc
  PROVE  Count' = Count /\ \A i : MayStand(i)' <=> MayStand(i)
BY DEF Count, MayStand, Delimited, Nodes, Kind, Token

LEMMA LayoutInvInit == Init => LayoutInv
<1> SUFFICES ASSUME Init PROVE LayoutInv
  OBVIOUS
<1>1. doc \in Documents /\ options \in Options
  BY DEF Init
<1>2. gaps \in Layouts /\ \A i \in 1..Count : gaps[i].breaks = 0
  BY DEF Init, Layouts, Gap
<1>3. edits \in 0..MaxEdits
  BY LayoutAssumption DEF Init
<1>4. formatted \in BOOLEAN /\ fresh \in BOOLEAN
  BY Zenon DEF Init
<1>5. BreaksStand
  BY <1>1, <1>2, Parsed DEF BreaksStand
<1> QED BY <1>1, <1>2, <1>3, <1>4, <1>5 DEF LayoutInv, LayoutTypeOK

LEMMA LayoutInvStep == LayoutInv /\ [Next]_vars => LayoutInv'
<1> SUFFICES ASSUME LayoutInv, [Next]_vars PROVE LayoutInv'
  OBVIOUS
<1>0. /\ doc \in Documents /\ options \in Options /\ LaidOut(gaps) /\ gaps \in Layouts
      /\ edits \in 0..MaxEdits /\ formatted \in BOOLEAN /\ fresh \in BOOLEAN
  BY DEF LayoutInv, LayoutTypeOK, BreaksStand, LaidOut, Stands
<1>1. doc' = doc /\ options' = options
  BY DEF Next, Respace, Format, vars
<1>2. edits' \in 0..MaxEdits /\ formatted' \in BOOLEAN /\ fresh' \in BOOLEAN
  <2>1. MaxEdits \in Nat
    BY LayoutAssumption
  <2>2. edits' \in 0..MaxEdits
    <3>1. edits' = edits \/ (edits < MaxEdits /\ edits' = edits + 1)
      BY DEF Next, Respace, Format, vars
    <3> QED BY <1>0, <2>1, <3>1
  <2>3. formatted' \in BOOLEAN /\ fresh' \in BOOLEAN
    BY <1>0, Zenon DEF Next, Respace, Format, vars
  <2> QED BY <2>2, <2>3
<1>3. LaidOut(gaps')
  <2>1. ASSUME NEW i \in 2..Count, NEW breaks \in 0..1, NEW blanks \in 0..MaxGap,
               Respace(i, breaks, blanks)
        PROVE  LaidOut(gaps')
    <3>1. gaps' = [gaps EXCEPT ![i] = [breaks |-> breaks, blanks |-> blanks]]
      BY <2>1 DEF Respace
    <3>2. [breaks |-> breaks, blanks |-> blanks] \in Gap
      BY LayoutAssumption DEF Gap
    <3>3. gaps' \in Layouts
      BY <1>0, <3>1, <3>2 DEF Layouts
    <3>4. \A j \in 2..Count : gaps'[j].breaks > 0 => MayStand(j)
      BY <1>0, <2>1, <3>1 DEF LaidOut, Stands, Layouts, Respace
    <3> QED BY <3>3, <3>4 DEF LaidOut, Stands
  <2>2. CASE Format
    BY <1>0, <2>2, FormattedLaidOut DEF Format
  <2>3. CASE UNCHANGED vars
    BY <1>0, <2>3 DEF vars
  <2> QED BY <2>1, <2>2, <2>3 DEF Next
<1>4. Count' = Count /\ \A i : MayStand(i)' <=> MayStand(i)
  BY <1>1, SameDocument
<1>5. BreaksStand' /\ (gaps \in Layouts)'
  BY <1>3, <1>4 DEF BreaksStand, LaidOut, Stands, Layouts
<1> QED BY <1>0, <1>1, <1>2, <1>5 DEF LayoutInv, LayoutTypeOK

THEOREM LayoutAlwaysInv == Spec => []LayoutInv
<1>1. Init => LayoutInv
  BY LayoutInvInit
<1>2. LayoutInv /\ [Next]_vars => LayoutInv'
  BY LayoutInvStep
<1> QED BY <1>1, <1>2, PTL DEF Spec

\* Indentation is a number of blanks in every layout the formatter leaves: the
\* delimiters a line closes are never more than those that are open.
THEOREM LayoutTypeCorrect == Spec => []LayoutTypeOK
<1>1. LayoutInv => LayoutTypeOK
  BY DEF LayoutInv
<1> QED BY <1>1, LayoutAlwaysInv, PTL

\* A line break that the user or a pass of the formatter makes is one the parser
\* takes for white space, whatever the document and the options.
THEOREM BreaksAlwaysStand == Spec => []BreaksStand
<1>1. LayoutInv => BreaksStand
  BY DEF LayoutInv
<1> QED BY <1>1, LayoutAlwaysInv, PTL

\* What Fits says of a layout does not change while the document and the options
\* stay.
LEMMA SameFit ==
  ASSUME doc' = doc, options' = options, NEW g
  PROVE  Fits(g)' <=> Fits(g)
BY DEF Fits, Rows, Columns, TooWide, RowTokens, MayBreakBefore, EndOf, Token, Count, FirstOnRow, Settled,
       Greatest, SameLine, Delimited, Nodes, Kind, BordersEmptySlot, LineFinal

\* No line of a formatted text is wider than the hard width if a rule could break it,
\* whatever the document and the options: wrapping stops only when no line is, and
\* the closers it then separates begin no further right than the lines they leave.
THEOREM FitsAlwaysWhereItCan == Spec => []FitsWhereItCan
<1>1. FitsWhereItCan <=> (formatted => Fits(gaps))
  BY DEF FitsWhereItCan, Fits
<1>2. Init => FitsWhereItCan
  BY DEF Init, FitsWhereItCan
<1>3. ASSUME LayoutInv, FitsWhereItCan, [Next]_vars PROVE FitsWhereItCan'
  <2>1. doc \in Documents /\ options \in Options /\ LaidOut(gaps)
    BY <1>3 DEF LayoutInv, LayoutTypeOK, BreaksStand, LaidOut, Stands
  <2>2. doc' = doc /\ options' = options
    BY <1>3 DEF Next, Respace, Format, vars
  <2>3. formatted' => Fits(gaps')
    <3>1. CASE Format
      BY <2>1, <3>1, FormattedFits DEF Format
    <3>2. CASE UNCHANGED vars
      BY <1>1, <1>3, <3>2 DEF vars
    <3>3. CASE \E i \in 2..Count, breaks \in 0..1, blanks \in 0..MaxGap : Respace(i, breaks, blanks)
      BY <3>3 DEF Respace
    <3> QED BY <1>3, <3>1, <3>2, <3>3 DEF Next
  <2>4. \A g : Fits(g)' <=> Fits(g)
    BY <2>2, SameFit
  <2>5. Fits(gaps)' <=> Fits(gaps')
    BY <2>4
  <2>6. FitsWhereItCan' <=> (formatted' => Fits(gaps)')
    BY DEF FitsWhereItCan, Fits
  <2> QED BY <2>3, <2>5, <2>6
<1>4. FitsWhereItCan /\ LayoutInv /\ [Next]_vars => FitsWhereItCan'
  BY <1>3
<1> QED BY <1>2, <1>4, LayoutAlwaysInv, PTL DEF Spec

\* The folds of a text the formatter or the user leaves are the blocks of deeper
\* lines with the line that closes them, each whole, and one in the other or one
\* after the other, whatever the document and the options.
THEOREM FoldsAlwaysBlocks == Spec => []FoldsAreBlocks
<1>1. ASSUME LayoutInv PROVE FoldsAreBlocks
  <2>1. IsText(Lines(gaps))
    BY <1>1, LinesAreText DEF LayoutInv, LayoutTypeOK
  <2>2. Blocky(Lines(gaps))
    BY <2>1, TextIsBlocky
  <2> QED BY <2>2, Zenon DEF FoldsAreBlocks, Blocky, AtRow, EndsAt
<1>2. LayoutInv => FoldsAreBlocks
  BY <1>1
<1> QED BY <1>2, LayoutAlwaysInv, PTL

=============================================================================
