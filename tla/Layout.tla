-------------------------------- MODULE Layout --------------------------------
(***************************************************************************)
(* Formatting a document and folding it: src/src/capabilities/formatting.rs. *)
(*                                                                         *)
(* A document is its tokens, the syntax tree over them and the white space *)
(* before every token: line breaks, and blanks after the last of them.     *)
(* Only white space changes, and as long as every line break stands where  *)
(* the parser takes it for white space the tree stays the same; that it    *)
(* does is the first property.  Blanks at the end of a line, comments and  *)
(* literals of several lines are left out.                                 *)
(*                                                                         *)
(* A node has its first and last token and one more, "op": the operator of *)
(* a binary, prefix or lambda expression, the opening delimiter of a       *)
(* call's arguments, the do of an except clause (0 for none).              *)
(***************************************************************************)
EXTENDS Integers, Sequences, FiniteSets

CONSTANTS Documents,   \* [tokens, nodes]: what the parser makes of a text
          Options,     \* FormatOptions
          MaxGap,      \* blanks the user may leave before a token
          MaxEdits     \* gaps the user changes

\* One node is a part of another, and not the same part of the text.
Inside(n, m) == m.first <= n.first /\ n.last <= m.last /\ (m.first # n.first \/ m.last # n.last)

\* What the parser makes of a text is a tree: its nodes nest, a delimited node has
\* its two delimiters to itself, no part of an expression straddles its operator, a
\* clause begins with its keyword and has a body, and a clause of an if or a try is
\* a part of that statement and not its beginning.
WellFormed(d) ==
  LET Of(kinds) == {n \in d.nodes : n.kind \in kinds}
      KindAt(i) == d.tokens[i].kind
      delimited == Of({"holder", "list"})
      clauses == Of({"then", "else", "except", "body"})
  IN  /\ d.tokens \in Seq([kind : STRING, width : Nat])
      /\ IsFiniteSet(d.nodes)
      /\ \A n \in d.nodes : n.first \in 1..n.last /\ n.last \in 1..Len(d.tokens) /\ n.op \in 0..n.last
      /\ \A n, m \in d.nodes : n = m \/ Inside(n, m) \/ Inside(m, n) \/ n.last < m.first \/ m.last < n.first
      /\ \A n \in delimited : KindAt(n.first) = "open" /\ KindAt(n.last) = "close"
      /\ \A n \in delimited, m \in d.nodes : Inside(m, n) => n.first < m.first /\ m.last < n.last
      /\ \A n \in Of({"binary", "lambda"}) : n.first < n.op /\ n.op < n.last
      /\ \A n \in Of({"binary", "lambda", "except", "body"}), m \in d.nodes :
           Inside(m, n) => m.last < n.op \/ n.op < m.first
      /\ \A c \in clauses : /\ KindAt(c.first) = "keyword" /\ c.first < c.last
                            /\ c.op # 0 => KindAt(c.op) = "keyword" /\ c.first < c.op /\ c.op < c.last
      /\ \A n \in Of({"if", "try"}) : KindAt(n.first) = "keyword"
      /\ \A c \in clauses : c.kind # "body" => \E n \in Of({"if", "try"}) :
           /\ Inside(c, n) /\ n.first < c.first
           /\ \A m \in d.nodes : Inside(c, m) => m = n \/ Inside(n, m)

ASSUME LayoutAssumption ==
  /\ \A d \in Documents : WellFormed(d)
  /\ \A o \in Options : /\ o.layout \in {"compact", "multiline", "compactElse"}
                        /\ o.soft \in 1..o.max /\ o.max \in Nat /\ o.indent \in Nat
  /\ MaxGap \in Nat /\ MaxEdits \in Nat

VARIABLES doc, options,
          gaps,        \* the white space before every token
          edits,       \* how many gaps the user has changed
          formatted,   \* is the text as the formatter left it?
          fresh        \* does a line of it begin with a statement that began none before?

vars == <<doc, options, gaps, edits, formatted, fresh>>

Token(i) == doc.tokens[i]
Count == Len(doc.tokens)
Kind(i) == Token(i).kind
Tokens(kinds) == {i \in 1..Count : Kind(i) \in kinds}
Nodes(kinds) == {n \in doc.nodes : n.kind \in kinds}
Delimited == Nodes({"holder", "list"})
Controls == Nodes({"if", "try", "loop"})
Is(kinds, first, last) == \E n \in Nodes(kinds) : n.first = first /\ n.last = last

\* The ancestors of a node, and the nearest of them.
Ancestors(n) == {m \in doc.nodes : Inside(n, m)}
Nearest(above) == CHOOSE n \in above : \A m \in above : n = m \/ Inside(n, m)

-----------------------------------------------------------------------------
(* Rows and columns. *)

FirstOnRow(g, i) == i = 1 \/ g[i].breaks > 0

\* The same sequence, with its elements computed once.
Settled(s) == s \o <<>>

\* Rows from 0, and the column every token begins at.
Rows(g) == Settled([i \in 1..Count |-> Cardinality({j \in 2..i : g[j].breaks > 0})])
Columns(g) ==
  LET column[i \in 1..Count] ==
        IF FirstOnRow(g, i) THEN g[i].blanks
        ELSE column[i - 1] + Token(i - 1).width + g[i].blanks
  IN  Settled(column)

-----------------------------------------------------------------------------
(* Edits: what is to stand before a token in place of what does. *)

Edit(at, breaks, blanks, by) == [at |-> at, breaks |-> breaks, blanks |-> blanks, by |-> by]
Break(at) == Edit(at, 1, 0, 0)

\* Of several edits of one gap that is not empty none is made, nor any other.
Overlap(g, es) ==
  \E e, other \in es : e # other /\ e.at = other.at /\ g[e.at].breaks + g[e.at].blanks > 0

\* apply_format_edits.
Apply(g, es) ==
  IF Overlap(g, es) THEN g
  ELSE Settled([i \in DOMAIN g |->
         LET here == {e \in es : e.at = i}
         IN  IF here = {} THEN g[i]
             ELSE [breaks |-> Cardinality({e \in here : e.breaks = 1}),
                   blanks |-> Cardinality({e \in here : e.blanks = 1})]])

\* same_line_horizontal_whitespace_start and _end: the token before is on the row.
SameLine(g, i) == i \in 2..Count /\ g[i].breaks = 0

-----------------------------------------------------------------------------
(* normalize_whitespace. *)

BordersEmptySlot(i) ==
  Kind(i) = "comma" /\ \E j \in {i - 1, i + 1} : j \in 1..Count /\ Kind(j) = "comma"

\* The edits of one rule, where its condition holds.
Where(condition, es) == IF condition THEN es ELSE {}

CommaEdits(g, i) ==
  LET tight == BordersEmptySlot(i) \/ Kind(i + 1) \in {"close", "semi"}
  IN  Where(SameLine(g, i), {Edit(i, 0, 0, i)})
        \cup Where(SameLine(g, i + 1), {Edit(i + 1, 0, IF tight THEN 0 ELSE 1, i)})

\* semicolon_terminates_collection_entry: of the muted expression it ends.
TerminatesEntry(i) ==
  \E muted \in Nodes({"muted"}) :
    muted.last = i /\ Ancestors(muted) # {} /\ Nearest(Ancestors(muted)).kind = "list"

SemicolonEdits(g, i) ==
  LET breaks == options.break_after_semicolon /\ ~TerminatesEntry(i)
      blanks == ~breaks /\ Kind(i + 1) # "close"
  IN  Where(SameLine(g, i), {Edit(i, 0, 0, i)})
        \cup Where(SameLine(g, i + 1),
                   {Edit(i + 1, IF breaks THEN 1 ELSE 0, IF blanks THEN 1 ELSE 0, i)})

\* is_method_installation_call_head.
IsInstallHead(call) ==
  \E b \in Nodes({"binary"}) :
    b.first = call.first /\ b.op = call.last + 1 /\ Kind(b.op) = "assign"

CallEdits(g, n) ==
  Where(SameLine(g, n.op), {Edit(n.op, 0, IF IsInstallHead(n) THEN 1 ELSE 0, n.op)})

\* is_adjacent_factor.
IsFactor(first, last) ==
  \/ first = last
  \/ Is({"holder", "list", "prefix", "binary", "call"}, first, last)

\* operator_spacing, for what is not a prefix operator.
IsSpaced(n) ==
  \/ Kind(n.op) \in {"spaced", "assign"}
  \/ /\ Kind(n.op) = "factor"
     /\ ~(options.compact_factors /\ IsFactor(n.first, n.op - 1) /\ IsFactor(n.op + 1, n.last))

OperatorEdits(g, n) ==
  IF n.kind = "prefix" THEN Where(SameLine(g, n.op + 1), {Edit(n.op + 1, 0, 0, n.op)})
  ELSE Where(SameLine(g, n.op) /\ SameLine(g, n.op + 1),
             {Edit(i, 0, IF IsSpaced(n) THEN 1 ELSE 0, n.op) : i \in {n.op, n.op + 1}})

NormalizeWhitespace(g) ==
  Apply(g, UNION ({CommaEdits(g, i) : i \in Tokens({"comma"})}
                    \cup {SemicolonEdits(g, i) : i \in Tokens({"semi"})}
                    \cup {CallEdits(g, n) : n \in Nodes({"call"})}
                    \cup {OperatorEdits(g, n) : n \in Nodes({"binary", "lambda", "prefix"})}))

-----------------------------------------------------------------------------
(* inline_empty_bodies. *)

\* empty_body_role: of a lambda, a clause, a loop or a try; what an except does
\* after naming its exception is not looked at.
IsEmptyBody(n) ==
  /\ n.last = n.first + 1
  /\ \E m \in Nodes({"lambda", "then", "else", "except", "body", "try"}) :
       /\ n.first > m.first
       /\ m.kind = "lambda" => n.first = m.op + 1
       /\ m.kind \in {"then", "else", "except"} => n.first = m.first + 1
       /\ m \in Ancestors(n) /\ Nearest(Ancestors(n)) = m

InlineEmptyBodies(g) ==
  Apply(g, {Edit(n.last, 0, 0, 0) : n \in {n \in Delimited : IsEmptyBody(n)}})

-----------------------------------------------------------------------------
(* format_control_flow. *)

\* if_statement_is_else_if.
IsElseIf(g, n) ==
  /\ n.kind = "if" /\ g[n.first].breaks = 0
  /\ \E m \in Nodes({"else"}) : m.first + 1 = n.first /\ m.last = n.last

Owner(clause) == Nearest(Ancestors(clause))

\* The control statement of a clause, or the head of the chain of else if it is in.
LayoutControl(g, clause) ==
  LET outer(n) == Owner(Owner(n))
      head[n \in Controls] ==
        IF IsElseIf(g, n) /\ outer(n).kind = "if" THEN head[outer(n)] ELSE n
  IN  head[Nearest(Ancestors(clause) \cap Controls)]

HasAlternative(n) == \E m \in Nodes({"else", "except"}) : Owner(m) = n

BeginsItsLine(g, n) == FirstOnRow(g, n.first)

\* Mutant: an alternative may have a line of its own anywhere.
AnyBreakIsParseable(g, clause) == BeginsItsLine(g, LayoutControl(g, clause))

\* control_clause_breaks_are_parseable.
BreaksAreParseable(g, clause) ==
  LET head == LayoutControl(g, clause)
  IN  /\ BeginsItsLine(g, head)
      /\ HasAlternative(head) => Ancestors(head) \cap Delimited # {}

\* push_control_flow_break.
BreakAt(g, i) == Where(SameLine(g, i) /\ g[i].blanks > 0, {Break(i)})

\* push_control_clause_body_break: not before a body that is delimited as a whole.
BodyBreak(g, first, last) ==
  IF \E n \in Delimited : n.first = first /\ n.last = last THEN {} ELSE BreakAt(g, first)

\* keep_else_after_closer: the then clause before ends in its delimited body.
FollowsCloser(clause) ==
  \E c \in Nodes({"then"}), body \in Delimited :
    c.last = clause.first - 1 /\ body.first = c.first + 1 /\ body.last = c.last

\* The body of a clause, and of a loop with list and do or an except with do the
\* one after its second keyword.
BodyBreaks(g, clause) ==
  Where(clause.kind # "except",
        BodyBreak(g, clause.first + 1, IF clause.op = 0 THEN clause.last ELSE clause.op - 1))
    \cup Where(clause.op # 0, BodyBreak(g, clause.op + 1, clause.last))

ElseEdits(g, clause) ==
  LET joined == IF g[clause.first].breaks > 0 THEN {Edit(clause.first, 0, 1, 0)} ELSE {}
  IN  (IF FollowsCloser(clause) THEN joined ELSE BreakAt(g, clause.first))
        \cup Where(/\ ~Is({"if"}, clause.first + 1, clause.last)
                   /\ options.layout # "compactElse", BodyBreaks(g, clause))

ClauseEdits(g, clause) ==
  CASE clause.kind \in {"then", "body"} -> BodyBreaks(g, clause)
    [] clause.kind = "except" -> BreakAt(g, clause.first) \cup BodyBreaks(g, clause)
    [] clause.kind = "else"   -> ElseEdits(g, clause)

FormatControlFlow(g) ==
  IF options.layout = "compact" THEN g
  ELSE Apply(g, UNION {ClauseEdits(g, c) :
                         c \in {c \in Nodes({"then", "else", "except", "body"}) :
                                  BreaksAreParseable(g, c)}})

-----------------------------------------------------------------------------
(* reindent_from_tree. *)

\* is_spaced_line_final_operator.
LineFinal(i, compactFactors) ==
  \/ Kind(i) \in {"spaced", "assign"}
  \/ Kind(i) = "factor" /\ ~compactFactors

\* bracket_depth: delimiters opened on one row count once, and one that closes at
\* the beginning of the row counts no more.
BracketDepth(r, g, i) ==
  LET open == {r[n.first] : n \in {n \in Delimited : r[n.first] < r[i] /\ r[i] <= r[n.last]}}
      closed == {n \in Delimited : n.last = i /\ r[n.first] < r[i]}
  IN  Cardinality(open) - Cardinality(closed)

\* line_continuation: the right operand of an operator, the body of a clause, or a
\* then or else whose statement does not begin its line.
Continues(g, i, compactFactors) ==
  \/ \E n \in Nodes({"binary", "lambda"}) :
       /\ n.op = i - 1 /\ LineFinal(n.op, compactFactors)
       /\ ~(n.kind = "binary" /\ Kind(n.op) = "assign" /\ Is({"if"}, i, n.last))
  \/ \E n \in Nodes({"then", "else", "body"}) : n.first = i - 1
  \/ \E n \in Nodes({"except", "body"}) : n.op # 0 /\ n.op = i - 1
  \/ \E n \in Nodes({"then", "else"}) :
       /\ n.first = i
       /\ LET owner == Nearest(Ancestors(n) \cap Nodes({"if", "try"}))
          IN  ~BeginsItsLine(g, owner) /\ ~IsElseIf(g, owner)

Depth(r, g, i, compactFactors) ==
  BracketDepth(r, g, i) + IF Continues(g, i, compactFactors) THEN 1 ELSE 0

Reindent(g) ==
  LET r == Rows(g)
  IN  Settled([i \in DOMAIN g |->
        IF FirstOnRow(g, i)
        THEN [g[i] EXCEPT !.blanks =
                options.indent * Depth(r, g, i, options.compact_factors)]
        ELSE g[i]])

-----------------------------------------------------------------------------
(* wrap_long_lines. *)

\* The rules: after an opening delimiter, a comma, a spaced operator.
MayBreakBefore(g, i) ==
  /\ SameLine(g, i)
  /\ \/ \E n \in Delimited : n.first = i - 1 /\ n.last # i
     \/ Kind(i - 1) = "comma" /\ ~BordersEmptySlot(i - 1)
     \/ \E n \in Nodes({"binary", "lambda"}) :
          n.op = i - 1 /\ LineFinal(i - 1, options.compact_factors)

RowTokens(r, row) == {i \in 1..Count : r[i] = row}
Greatest(s) == CHOOSE i \in s : \A j \in s : j <= i
Least(s) == CHOOSE i \in s : \A j \in s : i <= j
EndOf(column, i) == column[i] + Token(i).width

TooWide(r, column, row) ==
  RowTokens(r, row) # {} /\ EndOf(column, Greatest(RowTokens(r, row))) > options.max

\* select_line_breaks: the last place within the soft width, or else within the
\* hard width, or else the first.
WrapEdits(g) ==
  LET r == Rows(g)
      column == Columns(g)
      places(row) == {i \in RowTokens(r, row) : MayBreakBefore(g, i)}
      within(row, width) == {i \in places(row) : EndOf(column, i - 1) <= width}
      place(row) ==
        IF within(row, options.soft) # {} THEN Greatest(within(row, options.soft))
        ELSE IF within(row, options.max) # {} THEN Greatest(within(row, options.max))
        ELSE Least(places(row))
  IN  {Break(place(row)) : row \in {row \in 0..r[Count] : TooWide(r, column, row) /\ places(row) # {}}}

\* Mutant: every line is wrapped once.
WrapOnce(g) == IF WrapEdits(g) = {} THEN g ELSE Reindent(Apply(g, WrapEdits(g)))

\* Every round breaks a line, so there are fewer rounds than tokens.
WrapLongLines(g) ==
  LET after[k \in 0..Count] ==
        IF k = 0 THEN g
        ELSE LET before == after[k - 1]
                 places == WrapEdits(before)
             IN  IF places = {} THEN before ELSE Reindent(Apply(before, places))
  IN  after[Count]

-----------------------------------------------------------------------------
(* separate_line_end_bracket_closers, and the whole. *)

SeparateClosers(g) ==
  LET r == Rows(g)
  IN  Apply(g, {Break(n.last) :
                  n \in {n \in Delimited : /\ r[n.first] < r[n.last]
                                           /\ FirstOnRow(g, n.first + 1)
                                           /\ SameLine(g, n.last)}})

\* Mutant: a closer on a line of its own keeps the column it had.
FormattedBeforeClosers(g) ==
  SeparateClosers(WrapLongLines(Reindent(FormatControlFlow(
    InlineEmptyBodies(NormalizeWhitespace(g))))))

\* format_document_text_with_options.
Formatted(g) ==
  Reindent(SeparateClosers(WrapLongLines(Reindent(FormatControlFlow(
    InlineEmptyBodies(NormalizeWhitespace(g)))))))

-----------------------------------------------------------------------------
(* folding_ranges_for_text: the lines that are not blank, by their depth. *)

Lines(g) ==
  LET r == Rows(g)
      first == {i \in 1..Count : FirstOnRow(g, i)}
      nth(k) == CHOOSE i \in first : Cardinality({j \in first : j <= i}) = k
  IN  [k \in 1..Cardinality(first) |->
         [line |-> r[nth(k)], depth |-> Depth(r, g, nth(k), FALSE),
          closer |-> \E n \in Delimited : n.last = nth(k) /\ r[n.first] < r[n.last]]]

Fold(start, end) == IF start.line < end.line THEN {[start |-> start.line, end |-> end.line]} ELSE {}

\* Mutant: a line that closes ends no fold.
FoldEndBefore(previous, current) == previous

FoldEnd(previous, current) == IF current.closer THEN current ELSE previous

\* collect_indent_fold_ranges: the folds still open, and those that have ended.
Folds(lines) ==
  LET close(open, end) == UNION {Fold(o, end) : o \in open}
      after[k \in 0..Len(lines)] ==
        IF k <= 1 THEN [open |-> {}, ranges |-> {}]
        ELSE LET before == after[k - 1]
                 ended == {o \in before.open : o.depth >= lines[k].depth}
             IN  IF lines[k].depth > lines[k - 1].depth
                 THEN [before EXCEPT !.open = @ \cup {lines[k - 1]}]
                 ELSE IF lines[k].depth < lines[k - 1].depth
                 THEN [open |-> before.open \ ended,
                       ranges |-> before.ranges \cup close(ended, FoldEnd(lines[k - 1], lines[k]))]
                 ELSE before
  IN  after[Len(lines)].ranges \cup close(after[Len(lines)].open, lines[Len(lines)])

-----------------------------------------------------------------------------
(* The user types white space and asks for the text to be formatted. *)

\* Where a line break is white space to the parser: between delimiters, and after
\* a token that the expression goes on after.
MayStand(i) ==
  \/ \E n \in Delimited : n.first < i /\ i <= n.last
  \/ Kind(i - 1) \notin {"word", "close"}

\* Tokens that need white space between them.
Apart(i) == Kind(i) \in {"word", "keyword"} /\ Kind(i - 1) \in {"word", "keyword"}

Init ==
  /\ doc \in Documents /\ options \in Options
  /\ gaps = [i \in 1..Count |-> [breaks |-> 0, blanks |-> IF i = 1 THEN 0 ELSE 1]]
  /\ edits = 0 /\ formatted = FALSE /\ fresh = FALSE

Respace(i, breaks, blanks) ==
  /\ edits < MaxEdits
  /\ breaks > 0 => MayStand(i)
  /\ breaks = 0 /\ Apart(i) => blanks > 0
  /\ gaps' = [gaps EXCEPT ![i] = [breaks |-> breaks, blanks |-> blanks]]
  /\ edits' = edits + 1 /\ formatted' = FALSE /\ fresh' = FALSE
  /\ UNCHANGED <<doc, options>>

\* document_formatting_text_edits: one edit of the whole text.
Format ==
  /\ gaps' = Formatted(gaps)
  /\ formatted' = TRUE
  /\ fresh' = \E n \in Controls : /\ BeginsItsLine(gaps', n)
                                  /\ ~BeginsItsLine(NormalizeWhitespace(gaps), n)
  /\ UNCHANGED <<doc, options, edits>>

Next ==
  \/ \E i \in 2..Count, breaks \in 0..1, blanks \in 0..MaxGap : Respace(i, breaks, blanks)
  \/ Format

Spec == Init /\ [][Next]_vars

-----------------------------------------------------------------------------
(* Properties. *)

\* Every line break is white space to the parser, so the text has the tree it had
\* (control_clause_breaks_are_parseable guards the one rule that could end a
\* statement: an else on a line of its own outside delimiters).
BreaksStand == \A i \in 2..Count : gaps[i].breaks > 0 => MayStand(i)

\* Formatting leaves no line wider than the hard width that a rule could break.
FitsWhereItCan ==
  formatted =>
    LET r == Rows(gaps)
        column == Columns(gaps)
    IN  \A row \in 0..r[Count] :
          TooWide(r, column, row) => \A i \in RowTokens(r, row) : ~MayBreakBefore(gaps, i)

\* Formatting what was formatted changes nothing, unless a line has come to begin
\* with a control statement.
StableUnlessFresh == formatted /\ ~fresh => Formatted(gaps) = gaps

\* Folds cover what is deeper than their first line with the line that closes it,
\* and lie one in the other or one after the other.
FoldsAreBlocks ==
  LET lines == Lines(gaps)
      at(row) == CHOOSE k \in DOMAIN lines : lines[k].line = row
      folds == Folds(lines)
  IN  /\ \A f \in folds :
           LET start == at(f.start)
               out == {k \in DOMAIN lines : k > start /\ lines[k].depth <= lines[start].depth}
               next == IF out = {} THEN Len(lines) + 1 ELSE Least(out)
           IN  at(f.end) = IF out # {} /\ lines[next].closer THEN next ELSE next - 1
      /\ \A f, h \in folds : \/ f.end <= h.start \/ h.end <= f.start
                             \/ f.start <= h.start /\ h.end <= f.end
                             \/ h.start <= f.start /\ f.end <= h.end
      /\ \A k \in 2..Len(lines) : lines[k].depth > lines[k - 1].depth =>
           \E f \in folds : f.start = lines[k - 1].line /\ lines[k].line <= f.end

=============================================================================
