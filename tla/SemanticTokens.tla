---------------------------- MODULE SemanticTokens ----------------------------
(***************************************************************************)
(* The semantic tokens of a text, src/src/capabilities/semantic_tokens.rs, *)
(* with the code snippets that src/src/documentation.rs finds in comments  *)
(* and raw strings.                                                        *)
(*                                                                         *)
(* The protocol has every token relative to the one before it: one token   *)
(* out of order, or one across a line end, moves all that follow.          *)
(***************************************************************************)
EXTENDS SourceText

CONSTANTS Backtick, Blanks

ASSUME SemanticTokensAssumption == {Backtick} \cup Blanks \subseteq Chars \ {CR, LF}

-----------------------------------------------------------------------------
(* Snippets.  A span has the characters after its `from` up to its `to`. *)

In(n, span) == span.from < n /\ n <= span.to

\* is_code_candidate
CodeCandidate(span) ==
  LET chars == {text[n] : n \in (span.from + 1)..span.to}
  IN  ~(chars \subseteq Blanks \cup {CR, LF}) /\ chars \cap {Backtick, CR, LF} = {}

Backticks(span) == {n \in (span.from + 1)..span.to : text[n] = Backtick}

\* collect_backtick_snippets: a single backtick opens a snippet and the next one
\* closes it; beside another one it does neither.
Snippets(container) ==
  LET after(cursor) == Backticks([from |-> cursor, to |-> container.to])
      open(cursor) == Min(after(cursor))
      close(cursor) == Min(after(open(cursor)))
      tick(n) == n \in Backticks(container)
      snippet(cursor) == [from |-> open(cursor), to |-> close(cursor) - 1]
      found[cursor \in container.from..container.to] ==
        IF after(cursor) = {} THEN <<>>
        ELSE IF tick(open(cursor) - 1) \/ tick(open(cursor) + 1) THEN found[open(cursor)]
        ELSE IF after(open(cursor)) = {} THEN <<>>
        ELSE IF tick(close(cursor) + 1) \/ ~CodeCandidate(snippet(cursor)) THEN found[close(cursor)]
        ELSE <<snippet(cursor)>> \o found[close(cursor)]
  IN  found[container.from]

-----------------------------------------------------------------------------
(* The emitter.  What it is told to push, in this order, are spans with their  *)
(* colours.                                                                     *)

Containers == {"comment", "string"}

\* What the editor's own highlighting colours is left to it where it says so.
EmitsBase(token, augments) == ~augments \/ token.colour \notin Containers

\* emit_documentation_container_tokens, and collect_semantic_tokens for one token:
\* its snippets, and before each and at the end what is between them.
Pushed(token, augments) ==
  LET snippets == IF token.colour \in Containers THEN Snippets(token) ELSE <<>>
      ended(k) == k > Len(snippets)
      from(k) == IF k = 1 THEN token.from ELSE snippets[k - 1].to
      to(k) == IF ended(k) THEN token.to ELSE snippets[k].from
      base(k) == [from |-> from(k), to |-> to(k), colour |-> token.colour]
      property(k) == [from |-> snippets[k].from, to |-> snippets[k].to, colour |-> "property"]
      step(k) == (IF EmitsBase(token, augments) /\ from(k) < to(k) THEN <<base(k)>> ELSE <<>>)
                   \o (IF ended(k) THEN <<>> ELSE <<property(k)>>)
  IN  FlattenSeq([k \in 1..(Len(snippets) + 1) |-> step(k)])

\* The pieces of the spans that a protocol token can have, with their positions.
Pieces(spans) ==
  LET piece(range, colour) ==
        [start |-> PositionForByte(range.from), end |-> PositionForByte(range.to), colour |-> colour]
      pieces(span) ==
        LET ranges == VisibleRanges(ByteOf(text, span.from), ByteOf(text, span.to))
        IN  [i \in DOMAIN ranges |-> piece(ranges[i], span.colour)]
  IN  FlattenSeq([k \in DOMAIN spans |-> pieces(spans[k])])

\* Mutant: the column is relative on a new line too.
RelativeStart(start, previous) == start.character - previous.character

DeltaStart(start, previous) ==
  IF start.line = previous.line THEN start.character - previous.character ELSE start.character

\* SemanticTokenEmitter::push
Relative(piece, previous) ==
  [deltaLine |-> piece.start.line - previous.line,
   deltaStart |-> DeltaStart(piece.start, previous),
   length |-> piece.end.character - piece.start.character,
   colour |-> piece.colour]

Encoded(pieces) ==
  [k \in DOMAIN pieces |->
     Relative(pieces[k], IF k = 1 THEN [line |-> 0, character |-> 0] ELSE pieces[k - 1].start)]

\* collect_semantic_tokens
CollectSemanticTokens(tokens, augments) ==
  Encoded(Pieces(FlattenSeq([k \in DOMAIN tokens |-> Pushed(tokens[k], augments)])))

-----------------------------------------------------------------------------
(* Properties. *)

\* Where the client puts the tokens (external).
Decoded(tokens) ==
  LET place[k \in DOMAIN tokens] ==
        LET last == IF k = 1 THEN [line |-> 0, character |-> 0]
                    ELSE place[k - 1]
            token == tokens[k]
        IN  [line |-> last.line + token.deltaLine, length |-> token.length, colour |-> token.colour,
             character |-> token.deltaStart + IF token.deltaLine = 0 THEN last.character ELSE 0]
  IN  place

\* The tokens a text can have: a comment, a string and at its end a name.
Tokenizations ==
  LET ends == {i \in Places(text) : i < Len(text)}
      token(from, to, colour) == [from |-> from, to |-> to, colour |-> colour]
  IN  {<<token(0, i, "comment"), token(i, Max(ends), "string"), token(Max(ends), Len(text), "variable")>> :
         i \in ends}

\* The colour meant for a character.
Meant(tokens, augments, n) ==
  {IF token.colour \in Containers /\ \E s \in ToSet(Snippets(token)) : In(n, s) THEN "property"
   ELSE token.colour :
     token \in {token \in ToSet(tokens) :
                  /\ In(n, token) /\ text[n] \notin {CR, LF}
                  /\ \/ EmitsBase(token, augments)
                     \/ \E s \in ToSet(Snippets(token)) : In(n, s)}}

ColoursAt(placed, at) ==
  {token.colour : token \in {token \in ToSet(placed) :
                                /\ token.line = at.line /\ token.character <= at.character
                                /\ at.character < token.character + token.length}}

InOrder(placed) ==
  \A k \in DOMAIN placed \ {1} :
    placed[k].line = placed[k - 1].line =>
      placed[k - 1].character + placed[k - 1].length <= placed[k].character

\* In the editor's buffer every character has the one colour meant for it: the
\* tokens come in order, one begins where the one before has ended or later,
\* and no subtraction goes below zero, whatever lines, snippets and characters
\* of two units there are.
TokensColourTheBuffer ==
  \A tokens \in Tokenizations, augments \in BOOLEAN :
    LET fits(placed) ==
          /\ InOrder(placed)
          /\ \A n \in DOMAIN buffer :
               ColoursAt(placed, ClientPosition(buffer, n - 1)) = Meant(tokens, augments, n)
        colours(sent) ==
          /\ \A k \in DOMAIN sent : sent[k].deltaLine >= 0 /\ sent[k].deltaStart >= 0
          /\ fits(Decoded(sent))
    IN  colours(CollectSemanticTokens(tokens, augments))

=============================================================================
