----------------------------- MODULE MC_SourceText -----------------------------
(* Constants for the model of SourceText. *)
EXTENDS SemanticTokens

\* Characters of one byte, one of two bytes and one unit, and one of four bytes
\* and two units; line ends, and what delimits a snippet.
SampleChars == {"a", "e2", "u4", "lf", "cr", "tick", "blank"}
SampleUtf8 == [c \in SampleChars |-> IF c = "u4" THEN 4
                                     ELSE IF c = "e2" THEN 2 ELSE 1]
SampleUtf16 == [c \in SampleChars |-> IF c = "u4" THEN 2 ELSE 1]
SampleReplacements ==
  {<<>>, <<"e2">>, <<"u4">>, <<"cr", "lf">>, <<"lf", "a">>}

\* Texts with snippets, too: with a character of two units in it, over a line
\* end, of blanks, between double backticks, and two in a row.
SampleDocuments ==
  SampleReplacements \cup
    {<<"u4", "tick", "u4", "tick", "lf", "a">>, <<"a", "tick", "cr", "lf", "tick", "e2", "tick">>,
     <<"tick", "blank", "tick", "a", "tick", "u4">>, <<"tick", "tick", "a", "tick", "tick", "tick">>,
     <<"lf", "tick", "a", "tick", "tick", "a", "tick">>,
     <<"tick", "a", "tick", "lf", "u4", "tick", "e2", "a", "tick", "a">>}

=============================================================================
