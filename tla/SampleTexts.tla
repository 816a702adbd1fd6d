----------------------------- MODULE SampleTexts -----------------------------
(***************************************************************************)
(* The source texts the models are run on.  Each is the smallest text that *)
(* makes one path of the index, of a cross-file query or of the            *)
(* diagnostics go a different way from the others.                         *)
(***************************************************************************)
EXTENDS Naturals

SampleNames == {"f", "g"}
SampleSpans == 1..4
SampleTokens == {"Function", "Type"}
SampleClassTokens == {"Type"}
SampleKinds == {"unused", "syntax"}

State(name, scope, range, span, token, lambda, method) ==
  [name |-> name, scope |-> scope, range |-> range, span |-> span,
   token |-> token, lambda |-> lambda, method |-> method]

Install(head, span, effect) ==
  [head |-> head, scope |-> 0, span |-> span, effect |-> effect]

Use(name, range, bound, target) ==
  [name |-> name, range |-> range, bound |-> bound, target |-> target]

Text(states, installations, occurrences, symbols, diagnostics) ==
  [states |-> states, installations |-> installations,
   occurrences |-> occurrences, symbols |-> symbols,
   diagnostics |-> diagnostics]

\* An empty file; f = x -> x, then f assigned again; f = method(); an
\* installation for an f declared elsewhere; one above the declaration; one
\* below it; g a type, with an f that is local to a function body; an indexed
\* variable only, which is in the outline and names nothing.
SampleAnalysis ==
  [empty |->
     Text({}, {}, {}, {}, {}),
   lambda |->
     Text({State("f", 0, 1, 1, "Function", TRUE, FALSE),
           State("f", 0, 1, 2, "Function", FALSE, FALSE)}, {},
          {Use("f", 1, "top", 1), Use("f", 2, "top", 1)},
          {[name |-> "f", range |-> 1]}, {"unused"}),
   declares |->
     Text({State("f", 0, 1, 1, "Function", FALSE, TRUE)}, {},
          {Use("f", 1, "top", 1)}, {[name |-> "f", range |-> 1]}, {}),
   installs |->
     Text({}, {Install("f", 2, "Unresolved"), Install("g", 3, "Rejected")},
          {Use("f", 2, "none", 2)}, {[name |-> "f", range |-> 2]}, {"syntax"}),
   early |->
     Text({State("f", 0, 3, 3, "Function", FALSE, TRUE)},
          {Install("f", 2, "Unresolved")},
          {Use("f", 2, "none", 2), Use("f", 3, "top", 3)},
          {[name |-> "f", range |-> 2], [name |-> "f", range |-> 3]}, {}),
   both |->
     Text({State("f", 0, 1, 1, "Function", FALSE, TRUE)},
          {Install("f", 2, "Effective")},
          {Use("f", 1, "top", 1), Use("f", 2, "top", 1)},
          {[name |-> "f", range |-> 1], [name |-> "f", range |-> 2]},
          {"unused", "syntax"}),
   shadows |->
     Text({State("g", 0, 1, 1, "Type", FALSE, FALSE),
           State("f", 1, 3, 3, "Function", TRUE, FALSE)}, {},
          {Use("g", 1, "top", 1), Use("f", 3, "inner", 3),
           Use("f", 4, "inner", 3)},
          {[name |-> "g", range |-> 1]}, {"unused"}),
   outline |->
     Text({}, {}, {}, {[name |-> "g", range |-> 4]}, {})]

=============================================================================
