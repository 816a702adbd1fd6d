------------------------------- MODULE MC_Server -------------------------------
(* Constants for the models of Server. *)
EXTENDS Server, SampleTexts, TLC

TheAnalyses == [t \in Texts |-> SampleAnalysis[t]]

TwoTexts == {"lambda", "installs"}
NamedAndUnnamed == {"lambda", "outline"}

\* Two selectors of one rule, its name and its code, and one of another rule.
SampleSelectors ==
  "unused-binding" :> "unused" @@ "W01" :> "unused" @@ "syntax-error" :> "syntax"

\* Silence everything; silence one rule and show hints; the defaults; a payload
\* for another server; an unknown rule.
Silence == "m2-ls" :> [diagnostics |-> [enabled |-> FALSE]]
Select ==
  "macaulay2" :> [diagnostics |-> [disabled |-> {"W01"}],
                  inlayHints |-> [expressionTypes |-> TRUE]]
Nothing == [formatting |-> [hardLineWidth |-> 80]]
Unknown == "m2-ls" :> [diagnostics |-> [disabled |-> {"no-such-rule"}]]

AllPayloads == {Silence, Select, Nothing, Unknown}
SomePayloads == {Select, Nothing, Unknown}
HintPayloads == {Select, Nothing}
OneOption == {Nothing}
SomeOptions == {Nothing, Unknown, Select}

\* Every file under every folder; a file under overlapping folders and one in a
\* place scan skips (or outside the folders).
InAllFolders == [uri \in FileUris |-> Roots]
OverlapAndOutside ==
  [uri \in FileUris |-> IF uri \in Watched THEN Roots ELSE {}]

=============================================================================
