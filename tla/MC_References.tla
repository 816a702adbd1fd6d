----------------------------- MODULE MC_References -----------------------------
(* Constants for the models of References. *)
EXTENDS References, SampleTexts

UseAndDefinition == {"lambda", "installs"}
UseAndShadow == {"lambda", "shadows", "installs"}
TheAnalyses == [t \in Texts |-> SampleAnalysis[t]]
NoSelectors == [s \in {} |-> "unused"]
NoOptions == {[formatting |-> [hardLineWidth |-> 80]]}

Everywhere == [uri \in FileUris |-> Roots]

=============================================================================
