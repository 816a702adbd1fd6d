-------------------------- MODULE MC_WorkspaceIndex --------------------------
(* WorkspaceIndex on three files and every sample text. *)
EXTENDS WorkspaceIndex, SampleTexts

AllTexts == DOMAIN SampleAnalysis

=============================================================================
