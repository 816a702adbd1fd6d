------------------------------- MODULE MC_Scopes -------------------------------
(* Constants for the model of Scopes. *)
EXTENDS Scopes

SampleTargets == {<<"x">>}

=============================================================================
