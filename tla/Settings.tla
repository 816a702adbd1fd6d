------------------------------- MODULE Settings -------------------------------
(***************************************************************************)
(* How a configuration payload becomes the server's settings,              *)
(* src/src/settings.rs.                                                    *)
(*                                                                         *)
(* A payload is a JSON object: a function from the keys that are present.  *)
(* The settings may sit under "m2-ls", under "macaulay2" or directly in    *)
(* the payload.  Every struct is deserialised with #[serde(default)]:      *)
(* a key that is missing takes its default, a key nobody knows is ignored. *)
(* A width is a natural number, with 0 for null: both switch a limit off.  *)
(* The remaining formatting settings are passed on untouched and left out. *)
(***************************************************************************)
EXTENDS Integers

CONSTANT SelectorKind   \* selector (stable name or code of a rule) -> rule

Rules == {SelectorKind[s] : s \in DOMAIN SelectorKind}

Unset == -1   \* LegacyLineWidth::Unset

DefaultDiagnostics == [enabled |-> TRUE, disabled |-> {}]
DefaultInlayHints  == [expressionTypes |-> FALSE, allKnownTypes |-> FALSE]
DefaultFormatting  == [softLineWidth |-> 100, hardLineWidth |-> 100,
                       maxLineWidth |-> Unset]

DefaultSettings ==
  [diagnostics |-> DefaultDiagnostics, formatting |-> DefaultFormatting,
   inlayHints |-> DefaultInlayHints]

Policies == [enabled : BOOLEAN, disabled : SUBSET Rules]
HintOptions == [expressionTypes : BOOLEAN, allKnownTypes : BOOLEAN]
Layouts == [softLineWidth : Nat, hardLineWidth : Nat,
            maxLineWidth : Nat \cup {Unset}]
ServerSettings ==
  [diagnostics : Policies, formatting : Layouts, inlayHints : HintOptions]

-----------------------------------------------------------------------------
(* ServerSettings::from_value *)

\* The object that holds the settings.
Section(value) ==
  IF "m2-ls" \in DOMAIN value THEN value["m2-ls"]
  ELSE IF "macaulay2" \in DOMAIN value THEN value["macaulay2"]
  ELSE value

\* #[serde(default)]: the fields of `default`, each from the object if there.
Filled(object, default) ==
  [k \in DOMAIN default |-> IF k \in DOMAIN object THEN object[k]
                                                  ELSE default[k]]

Field(object, key, default) ==
  IF key \in DOMAIN object THEN Filled(object[key], default) ELSE default

\* The fields of an object that the code knows have the types it gives them:
\* serde rejects any other payload, as it does one that is no object.
FieldsOf(object, types) ==
  \A k \in DOMAIN object \cap DOMAIN types : object[k] \in types[k]

Typed(value) ==
  LET section == Section(value)
  IN  /\ "diagnostics" \in DOMAIN section =>
           FieldsOf(section.diagnostics,
                    [enabled |-> BOOLEAN, disabled |-> SUBSET STRING])
      /\ "formatting" \in DOMAIN section =>
           FieldsOf(section.formatting,
                    [softLineWidth |-> Nat, hardLineWidth |-> Nat,
                     maxLineWidth |-> Nat])
      /\ "inlayHints" \in DOMAIN section =>
           FieldsOf(section.inlayHints,
                    [expressionTypes |-> BOOLEAN, allKnownTypes |-> BOOLEAN])

\* Selectors name rules; one that names none rejects the whole payload.
Selectors(value) == Field(Section(value), "diagnostics",
                          DefaultDiagnostics).disabled

Accepted(value) == Selectors(value) \subseteq DOMAIN SelectorKind

FromValue(value) ==
  LET section == Section(value)
      diagnostics == Field(section, "diagnostics", DefaultDiagnostics)
  IN  [diagnostics |->
         [enabled  |-> diagnostics.enabled,
          disabled |-> {SelectorKind[s] : s \in diagnostics.disabled}],
       formatting |-> Field(section, "formatting", DefaultFormatting),
       inlayHints |-> Field(section, "inlayHints", DefaultInlayHints)]

-----------------------------------------------------------------------------
(* What the settings are read for. *)

\* DiagnosticPolicy::allows
Allows(policy, kind) == policy.enabled /\ kind \notin policy.disabled

\* FormattingConfiguration::line_widths: <<soft, hard>>, 0 for no limit.
LineWidths(formatting) ==
  LET hard == formatting.hardLineWidth
      soft == formatting.softLineWidth
  IN  IF formatting.maxLineWidth # Unset
      THEN <<formatting.maxLineWidth, formatting.maxLineWidth>>
      ELSE <<IF soft > hard /\ hard > 0 THEN hard ELSE soft, hard>>

=============================================================================
