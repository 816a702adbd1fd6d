----------------------------- MODULE SourceFacts -----------------------------
(***************************************************************************)
(* What the analysis of one Macaulay2 source text contributes to the rest  *)
(* of the server.                                                          *)
(*                                                                         *)
(* A text is an opaque value.  The constant Analysis gives, for each text, *)
(* the parts of `Analysis` that workspace_index.rs, navigation.rs and      *)
(* capabilities/diagnostics.rs read: the binding states with the scope     *)
(* that owns them, the method installations, the occurrences of names with *)
(* the kind of binding each resolves to, the outline and the kinds of      *)
(* diagnostics.  The operators are the filters that turn those into global *)
(* facts; scope 0 is the top level of the file.                            *)
(*                                                                         *)
(* Parsing is total here: M2Parser is built afresh for every text with no  *)
(* timeout and no cancellation flag, so parse_tree answers every text with *)
(* a tree and from_text with a snapshot.                                   *)
(***************************************************************************)
EXTENDS Naturals

CONSTANTS Texts,            \* source texts
          Names,            \* symbol names
          Spans,            \* source ranges
          Tokens,           \* semantic token types
          DiagnosticKinds,  \* diagnostic rules
          Analysis          \* [Texts -> AnalysisResult]

CONSTANTS ClassTokens       \* the token types of types and classes

Effects == {"Rejected", "Unresolved", "Effective"}
Bindings == {"none", "top", "inner"}

BindingState ==
  [name : Names, scope : Nat, range : Spans, span : Spans, token : Tokens,
   lambda : BOOLEAN, method : BOOLEAN]

Installation ==
  [head : Names, scope : Nat, span : Spans, effect : Effects]

\* `target` is the range of the binding the occurrence resolves to; an unbound
\* occurrence has its own.
Occurrence ==
  [name : Names, range : Spans, bound : Bindings, target : Spans]

AnalysisResult ==
  [states        : SUBSET BindingState,
   installations : SUBSET Installation,
   occurrences   : SUBSET Occurrence,
   symbols       : SUBSET [name : Names, range : Spans],
   diagnostics   : SUBSET DiagnosticKinds]

ASSUME AnalysisAssumption ==
  /\ ClassTokens \subseteq Tokens
  /\ Analysis \in [Texts -> AnalysisResult]

-----------------------------------------------------------------------------
(* The global facts of a text: workspace_index.rs, top_level_*. *)

TopLevelStates(text) == {s \in Analysis[text].states : s.scope = 0}

\* Every state of a top-level binding is a definition site; the one at the
\* binding's own range is its declaration.
TopLevelDefinitions(text) ==
  {[name |-> s.name, range |-> s.span, token |-> s.token,
    declares |-> s.span = s.range] : s \in TopLevelStates(text)}

\* A lambda bound at the top level implements its name outright.  A method
\* installation counts unless it was rejected, and needs a declaration of the
\* method in some other file unless this file already makes it effective.
TopLevelImplementations(text) ==
  {[name |-> s.name, range |-> s.span, kind |-> "Lambda", needs |-> FALSE] :
     s \in {t \in TopLevelStates(text) : t.lambda}}
    \cup
  {[name |-> i.head, range |-> i.span, kind |-> "Method",
    needs |-> i.effect # "Effective"] :
     i \in {j \in Analysis[text].installations :
              j.scope = 0 /\ j.effect # "Rejected"}}

TopLevelMethodDeclarations(text) ==
  {s.name : s \in {t \in TopLevelStates(text) : t.method}}

\* collect_workspace_symbols: the outermost entries of the outline.
WorkspaceSymbols(text) == Analysis[text].symbols

-----------------------------------------------------------------------------
(* The same facts as index_file records them: a name and a location in a    *)
(* file.                                                                    *)

DefinitionEntries(uri, text) ==
  {<<d.name, [uri |-> uri, range |-> d.range, token |-> d.token,
              declares |-> d.declares]>> : d \in TopLevelDefinitions(text)}

ImplementationEntries(uri, text) ==
  {<<i.name, [uri |-> uri, range |-> i.range, kind |-> i.kind,
              needs |-> i.needs]>> : i \in TopLevelImplementations(text)}

DeclarationEntries(uri, text) ==
  {<<n, [uri |-> uri]>> : n \in TopLevelMethodDeclarations(text)}

\* The names index_file records for the file.
NamesOf(text) ==
  {d.name : d \in TopLevelDefinitions(text)}
    \cup {i.name : i \in TopLevelImplementations(text)}
    \cup TopLevelMethodDeclarations(text)

=============================================================================
