------------------------------ MODULE MC_Programs ------------------------------
(***************************************************************************)
(* Three analyses of small programs, one of them at a time: the quick      *)
(* fixes of Rewrites, the highlights of Transfers and the types of Rings.  *)
(* What belongs to the others stays empty.                                 *)
(***************************************************************************)
EXTENDS Integers

Controls == INSTANCE SampleControls
Trees == INSTANCE SampleTrees
Sources == INSTANCE SampleFiles

ControlTexts == Controls!ControlTexts
TreePrograms == Trees!TreePrograms
RingFiles == Sources!RingFiles

VARIABLES text, fixes, program, cursor, highlights, file, done, bindings, byPlace, generators

Rewriting ==
  INSTANCE Rewrites WITH Texts <- ControlTexts, Variables <- {"x", "y"}, Call <- "f()"
Highlighting ==
  INSTANCE Transfers WITH Programs <- TreePrograms, Callables <- {"apply", "scan", "select"}
Typing ==
  INSTANCE Rings WITH Files <- RingFiles, Letters <- <<"x", "y", "z">>

controls == <<text, fixes>>
trees == <<program, cursor, highlights>>
files == <<file, done, bindings, byPlace, generators>>
vars == <<controls, trees, files>>

NoText == text = <<>> /\ fixes = {}
NoTree == program = [tokens |-> <<>>, nodes |-> {}] /\ cursor = 0 /\ highlights = {}
NoFile == file = <<>> /\ done = 0 /\ bindings = <<>> /\ byPlace = <<>> /\ generators = <<>>

Init ==
  \/ Rewriting!Init /\ NoTree /\ NoFile
  \/ NoText /\ Highlighting!Init /\ NoFile
  \/ NoText /\ NoTree /\ Typing!Init

Fix == Rewriting!Next /\ UNCHANGED <<trees, files>>
Highlight == Highlighting!Next /\ UNCHANGED <<controls, files>>
CheckTypes == Typing!Next /\ UNCHANGED <<controls, trees>>

Next == Fix \/ Highlight \/ CheckTypes

Spec == Init /\ [][Next]_vars /\ WF_text(Rewriting!Take)

-----------------------------------------------------------------------------
(* The properties, stated where they are named. *)

\* A fix of a plain text gives one that does the same.
KeepsMeaningInPlainText == Rewriting!KeepsMeaningInPlainText

\* Applying one fix after another comes to an end, but where flattening goes round.
FixesComeToAnEnd == Rewriting!FixesComeToAnEnd

\* Where a hint begins there is a fix for what it covers.
EveryHintHasItsFix == text # <<>> => Rewriting!EveryHintHasItsFix

\* The transfers reported are those nothing takes, but for a return in a loop.
ReportedWhereNothingTakesIt == Highlighting!ReportedWhereNothingTakesIt

\* A return that is reported is in no function, as the message says.
ReturnsInFunctionsStand == Highlighting!ReturnsInFunctionsStand

\* From every keyword of a highlighted group the same group is highlighted, and
\* what a semicolon marks begins its statement, stays in it, and pairs brackets.
HighlightsAgree == Highlighting!HighlightsAgree

\* Every name has the type of its value, however rings set and reset their
\* variables, and names of one ring give its numbers one type.
TypesFollowTheValues == Typing!TypesFollowTheValues

=============================================================================
