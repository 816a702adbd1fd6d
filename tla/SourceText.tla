------------------------------ MODULE SourceText ------------------------------
(***************************************************************************)
(* The text of an open document and its positions, src/src/source.rs and   *)
(* the incremental changes of src/src/document.rs.                         *)
(*                                                                         *)
(* A text is a sequence of characters.  Rust and tree-sitter count bytes   *)
(* of UTF-8, the protocol counts lines and code units of UTF-16, and the   *)
(* server converts between the two with a line index that it builds once   *)
(* for every text.  Beside it stands the editor's buffer, changed by the   *)
(* same edits as the protocol defines them.                                *)
(*                                                                         *)
(* Every CR of a buffer is followed by LF: editors normalise line ends     *)
(* when they read a file.  A lone CR would end a line for the protocol and *)
(* does not for the server.                                                *)
(***************************************************************************)
EXTENDS SequencesExt, FiniteSetsExt, Integers

CONSTANTS Chars,          \* characters, with
          LF, CR,         \* the two that end lines,
          Utf8, Utf16,    \* and their lengths in bytes and in code units
          Replacements,   \* texts that edits put in
          Documents       \* texts that are opened or sent as a whole

CONSTANT MaxChars         \* bound: characters of a text

\* A text of an editor.
EndsLines(t) == \A i \in DOMAIN t : t[i] = CR => i < Len(t) /\ t[i + 1] = LF

ASSUME SourceTextAssumption ==
  /\ {LF, CR} \subseteq Chars /\ LF # CR
  /\ Utf8 \in [Chars -> 1..4] /\ Utf16 \in [Chars -> 1..2]
  /\ Utf8[LF] = 1 /\ Utf8[CR] = 1
  /\ Replacements \subseteq Seq(Chars) /\ Documents \subseteq Seq(Chars)
  /\ \A t \in Replacements \cup Documents : EndsLines(t)

VARIABLES text,       \* DocumentSource::text
          lineIndex,  \* DocumentSource::line_index, from a text of some time
          buffer      \* the editor's text

vars == <<text, lineIndex, buffer>>

-----------------------------------------------------------------------------
(* Lengths. *)

Bytes(t) == FoldLeft(LAMBDA n, c : n + Utf8[c], 0, t)

\* utf16_len
Units(t) == FoldLeft(LAMBDA n, c : n + Utf16[c], 0, t)

\* The first i characters, those from i up to j, and those after j.
Before(t, i)     == SubSeq(t, 1, i)
Between(t, i, j) == SubSeq(t, i + 1, j)
After(t, j)      == SubSeq(t, j + 1, Len(t))

ByteOf(t, i) == Bytes(Before(t, i))

\* floor_char_boundary, as the number of characters before the boundary: every
\* slice of a text is taken at one.
FloorChar(t, byte) == Max({i \in 0..Len(t) : ByteOf(t, i) <= byte})

Slice(t, from, to) == Between(t, FloorChar(t, from), FloorChar(t, to))

-----------------------------------------------------------------------------
(* The line index. *)

\* Mutant: the CR before a line's LF belongs to its content.
StripLF(line) ==
  IF line # <<>> /\ Last(line) = LF THEN Front(line) ELSE line

\* A line without its end: LF goes, and then CR, LF or not.
StripLineEnd(line) ==
  LET content == IF line # <<>> /\ Last(line) = LF THEN Front(line) ELSE line
  IN  IF content # <<>> /\ Last(content) = CR THEN Front(content) ELSE content

\* The line ends among the first characters.
Breaks(t, i) == Cardinality({j \in 1..i : t[j] = LF})

\* Lines start at the beginning and after every LF, whatever follows it.
StartOf(t, k) ==
  CHOOSE i \in 0..Len(t) : Breaks(t, i) = k - 1 /\ (i = 0 \/ t[i] = LF)

\* LineIndex::new: the byte range of the content of every line.
IndexOf(t) ==
  LET lines == Breaks(t, Len(t)) + 1
      next(k) == IF k = lines THEN Len(t) ELSE StartOf(t, k + 1)
  IN  [k \in 1..lines |->
        [start |-> ByteOf(t, StartOf(t, k)),
         stop  |-> ByteOf(t, StartOf(t, k))
                     + Bytes(StripLineEnd(Between(t, StartOf(t, k), next(k))))]]

\* line_for_byte: the last line that starts at or before the byte.
LineForByte(byte) ==
  Max({k \in DOMAIN lineIndex : lineIndex[k].start <= byte})

Smaller(m, n) == IF m < n THEN m ELSE n

-----------------------------------------------------------------------------
(* Positions: lines from 0, columns in code units.  Points: rows from 0,    *)
(* columns in bytes.                                                        *)

\* position_for_byte: a byte of a line end has the position of the end of the
\* line's content.
PositionForByte(byte) ==
  LET boundary == ByteOf(text, FloorChar(text, byte))
      k == LineForByte(boundary)
      line == lineIndex[k]
  IN  [line |-> k - 1,
       character |-> Units(Slice(text, line.start,
                                 Smaller(boundary, line.stop)))]

\* utf16_column_to_byte: the last character boundary at or before the column;
\* past the end, the end.
ColumnToByte(content, column) ==
  ByteOf(content, Max({k \in 0..Len(content) :
                         Units(Before(content, k)) <= column}))

\* byte_for_position, bytes_for_range: a line the index does not have has no
\* byte; a range that ends before it starts has no bytes.
HasByte(position) == position.line + 1 \in DOMAIN lineIndex

ByteForPosition(position) ==
  LET line == lineIndex[position.line + 1]
  IN  line.start + ColumnToByte(Slice(text, line.start, line.stop),
                                position.character)

Resolves(range) ==
  /\ HasByte(range.start) /\ HasByte(range.end)
  /\ ByteForPosition(range.start) <= ByteForPosition(range.end)

\* point_for_byte
PointForByte(byte) ==
  LET boundary == ByteOf(text, FloorChar(text, byte))
      k == LineForByte(boundary)
  IN  [row |-> k - 1, column |-> boundary - lineIndex[k].start]

\* Mutant: the column goes on over the line end.
AdvanceRow(start, inserted) ==
  [row |-> start.row + Breaks(inserted, Len(inserted)),
   column |-> start.column + Bytes(inserted)]

\* advance_point: the point after a text that is inserted at a point.
AdvancePoint(start, inserted) ==
  IF Breaks(inserted, Len(inserted)) = 0
  THEN [row |-> start.row, column |-> start.column + Bytes(inserted)]
  ELSE [row |-> start.row + Breaks(inserted, Len(inserted)),
        column |-> Bytes(After(inserted,
                               Max({i \in DOMAIN inserted : inserted[i] = LF})))]

\* visible_ranges: the pieces of a byte range that lie in the content of one
\* line, in order; the empty ones are left out.
VisibleRanges(from, to) ==
  LET first == PositionForByte(from).line + 1
      last  == PositionForByte(to).line + 1
      cut(k) ==
        [from |-> Smaller(IF k = first THEN from ELSE lineIndex[k].start,
                          lineIndex[k].stop),
         to   |-> Smaller(IF k = last THEN to ELSE lineIndex[k].stop,
                          lineIndex[k].stop)]
      line(k) == IF cut(k).from < cut(k).to THEN <<cut(k)>> ELSE <<>>
  IN  FlattenSeq([n \in 1..(last - first + 1) |-> line(first + n - 1)])

-----------------------------------------------------------------------------
(* Changes. *)

\* The InputEdit that tells tree-sitter how the text is about to change.
InputEdit(range, replacement) ==
  LET start  == ByteForPosition(range.start)
      oldEnd == ByteForPosition(range.end)
  IN  [startByte |-> start, oldEndByte |-> oldEnd,
       newEndByte |-> start + Bytes(replacement),
       startPoint |-> PointForByte(start),
       oldEndPoint |-> PointForByte(oldEnd),
       newEndPoint |-> AdvancePoint(PointForByte(start), replacement)]

\* Mutant: the line index is built when the document is opened only.
ReplaceText(t) == text' = t /\ UNCHANGED lineIndex

\* DocumentSource::new and replace_range build the line index with the text.
SetText(t) == text' = t /\ lineIndex' = IndexOf(t)

\* apply_incremental_change: a range that does not resolve changes nothing.
ApplyIncrementalChange(range, replacement) ==
  IF Resolves(range)
  THEN LET start  == ByteForPosition(range.start)
           oldEnd == ByteForPosition(range.end)
       IN  SetText(Before(text, FloorChar(text, start)) \o replacement
                     \o After(text, FloorChar(text, oldEnd)))
  ELSE UNCHANGED <<text, lineIndex>>

-----------------------------------------------------------------------------
(* The editor (external).  It knows its text by the places between          *)
(* characters, but never stops between CR and LF.                           *)

Inside(t, i) == i \in 1..(Len(t) - 1) /\ t[i] = CR /\ t[i + 1] = LF

Places(t) == {i \in 0..Len(t) : ~Inside(t, i)}

\* The characters of a line, ended by LF or CR LF.
LineStart(t, i) == Max({0} \cup {j \in 1..i : t[j] = LF})

ClientPosition(t, i) ==
  [line |-> Breaks(t, i),
   character |-> Units(Between(t, LineStart(t, i), i))]

AtLineEnd(t, i) == i = Len(t) \/ t[i + 1] \in {CR, LF}

\* A position the editor may send for a place: past the end of a line it means
\* the end.
Sent(t, i) ==
  LET exact == ClientPosition(t, i)
  IN  {exact} \cup
      (IF AtLineEnd(t, i) THEN {[exact EXCEPT !.character = @ + 1]} ELSE {})

Edits(t) ==
  UNION {{[from |-> p[1], to |-> p[2], range |-> [start |-> s, end |-> e],
           replacement |-> r] :
            s \in Sent(t, p[1]), e \in Sent(t, p[2]), r \in Replacements} :
           p \in {q \in Places(t) \X Places(t) : q[1] <= q[2]}}

EditedBuffer(e) ==
  Before(buffer, e.from) \o e.replacement \o After(buffer, e.to)

Fits(t) == Len(t) <= MaxChars

-----------------------------------------------------------------------------
Init ==
  /\ buffer \in Documents
  /\ text = buffer
  /\ lineIndex = IndexOf(buffer)

Edit ==
  \E e \in Edits(buffer) :
    /\ Fits(EditedBuffer(e))
    /\ buffer' = EditedBuffer(e)
    /\ ApplyIncrementalChange(e.range, e.replacement)

\* A change without a range has the whole text.
Resend ==
  \E t \in Documents : buffer' = t /\ SetText(t)

Next == Edit \/ Resend

Spec == Init /\ [][Next]_vars

-----------------------------------------------------------------------------
(* Properties. *)

\* After any sequence of edits the server has the editor's text: the ranges of
\* an editor that is in step always resolve, to the places it means.
SameText == text = buffer

\* What the server sends as a position is the place the editor takes it for,
\* for every byte; a byte inside a character or a line end has the position of
\* its beginning.
PositionsAgree ==
  \A i \in 0..Len(text) :
    \A byte \in ByteOf(text, i)..(IF i = Len(text) THEN Bytes(text) + 1
                                  ELSE ByteOf(text, i + 1) - 1) :
      PositionForByte(byte) =
        ClientPosition(text, IF Inside(text, i) THEN i - 1 ELSE i)

\* The row and column of a place as tree-sitter counts them.
PointOf(t, i) ==
  [row |-> Breaks(t, i),
   column |-> Bytes(Between(t, LineStart(t, i), i))]

\* The old tree is reused for the new text, so the edit it is told of has to be
\* the edit that happens: each end of it has the byte and the point that it has
\* in the old text or, for the new end, in the new one.
TreeEditsFit ==
  \A e \in Edits(buffer) :
    LET edit == InputEdit(e.range, e.replacement)
        new  == EditedBuffer(e)
        end  == e.from + Len(e.replacement)
    IN  /\ edit.startByte = ByteOf(text, e.from)
        /\ edit.oldEndByte = ByteOf(text, e.to)
        /\ edit.newEndByte = ByteOf(new, end)
        /\ edit.startPoint = PointOf(text, e.from)
        /\ edit.oldEndPoint = PointOf(text, e.to)
        /\ edit.newEndPoint = PointOf(new, end)

=============================================================================
