---------------------------- MODULE TextDocument ----------------------------
(***************************************************************************)
(* One open document under incremental synchronisation: the editor changes *)
(* its text and sends each change as a range and the new text of it, the   *)
(* server applies the changes to its copy in the order of the notification *)
(* (update_doc of ls/doc.rs) and keeps the line table of the copy up to    *)
(* date (TextDoc::update of ls/doc/textdoc.rs).                            *)
(*                                                                         *)
(* When a change reaches the server is the matter of TaskScheduler; here   *)
(* each one is applied when it is made.                                    *)
(***************************************************************************)
EXTENDS LineMap

CONSTANTS Texts,     \* the texts a document is opened with
          Inserts,   \* the texts a change puts in
          MaxEdits,  \* bound: changes after the document was opened
          MaxLength  \* bound: characters of the text of the editor

ASSUME BoundAssumption == MaxEdits \in Nat /\ MaxLength \in Nat
ASSUME TextsAssumption == Texts \subseteq Seq(STRING) /\ Inserts \subseteq Seq(STRING)

VARIABLES editor,    \* the text of the editor
          text,      \* TextDoc::text
          lines,     \* TextDoc::lines
          edit,      \* the last InputEdit given to Tree-sitter
          panicked,  \* the worker that applied the last change panicked
          edits      \* changes so far

vars == <<editor, text, lines, edit, panicked, edits>>

NoEdit == [start |-> 0]

(***************************************************************************)
(* What the editor does: it knows the positions of its own text.           *)
(***************************************************************************)
Spots(s) ==
    LET map == LineMapOf(s)
        width(l) == IF MaxUnit(map, l) = None THEN 0 ELSE MaxUnit(map, l)
    IN  {Position(NumLines(map), 0)} \cup
        UNION {{Position(l, c) : c \in 0..width(l)} : l \in 0..(NumLines(map) - 1)}

\* Positions between characters, never within a wide one.
CharSpots(s) ==
    LET map == LineMapOf(s)
    IN  {p \in Spots(s) : NormalizePosition(p, map, s).character = p.character}

Replace(s, from, to, new) ==
    LET at(offset) == CHOOSE i \in 1..(Len(s) + 1) : Offset(s, i) = offset
    IN  SubSeq(s, 1, at(from) - 1) \o new \o SubSeq(s, at(to), Len(s))

(***************************************************************************)
(* TextDoc::update.                                                        *)
(***************************************************************************)
WellFormed(a, b, map, s) ==
    LET from == NormalizePosition(a, map, s)
        to == NormalizePosition(b, map, s)
    IN  IF Before(to, from) THEN [start |-> to, end |-> from] ELSE [start |-> from, end |-> to]

\* A shifted offset below 0 wraps to the top of the unsigned integers.
Top == 1000000
Shifted(offset, shift) == IF offset + shift < 0 THEN Top + offset + shift ELSE offset + shift

\* The lines from `first` on up to the line break behind `newEnd` are scanned again
\* and put in front of the lines from `upper` on.
FromSegment(map, s, first, upper, newEnd, shift) ==
    LET from == Start(map, first)
        segment == CreateLineMap(From(s, from), from, newEnd)
        Joined(old, middle, rest) == SubSeq(old, 1, first) \o middle \o rest
        rest == SubSeq(map.starts, upper + 1, NumLines(map))
    IN  [starts |-> Joined(map.starts, segment.starts, [k \in DOMAIN rest |-> Shifted(rest[k], shift)]),
         units |-> Joined(map.units, segment.units, SubSeq(map.units, upper + 1, NumLines(map)))]

\* How many lines there are up to and with the one the replaced text ended in.
LinesUpTo(map, oldEndRow) == Min({oldEndRow + 1, NumLines(map)})

\* The lines from the one of the change on are drained after those behind the
\* replaced text, which panics when the table has become shorter than that.
Drainable(map, start, oldEndRow) == LineAt(map, start) <= LinesUpTo(map, oldEndRow)

\* Deviation: the line the replaced text ended in is kept as well.
UpdateKeepingLine(map, s, start, oldEnd, oldEndRow, newEnd) ==
    FromSegment(map, s, LineAt(map, start), oldEndRow, newEnd, newEnd - oldEnd)

(***************************************************************************)
(* The scan starts at the line of the change, yet `newEnd` counts from the *)
(* start of the text: in a later line than the first the scan goes too     *)
(* far, and the lines it has found stand in the table twice.               *)
(***************************************************************************)
UpdateLineMap(map, s, start, oldEnd, oldEndRow, newEnd) ==
    FromSegment(map, s, LineAt(map, start), LinesUpTo(map, oldEndRow), newEnd, newEnd - oldEnd)

Point(row, column) == [row |-> row, column |-> column]

InputEdit(start, oldEnd, newEnd, startPoint, oldEndPoint, newEndPoint) ==
    [start |-> start, oldEnd |-> oldEnd, newEnd |-> newEnd,
     startPoint |-> startPoint, oldEndPoint |-> oldEndPoint, newEndPoint |-> newEndPoint]

\* The slices of the text the lookups take exist, and so does the replaced range.
Applicable(a, b, map, s) ==
    /\ CanLocate(a, map, s) /\ CanLocate(b, map, s)
    /\ LET range == WellFormed(a, b, map, s)
           start == ByteOffsetAt(range.start, map, s)
           oldEnd == ByteOffsetAt(range.end, map, s)
       IN  /\ CanLocate(range.start, map, s) /\ CanLocate(range.end, map, s)
           /\ start <= oldEnd /\ IsBorder(s, start) /\ IsBorder(s, oldEnd)

\* One element of the changes of a notification: the replaced range, the new line
\* table from the new text, and the edit that Tree-sitter parses with.
Update(a, b, new) ==
    LET range == WellFormed(a, b, lines, text)
        start == ByteOffsetAt(range.start, lines, text)
        oldEnd == ByteOffsetAt(range.end, lines, text)
        newEnd == start + Bytes(new)
        from == Start(lines, LineAt(lines, start))
    IN  \E s \in {Replace(text, start, oldEnd, new)} :
          /\ text' = s
          /\ IF IsBorder(s, from) /\ Drainable(lines, start, range.end.line)
             THEN /\ lines' = UpdateLineMap(lines, s, start, oldEnd, range.end.line, newEnd)
                  /\ LET line == LineAt(lines', newEnd)
                     IN  edit' = InputEdit(start, oldEnd, newEnd,
                           Point(range.start.line, ColumnAt(range.start, lines, text)),
                           Point(range.end.line, ColumnAt(range.end, lines, text)),
                           Point(line, newEnd - Start(lines', line)))
                  /\ UNCHANGED panicked
             ELSE panicked' = TRUE /\ UNCHANGED <<lines, edit>>

Edited(a, b, new) ==
    LET map == LineMapOf(editor)
    IN  Replace(editor, ByteOffsetAt(a, map, editor), ByteOffsetAt(b, map, editor), new)

Change ==
    /\ edits < MaxEdits /\ ~panicked
    /\ \E a, b \in CharSpots(editor), new \in Inserts :
         /\ ~Before(b, a)
         /\ editor' = Edited(a, b, new)
         /\ Len(editor') <= MaxLength
         /\ IF Applicable(a, b, lines, text) THEN Update(a, b, new)
            ELSE panicked' = TRUE /\ UNCHANGED <<text, lines, edit>>
    /\ edits' = edits + 1

\* The document is opened, or closed and opened again: TextDoc::from.  Bound: one
\* of the texts it can be opened with is reached again.
Opened(s) ==
    /\ editor' = s /\ text' = s /\ lines' = LineMapOf(s)
    /\ edit' = NoEdit /\ panicked' = FALSE /\ edits' = 0

Reopen == edits > 0 /\ editor \in Texts /\ Opened(editor)

Init ==
    /\ editor \in Texts /\ text = editor /\ lines = LineMapOf(text)
    /\ edit = NoEdit /\ panicked = FALSE /\ edits = 0

Next == Change \/ Reopen

Spec == Init /\ [][Next]_vars
-----------------------------------------------------------------------------
(***************************************************************************)
(* Properties.                                                             *)
(***************************************************************************)
InSync == text = editor /\ ~panicked
TableExact == lines = LineMapOf(text)
Changed == edits' = edits + 1

\* The change leaves no CR in front of an LF at either end of the new text.
Seam(s, offset) ==
    \E i \in 2..Len(s) : Offset(s, i) = offset /\ s[i - 1] = "CR" /\ s[i] = "LF"
Seamless == ~Seam(text', edit'.start) /\ ~Seam(text', edit'.newEnd)

(* The line table stays the table of the text under every change that      *)
(* starts in the first line or ends in the last one, unless the change     *)
(* brings a CR and an LF together: line breaks of all three kinds may come *)
(* and go (update_line_map_from_text_segment).                             *)
TableKeptAtEnds ==
    [][InSync /\ TableExact /\ Changed /\ Seamless
          /\ (edit'.startPoint.row = 0 \/ edit'.oldEndPoint.row >= NumLines(lines) - 1)
       => TableExact']_vars

\* Row and column of an offset of a text, in bytes as Tree-sitter measures them.
PointOf(s, offset) ==
    LET map == LineMapOf(s)
        line == Max({l \in 0..(NumLines(map) - 1) : Start(map, l) <= offset})
    IN  Point(line, offset - Start(map, line))

EditDescribed ==
    /\ PointOf(text, edit'.start) = edit'.startPoint
    /\ PointOf(text, edit'.oldEnd) = edit'.oldEndPoint
    /\ PointOf(text', edit'.newEnd) = edit'.newEndPoint

(* A change that meets an exact line table replaces what the editor        *)
(* replaced, whatever the line breaks, the widths of the characters and    *)
(* the range; a wrong table does its harm with the next change, never with *)
(* the one that spoilt it (TextDoc::update).  And the edit that            *)
(* Tree-sitter reparses with describes the change: its offsets and its     *)
(* points agree in the old and in the new text, but for a range that ends  *)
(* behind the last line, which the server leaves there, and a change that  *)
(* brings a CR and an LF together.                                         *)
ChangesLand ==
    [][InSync /\ TableExact =>
        /\ InSync'
        /\ Changed /\ Seamless /\ edit'.oldEndPoint.row < NumLines(lines) => EditDescribed]_vars

(* An offset that lies between two characters, but not within a line break *)
(* of two, is turned into a position and back without loss (to_position,   *)
(* to_byte_offset).                                                        *)
RoundTrip ==
    TableExact =>
        \A i \in 1..(Len(text) + 1) :
            LET offset == Offset(text, i)
            IN  ~Seam(text, offset) => ToByteOffset(ToPosition(offset, lines, text), lines, text) = offset

(* "Afterwards we can create the updated line table by inserting the new   *)
(* segment into the existing one" (ls/doc/textdoc.rs): with its table, the *)
(* server finds the place of the next change, so its text stays the text   *)
(* of the editor.                                                          *)
TextKept == InSync
=============================================================================
