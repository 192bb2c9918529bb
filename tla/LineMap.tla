------------------------------- MODULE LineMap -------------------------------
(***************************************************************************)
(* The line table of a text document (ls/doc/textdoc.rs): where each line  *)
(* starts in bytes and how many UTF-16 units it has, and the conversions   *)
(* between positions of the protocol and offsets into the text.            *)
(*                                                                         *)
(* A text is a sequence of characters.  "CR" and "LF" are the characters   *)
(* of a line break, "w" is a wide character (four bytes, two UTF-16 units) *)
(* and every other character has one byte and one unit.  Offsets, lines    *)
(* and columns count from 0 as in the code.                                *)
(***************************************************************************)
EXTENDS Integers, Sequences, FiniteSets, FiniteSetsExt

\* max_utf16_char_offset of a last line without characters.
None == -1

Bytes(s) == Len(s) + 3 * Cardinality({i \in DOMAIN s : s[i] = "w"})
Units(s) == Len(s) + Cardinality({i \in DOMAIN s : s[i] = "w"})
Prefix(s, n) == SubSeq(s, 1, n)
Offset(s, i) == Bytes(Prefix(s, i - 1))

\* s[offset..], which panics unless the offset is the border of a character.
IsBorder(s, offset) == \E i \in 1..(Len(s) + 1) : Offset(s, i) = offset
From(s, offset) ==
    SubSeq(s, CHOOSE i \in 1..(Len(s) + 1) : Offset(s, i) = offset, Len(s))

Ascending(S) == [k \in 1..Cardinality(S) |-> CHOOSE x \in S : Cardinality({y \in S : y < x}) = k - 1]

(* The first characters of the line breaks, and the character behind one.  *)
IsBreak(s, i) == s[i] = "CR" \/ (s[i] = "LF" /\ (i = 1 \/ s[i - 1] # "CR"))
Behind(s, i) == IF s[i] = "CR" /\ i < Len(s) /\ s[i + 1] = "LF" THEN i + 2 ELSE i + 1

\* The table of a text: the scan ends with the first line break that does not
\* start in front of `cutoff`, an offset into this text like the others here; only
\* the starts of the lines are shifted by `bias`.
CreateLineMap(s, bias, cutoff) ==
    LET breaks == {i \in DOMAIN s : IsBreak(s, i)}
        first == Ascending({1} \cup {Behind(s, i) : i \in {j \in breaks : Offset(s, j) < cutoff}})
        last(k) == Min({i \in breaks : i >= first[k]} \cup {Len(s) + 1}) - 1
    IN  [starts |-> [k \in DOMAIN first |-> bias + Offset(s, first[k])],
         units |-> [k \in DOMAIN first |-> IF first[k] > Len(s) THEN None
                                           ELSE Units(SubSeq(s, first[k], last(k)))]]

NoCutoff(s) == Bytes(s) + 1
LineMapOf(s) == CreateLineMap(s, 0, NoCutoff(s))

NumLines(lines) == Len(lines.starts)
Start(lines, line) == lines.starts[line + 1]
MaxUnit(lines, line) == lines.units[line + 1]
EndsWithEol(lines) == MaxUnit(lines, NumLines(lines) - 1) = None

\* The binary search for the line of an offset, -1 when no line starts before it.
LineAt(lines, offset) ==
    LET bound == 0..NumLines(lines)
        search[span \in bound \X bound] ==
            LET left == span[1]
                right == span[2]
                idx == left \div 2 + right \div 2
            IN  IF left >= right THEN right - 1
                ELSE IF Start(lines, idx) > offset THEN search[<<left, idx>>]
                ELSE search[<<idx + 1, right>>]
    IN  search[<<0, NumLines(lines)>>]

Position(line, character) == [line |-> line, character |-> character]
Before(a, b) == a.line < b.line \/ (a.line = b.line /\ a.character < b.character)

\* How far a scan of `s` gets that stops once `n` units are behind it, and how
\* many whole characters fit into `n` units.
ScanUnits(s, n) == Min({i \in 0..Len(s) : Units(Prefix(s, i)) >= n} \cup {Len(s)})
FitUnits(s, n) == Max({i \in 0..Len(s) : Units(Prefix(s, i)) <= n})

\* Deviation: a position behind the last line is taken for one in that line.
NormalizeIntoText(spot, lines, text) ==
    LET num == NumLines(lines)
    IN  IF spot.line >= num THEN Position(num - 1, 0) ELSE spot

(***************************************************************************)
(* A position behind the last line means the end of the text; one behind   *)
(* the last unit of its line the start of the next one or, when the text   *)
(* has no final line break, the unit after as many as its last line has.   *)
(***************************************************************************)
NormalizePosition(spot, lines, text) ==
    LET num == NumLines(lines)
        max == IF MaxUnit(lines, spot.line) = None THEN 0 ELSE MaxUnit(lines, spot.line)
    IN  IF spot.line >= num
        THEN IF EndsWithEol(lines) THEN Position(num, 0)
             ELSE Position(num - 1, MaxUnit(lines, num - 1))
        ELSE IF spot.character > max
        THEN IF EndsWithEol(lines) THEN Position(spot.line + 1, 0)
             ELSE Position(spot.line, MaxUnit(lines, num - 1) + 1)
        ELSE IF spot.character \in 1..(max - 1)
        THEN LET tail == From(text, Start(lines, spot.line))
             IN  Position(spot.line, Units(Prefix(tail, FitUnits(tail, spot.character))))
        ELSE spot

\* get_column_offset_at: the bytes of a line in front of a position.
ColumnAt(spot, lines, text) ==
    IF spot.character = 0 \/ spot.line >= NumLines(lines) THEN 0
    ELSE LET tail == From(text, Start(lines, spot.line))
         IN  Bytes(Prefix(tail, ScanUnits(tail, spot.character)))

ByteOffsetAt(spot, lines, text) ==
    IF spot.line >= NumLines(lines) THEN Bytes(text)
    ELSE Start(lines, spot.line) + ColumnAt(spot, lines, text)

\* What the lookups of a position read of the text exists: the slices of the text
\* at the start of its line do not panic.
CanLocate(spot, lines, text) ==
    \/ spot.line >= NumLines(lines)
    \/ spot.character = 0
    \/ IsBorder(text, Start(lines, spot.line))

ToByteOffset(spot, lines, text) == ByteOffsetAt(NormalizePosition(spot, lines, text), lines, text)

\* Deviation: the scan for the position goes on until it is past the offset.
ToPositionBehind(offset, lines, text) ==
    IF offset >= Bytes(text)
    THEN Position(IF EndsWithEol(lines) THEN NumLines(lines) - 1 ELSE NumLines(lines), 0)
    ELSE LET line == LineAt(lines, offset)
             tail == From(text, Start(lines, line))
         IN  Position(line, Cardinality({i \in 1..Len(tail) :
                                Start(lines, line) + Bytes(Prefix(tail, i - 1)) <= offset}))

\* The position of an offset: one at the end of the text is in a line of its own.
ToPosition(offset, lines, text) ==
    IF offset >= Bytes(text)
    THEN Position(IF EndsWithEol(lines) THEN NumLines(lines) - 1 ELSE NumLines(lines), 0)
    ELSE LET line == LineAt(lines, offset)
             tail == From(text, Start(lines, line))
             past == Min({i \in 0..Len(tail) : Start(lines, line) + Bytes(Prefix(tail, i)) >= offset}
                         \cup {Len(tail)})
         IN  Position(line, Units(Prefix(tail, past)))
=============================================================================
