--------------------------- MODULE DocumentQueries ---------------------------
(***************************************************************************)
(* Requests that are answered from one document: semantic tokens of the    *)
(* whole text or of a range of it, and folding ranges.  The main loop      *)
(* looks the document up and schedules a task with a copy of it; a worker  *)
(* runs the query, takes its captures one by one and builds the answer.    *)
(* The captures are external: any nodes of a tree, outer ones first.       *)
(***************************************************************************)
EXTENDS SemanticTokens, CodeFolds

CONSTANTS TokenDocs,   \* documents asked for tokens: text, bytes where nodes start and end, ends of
                       \* ranges, captures by name, kind and parent, and a bound on their number
          FoldDocs,    \* documents asked for folds
          Encodings    \* what clients support: tokens that overlap or go over lines, folds of lines only

\* Nodes start and end at characters of the text or behind the last one, a capture has an
\* index, and the folds query has three captures, one of them for comments only.
ASSUME DocsAssumption ==
    /\ \A d \in TokenDocs \cup FoldDocs :
          d.text \in Seq(STRING) /\ \A o \in d.cuts : IsBorder(d.text, o)
    /\ \A d \in TokenDocs : \A n \in d.nodes : n.name \in DOMAIN CaptureIndex /\ CaptureIndex[n.name] \in Nat
    /\ \A d \in FoldDocs : \A n \in d.nodes :
          n.name \in {"comment", "block", "other"} /\ (n.name = "comment") = (n.kind = "comment")

VARIABLES query,   \* the task: what is asked of which document
          seen,    \* the captures so far
          found,   \* the tokens or folds so far and the last capture
          answer   \* the response

vars == <<query, seen, found, answer>>

NoQuery == [kind |-> "none"]
NoAnswer == [kind |-> "none"]
Null == [kind |-> "null"]

\* The document is not in the store: the answer is null at once.
UnknownDoc == query = NoQuery /\ answer = NoAnswer /\ answer' = Null /\ UNCHANGED <<query, seen, found>>

Ask(kind, doc, from, to) ==
    /\ query = NoQuery /\ answer = NoAnswer
    /\ query' = [kind |-> kind, doc |-> doc, lines |-> LineMapOf(doc.text),
                 from |-> from, to |-> to]
    /\ UNCHANGED <<seen, found, answer>>

TokensFullRequest == \E d \in TokenDocs : Ask("tokens", d, 0, Bytes(d.text))
FoldingRangeRequest == \E d \in FoldDocs : Ask("folds", d, 0, Bytes(d.text))

\* A range in any order: to_byte_range puts its ends in order first.
TokensRangeRequest ==
    \E d \in TokenDocs : \E a, b \in d.spots :
        LET lines == LineMapOf(d.text)
            start == IF Before(b, a) THEN b ELSE a
            end == IF Before(b, a) THEN a ELSE b
        IN  Ask("tokens", d, ToByteOffset(start, lines, d.text), ToByteOffset(end, lines, d.text))

(***************************************************************************)
(* The nodes come in the order of their starts, an outer one before those  *)
(* in it, and none reaches over the end of another.  The highlights query  *)
(* may capture a node more than once, the folds query does it never; a     *)
(* comment has nothing inside and ends with a line.                        *)
(***************************************************************************)
Inside(a, b) == b.start <= a.start /\ a.end <= b.end
Follows(c, before) ==
    /\ \A i \in DOMAIN before :
         \/ c.start >= before[i].end
         \/ Inside(c, before[i]) /\ before[i].kind # "comment" /\ (query.kind = "folds" => ~Inside(before[i], c))
    /\ before # <<>> => c.start >= Last(before).start
    /\ c.kind = "comment" => ToPosition(c.end, query.lines, query.doc.text).character = 0

Touched(c) == c.start < query.to /\ c.end > query.from

NextCapture(Add(_, _, _)) ==
    /\ answer = NoAnswer /\ Len(seen) < query.doc.max
    /\ \E n \in query.doc.nodes, s, e \in query.doc.cuts :
         LET c == [start |-> s, end |-> e, name |-> n.name, kind |-> n.kind, parent |-> n.parent]
             span == SpanOf(c, query.lines, query.doc.text)
         IN  /\ s <= e /\ Follows(c, seen) /\ Touched(c)
             /\ seen' = Append(seen, c)
             /\ found' = Add(found, c, span)
    /\ UNCHANGED <<query, answer>>

CaptureToken == query.kind = "tokens" /\ NextCapture(AddCapture)
CaptureFold == query.kind = "folds" /\ NextCapture(AddFold)

FinishTokens ==
    /\ query.kind = "tokens" /\ answer = NoAnswer
    /\ \E e \in Encodings :
         answer' = [kind |-> "tokens", encoding |-> e, data |-> SemanticTokens(query.lines, found.list, e)]
    /\ UNCHANGED <<query, seen, found>>

FinishFolds ==
    /\ query.kind = "folds" /\ answer = NoAnswer
    /\ \E e \in Encodings :
         answer' = [kind |-> "folds", encoding |-> e,
                    data |-> MarkCodeFolds(EndFolds(found), e.foldKinds, e.linesOnly)]
    /\ UNCHANGED <<query, seen, found>>

Init == query = NoQuery /\ seen = <<>> /\ found = [list |-> <<>>, prior |-> "none"] /\ answer = NoAnswer

Next ==
    \/ UnknownDoc \/ TokensFullRequest \/ TokensRangeRequest \/ FoldingRangeRequest
    \/ CaptureToken \/ CaptureFold \/ FinishTokens \/ FinishFolds

Spec == Init /\ [][Next]_vars
-----------------------------------------------------------------------------
(***************************************************************************)
(* Properties.                                                             *)
(***************************************************************************)
Used(c) == ~Ignored(c) /\ TypesOf(c) # {}

(* A span has at most one token, and it shows the capture with the highest *)
(* index of all that have taken the span, the first of them if there are   *)
(* more, whatever the order they came in and whatever nodes there are in   *)
(* between.  This follows the comment at t32/query.rs:723; the note at     *)
(* query.rs:74 speaks of the index of the pattern, which the code does not *)
(* look at.                                                                *)
HighestCaptureShown ==
    query.kind = "tokens" =>
        /\ \A i, j \in DOMAIN found.list : i # j => found.list[i].span # found.list[j].span
        /\ \A k \in {i \in DOMAIN seen : Used(seen[i])} :
             LET same == {i \in DOMAIN seen : Used(seen[i]) /\ Inside(seen[i], seen[k]) /\ Inside(seen[k], seen[i])}
                 best == seen[Min({i \in same : \A j \in same : CaptureIndex[seen[j].name] <= CaptureIndex[seen[i].name]})]
             IN  \E i \in DOMAIN found.list :
                   found.list[i] = [span |-> SpanOf(seen[k], query.lines, query.doc.text),
                                    type |-> Min(TypesOf(best)), modifiers |-> ModifiersOf(best)]

\* What the client makes of the numbers of an answer.
Decoded ==
    LET data == answer.data
        Next5(acc, k) ==
            LET line == data[5 * k - 4]
                character == data[5 * k - 3]
            IN  Append(acc, [line |-> line + (IF k = 1 THEN 0 ELSE acc[k - 1].line),
                             character |-> character + (IF k = 1 \/ line > 0 THEN 0 ELSE acc[k - 1].character),
                             len |-> data[5 * k - 2], type |-> data[5 * k - 1] + 1])
    IN  FoldLeft(Next5, <<>>, [k \in 1..(Len(data) \div 5) |-> k])

\* No token holds others while it ends in another line than it starts in.
NestedInLine ==
    \A i, j \in DOMAIN found.list :
        i # j /\ found.list[i].span.start.line < found.list[i].span.end.line =>
            ~(/\ ~Before(found.list[j].span.start, found.list[i].span.start)
              /\ ~Before(found.list[i].span.end, found.list[j].span.end))

Answered(kind) == answer.kind = kind
Flat == ~answer.encoding.overlapping /\ ~answer.encoding.multiline

\* A character of the text, by the offset of its line and its own in units.
Covers(t, p) == t.line = p.line /\ t.character <= p.character /\ p.character < t.character + t.len

(* The tokens of an answer come in the order of their places, so that no   *)
(* number of it is below 0, whatever the client supports (a subtraction    *)
(* of unsigned numbers in encode_semantic_tokens_relative_format).  A      *)
(* client that supports neither overlapping tokens nor tokens over line    *)
(* breaks sees every character in the type of the innermost token that     *)
(* holds it, once, and no token past the end of its line                   *)
(* (split_multiline_semantic_tokens, flatten_semantic_tokens and the       *)
(* encodings; the hazard is a token in another token that crosses a line). *)
InnermostShown ==
    Answered("tokens") /\ NestedInLine =>
        /\ \A i \in DOMAIN answer.data : i % 5 # 0 => answer.data[i] >= 0
        /\ Flat =>
             LET shown == Decoded
             IN  /\ \A i \in DOMAIN shown :
                      shown[i].character + shown[i].len <= MaxUnit(query.lines, shown[i].line)
                 /\ \A i \in 1..Len(query.doc.text) :
                      query.doc.text[i] \notin {"CR", "LF"} =>
                         LET p == ToPosition(Offset(query.doc.text, i), query.lines, query.doc.text)
                             holding == {k \in DOMAIN found.list : /\ ~Before(p, found.list[k].span.start)
                                                                   /\ Before(p, found.list[k].span.end)}
                             covering == {k \in DOMAIN shown : Covers(shown[k], p)}
                         IN  IF holding = {} THEN covering = {}
                             ELSE \E k \in covering : /\ covering = {k}
                                                      /\ shown[k].type = found.list[Max(holding)].type

\* The captures of nodes that are not empty, and those of them that are comments
\* which follow each other without a gap.
Solid == {i \in DOMAIN seen : seen[i].start < seen[i].end}
Span(i) == SpanOf(seen[i], query.lines, query.doc.text)

Adjacent(k, l) == k < l /\ \A m \in Solid : m <= k \/ l <= m

Run(i, j) ==
    /\ i \in Solid /\ j \in Solid /\ i <= j
    /\ \A k \in Solid : i <= k /\ k <= j => seen[k].name = "comment"
    /\ \A k, l \in Solid : i <= k /\ l <= j /\ Adjacent(k, l) => Span(k).end.line = Span(l).start.line

WholeRun(i, j) ==
    Run(i, j) /\ \A k \in Solid : (k < i => ~Run(k, j)) /\ (k > j => ~Run(i, k))

RunFold(i, j) == Fold([start |-> Span(i).start, end |-> Span(j).end], "comment")

(* Comments without a gap that are at least three lines long together are  *)
(* one folding range, from the first to the last, and no other range       *)
(* starts at one of them (capture_code_folds: a range grows, is replaced   *)
(* or removed by what comes after it).                                     *)
CommentsFoldOnce ==
    Answered("folds") =>
        \A i, j \in Solid :
            WholeRun(i, j) /\ Len3(RunFold(i, j)) =>
                \E k \in DOMAIN answer.data :
                  /\ answer.data[k] = MarkCodeFolds(<<RunFold(i, j)>>, answer.encoding.foldKinds,
                                                  answer.encoding.linesOnly)[1]
                  /\ \A l \in DOMAIN answer.data \ {k} :
                       answer.data[l].kind = "comment" =>
                          answer.data[l].startLine \notin Span(i).start.line..(Span(j).end.line - 1)

=============================================================================
