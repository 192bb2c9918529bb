--------------------------- MODULE SemanticTokens ---------------------------
(***************************************************************************)
(* How the captures of the highlights query become the semantic tokens of  *)
(* a response: the choice of type and modifiers (t32/query.rs), and the    *)
(* split, the flattening and the two encodings of the token list           *)
(* (ls/tasks/lang/semantic.rs).                                            *)
(*                                                                         *)
(* A capture names its node, start and end in bytes, the capture, and the  *)
(* kinds of the node and of its parent.  The index of a capture name and   *)
(* the order of the captures are Tree-sitter's.                            *)
(***************************************************************************)
EXTENDS LineMap, SequencesExt

CONSTANTS ClientTypes, ClientModifiers,  \* the token types and modifiers of the client, in its order
          CaptureIndex                   \* the index of each capture name in the query

(***************************************************************************)
(* The legend, and the captures each type and each modifier stands for.    *)
(***************************************************************************)
Legend ==
    [types |-> SelectSeq(ClientTypes, LAMBDA t : t \in
        {"type", "function", "macro", "variable", "keyword", "operator", "label", "comment",
         "string", "number", "parameter", "modifier", "enum"}),
     modifiers |-> SelectSeq(ClientModifiers, LAMBDA m : m \in
        {"definition", "defaultLibrary", "abstract", "modification", "static"})]

TypeCaptures(type) ==
    CASE type = "keyword" ->
             {"conditional", "keyword.function", "keyword", "keyword.operator",
              "conditional.ternary", "repeat", "keyword.return"}
      [] type = "string" -> {"string", "string.special"}
      [] type = "variable" -> {"variable", "constant"}
      [] type = "function" -> {"function", "function.builtin", "function.call"}
      [] type \in {"modifier", "enum"} -> {"constant.builtin"}
      [] type = "macro" -> {"variable.builtin"}
      [] type = "parameter" -> {"variable.parameter"}
      [] OTHER -> {type}

ModifierCaptures(modifier) ==
    CASE modifier = "definition" -> {"variable.builtin"}
      [] modifier = "static" -> {"conditional", "repeat", "keyword.return"}
      [] modifier = "abstract" -> {"string.special"}
      [] modifier = "modification" -> {"keyword"}
      [] modifier = "defaultLibrary" -> {"function.builtin", "constant.builtin"}

(***************************************************************************)
(* One capture: it adds a token, takes the place of the last one when both *)
(* have the same span and its index is higher, or is left out.             *)
(***************************************************************************)
Ignored(c) ==
    \/ c.start = c.end
    \/ c.name = "operator" /\ c.parent = "macro"
    \/ c.name = "variable" /\ c.parent \in
         {"command_expression", "macro_definition", "subroutine_call_expression",
          "parameter_declaration", "option_expression", "format_expression"}

ModifiersOf(c) ==
    {i \in DOMAIN Legend.modifiers :
        /\ c.name \in ModifierCaptures(Legend.modifiers[i])
        /\ c.name \in {"variable.builtin", "keyword"} => c.parent = "macro_definition"}

TypesOf(c) ==
    {i \in DOMAIN Legend.types :
        /\ c.name \in TypeCaptures(Legend.types[i])
        /\ c.name = "type" => c.kind \in {"hll_type_descriptor", "hll_type_identifier"}
        /\ ~(c.name = "constant.builtin" /\ c.parent = "format_expression"
             /\ Legend.types[i] = "modifier")}

SpanOf(c, lines, text) ==
    [start |-> ToPosition(c.start, lines, text), end |-> ToPosition(c.end, lines, text)]

\* Deviation: the first capture of a span wins.
AddFirstCapture(found, c, span) ==
    IF Ignored(c) \/ TypesOf(c) = {} \/ (found.list # <<>> /\ Last(found.list).span = span) THEN found
    ELSE [list |-> Append(found.list, [span |-> span, type |-> Min(TypesOf(c)), modifiers |-> ModifiersOf(c)]),
          prior |-> c.name]

\* The second of two types that a capture has meets the token of the first.
AddCapture(found, c, span) ==
    IF Ignored(c) \/ TypesOf(c) = {} THEN found
    ELSE LET token == [span |-> span, type |-> Min(TypesOf(c)), modifiers |-> ModifiersOf(c)]
             again == found.list # <<>> /\ Last(found.list).span = span
         IN  IF again /\ CaptureIndex[c.name] <= CaptureIndex[found.prior] THEN found
             ELSE [list |-> Append(IF again THEN Front(found.list) ELSE found.list, token),
                   prior |-> c.name]

(***************************************************************************)
(* The list for a client without tokens that go over a line break.  One    *)
(* that ends with its line, at the start of the next, is left alone.       *)
(***************************************************************************)
CrossesLines(t) ==
    t.span.end.line > t.span.start.line
    /\ ~(t.span.end.character = 0 /\ t.span.end.line = t.span.start.line + 1)

Segments(lines, t) ==
    LET s == t.span.start
        e == t.span.end
        eol(l) == IF l < NumLines(lines) /\ MaxUnit(lines, l) # None THEN MaxUnit(lines, l)
                  ELSE s.character + 1
        Part(l) == [t EXCEPT !.span =
                      [start |-> IF l = s.line THEN s ELSE Position(l, 0),
                       end |-> IF l = e.line THEN e ELSE Position(l, eol(l))]]
        n == e.line - s.line + (IF e.character > 0 THEN 1 ELSE 0)
    IN  [i \in 1..n |-> Part(s.line + i - 1)]

SplitMultiline(lines, tokens) ==
    FlattenSeq([i \in DOMAIN tokens |->
                  IF CrossesLines(tokens[i]) THEN Segments(lines, tokens[i]) ELSE <<tokens[i]>>])

(***************************************************************************)
(* The list for a client without tokens that overlap: a token that has     *)
(* others inside is cut into the pieces between them.  The tokens not yet  *)
(* finished are on a stack, and `cutoff` is where the list has got to.     *)
(***************************************************************************)
Far == Position(1000000, 1000000)
Sentinel == [span |-> [start |-> Far, end |-> Far], type |-> 0, modifiers |-> {}]

SpanContains(a, b) ==
    /\ b.start.line >= a.start.line /\ b.start.character >= a.start.character
    /\ b.end.line <= a.end.line /\ b.end.character <= a.end.character

Later(a, b) == IF Before(a, b) THEN b ELSE a
Piece(t, from, to) == [t EXCEPT !.span = [start |-> from, end |-> to]]

\* Deviation: the whole of a finished token is listed, the pieces of it as well.
PopWhole(acc, t) ==
    IF ~Before(acc.cutoff, t.span.end) THEN acc
    ELSE [acc EXCEPT !.list = Append(@, t), !.cutoff = t.span.end]

\* A token that is finished: what of it the list has not got to yet.
Pop(acc, t) ==
    IF ~Before(acc.cutoff, t.span.end) THEN acc
    ELSE [acc EXCEPT !.list = Append(@, Piece(t, Later(acc.cutoff, t.span.start), t.span.end)),
                     !.cutoff = t.span.end]

\* The next token: the tokens on the stack that do not hold it are finished, and the
\* one that does shows in front of it.
FlattenStep(acc, token) ==
    LET child == token.span
        keep == Max({i \in DOMAIN acc.stack : SpanContains(acc.stack[i].span, child)} \cup {0})
        popped == FoldLeft(Pop, acc, Reverse(SubSeq(acc.stack, keep + 1, Len(acc.stack))))
        parent == acc.stack[keep]
        from == IF keep = Len(acc.stack) THEN parent.span.start
                ELSE Later(popped.cutoff, parent.span.start)
        filler == Before(parent.span.start, child.start) /\ Before(popped.cutoff, child.start)
    IN  [list |-> IF keep > 0 /\ filler THEN Append(popped.list, Piece(parent, from, child.start))
                  ELSE popped.list,
         stack |-> Append(SubSeq(acc.stack, 1, keep), token),
         cutoff |-> IF keep > 0 \/ acc.stack = <<>> THEN child.start ELSE popped.cutoff]

\* A last token that nothing holds finishes the others.
Flatten(tokens) ==
    FoldLeft(FlattenStep, [list |-> <<>>, stack |-> <<>>, cutoff |-> tokens[1].span.start],
             Append(tokens, Sentinel)).list

(***************************************************************************)
(* The encoding: the length of a token without its line breaks, its place  *)
(* relative to the token in front of it, and five numbers for each.        *)
(***************************************************************************)
Distance(lines, a, b) ==
    LET start == IF Before(b, a) THEN b ELSE a
        end == IF Before(b, a) THEN a ELSE b
        Width(l) == IF MaxUnit(lines, l) = None THEN 0
                    ELSE MaxUnit(lines, l) - (IF l = start.line THEN start.character ELSE 0)
    IN  IF start.line = end.line THEN end.character - start.character + 1
        ELSE MapThenSumSet(Width, start.line..(end.line - 1)) + end.character + 1

AbsoluteFormat(lines, tokens) ==
    [i \in DOMAIN tokens |->
       [line |-> tokens[i].span.start.line, character |-> tokens[i].span.start.character,
        len |-> Max({Distance(lines, tokens[i].span.start, tokens[i].span.end) - 1, 0}),
        type |-> tokens[i].type, modifiers |-> tokens[i].modifiers]]

RelativeFormat(tokens) ==
    [i \in DOMAIN tokens |->
       LET prior == IF i = 1 THEN Position(0, 0) ELSE tokens[i - 1]
           t == tokens[i]
       IN  [t EXCEPT !.line = @ - prior.line,
                     !.character = IF t.line = prior.line THEN @ - prior.character ELSE @]]

IntegerArray(tokens) ==
    FlattenSeq([i \in DOMAIN tokens |->
       <<tokens[i].line, tokens[i].character, tokens[i].len, tokens[i].type - 1, tokens[i].modifiers>>])

(***************************************************************************)
(* capture_semantic_tokens_full_doc and capture_semantic_tokens_doc_range  *)
(* from the tokens of the query on.                                        *)
(***************************************************************************)
SemanticTokens(lines, tokens, encoding) ==
    LET split == IF encoding.multiline \/ tokens = <<>> THEN tokens ELSE SplitMultiline(lines, tokens)
        flat == IF encoding.overlapping \/ tokens = <<>> THEN split ELSE Flatten(split)
    IN  IntegerArray(RelativeFormat(AbsoluteFormat(lines, flat)))
=============================================================================
