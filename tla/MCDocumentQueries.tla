-------------------------- MODULE MCDocumentQueries --------------------------
(***************************************************************************)
(* Small instances of DocumentQueries: two or three short lines with       *)
(* tokens that lie side by side, in one another and over line breaks, and  *)
(* five lines of comments, blocks and other nodes.                         *)
(***************************************************************************)
EXTENDS DocumentQueries, TLC

Node(name, kind, parent) == [name |-> name, kind |-> kind, parent |-> parent]

inner == Node("keyword", "identifier", "macro_definition")
MCTokenNodes ==
    {Node("string", "string", "expression"), inner, Node("variable", "identifier", "command_expression"),
     Node("constant.builtin", "identifier", "format_expression")}
MCFoldNodes == {Node("comment", "comment", "script"), Node("block", "block", "if_block"),
                Node("other", "command_expression", "script")}

MCClientTypes == <<"namespace", "modifier", "keyword", "enum", "string">>
MCClientModifiers == <<"static", "async", "modification">>
MCCaptureIndex == "string" :> 4 @@ "keyword" :> 1 @@ "variable" :> 3 @@ "constant.builtin" :> 2

Encoding(o, m, k, l) == [overlapping |-> o, multiline |-> m, foldKinds |-> k, linesOnly |-> l]
MCEncodings ==
    {Encoding(FALSE, FALSE, {"comment", "region"}, TRUE), Encoding(TRUE, FALSE, {"region"}, FALSE),
     Encoding(FALSE, TRUE, {}, FALSE)}

Doc(text, cuts, spots, nodes, max) ==
    [text |-> text, cuts |-> cuts, spots |-> spots, nodes |-> nodes, max |-> max]

\* Three nodes of any kind in two lines with a wide character, ranges of a text without
\* a final line break, and four nodes of two kinds in a line.
MCTokenDocs ==
    {Doc(<<"w", "a", "LF", "a", "LF">>, {0, 4, 5, 6, 7}, {}, MCTokenNodes, 3),
     Doc(<<"a", "LF", "a">>, {0, 1, 2, 3}, {Position(0, 1), Position(1, 0), Position(2, 0)}, MCTokenNodes, 3),
     Doc(<<"a", "a", "a", "a", "LF">>, 0..4, {}, {inner, Node("string", "string", "expression")}, 4)}
MCFoldDocs ==
    {Doc(<<"a", "LF", "LF", "a", "LF", "LF">>, {0, 1, 2, 3, 5, 6}, {}, MCFoldNodes, 3)}
=============================================================================
