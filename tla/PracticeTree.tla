---------------------------- MODULE PracticeTree ----------------------------
(***************************************************************************)
(* The syntax tree of a PRACTICE script as the analysis walks it (t32/ast.rs *)
(* and the cursors of Tree-sitter).  A script is a sequence of lines, one  *)
(* node of the tree each: a statement, or the opening of a block that lasts *)
(* to the line of its closing parenthesis.  The nodes inside of a statement *)
(* are its fields: the keyword, the label or the target, and the macro.    *)
(***************************************************************************)
EXTENDS Naturals, Sequences

None == "none"

Line(kind, word, name, macro) == [kind |-> kind, word |-> word, name |-> name, macro |-> macro]

\* Keywords are compared without regard to their case.
Upper(word) == CASE word = "entry" -> "ENTRY" [] word = "parameters" -> "PARAMETERS"
                 [] word = "local" -> "LOCAL" [] OTHER -> word

Subroutines == {"labeled_expression", "subroutine_block"}
BlockOpeners == {"block", "if_block"} \union Subroutines
MacroContainers == {"command_expression", "assignment_expression"}

Opens(line) == line.kind \in {"block", "if_block", "subroutine_block"}
                 \/ (line.kind = "labeled_expression" /\ line.word = "(")

\* How many blocks are open behind each line.
Depth(lines) ==
    LET depth[i \in 0..Len(lines)] == IF i = 0 THEN 0
                                      ELSE IF Opens(lines[i]) THEN depth[i - 1] + 1
                                      ELSE IF lines[i].kind = ")" THEN depth[i - 1] - 1
                                      ELSE depth[i - 1]
    IN  depth

Balanced(lines) ==
    Depth(lines)[Len(lines)] = 0 /\ \A i \in DOMAIN lines : Depth(lines)[i] >= 0

\* The tree: last line and parent of every node, 0 for the script.
Parse(lines) ==
    LET depth == Depth(lines)
        Within(i, j) == \A k \in i..(j - 1) : depth[k] >= depth[i]
        EndOf(i) == IF Opens(lines[i])
                    THEN CHOOSE j \in (i + 1)..Len(lines) : depth[j] < depth[i] /\ Within(i, j)
                    ELSE i
        Around(i) == {k \in 1..(i - 1) : Opens(lines[k]) /\ Within(k, i)}
    IN  [lines |-> lines, last |-> [i \in DOMAIN lines |-> EndOf(i)],
         parent |-> [i \in DOMAIN lines |->
                       IF Around(i) = {} THEN 0 ELSE CHOOSE k \in Around(i) : \A l \in Around(i) : l <= k]]

Size(tree) == Len(tree.lines)
Nodes(tree) == {i \in 1..Size(tree) : tree.lines[i].kind # ")"}
Kind(tree, i) == tree.lines[i].kind

\* Offsets.  A statement holds the line break behind it; statements in blocks are indented.
Width == 4
Start(tree, i) == Width * i + (IF tree.parent[i] = 0 THEN 0 ELSE 1)
End(tree, i) == Width * (tree.last[i] + 1)
Span(tree, i) == [start |-> Start(tree, i), end |-> End(tree, i)]
MacroSpan(i) == [start |-> Width * i + 2, end |-> Width * i + 3]
Covers(span, offset) == span.start <= offset /\ offset < span.end

\* The node after all of node i, in its block or behind it, and the first one inside.
NextSibling(tree, i) ==
    LET j == tree.last[i] + 1
    IN  IF j > Size(tree) \/ Kind(tree, j) = ")" THEN 0 ELSE j

RECURSIVE NextAfter(_, _)
NextAfter(tree, i) ==
    IF i = 0 THEN 0
    ELSE LET j == NextSibling(tree, i) IN IF j # 0 THEN j ELSE NextAfter(tree, tree.parent[i])

FirstChild(tree, i) ==
    IF tree.last[i] = i \/ Kind(tree, i + 1) = ")" THEN 0 ELSE i + 1

\* The innermost node at an offset of one of some kinds.
DeepestNode(tree, offset, kinds) ==
    LET at == {i \in Nodes(tree) : Covers(Span(tree, i), offset) /\ Kind(tree, i) \in kinds}
    IN  IF at = {} THEN 0 ELSE CHOOSE i \in at : \A j \in at : j <= i

\* The label or block a subroutine starts with: where a walk through it begins.
GotoSubroutine(tree, offset) ==
    LET at == {i \in Nodes(tree) : Covers(Span(tree, i), offset) /\ Kind(tree, i) \in Subroutines}
    IN  IF at = {} THEN 0 ELSE CHOOSE i \in at : \A j \in at : i <= j
=============================================================================
