------------------------------ MODULE CodeFolds ------------------------------
(***************************************************************************)
(* How the captures of the folds query become folding ranges: the ranges   *)
(* of blocks and of comments in a row (capture_code_folds of t32/query.rs) *)
(* and their form for the client (ls/tasks/lang/folds.rs).                 *)
(***************************************************************************)
EXTENDS LineMap, SequencesExt

MinLenFoldComment == 3

Fold(span, kind) ==
    [startLine |-> span.start.line, startCharacter |-> span.start.character,
     endLine |-> span.end.line, endCharacter |-> span.end.character, kind |-> kind]

Len3(fold) == fold.endLine - fold.startLine >= MinLenFoldComment

ReplaceLast(s, x) == Append(Front(s), x)

\* Deviation: a comment extends the fold only if it starts in the line after its end.
AddFarComments(found, c, span) ==
    IF c.start = c.end \/ c.name # "comment" THEN found
    ELSE [list |-> IF found.prior # "comment" THEN Append(found.list, Fold(span, "comment"))
                    ELSE IF Last(found.list).endLine + 1 = span.start.line
                    THEN ReplaceLast(found.list, [Last(found.list) EXCEPT
                           !.endLine = span.end.line, !.endCharacter = span.end.character])
                    ELSE ReplaceLast(found.list, Fold(span, "comment")),
          prior |-> "comment"]

\* One capture.  A comment that starts in the line where the last one ended extends
\* its fold; the next comment or block takes the place of a fold that has stayed too
\* short, but any other node in between leaves it in the list.
AddFold(found, c, span) ==
    IF c.start = c.end THEN found
    ELSE LET folds == found.list
             fold == Fold(span, IF c.name = "block" THEN "region" ELSE "comment")
             After ==
                 IF c.name = "comment" /\ Last(folds).endLine = span.start.line
                 THEN ReplaceLast(folds, [Last(folds) EXCEPT !.endLine = span.end.line,
                                                             !.endCharacter = span.end.character])
                 ELSE IF Len3(Last(folds)) THEN Append(folds, fold)
                 ELSE ReplaceLast(folds, fold)
         IN  [list |-> IF c.name = "other" THEN folds
                        ELSE IF found.prior = "comment" THEN After
                        ELSE Append(folds, fold),
              prior |-> c.name]

\* A comment at the end of the script that is too short is removed.
EndFolds(found) ==
    IF found.prior = "comment" /\ ~Len3(Last(found.list)) THEN Front(found.list) ELSE found.list

StripUnsupportedKinds(folds, kinds) ==
    [i \in DOMAIN folds |-> IF folds[i].kind \in kinds THEN folds[i] ELSE [folds[i] EXCEPT !.kind = "none"]]

\* Whole lines only: the end at the start of a line is the end of the line before.
EncodeFolds(folds, linesOnly) ==
    IF ~linesOnly THEN folds
    ELSE [i \in DOMAIN folds |->
           [folds[i] EXCEPT !.endLine = IF folds[i].endCharacter = 0 /\ @ > folds[i].startLine THEN @ - 1 ELSE @,
                            !.startCharacter = None, !.endCharacter = None]]

MarkCodeFolds(folds, kinds, linesOnly) == EncodeFolds(StripUnsupportedKinds(folds, kinds), linesOnly)
=============================================================================
