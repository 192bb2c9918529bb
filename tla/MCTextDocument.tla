--------------------------- MODULE MCTextDocument ---------------------------
(***************************************************************************)
(* A small instance of TextDocument: short texts with line breaks of every *)
(* kind and wide characters, and changes that put in at most a character.  *)
(***************************************************************************)
EXTENDS TextDocument, SequencesExt

MCTexts ==
    SeqOf({"a", "LF"}, 3)
    \cup {<<"a", "CR", "LF">>, <<"CR", "a", "LF">>, <<"w", "LF", "w">>, <<"a", "LF", "LF", "a">>}
MCInserts == {<<>>, <<"a">>, <<"LF">>, <<"CR">>}

\* One kind of line breaks only.
PlainTexts == SeqOf({"a", "LF"}, 4)
PlainInserts == {<<>>, <<"a">>, <<"LF">>}
=============================================================================
