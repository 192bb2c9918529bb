----------------------------- MODULE MCTextDocs -----------------------------
(***************************************************************************)
(* Small instances of TextDocs for TLC.                                    *)
(***************************************************************************)
EXTENDS TextDocs

CONSTANTS m, do

Caller == [calls |-> <<2, 1>>, macros |-> {}, commands |-> <<do>>]
Leaf   == [calls |-> <<>>, macros |-> {m}, commands |-> <<>>]
Twice  == [calls |-> <<1, 1>>, macros |-> {m}, commands |-> <<do, do>>]

Texts == {Caller, Leaf, Twice}
MCTextOf == [u \in {1, 2, 3} |-> CASE u = 1 -> {Caller, Leaf}
                                  [] u = 2 -> {Twice}
                                  [] u = 3 -> {}]

Rename1To2 == [o \in {1} |-> 2]
Rename1To3 == [o \in {1} |-> 3]
Rename2To3 == [o \in {2} |-> 3]
MCRenames == {Rename1To2, Rename1To3, Rename2To3}
=============================================================================
