--------------------------- MODULE MCMacroLookup ---------------------------
(***************************************************************************)
(* Small instances of MacroLookup for TLC: three files that call each      *)
(* other in different ways, and a place to move one of them to.            *)
(***************************************************************************)
EXTENDS MacroLookup

T(calls, search, global, uses) ==
  [calls |-> calls, search |-> search, global |-> global,
   after |-> IF search \in {"final", "partial"} THEN calls ELSE {},
   inherits |-> calls, uses |-> uses]

(* A definition in force for the first of two calls only, and a script     *)
(* that redefines the macro before it calls others.                        *)
Partly == [T({2, 3}, "partial", FALSE, TRUE) EXCEPT !.after = {2}]
Redefines == [T({1, 3}, "final", FALSE, FALSE) EXCEPT !.inherits = {}]

World(a, b, c) == [u \in {1, 2, 3} |-> CASE u = 1 -> a [] u = 2 -> b [] u = 3 -> c]
WithoutLast(a, b) == [u \in {1, 2} |-> IF u = 1 THEN a ELSE b]

Main == T({2, 3}, "final", FALSE, TRUE)
Between == T({3}, "open", FALSE, TRUE)
Caller == T({1, 3}, "partial", FALSE, TRUE)
Global == T({}, "final", TRUE, TRUE)
Passes == T({2}, "open", FALSE, FALSE)
Back == T({1}, "open", FALSE, TRUE)
Other == T({3}, "none", FALSE, FALSE)

MCWorlds == {World(Main, Between, Back), WithoutLast(Main, Caller),
             World(Partly, Between, Back), World(Partly, Redefines, Other),
             World(Passes, Between, Back), World(Passes, Global, Back)}

Edited == T({3}, "final", FALSE, TRUE)
MCEditTo == [u \in 1..4 |-> IF u = 1 THEN {Edited} ELSE {}]
Move == [o \in {1} |-> 4]
MCRenames == {Move}

(* The texts above, and what becomes of them when the file is moved.       *)
Given == UNION {{w[u] : u \in DOMAIN w} : w \in MCWorlds} \union {Edited}
MCText == Given \union {RenamedText(Move, t) : t \in Given}
=============================================================================
