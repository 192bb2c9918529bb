----------------------------- MODULE MacroReach -----------------------------
(***************************************************************************)
(* What a lookup of a macro has to find in documents that do not change    *)
(* while it runs: the reference the rounds of MacroLookup are compared     *)
(* with.  D maps the files that are stored to their documents.             *)
(*                                                                         *)
(* The operators follow the workflow described at the top of               *)
(* ls/tasks/lang/references.rs and of find_definition in definitions.rs,   *)
(* as closures, without tasks, counters or rounds.                         *)
(***************************************************************************)
EXTENDS Naturals, FiniteSets

CONSTANT Uri  \* files

(* The least set that contains S and what Grow adds to it.  A chain over   *)
(* pairs of files is not longer than there are pairs.                      *)
Closure(Grow(_), S, bound) ==
  LET f[n \in Nat] == IF n = 0 THEN S ELSE Grow(f[n - 1]) IN f[bound]

(* The search in a document ended without a final definition, so that its  *)
(* callers are asked.                                                      *)
Unresolved(t) == t.search \in {"partial", "open"}
Defines(t) == t.search \in {"final", "partial"}

(* The same for a search that starts where the script calls another one:   *)
(* its definition may be in force for some of its calls and not for others. *)
DefinesFor(t, callee) == callee \in t.after
UnresolvedFor(t, callee) ==
  callee \in t.calls /\ IF DefinesFor(t, callee) THEN t.search = "partial"
                        ELSE t.search # "none"

(* The document has the macro among its macros.                            *)
Mentions(t) == t.uses \/ Defines(t)

(* Pairs of a script and the script it has to call for its definitions to  *)
(* count, starting from the callers of o.                                  *)
CallChains(D, o) ==
  Closure(LAMBDA S :
            S \union UNION {{<<c, p[1]>> : c \in D[p[1]].callers} :
                              p \in {q \in S : /\ q[1] \in DOMAIN D
                                               /\ UnresolvedFor(D[q[1]].text, q[2])}},
          {<<c, o>> : c \in D[o].callers},
          Cardinality(Uri \X Uri))

(* Files with definitions that apply to the macro in o.                    *)
Definitions(D, o) ==
  {u \in {o} : Defines(D[o].text)}
    \union IF Unresolved(D[o].text)
           THEN {u \in DOMAIN D : \E p \in CallChains(D, o) :
                                    p[1] = u /\ DefinesFor(D[u].text, p[2])}
           ELSE {}

(* Go to Definition: global definitions elsewhere count if the search has  *)
(* left the file.                                                          *)
FoundDefinitions(D, o) ==
  Definitions(D, o)
    \union IF Unresolved(D[o].text) /\ D[o].listed
           THEN {u \in DOMAIN D \ {o} : D[u].text.global}
           ELSE {}

(* Scripts to which the macro is passed on.                                *)
Inheriting(D, S) ==
  Closure(LAMBDA T : T \union UNION {D[u].text.inherits : u \in T \intersect DOMAIN D},
          S, Cardinality(Uri))

(* Find References: the definitions, and the uses in all scripts that are  *)
(* called, at any depth, where a definition is in force.  A global macro   *)
(* of the file itself may be used in every script that mentions it.        *)
FoundReferences(D, o) ==
  LET defs == Definitions(D, o)
      everywhere == {u \in DOMAIN D : /\ o \in defs /\ D[o].text.global
                                      /\ ~(Unresolved(D[o].text) /\ D[o].listed)
                                      /\ Mentions(D[u].text)}
      called == UNION {D[u].text.after : u \in defs}
  IN IF D[o].text.search = "none" THEN {}
     ELSE IF defs = {} THEN {o}
     ELSE defs \union {u \in Inheriting(D, called \union everywhere) \intersect DOMAIN D :
                         D[u].text.uses}
=============================================================================
