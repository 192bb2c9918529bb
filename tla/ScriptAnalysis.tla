--------------------------- MODULE ScriptAnalysis ---------------------------
(***************************************************************************)
(* What is extracted from a script when its document is imported or        *)
(* changed: subroutines and labels, calls, parameter declarations and the  *)
(* macros it defines, explicitly or on first use (t32/expressions.rs, the  *)
(* first half of t32/macros.rs and import_doc of ls/doc.rs).  Nodes stand  *)
(* for the spans the code keeps, and sets for its vectors where the order  *)
(* and repetitions do not count.  Docstrings are left out.                 *)
(***************************************************************************)
EXTENDS PracticeTree

CONSTANTS
    Located,   \* for the argument of a script call, the files it may mean
    Breaker    \* depth of calls at which a walk through subroutines gives up

ASSUME BreakerAssumption == Breaker \in Nat \ {0}

-----------------------------------------------------------------------------
(* Subroutines, labels and calls.                                          *)

Subroutine(tree, i, last) == [name |-> tree.lines[i].name, line |-> i, last |-> last]
Definition(tree, sub) == [start |-> Start(tree, sub.line), end |-> End(tree, sub.last)]

ScanLimit == 10

\* The statement that ends a subroutine which starts with a label and has no block: the
\* first RETURN behind it, also in a plain block.
\* Deviation: the branches of an IF are entered like plain blocks.
HoldsAnyReturn(tree, i) == Kind(tree, i) \in {"block", "if_block"} /\ FirstChild(tree, i) # 0

HoldsReturn(tree, i) == Kind(tree, i) = "block" /\ FirstChild(tree, i) # 0

RECURSIVE ReturnAfter(_, _, _)
ReturnAfter(tree, i, count) ==
    LET line == tree.lines[i]
        Skip == IF count = ScanLimit THEN 0 ELSE ReturnAfter(tree, NextAfter(tree, i), count + 1)
    IN  IF i = 0 \/ line.kind \in Subroutines THEN 0
        ELSE IF HoldsReturn(tree, i)
        THEN ReturnAfter(tree, FirstChild(tree, i), count)
        ELSE IF line.kind # "command_expression" THEN Skip
        ELSE IF line.word = "RETURN" THEN i
        ELSE IF line.word \in {"GOTO", "END", "ENDDO"} THEN 0
        ELSE Skip

\* The last line of the subroutine that starts at node i, 0 for a plain label.
LastOfSubroutine(tree, i) ==
    IF Opens(tree.lines[i]) THEN tree.last[i] ELSE ReturnAfter(tree, NextSibling(tree, i), 0)

\* A label with a command in its line is taken for a label of the command's name, and the
\* scan does not come back from the line.
CommandInLine(line) == line.kind = "labeled_expression" /\ line.word \notin {"", "("}

RECURSIVE SubroutinesAndLabels(_, _, _)
SubroutinesAndLabels(tree, i, found) ==
    IF i = 0 THEN found
    ELSE LET line == tree.lines[i]
             next == NextSibling(tree, i)
             last == LastOfSubroutine(tree, i)
         IN  IF line.kind \notin Subroutines THEN SubroutinesAndLabels(tree, next, found)
             ELSE IF CommandInLine(line)
             THEN [found EXCEPT !.labels = Append(@, [name |-> line.word, line |-> i])]
             ELSE IF last # 0
             THEN SubroutinesAndLabels(tree, next,
                    [found EXCEPT !.subroutines = Append(@, Subroutine(tree, i, last))])
             ELSE SubroutinesAndLabels(tree, next,
                    [found EXCEPT !.labels = Append(@, [name |-> line.name, line |-> i])])

\* All nodes in their order, blocks with what they hold.
Ordered(tree, Wanted(_)) ==
    SelectSeq([i \in 1..Size(tree) |-> i], LAMBDA i : i \in Nodes(tree) /\ Wanted(tree.lines[i]))

IsScriptCall(line) == line.kind = "command_expression" /\ line.word \in {"DO", "RUN"}
IsCall(line) == line.kind = "subroutine_call_expression"

CallExpressions(tree) == Ordered(tree, IsCall)
ScriptCalls(tree) == Ordered(tree, IsScriptCall)
Declares(line) == line.kind = "parameter_declaration"
ParameterDeclarations(tree) == Ordered(tree, Declares)

\* A call with the files it may mean, one after the other; a call of none keeps its place.
ResolvedCalls(tree) == [i \in DOMAIN ScriptCalls(tree) |->
    [line |-> ScriptCalls(tree)[i], targets |-> Located[tree.lines[ScriptCalls(tree)[i]].name]]]

\* The first subroutine of a name, and the subroutine around an offset; none is <<>>.
First(seq, Test(_)) ==
    LET hits == {i \in DOMAIN seq : Test(seq[i])}
    IN  IF hits = {} THEN <<>> ELSE <<seq[CHOOSE i \in hits : \A j \in hits : i <= j]>>

SubroutineNamed(subs, name) == First(subs, LAMBDA s : s.name = name)
ResidesIn(tree, subs, offset) == First(subs, LAMBDA s : Covers(Definition(tree, s), offset))

-----------------------------------------------------------------------------
(* Macro definitions: sets of the lines that define one.                   *)

NoDefs == [privates |-> {}, locals |-> {}, globals |-> {}, implicitPrivates |-> {}, implicitLocals |-> {}]
AddDefs(a, b) == [f \in DOMAIN a |-> a[f] \union b[f]]
WithoutPrivates(defs) == [defs EXCEPT !.privates = {}]

Named(tree, lines, macro) == \E i \in lines : tree.lines[i].macro = macro

\* The list of the keyword's scope.
Scope(word) == CASE Upper(word) = "PRIVATE" -> "privates" [] Upper(word) = "LOCAL" -> "locals"
                 [] Upper(word) = "GLOBAL" -> "globals"

AddExplicit(tree, defs, i) == [defs EXCEPT ![Scope(tree.lines[i].word)] = @ \union {i}]

\* PARAMETERS and RETURNVALUES do not look at the macros of the callers.
IgnoresBlockGlobals(word) == Upper(word) # "ENTRY"

\* An assignment defines a LOCAL macro, ENTRY too, the other declarations a PRIVATE one,
\* if the macro is not known: own are the definitions met in the body so far, outer those
\* of its callers.
AddImplicit(tree, own, outer, i) ==
    LET line == tree.lines[i]
        Known(lines) == Named(tree, lines, line.macro)
        mine == UNION {own[f] : f \in DOMAIN own}
    IN  IF line.kind = "parameter_declaration" /\ IgnoresBlockGlobals(line.word)
        THEN IF Known(mine \union outer.globals) THEN own
             ELSE [own EXCEPT !.implicitPrivates = @ \union {i}]
        ELSE IF Known(mine \union outer.locals \union outer.globals \union outer.implicitLocals) THEN own
             ELSE [own EXCEPT !.implicitLocals = @ \union {i}]

\* What a subroutine and the subroutines it calls define, from the node it starts with to
\* the first one behind its end.  A call passes on all but the PRIVATE macros.
RECURSIVE CallChain(_, _, _, _, _, _)
RECURSIVE BodyDefs(_, _, _, _, _, _, _, _)
CallChain(tree, subs, line, end, outer, level) ==
    IF level > Breaker THEN NoDefs
    ELSE BodyDefs(tree, subs, line + 1, end, outer, level, NoDefs, NoDefs)

BodyDefs(tree, subs, i, end, outer, level, own, called) ==
    IF i > Size(tree) \/ (i \in Nodes(tree) /\ Start(tree, i) > end) THEN AddDefs(own, called)
    ELSE LET line == tree.lines[i]
             sub == SubroutineNamed(subs, line.name)
             Next(o, c) == BodyDefs(tree, subs, i + 1, end, outer, level, o, c)
         IN  CASE line.kind = "macro_definition" -> Next(AddExplicit(tree, own, i), called)
               [] IsCall(line) /\ sub # <<>> ->
                    Next(own, AddDefs(called,
                      CallChain(tree, subs, sub[1].line, Definition(tree, sub[1]).end,
                                AddDefs(outer, [NoDefs EXCEPT !.locals = own.locals, !.globals = own.globals,
                                                              !.implicitLocals = own.implicitLocals]),
                                level + 1)))
               [] line.kind \in {"assignment_expression", "parameter_declaration"} ->
                    Next(AddImplicit(tree, own, outer, i), called)
               [] OTHER -> Next(own, called)

\* Subroutines that no call names are walked on their own, with the macros of the script
\* at their place; the others are part of the walk and are met again at their calls.
HasCaller(tree, subs, i) ==
    \E k \in DOMAIN subs : /\ subs[k].line = i
                           /\ \E j \in Nodes(tree) : IsCall(tree.lines[j]) /\ tree.lines[j].name = subs[k].name

ExplicitOf(defs) == [defs EXCEPT !.implicitPrivates = {}, !.implicitLocals = {}]
ImplicitOf(defs) == [NoDefs EXCEPT !.implicitPrivates = defs.implicitPrivates,
                                   !.implicitLocals = defs.implicitLocals]

\* Deviation: subroutines that are called are left to their calls.
PassCalled(tree, i) == IF Kind(tree, i) \in Subroutines THEN tree.last[i] + 1 ELSE i + 1

\* The walk goes into every block.
Onward(tree, i) == i + 1

RECURSIVE MainDefs(_, _, _, _, _)
MainDefs(tree, subs, i, own, implicit) ==
    IF i > Size(tree) THEN AddDefs(own, implicit)
    ELSE LET line == tree.lines[i]
             sub == SubroutineNamed(subs, line.name)
             Next(j, o, c) == MainDefs(tree, subs, j, o, c)
             Chain(first, end) == CallChain(tree, subs, first, end, WithoutPrivates(own), 1)
             Visited(next, first, end) ==
                 Next(next, AddDefs(own, ExplicitOf(Chain(first, end))),
                            AddDefs(implicit, ImplicitOf(Chain(first, end))))
         IN  CASE line.kind = "macro_definition" -> Next(i + 1, AddExplicit(tree, own, i), implicit)
               [] IsCall(line) /\ sub # <<>> ->
                    Visited(i + 1, sub[1].line, Definition(tree, sub[1]).end)
               [] line.kind \in {"assignment_expression", "parameter_declaration"} ->
                    Next(i + 1, AddImplicit(tree, own, NoDefs, i), implicit)
               [] line.kind \in Subroutines /\ ~HasCaller(tree, subs, i) ->
                    Visited(tree.last[i] + 1, i, End(tree, i))
               [] OTHER -> Next(Onward(tree, i), own, implicit)

MacroDefinitions(tree, subs) == MainDefs(tree, subs, 1, NoDefs, NoDefs)

MacroReferences(tree) == {i \in Nodes(tree) : tree.lines[i].macro # None}

-----------------------------------------------------------------------------
(* The facts stored with a document.                                       *)

LangExpressions(tree) ==
    LET found == SubroutinesAndLabels(tree, IF Size(tree) = 0 THEN 0 ELSE 1,
                                      [subroutines |-> <<>>, labels |-> <<>>])
    IN  [subroutines |-> found.subroutines, labels |-> found.labels,
         calls |-> CallExpressions(tree), scripts |-> ResolvedCalls(tree),
         parameters |-> ParameterDeclarations(tree), macroRefs |-> MacroReferences(tree),
         macros |-> MacroDefinitions(tree, found.subroutines)]
=============================================================================
