---------------------------- MODULE MacroScopes ----------------------------
(***************************************************************************)
(* How the definition of a macro and the references to a definition are    *)
(* found in one script (second half of t32/macros.rs, t32/cache.rs and the *)
(* entry points in t32.rs).  t32 is the record of the facts stored with    *)
(* the document.                                                           *)
(***************************************************************************)
EXTENDS ScriptAnalysis, FiniteSets

-----------------------------------------------------------------------------
(* Definitions.  A resolution says how far a definition is settled:        *)
(* "Final", "Overridable" (ENTRY), "Implicit" (first use), "Indeterminate" *)
(* (none in this file), "Aborted"; "Panic" is a thread that fails.         *)

Resolution(tag, i) == [tag |-> tag, line |-> i]
NotFound == Resolution("None", 0)
Unsettled(r) == r.tag \in {"None", "Implicit"}

DefinesAny(line, macro) == line.macro = macro
DefinesBlockGlobal(line, macro) == line.macro = macro /\ Scope(line.word) # "privates"

\* A keyword is recognised in any case, but only the capital form is resolved.
MayDefineImplicitly(line, macro, i) ==
    IF Upper(line.word) \notin {"ENTRY", "PARAMETERS"} \/ line.macro # macro THEN NotFound
    ELSE CASE line.word = "ENTRY" -> Resolution("Overridable", i)
           [] line.word = "PARAMETERS" -> Resolution("Final", i)
           [] OTHER -> Resolution("Panic", i)

DefinesGlobalImplicitly(line, macro, i) ==
    IF Upper(line.word) # "ENTRY" \/ line.macro # macro THEN NotFound
    ELSE IF line.word = "ENTRY" THEN Resolution("Overridable", i) ELSE Resolution("Panic", i)

\* The last definition in force at an origin, among the nodes before it that its blocks
\* show: from the root on, and in a block only if it is around the origin.  A body of a
\* subroutine may also get its macro from its parameters.
\* Deviation: definitions of blocks that are closed stay in force.
ShowsAll(tree, root, origin, i) == i \in Nodes(tree) /\ i >= root

Shows(tree, root, origin, i) ==
    /\ i \in Nodes(tree)
    /\ i >= root
    /\ tree.parent[i] = 0 \/ Covers(Span(tree, tree.parent[i]), origin.start)

\* The two kinds of search in a body, and the one in the script, where parameters do not
\* count.
Selects(search, line, macro) ==
    IF search = "blockGlobal" THEN DefinesBlockGlobal(line, macro) ELSE DefinesAny(line, macro)
FromParams(search, line, macro, i) ==
    CASE search = "any" -> MayDefineImplicitly(line, macro, i)
      [] search = "blockGlobal" -> DefinesGlobalImplicitly(line, macro, i)
      [] search = "script" -> NotFound

\* What is known of the macro behind node i.
BehindLine(line, i, macro, search, found) ==
    CASE line.kind = "macro_definition" /\ Selects(search, line, macro) -> Resolution("Final", i)
      [] line.kind = "parameter_declaration" /\ Unsettled(found)
           /\ FromParams(search, line, macro, i) # NotFound -> FromParams(search, line, macro, i)
      [] line.kind = "assignment_expression" /\ found = NotFound /\ line.macro = macro ->
           Resolution("Implicit", i)
      [] OTHER -> found

RECURSIVE LastDefinition(_, _, _, _, _, _, _)
LastDefinition(tree, origin, macro, root, search, i, found) ==
    IF i > Size(tree) \/ (i \in Nodes(tree) /\ Start(tree, i) > origin.end) \/ found.tag = "Panic"
    THEN found
    ELSE LastDefinition(tree, origin, macro, root, search, i + 1,
           IF Shows(tree, root, origin, i) THEN BehindLine(tree.lines[i], i, macro, search, found)
           ELSE found)

DefinitionInBlock(tree, origin, macro) == LastDefinition(tree, origin, macro, 0, "script", 1, NotFound)
AnyDefinitionInBody(tree, origin, macro, root) ==
    LastDefinition(tree, origin, macro, root, "any", 1, NotFound)
BlockGlobalDefinitionInBody(tree, origin, macro, root) ==
    LastDefinition(tree, origin, macro, root, "blockGlobal", 1, NotFound)

\* A definition that is not final counts if a path from a caller leaves the macro open.
ReplaceFirstOpen(defs, r) ==
    LET open == {i \in DOMAIN defs : defs[i].tag = "Indeterminate"}
    IN  IF open = {} THEN defs
        ELSE [defs EXCEPT ![CHOOSE i \in open : \A j \in open : i <= j] = r]

\* What a call adds: the definition in the body around it, or those of the callers, where
\* the body may complete a path that leaves the macro open.
FoundAtCall(inner, around, outer) ==
    IF inner.tag \in {"Final", "Panic"} THEN <<inner>>
    ELSE IF around # <<>> THEN IF inner = NotFound THEN outer ELSE ReplaceFirstOpen(outer, inner)
    ELSE CASE inner.tag = "Implicit" -> <<inner>>
           [] inner.tag = "None" -> <<Resolution("Indeterminate", 0)>>
           [] inner.tag = "Overridable" -> <<>>

\* The node a search in the body of a subroutine begins with, the script outside of one.
BodyRoot(tree, around) == IF around = <<>> THEN 0 ELSE GotoSubroutine(tree, Start(tree, around[1].line))

\* The definitions in force where the subroutine is called, call by call and from the
\* inside out.
RECURSIVE CoveringCalls(_, _, _, _, _)
CoveringCalls(tree, t32, name, macro, level) ==
    LET Around(call) == ResidesIn(tree, t32.subroutines, Start(tree, call))
        At(call) == FoundAtCall(
            BlockGlobalDefinitionInBody(tree, Span(tree, call), macro, BodyRoot(tree, Around(call))),
            Around(call),
            CoveringCalls(tree, t32, Around(call)[1].name, macro, level + 1))
        calls == SelectSeq(t32.calls, LAMBDA c : tree.lines[c].name = name)
        All[k \in 0..Len(calls)] == IF k = 0 THEN <<>> ELSE All[k - 1] \o At(calls[k])
    IN  IF level > Breaker THEN <<Resolution("Aborted", 0)>> ELSE All[Len(calls)]

GlobalsNamed(tree, t32, macro) ==
    LET lines == {i \in t32.macros.globals : tree.lines[i].macro = macro}
    IN  SelectSeq([i \in 1..Size(tree) |-> Resolution("Final", i)], LAMBDA r : r.line \in lines)

IsOpen(r) == r.tag = "Indeterminate"

\* Deviation: what the subroutine itself defines on first use is forgotten.
CallersOnly(covering, inner) == SelectSeq(covering, LAMBDA r : ~IsOpen(r))

\* The definitions of the callers, with the own one where a path leaves the macro open.
Completed(covering, inner) ==
    SelectSeq(covering, LAMBDA r : ~IsOpen(r))
      \o (IF inner.tag \in {"Overridable", "Implicit"} /\ \E i \in DOMAIN covering : IsOpen(covering[i])
          THEN <<inner>> ELSE <<>>)

AddShown(defs, shown) ==
    IF shown = NotFound \/ \E i \in DOMAIN defs : defs[i] = shown THEN defs ELSE Append(defs, shown)

OrElse(defs, others) == IF defs # <<>> THEN defs ELSE others

\* In a subroutine: its own final definition, or those of its callers, and what the script
\* shows at its place.
OwnOr(inner, others) == IF inner.tag \in {"Final", "Panic"} THEN <<inner>> ELSE others

Outside(tree, t32, origin, sub, macro, inner) ==
    OrElse(AddShown(Completed(CoveringCalls(tree, t32, sub.name, macro, 1), inner),
                    DefinitionInBlock(tree, origin, macro)),
           GlobalsNamed(tree, t32, macro))

DefinitionInSubroutine(tree, t32, origin, sub, macro) ==
    LET inner == AnyDefinitionInBody(tree, origin, macro, GotoSubroutine(tree, Start(tree, sub.line)))
    IN  IF t32.calls = <<>> THEN <<>>
        ELSE OwnOr(inner, Outside(tree, t32, origin, sub, macro, inner))

DefinitionInScript(tree, t32, origin, macro) ==
    OrElse(AddShown(<<>>, DefinitionInBlock(tree, origin, macro)), GlobalsNamed(tree, t32, macro))

LocateAllDefinitions(tree, t32, origin, macro) ==
    LET sub == ResidesIn(tree, t32.subroutines, origin.start)
    IN  IF sub # <<>> THEN DefinitionInSubroutine(tree, t32, origin, sub[1], macro)
        ELSE DefinitionInScript(tree, t32, origin, macro)

Result(tag, lines) == [tag |-> tag, lines |-> lines]

EvalResult(defs) ==
    LET Tagged(tags) == {i \in DOMAIN defs : defs[i].tag \in tags}
        found == {defs[i].line : i \in Tagged({"Final", "Overridable", "Implicit"})}
    IN  IF Tagged({"Panic"}) # {} THEN Result("Panic", {})
        ELSE IF Len(defs) = 1 /\ defs[1].tag = "Aborted" THEN Result("None", {})
        ELSE IF found = {} THEN Result("Indeterminate", {})
        ELSE IF Tagged({"Indeterminate", "Implicit"}) # {} THEN Result("Partial", found)
        ELSE Result("Final", found)

Defines(tree, t32, macro) ==
    Named(tree, UNION {t32.macros[f] : f \in DOMAIN t32.macros}
                  \union {t32.parameters[i] : i \in DOMAIN t32.parameters}, macro)

\* From a macro in the script.
GotoInfileDefinition(tree, t32, i) ==
    LET macro == tree.lines[i].macro
    IN  IF ~Defines(tree, t32, macro) THEN Result("Indeterminate", {})
        ELSE EvalResult(LocateAllDefinitions(tree, t32, MacroSpan(i), macro))

\* From the places where the script calls a file.
CallsTo(t32, file) == SelectSeq(t32.scripts, LAMBDA c : file \in c.targets)

GotoExternalDefinition(tree, t32, file, macro) ==
    LET calls == CallsTo(t32, file)
        All[k \in 0..Len(calls)] ==
            IF k = 0 THEN <<>>
            ELSE All[k - 1] \o LocateAllDefinitions(tree, t32, Span(tree, calls[k].line), macro)
    IN  EvalResult(All[Len(calls)])

\* The scope a definition was registered with; definitions on first use have none.
MacroScope(t32, i) ==
    IF i \in t32.macros.privates THEN "privates"
    ELSE IF i \in t32.macros.locals THEN "locals"
    ELSE IF i \in t32.macros.globals THEN "globals" ELSE None

\* What a caller of the file answers to a search for the definitions of a macro; only
\* definitions that are registered are expected.
ExternalDefinitions(tree, t32, file, macro, callers) ==
    LET answer == GotoExternalDefinition(tree, t32, file, macro)
    IN  IF CallsTo(t32, file) = <<>> \/ answer.tag = "None" THEN Result("Final", {})
        ELSE IF answer.tag = "Indeterminate" THEN Result(IF callers = {} THEN "Final" ELSE "Partial", {})
        ELSE IF \E d \in answer.lines : MacroScope(t32, d) = None THEN Result("Panic", {})
        ELSE answer

\* From a macro whose references are asked: the definitions to start from, with their scopes.
MacroOrigins(tree, t32, i) ==
    {[line |-> d, scope |-> MacroScope(t32, d)] : d \in GotoInfileDefinition(tree, t32, i).lines}

-----------------------------------------------------------------------------
(* References: the nodes that use a macro, the calls of subroutines and of *)
(* scripts, from a node to the end of its block or to another definition.  *)

NoCaptures == [references |-> {}, subroutines |-> <<>>, scripts |-> {}]

Redefines(tree, t32, macro, i) ==
    /\ Kind(tree, i) = "macro_definition"
    /\ tree.lines[i].macro = macro
    /\ MacroScope(t32, i) # None

\* Where the walk goes on behind node i: in its block, in the blocks around it, and not
\* outside of the block it began in.
NextIn(tree, block, i) ==
    LET next == NextAfter(tree, i)
        Inside[k \in 0..Size(tree)] == k = block \/ (k # 0 /\ Inside[tree.parent[k]])
    IN  IF next # 0 /\ Inside[tree.parent[next]] THEN next ELSE 0

RECURSIVE Captures(_, _, _, _, _, _)
Captures(tree, t32, macro, block, i, found) ==
    IF i = 0 THEN found
    ELSE LET line == tree.lines[i]
             uses == IF line.macro = macro THEN {i} ELSE {}
             Go(next, f) == Captures(tree, t32, macro, block, next, f)
             next == NextIn(tree, block, i)
         IN  CASE line.kind \in {"block", "if_block"} ->
                    Go(IF FirstChild(tree, i) # 0 THEN FirstChild(tree, i) ELSE next,
                       [found EXCEPT !.references = @ \union uses])
               [] Redefines(tree, t32, macro, i) ->
                    Go(IF tree.parent[i] = block THEN 0 ELSE NextIn(tree, block, tree.parent[i]), found)
               [] line.kind \in MacroContainers ->
                    Go(next, [found EXCEPT
                         !.references = @ \union uses,
                         !.scripts = @ \union (IF IsScriptCall(line) THEN Located[line.name] ELSE {})])
               [] IsCall(line) -> Go(next, [found EXCEPT !.subroutines = Append(@, i)])
               [] line.kind = "parameter_declaration" ->
                    Go(next, [found EXCEPT !.references = @ \union uses])
               [] OTHER -> Go(next, found)

\* From an offset: behind a definition, at an assignment, and inside of a subroutine.
CapturesAt(tree, t32, macro, offset) ==
    LET i == DeepestNode(tree, offset, {"assignment_expression", "macro_definition",
                                        "parameter_declaration"} \union Subroutines)
        From(block, first) == Captures(tree, t32, macro, block, first, NoCaptures)
    IN  IF i = 0 THEN NoCaptures
        ELSE IF Kind(tree, i) \in Subroutines THEN From(i, FirstChild(tree, i))
        ELSE IF Kind(tree, i) = "assignment_expression" THEN From(tree.parent[i], i)
        ELSE From(tree.parent[i], NextSibling(tree, i))

\* The bodies of the subroutines that are called on the way, each once.
RECURSIVE CalledReferences(_, _, _, _, _, _)
CalledReferences(tree, t32, macro, calls, visited, found) ==
    IF calls = <<>> THEN found
    ELSE LET sub == SubroutineNamed(t32.subroutines, tree.lines[Head(calls)].name)
             body == CapturesAt(tree, t32, macro, Start(tree, sub[1].line))
         IN  IF sub = <<>> \/ sub[1].line \in visited
             THEN CalledReferences(tree, t32, macro, Tail(calls), visited, found)
             ELSE CalledReferences(tree, t32, macro, Tail(calls) \o body.subroutines,
                    visited \union {sub[1].line},
                    [references |-> found.references \union body.references,
                     scripts |-> found.scripts \union body.scripts])

\* Deviation: only GLOBAL macros are looked for in called subroutines.
WithCalledGlobals(tree, t32, macro, scope, captures) ==
    IF scope # "globals" THEN [references |-> captures.references, scripts |-> captures.scripts]
    ELSE CalledReferences(tree, t32, macro, captures.subroutines, {},
                          [references |-> captures.references, scripts |-> captures.scripts])

WithCalled(tree, t32, macro, scope, captures) ==
    IF scope = "privates" THEN [references |-> captures.references, scripts |-> captures.scripts]
    ELSE CalledReferences(tree, t32, macro, captures.subroutines, {},
                          [references |-> captures.references, scripts |-> captures.scripts])

\* Of a definition in this script: its own macro, and no other script for a PRIVATE one.
DefinitionReferences(tree, t32, i, scope) ==
    LET macro == tree.lines[i].macro
        found == WithCalled(tree, t32, macro, scope, CapturesAt(tree, t32, macro, Start(tree, i)))
    IN  [references |-> found.references \union {i},
         scripts |-> IF scope = "privates" THEN {} ELSE found.scripts]

\* Of all definitions the search settled on.
ReferencesFromOrigins(tree, t32, origins) ==
    [references |-> UNION {DefinitionReferences(tree, t32, o.line, o.scope).references : o \in origins},
     scripts |-> UNION {DefinitionReferences(tree, t32, o.line, o.scope).scripts : o \in origins}]

\* Of a definition in a calling script.
StackReferences(tree, t32, macro) ==
    WithCalled(tree, t32, macro, "locals", Captures(tree, t32, macro, 0, 1, NoCaptures))

-----------------------------------------------------------------------------
(* Subroutines and labels.                                                 *)

GotoSubroutineDefinition(tree, t32, i) == SubroutineNamed(t32.subroutines, tree.lines[i].name)

\* The label and all calls of its name.
SubroutineReferences(tree, sub) ==
    {sub.line} \union {i \in Nodes(tree) : IsCall(tree.lines[i]) /\ tree.lines[i].name = sub.name}

LabelReferences(tree, label) ==
    {label.line} \union {i \in Nodes(tree) : /\ tree.lines[i].kind = "command_expression"
                                            /\ tree.lines[i].word = "GOTO"
                                            /\ tree.lines[i].name = label.name}

\* From a call, and from a label or the block of a subroutine.
CallReferences(tree, t32, i) ==
    LET sub == GotoSubroutineDefinition(tree, t32, i)
    IN  IF sub = <<>> THEN {} ELSE SubroutineReferences(tree, sub[1])

TargetReferences(tree, t32, i) ==
    LET sub == ResidesIn(tree, t32.subroutines, Start(tree, i))
        label == First(t32.labels, LAMBDA l : Covers(Span(tree, l.line), Start(tree, i)))
    IN  IF sub # <<>> THEN SubroutineReferences(tree, sub[1])
        ELSE IF label # <<>> THEN LabelReferences(tree, label[1]) ELSE {}

\* The request of an editor; a script without subroutines has no answer for its labels.
FindReferences(tree, t32, i) ==
    IF t32.subroutines = <<>> THEN {}
    ELSE IF IsCall(tree.lines[i]) THEN CallReferences(tree, t32, i) ELSE TargetReferences(tree, t32, i)
=============================================================================
