----------------------------- MODULE ScriptRuns -----------------------------
(***************************************************************************)
(* A script that is imported, and its runs: what TRACE32 does with macros  *)
(* when it executes the lines, as the notes of t32/macros.rs and           *)
(* t32/expressions.rs describe it, beside what the analysis says of the    *)
(* same lines.  A run keeps the PRACTICE stack: a frame for every block    *)
(* and every called subroutine with the macros defined in it.              *)
(***************************************************************************)
EXTENDS MacroScopes

CONSTANTS
    Scripts,   \* the scripts: sequences of lines
    MaxFrames  \* bound on the frames of a run

VARIABLES
    tree,      \* syntax tree of the document
    t32,       \* the facts stored with it
    pc,        \* line that is executed next, 0 when the script has ended
    stack,     \* frames, the innermost last
    globals    \* lines of the GLOBAL macros defined so far

vars == <<tree, t32, pc, stack, globals>>

\* import_doc, for every script there is.
Imported == {[tree |-> Parse(s), t32 |-> LangExpressions(Parse(s))] : s \in Scripts}

\* Frames of a call, of a block, and of the script, which nothing called.
Frame(call, from, target) == [call |-> call, from |-> from, target |-> target, defs |-> <<>>]
Def(i, private) == [line |-> i, private |-> private]

Macro(i) == tree.lines[i].macro
Last(S) == CHOOSE k \in S : \A l \in S : l <= k

\* Frames since the last call, and the definitions of a macro a frame shows: PRIVATE ones
\* only there.
Own(k) == \A l \in (k + 1)..Len(stack) : ~stack[l].call
Shown(k, macro) ==
    {j \in DOMAIN stack[k].defs : /\ Macro(stack[k].defs[j].line) = macro
                                 /\ stack[k].defs[j].private => Own(k)}

\* The frame of the call that is under way.
Called == CHOOSE k \in DOMAIN stack : stack[k].call /\ Own(k)

\* The definition in force: the last one of the innermost frame that shows one; GLOBAL
\* macros are below all frames.
Active(macro) ==
    LET hits == {k \in DOMAIN stack : Shown(k, macro) # {}}
        fallback == {i \in globals : Macro(i) = macro}
    IN  IF hits # {} THEN stack[Last(hits)].defs[Last(Shown(Last(hits), macro))].line
        ELSE IF fallback # {} THEN CHOOSE i \in fallback : TRUE ELSE 0

\* A definition replaces the one of its lifetime in its frame.
Declare(private) ==
    stack' = [stack EXCEPT ![Len(stack)].defs =
                Append(SelectSeq(@, LAMBDA d : Macro(d.line) # Macro(pc) \/ d.private # private),
                       Def(pc, private))]

At(kind) == pc # 0 /\ tree.lines[pc].kind = kind
Word == Upper(tree.lines[pc].word)
GoOn(i) == pc' = (IF i > Size(tree) THEN 0 ELSE i) /\ UNCHANGED <<tree, t32>>

Init ==
    /\ tree = Parse(<<>>)
    /\ t32 = LangExpressions(Parse(<<>>))
    /\ pc = 0
    /\ stack = <<>>
    /\ globals = {}

Import ==
    /\ Size(tree) = 0
    /\ \E doc \in Imported :
        /\ tree' = doc.tree
        /\ t32' = doc.t32
    /\ pc' = 1
    /\ stack' = <<Frame(TRUE, 0, 0)>>
    /\ UNCHANGED globals

Define ==
    /\ At("macro_definition")
    /\ IF Word = "GLOBAL"
       THEN /\ globals' = IF \E i \in globals : Macro(i) = Macro(pc) THEN globals ELSE globals \union {pc}
            /\ UNCHANGED stack
       ELSE Declare(Word = "PRIVATE") /\ UNCHANGED globals
    /\ GoOn(pc + 1)

Assign ==
    /\ At("assignment_expression")
    /\ IF Active(Macro(pc)) = 0 THEN Declare(FALSE) ELSE UNCHANGED stack
    /\ GoOn(pc + 1)
    /\ UNCHANGED globals

\* ENTRY takes the macro of a caller, PARAMETERS does not.
TakeParameter ==
    /\ At("parameter_declaration")
    /\ CASE Word = "ENTRY" /\ Active(Macro(pc)) = 0 -> Declare(FALSE)
         [] Word = "PARAMETERS" /\ ~\E k \in DOMAIN stack : Own(k) /\ Shown(k, Macro(pc)) # {} -> Declare(TRUE)
         [] OTHER -> UNCHANGED stack
    /\ GoOn(pc + 1)
    /\ UNCHANGED globals

Gosub ==
    /\ At("subroutine_call_expression")
    /\ LET targets == {i \in Nodes(tree) : Kind(tree, i) \in Subroutines
                                               /\ tree.lines[i].name = tree.lines[pc].name}
           target == CHOOSE i \in targets : \A j \in targets : i <= j
       IN  IF targets = {} THEN UNCHANGED stack /\ GoOn(pc + 1)
           ELSE /\ Len(stack) < MaxFrames
                /\ stack' = Append(stack, Frame(TRUE, pc, target))
                /\ GoOn(target + 1)
    /\ UNCHANGED globals

\* RETURN goes on behind the call, or ends the script.
Leave ==
    /\ stack' = SubSeq(stack, 1, Called - 1)
    /\ GoOn(IF Called = 1 THEN 0 ELSE stack[Called].from + 1)

Command ==
    /\ At("command_expression") /\ Word # "GOTO"
    /\ CASE Word = "RETURN" -> Leave
         [] Word = "ENDDO" -> stack' = <<>> /\ GoOn(0)
         [] OTHER -> UNCHANGED stack /\ GoOn(pc + 1)
    /\ UNCHANGED globals

\* GOTO leaves the blocks it is in; the scripts jump to labels outside of blocks only.
Jump ==
    /\ At("command_expression") /\ Word = "GOTO"
    /\ \E i \in Nodes(tree) :
        /\ Kind(tree, i) = "labeled_expression" /\ tree.lines[i].name = tree.lines[pc].name
        /\ GoOn(i + 1)
    /\ stack' = SubSeq(stack, 1, Called)
    /\ UNCHANGED globals

\* The block of an IF may be left out; subroutines are passed over.
Enter ==
    /\ At("if_block") \/ At("block")
    /\ Len(stack) < MaxFrames
    /\ stack' = Append(stack, Frame(FALSE, 0, 0))
    /\ GoOn(pc + 1)
    /\ UNCHANGED globals

Pass ==
    /\ pc # 0
    /\ Kind(tree, pc) \in {"if_block"} \union Subroutines
    /\ GoOn(tree.last[pc] + 1)
    /\ UNCHANGED <<stack, globals>>

Close ==
    /\ At(")")
    /\ IF stack[Len(stack)].call THEN Leave ELSE stack' = SubSeq(stack, 1, Len(stack) - 1) /\ GoOn(pc + 1)
    /\ UNCHANGED globals

Next == Import \/ Define \/ Assign \/ TakeParameter \/ Gosub \/ Command \/ Jump \/ Enter \/ Pass \/ Close

Spec == Init /\ [][Next]_vars

-----------------------------------------------------------------------------
(* Where the analysis and a run are known to differ; the README tells why. *)

Explicit(i) == Kind(tree, i) = "macro_definition"
HasLifetime(i, word) == Explicit(i) /\ tree.lines[i].word = word
Defining == {"macro_definition", "assignment_expression", "parameter_declaration"}
Implicit(i) == Kind(tree, i) \in Defining /\ ~Explicit(i)
SameMacro(i, j) == i # j /\ Macro(i) = Macro(j)

\* No definition in the line behind a call, in the same column.
SpacedCalls ==
    \A i \in 1..(Size(tree) - 1) :
        IsCall(tree.lines[i]) /\ Start(tree, i + 1) = End(tree, i) => Kind(tree, i + 1) \notin Defining

\* GLOBAL macros are defined outside of blocks, before any other line defines them.
GlobalsFirst ==
    \A i \in Nodes(tree) : HasLifetime(i, "GLOBAL") =>
        /\ tree.parent[i] = 0
        /\ \A j \in Nodes(tree) : SameMacro(i, j) /\ Kind(tree, j) \in Defining => i < j

\* One lifetime for a macro, and one definition of it in a block.
DefinedAlike ==
    \A i, j \in Nodes(tree) :
        SameMacro(i, j) /\ Explicit(i) /\ Explicit(j) =>
            tree.parent[i] # tree.parent[j] /\ HasLifetime(j, tree.lines[i].word)

\* The walk to the references stops at PRIVATE definitions, which called subroutines do not
\* see, and an assignment to a PRIVATE macro is taken for a definition they see.
NeverPrivate(macro) == ~\E i \in Nodes(tree) : Macro(i) = macro /\ HasLifetime(i, "PRIVATE")

\* No call under way goes to a subroutine without a block, whose lines the walk through
\* called subroutines does not reach.
BlocksCalled == \A k \in DOMAIN stack : stack[k].target # 0 => Opens(tree.lines[stack[k].target])

Uses(kinds) == pc # 0 /\ Kind(tree, pc) \in kinds /\ Macro(pc) # None

-----------------------------------------------------------------------------
(* Properties.                                                             *)

Found(d, answer) == answer.tag \in {"Final", "Partial"} /\ d \in answer.lines

\* Whatever path a run took to a line that uses a macro, the definition that is in force
\* there is among those go-to-definition answers for the line; at a call of another script
\* it is among those the script answers to a search from there, or the search fails where
\* the macro is not defined by a keyword only.
\* (find_definition_for_macro_in_subroutine and what it calls, t32/macros.rs;
\* find_external_definitions_for_macro_ref, ls/tasks/lang/references.rs.)
ActiveDefinitionFound ==
    SpacedCalls /\ GlobalsFirst =>
        /\ Uses(MacroContainers \union {"subroutine_call_expression"}) =>
             LET d == Active(Macro(pc))
             IN  d # 0 /\ (Explicit(d) \/ NeverPrivate(Macro(d))) =>
                     Found(d, GotoInfileDefinition(tree, t32, pc))
        /\ pc # 0 /\ IsScriptCall(tree.lines[pc]) =>
             \A file \in Located[tree.lines[pc].name], macro \in {Macro(i) : i \in t32.macroRefs} :
                 LET d == Active(macro)
                     answer == ExternalDefinitions(tree, t32, file, macro, {})
                 IN  d # 0 /\ Explicit(d) /\ NeverPrivate(macro) =>
                         Found(d, answer) \/ (answer.tag = "Panic" /\ \E i \in t32.macroRefs : Implicit(i))

\* A line that uses a macro while a definition is in force is among the references of the
\* definition, however many calls and blocks are between them.
\* (find_macro_definition_references, t32.rs; the walk of t32/macros.rs.)
ActiveUseListed ==
    Uses(MacroContainers) /\ SpacedCalls /\ GlobalsFirst /\ DefinedAlike /\ BlocksCalled =>
        LET d == Active(Macro(pc))
            origins == {o \in MacroOrigins(tree, t32, pc) : o.line = d}
        IN  d # 0 /\ Explicit(d) => pc \in ReferencesFromOrigins(tree, t32, origins).references

\* Where a run uses a macro that nothing in the script has defined, a caller of the script
\* may have: the line is among the references of a definition of theirs, and outside of
\* subroutines the answer leaves the search open for the calling scripts.
\* (find_stack_macro_references, t32.rs; eval_macro_definition_result, t32/macros.rs.)
CallersSearched ==
    /\ Uses(MacroContainers)
    /\ Active(Macro(pc)) = 0
    /\ t32.macros.globals = {} /\ NeverPrivate(Macro(pc)) /\ BlocksCalled
    =>
        /\ pc \in StackReferences(tree, t32, Macro(pc)).references
        /\ Called = 1 => GotoInfileDefinition(tree, t32, pc).tag # "Final"

\* Every definition of a script is registered with the lifetime of its keyword, those of
\* subroutines that nobody calls and of subroutines that call each other too.
\* (find_all_macro_definitions, t32/macros.rs; the searches rely on the registered scope.)
DefinitionsRegistered ==
    \A i \in Nodes(tree) : \A pair \in {<<"PRIVATE", "privates">>, <<"LOCAL", "locals">>, <<"GLOBAL", "globals">>} :
        HasLifetime(i, pair[1]) => MacroScope(t32, i) = pair[2]

\* A call that is under way is answered with the subroutine the run went to and is among
\* its references, and the run does not leave the lines the subroutine is said to have;
\* a jump is among the references of its label.
\* (find_all_subroutines_and_labels, try_extract_subroutine_def_from_label, t32/expressions.rs.)
TargetsAnswered ==
    /\ \A k \in DOMAIN stack : stack[k].target # 0 =>
        LET sub == GotoSubroutineDefinition(tree, t32, stack[k].from)
        IN  /\ sub # <<>>
            /\ sub[1].line = stack[k].target
            /\ \A i \in {stack[k].from, stack[k].target} : stack[k].from \in FindReferences(tree, t32, i)
            /\ k = Called => sub[1].line < pc /\ pc <= sub[1].last
    /\ At("command_expression") /\ Word = "GOTO" /\ t32.subroutines # <<>> =>
        \E i \in Nodes(tree) : /\ tree.lines[i].name = tree.lines[pc].name
                               /\ pc \in FindReferences(tree, t32, i)
=============================================================================
