---------------------------- MODULE MCScriptRuns ----------------------------
EXTENDS ScriptRuns, TLC

Local == Line("macro_definition", "LOCAL", None, "a")
Private == Line("macro_definition", "PRIVATE", None, "a")
Global == Line("macro_definition", "GLOBAL", None, "a")
Set == Line("assignment_expression", "", None, "a")
Use == Line("command_expression", "PRINT", None, "a")
Entry == Line("parameter_declaration", "ENTRY", None, "a")
Parameters == Line("parameter_declaration", "PARAMETERS", None, "a")
If == Line("if_block", "IF", None, None)
Block == Line("block", "", None, None)
Sub(name) == Line("subroutine_block", "SUBROUTINE", name, None)
Label(name, word) == Line("labeled_expression", word, name, None)
Call(name) == Line("subroutine_call_expression", "GOSUB", name, None)
Do(name) == Line("command_expression", "DO", name, None)
Goto(name) == Line("command_expression", "GOTO", name, None)
Return == Line("command_expression", "RETURN", None, None)
EndDo == Line("command_expression", "ENDDO", None, None)
Shut == Line(")", "", None, None)

Upto(S, n) == UNION {[1..k -> S] : k \in 0..n}

Mains == {m \in Upto({Local, Private, Global, Set, Use, Call("s"), If, Shut}, 3) : Balanced(m)}
Bodies == Upto({Local, Private, Use, Set, Entry, Parameters}, 2)
WithSub(main, body) == main \o <<EndDo, Sub("s")>> \o body \o <<Shut>>
WithLabel(main, body) == main \o <<EndDo, Label("s", "")>> \o body \o <<Return>>

\* One subroutine, with a block and without one.
OneSubroutine ==
    {WithSub(m, b) : m \in Mains, b \in Bodies} \union {WithLabel(m, b) : m \in Mains, b \in Bodies}

\* A call in a block.
CallInBlock ==
    {WithSub(<<a, If, b, Call("s"), Shut>>, c) :
        a \in {Local, Use, Set}, b \in {Local, Private, Set}, c \in Upto({Local, Use, Set, Entry}, 2)}

\* A block that is over.
BehindBlock ==
    {WithSub(<<o, x, Shut, y>>, <<Use>>) :
        o \in {If, Block}, x \in {Local, Private, Global, Set, Call("s")}, y \in {Use, Set, Call("s")}}

\* RETURN in a block of a subroutine, in one that runs always and in one that need not.
Branches ==
    {WithLabel(<<Local, Call("s")>>, b \o <<Use>>) :
        b \in {<<If, Return, Shut>>, <<If, Set, Shut>>, <<Block, Use, Return, Shut>>}}

\* Two subroutines, which may call each other.
TwoSubroutines ==
    {WithSub(m, b) \o <<Sub("t")>> \o c \o <<Shut>> :
        m \in Upto({Local, Private, Set, Call("s"), Call("t")}, 2),
        b \in Upto({Local, Private, Set, Entry, Call("t")}, 2),
        c \in {<<Use>>, <<Set>>, <<Entry, Use>>, <<Call("s"), Use>>, <<Local, Call("s")>>}}

\* Jumps forward, back and out of a block.
Jumps ==
    {WithSub(<<x>> \o j, <<Use>>) :
        x \in {Local, Set, Global, Private, Call("s")},
        j \in {<<Label("l", ""), Use, Goto("l")>>, <<Goto("l"), Use, Label("l", ""), Use>>,
               <<If, Goto("l"), Shut, Label("l", ""), Use>>}}

\* A call of another script.
Callers ==
    {m \o <<Do("b"), Use>> : m \in {x \in Mains : Len(x) <= 2}}
        \union {WithSub(m, b \o <<Do("b")>>) : m \in {x \in Mains : Len(x) <= 2}, b \in Bodies}
        \union {WithSub(<<x, If, y, Do("b"), Shut, Do("b")>>, <<Use>>) : x \in {Local, Private, Global}, y \in {Local, Use}}

MCScripts ==
    OneSubroutine \union CallInBlock \union BehindBlock \union Branches 
        \union TwoSubroutines \union Jumps \union Callers

MCLocated == None :> {} @@ "b" :> {"b.cmm"}
=============================================================================
