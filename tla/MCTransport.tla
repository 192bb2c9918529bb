----------------------------- MODULE MCTransport -----------------------------
(***************************************************************************)
(* Small instances of Transport: one client that sends two messages, with  *)
(* every header section the grammar allows and junk in between, and one    *)
(* that sends a single document of any kind.                               *)
(***************************************************************************)
EXTENDS Transport

D(json, ver, id, method, params, result, error, extra) ==
    [json |-> json, ver |-> ver, id |-> id, method |-> method, params |-> params,
     result |-> result, error |-> error, extra |-> extra]

request == D(TRUE, "2.0", "7", "textDocument/definition", "good", None, None, FALSE)
notif == D(TRUE, "2.0", None, "textDocument/didChange", "good", None, None, FALSE)
broken == D(FALSE, "2.0", "7", "shutdown", None, None, None, FALSE)

\* Requests and notifications of every kind, with and without parameters, and
\* every combination of the fields of a response.
Kinds ==
    {D(TRUE, v, i, m, p, None, None, FALSE) : v \in {"2.0", "1.0"}, i \in {None, Null, "7"},
        m \in {"shutdown", "textDocument/definition", "exit", "other"}, p \in {None, "good"}}
    \cup {D(TRUE, "2.0", i, None, None, r, e, x) : i \in {None, Null, "7"},
        r \in {None, Null, "some"}, e \in {None, "some"}, x \in BOOLEAN}
    \cup {D(TRUE, v, "7", None, None, Null, None, FALSE) : v \in {"1.0", None}}

M(doc, head, junk) == [doc |-> doc, head |-> head, junk |-> junk]

\* A buffer of 26 units holds the shorter pairs of messages as a whole; the longer
\* ones are cut by it too.  Every header section, first and second, every junk in
\* front of one, and a document that is refused in front of one that is not.
MCScripts ==
    {<<M(request, "length, type", "none"), M(notif, "length", "text")>>,
     <<M(notif, "length", "text"), M(request, "type, length", "none")>>,
     <<M(notif, "length", "none"), M(request, "length", "none")>>,
     <<M(broken, "length", "none"), M(request, "length", "none")>>,
     <<M(request, "length", "letters"), M(notif, "length", "field")>>,
     <<M(notif, "length", "value"), M(request, "length", "none")>>,
     <<M(request, "length, type", "length")>>,
     <<M(notif, "length", "none"), M(request, "type, length", "length")>>}
    \cup {<<M(d, "length", "none")>> : d \in Kinds}
=============================================================================
