------------------------------- MODULE JsonRpc -------------------------------
(***************************************************************************)
(* JSON-RPC messages between client and server: what ls/lsp/jsonrpc.rs     *)
(* makes of the content of one message, and what it writes.                *)
(*                                                                         *)
(* A document is the set of fields that steer the code.  A field holds     *)
(* None when it is absent.  The payload of params, result and error is     *)
(* only as detailed as the decisions taken on it.                          *)
(***************************************************************************)

\* A field that is not there, and the JSON value null.
None == "none"
Null == "null"

RequestMethods == {"initialize", "shutdown", "textDocument/definition",
    "textDocument/foldingRange", "textDocument/references",
    "textDocument/semanticTokens/full", "textDocument/semanticTokens/range"}

NotificationMethods == {"exit", "workspace/didRenameFiles", "initialized",
    "$/setTrace", "textDocument/didClose", "textDocument/didChange",
    "textDocument/didOpen", "window/workDoneProgress/cancel"}

\* The methods whose parameters are never looked at.
NoParams == {"shutdown", "exit"}

\* "other" is a method the server does not know, "bad" are parameters of another
\* shape, "7" is an id the client has given.
Document == [json : BOOLEAN, ver : {"2.0", "1.0", None}, id : {None, Null, "7"},
             method : RequestMethods \cup NotificationMethods \cup {None, "other"},
             params : {None, "good", "bad"}, result : {None, Null, "some"},
             error : {None, "some"}, extra : BOOLEAN]

(* What the receive functions return: a message, a refusal that is sent    *)
(* back as an error response, or a notification for the log of the client. *)
Accepted(class, method, id) ==
    [res |-> "Msg", class |-> class, method |-> method, id |-> id, code |-> None]
Refused(id, code) ==
    [res |-> "Err", class |-> "Response", method |-> None, id |-> id, code |-> code]
Logged == [res |-> "Err", class |-> "Notification", method |-> "$/logTrace",
           id |-> None, code |-> None]


\* The errors of serde, whatever they say.
ParseFailed(id) == Refused(id, "ParseError")

-----------------------------------------------------------------------------
(* The untagged LineMessage: the first of the three formats that fits.     *)
(* Serde ignores fields it does not know in the first two; the visitor of  *)
(* ResponseMessage refuses them, and an id of null.                        *)

IsRequestMessage(d) == d.ver # None /\ d.id \notin {None, Null} /\ d.method # None

IsNotificationMessage(d) == d.ver # None /\ d.method # None

IsResponseMessage(d) ==
    /\ d.ver # None
    /\ d.method = None /\ d.params = None /\ ~d.extra
    /\ d.id # Null
    /\ (d.result = None) # (d.error = None)

LineMessage(d) ==
    CASE ~d.json -> None
      [] d.json /\ IsRequestMessage(d) -> "Request"
      [] d.json /\ ~IsRequestMessage(d) /\ IsNotificationMessage(d) -> "Notification"
      [] d.json /\ IsResponseMessage(d) -> "Response"
      [] OTHER -> None

\* get_id of the line message.
LineId(d) == IF LineMessage(d) = "Notification" THEN None ELSE d.id

\* Parameters that are missing or do not have the shape of the method.
BadParams(d) == d.method \notin NoParams /\ d.params # "good"

\* Deviation: an unknown method is refused like that of a notification.
RefuseWithoutId(d) ==
    IF d.method \notin RequestMethods THEN Refused(None, "MethodNotFound")
    ELSE IF BadParams(d) THEN ParseFailed(d.id)
    ELSE Accepted("Request", d.method, d.id)

DeserializeRequest(d) ==
    IF d.method \notin RequestMethods THEN Refused(d.id, "MethodNotFound")
    ELSE IF BadParams(d) THEN ParseFailed(d.id)
    ELSE Accepted("Request", d.method, d.id)

DeserializeNotif(d) ==
    IF d.method \notin NotificationMethods THEN Refused(None, "MethodNotFound")
    ELSE IF BadParams(d) THEN ParseFailed(None)
    ELSE Accepted("Notification", d.method, None)

DeserializeResponse(d) ==
    IF d.error # None THEN Accepted("Response", "error", d.id)
    ELSE IF d.id = None \/ d.result # Null THEN Logged
    ELSE Accepted("Response", "null", d.id)

DeserializeMsg(d) ==
    CASE d.ver # "2.0" -> Refused(LineId(d), "InvalidRequest")
      [] d.ver = "2.0" /\ LineMessage(d) = "Request" -> DeserializeRequest(d)
      [] d.ver = "2.0" /\ LineMessage(d) = "Notification" -> DeserializeNotif(d)
      [] d.ver = "2.0" /\ LineMessage(d) = "Response" -> DeserializeResponse(d)

\* parse_content: what is no JSON, or fits no format, is refused without an id.
ParseContent(d) ==
    IF LineMessage(d) = None THEN ParseFailed(None) ELSE DeserializeMsg(d)

-----------------------------------------------------------------------------
(* What is written to the client: the response to a request, a refusal, or *)
(* a notification.                                                         *)

\* The shutdown request is answered without a result, the others with one.
Reply(r) == [r EXCEPT !.class = "Response",
                      !.method = IF r.method = "shutdown" THEN "null" ELSE "result"]

Written(ver, id, method, params, result, error) ==
    [json |-> TRUE, ver |-> ver, id |-> id, method |-> method, params |-> params,
     result |-> result, error |-> error, extra |-> FALSE]

\* There is either a result or an error; a missing result is written as null.
SerializeResponse(r) ==
    CASE r.code # None -> Written("2.0", r.id, None, None, None, "some")
      [] r.code = None /\ r.method = "null" -> Written("2.0", r.id, None, None, Null, None)
      [] OTHER -> Written("2.0", r.id, None, None, "some", None)

SerializeNotif(r) == Written("2.0", None, r.method, "good", None, None)

SerializeMsg(r) ==
    IF r.class = "Notification" THEN SerializeNotif(r) ELSE SerializeResponse(r)
=============================================================================
