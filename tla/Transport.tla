------------------------------ MODULE Transport ------------------------------
(***************************************************************************)
(* The way of a message from the client into the main loop and the way of  *)
(* an answer back (ls/transport.rs, stdiotrans.rs, ls/lsp.rs).             *)
(*                                                                         *)
(* The client writes framed messages to the standard input.  A listener    *)
(* process copies what it finds there to its standard output, a worker     *)
(* thread reads from that pipe, decodes and hands the messages over        *)
(* through a channel, and the main loop takes them out.  Whatever a read   *)
(* returns ends somewhere: in the content, between messages or inside a    *)
(* header section.                                                         *)
(***************************************************************************)
EXTENDS Framing, JsonRpc, TLC

CONSTANTS
    Scripts,     \* what a client may send: sequences of [doc, head, junk]
    BufferSize,  \* the size of the read buffer the worker starts with
    MaxPieces    \* bound: the pieces in which the stream reaches the listener

ContentLength == 3

ASSUME TransportAssumption ==
    /\ BufferSize \in Nat \ {0} /\ MaxPieces \in Nat \ {0}
    /\ \A s \in Scripts : \A i \in 1..Len(s) :
          /\ s[i].doc \in Document
          /\ s[i].head \in {"length", "length, type", "type, length"}
          /\ s[i].junk \in {"none", "text", "letters", "value", "field", "length"}

VARIABLES
    script,   \* what the client sends
    input,    \* units on the standard input, not yet copied by the listener
    pieces,   \* pieces it has copied
    pipe,     \* units the listener has copied, not yet read
    decoder,  \* [state, need, rest, tokens]: the parser between two reads
    worker,   \* the worker thread: "read", "parse", "ended" or "panicked"
    size,     \* the size of its read buffer
    channel,  \* what the worker has sent and the main loop has not received
    server,   \* the main loop: "runs", "closed" (in the drop), "joined" or "panicked"
    listener, \* the child process: "runs" or "killed"
    taken,    \* what the main loop took out of the channel, heartbeats left out
    answers,  \* the documents written to the client
    cut       \* history: a read ended behind the mark and before the end of a header section

vars == <<script, input, pieces, pipe, decoder, worker, size, channel, server, listener,
          taken, answers, cut>>

-----------------------------------------------------------------------------
(* The stream of a script.  The content of a message is written with three *)
(* units: a colon and a space, as before the value of a field, and one     *)
(* that stands for the document.                                           *)

Content(i) == <<":", " ", "document " \o ToString(i)>>
Head3(kind) ==
    CASE kind = "length" -> LengthField(ContentLength) \o <<"CR", "LF">>
      [] kind = "length, type" -> LengthField(ContentLength) \o ContentTypeField \o <<"CR", "LF">>
      [] kind = "type, length" -> MakeHeader(ContentLength)

\* What stands between messages: text without a mark of a message start, letters
\* that run into the name of the first field, a value that runs into its line, the
\* line of a field nobody knows, the line of another length.
Junk(kind) ==
    CASE kind = "none" -> <<>>
      [] kind = "text" -> <<"n", "-">>
      [] kind = "letters" -> <<"C", "n">>
      [] kind = "value" -> <<"C", "-", ":", " ", "-">>
      [] kind = "field" -> <<"C", "n", ":", " ", "0", "CR", "LF">>
      [] kind = "length" -> LengthField(1)

Frame(m, i) == Junk(m.junk) \o Head3(m.head) \o Content(i)
Stream(s) == FlattenSeq([i \in 1..Len(s) |-> Frame(s[i], i)])

\* The offsets a read may end at without cutting what the parser takes for a
\* header section: those up to its mark and those in the content.
Starts(s, i) == Len(Stream(SubSeq(s, 1, i - 1)))
SafeEnd(s, p) ==
    \E i \in 1..Len(s) :
        LET frame == Frame(s[i], i)
            mark == SelectInSeq(frame, LAMBDA u : u = "C") - 1
            offset == p - Starts(s, i)
        IN  offset \in 0..mark \/ offset \in (Len(frame) - ContentLength)..Len(frame)

\* What recovery can deal with: no value in the line of the first field, which takes
\* the field with it, and no second length without a type behind it, where the
\* validation panics.
Recovers(m) == m.junk # "value" /\ (m.junk = "length" => m.head = "length, type")

\* What the decoding of a whole document sends through the channel.
Outcome(m) == ParseContent(m.doc)

-----------------------------------------------------------------------------
Init ==
    /\ script \in Scripts
    /\ input = Stream(script)
    /\ pieces = 0 /\ pipe = <<>>
    /\ decoder = [state |-> "Syncing", need |-> 0, rest |-> <<>>, tokens |-> <<>>]
    /\ worker = "read" /\ size = BufferSize
    /\ channel = <<>>
    /\ server = "runs" /\ listener = "runs"
    /\ taken = <<>> /\ answers = <<>>
    /\ cut = FALSE

(* The listener copies what a call of fill_buf returns: what the client    *)
(* has written by then, the rest of the stream with the last piece.        *)
Listen ==
    /\ listener = "runs"
    /\ \E n \in 1..Len(input) :
          /\ pieces + 1 = MaxPieces => n = Len(input)
          /\ pipe' = pipe \o SubSeq(input, 1, n)
          /\ input' = From(input, n)
    /\ pieces' = pieces + 1
    /\ UNCHANGED <<script, decoder, worker, size, channel, server, listener, taken, answers, cut>>

\* The worker sends; when the receiver is gone it returns.
Send(msg, next) ==
    IF server = "runs" THEN channel' = Append(channel, msg) /\ worker' = next
                       ELSE channel' = channel /\ worker' = "ended"
Heartbeat == [res |-> "Heartbeat"]

\* A read takes what is in the pipe, up to the size of the read buffer, which
\* grows to hold the announced content.
Grown == IF decoder.state = "InContent" /\ decoder.need > size THEN decoder.need ELSE size

Read ==
    /\ worker = "read" /\ pipe # <<>>
    /\ size' = Grown
    /\ LET n == IF Len(pipe) < Grown THEN Len(pipe) ELSE Grown IN
       /\ decoder' = [decoder EXCEPT !.rest = @ \o SubSeq(pipe, 1, n)]
       /\ pipe' = From(pipe, n)
    /\ cut' = (cut \/ ~SafeEnd(script, Len(Stream(script)) - Len(input) - Len(pipe')))
    /\ worker' = "parse"
    /\ UNCHANGED <<script, input, pieces, channel, server, listener, taken, answers>>

\* The pipe of a killed listener ends: a read of 0 bytes.
\* Deviation: no heartbeat after a read of 0 bytes.
ReadEndSilently ==
    /\ worker = "read" /\ pipe = <<>> /\ listener = "killed"
    /\ worker' = "read"
    /\ UNCHANGED <<script, input, pieces, pipe, decoder, size, channel, server, listener, taken, answers, cut>>

ReadEnd ==
    /\ worker = "read" /\ pipe = <<>> /\ listener = "killed"
    /\ Send(Heartbeat, "read")
    /\ UNCHANGED <<script, input, pieces, pipe, decoder, size, server, listener, taken, answers, cut>>

-----------------------------------------------------------------------------
(* One call of lsp::parse by the worker: the state after it and what it    *)
(* returns.  Syncing drops what precedes a "C"; in the header section the  *)
(* tokens are assembled; the content is taken when all of it is there.     *)

Decoders == [state : {"Syncing", "InHeader", "InContent"}, need : Nat, rest : Buffers,
             tokens : Tokens]

Idle(d) == [d EXCEPT !.state = "Syncing", !.need = 0]
Result(d, msg) == [decoder |-> d, msg |-> msg]

\* Deviation: the content is parsed although not all of it is there.
ParseWhatIsThere(d) ==
    Result([Idle(d) EXCEPT !.rest = <<>>],
           IF SubSeq(d.rest, 1, Len(d.rest)) = Content(1) THEN Outcome(script[1]) ELSE ParseFailed(None))

ParseInContent(d) ==
    IF Len(d.rest) < d.need THEN Result(d, Heartbeat)
    ELSE LET content == SubSeq(d.rest, 1, d.need)
             whole == {i \in 1..Len(script) : content = Content(i)}
         IN  Result([Idle(d) EXCEPT !.rest = From(@, d.need)],
                    IF whole = {} THEN ParseFailed(None)
                    ELSE Outcome(script[CHOOSE i \in whole : TRUE]))

\* What follows a call of parse_header that returned h.
AfterHeader[d \in Decoders, h \in Headers] ==
    LET next == [d EXCEPT !.rest = h.buf, !.tokens = h.hist]
    IN  CASE h.buf = Panicked \/ h.len = 0 -> Result(next, Heartbeat)
          [] h.buf # Panicked /\ h.len = Malformed -> Result(next, ParseFailed(None))
          [] OTHER -> ParseInContent([next EXCEPT !.state = "InContent", !.need = h.len])

ParseInHeader(d) == AfterHeader[d, ParseHeader(d.rest, d.tokens)]

Parse(d) ==
    CASE d.state = "Syncing" ->
            LET synced == Sync(d.rest)
                next == [d EXCEPT !.rest = synced]
            IN  IF synced = <<>> THEN Result(next, Heartbeat)
                ELSE ParseInHeader([next EXCEPT !.state = "InHeader"])
      [] d.state = "InHeader" -> ParseInHeader(d)
      [] d.state = "InContent" -> ParseInContent(d)

\* Deviation: one message for a read.
StopAfterMessage(msg) == "read"

\* The inner loop goes on after a message and stops after an error.
AfterSend(msg) == IF msg.res = "Msg" THEN "parse" ELSE "read"

Decode ==
    /\ worker = "parse"
    /\ \E r \in {Parse(decoder)} :
       /\ decoder' = r.decoder
       /\ IF r.decoder.rest = Panicked
          THEN worker' = "panicked" /\ UNCHANGED channel
          ELSE Send(r.msg, AfterSend(r.msg))
    /\ UNCHANGED <<script, input, pieces, pipe, size, server, listener, taken, answers, cut>>

-----------------------------------------------------------------------------
(* read_msg of the main loop: a message goes to the incoming ones, a       *)
(* refusal is answered at once.  The trace of the client is on.            *)

ReadMsg ==
    /\ server = "runs" /\ channel # <<>>
    /\ LET msg == Head(channel) IN
       /\ channel' = Tail(channel)
       /\ taken' = IF msg = Heartbeat THEN taken ELSE Append(taken, msg)
       /\ answers' = IF msg.res = "Err" THEN Append(answers, SerializeMsg(msg)) ELSE answers
    /\ UNCHANGED <<script, input, pieces, pipe, decoder, worker, size, server, listener, cut>>

(* The main loop answers a request it has taken: make_response.            *)
Answer ==
    /\ server = "runs"
    /\ \E i \in 1..Len(taken) :
          /\ taken[i].res = "Msg" /\ taken[i].class = "Request"
          /\ \A j \in 1..Len(answers) : answers[j].id # taken[i].id
          /\ answers' = Append(answers, SerializeMsg(Reply(taken[i])))
    /\ UNCHANGED <<script, input, pieces, pipe, decoder, worker, size, channel, server, listener, taken, cut>>

\* An empty channel whose sender is gone: recv_msg panics.
ReadDisconnected ==
    /\ server = "runs" /\ channel = <<>> /\ worker \in {"ended", "panicked"}
    /\ server' = "panicked"
    /\ UNCHANGED <<script, input, pieces, pipe, decoder, worker, size, channel, listener, taken, answers, cut>>

(* The drop of the channel: close the receiver, kill the listener, join    *)
(* the worker.  Joining a thread that panicked panics.                     *)
Close ==
    /\ server = "runs"
    /\ server' = "closed" /\ channel' = <<>>
    /\ UNCHANGED <<script, input, pieces, pipe, decoder, worker, size, listener, taken, answers, cut>>

Kill ==
    /\ server = "closed" /\ listener = "runs"
    /\ listener' = "killed"
    /\ UNCHANGED <<script, input, pieces, pipe, decoder, worker, size, channel, server, taken, answers, cut>>

Join ==
    /\ server = "closed" /\ listener = "killed" /\ worker \in {"ended", "panicked"}
    /\ server' = IF worker = "ended" THEN "joined" ELSE "panicked"
    /\ UNCHANGED <<script, input, pieces, pipe, decoder, worker, size, channel, listener, taken, answers, cut>>

Next == \/ Listen \/ Read \/ ReadEnd \/ Decode
        \/ ReadMsg \/ Answer \/ ReadDisconnected \/ Close \/ Kill \/ Join

\* The listener, the worker thread and the main loop each go on when they can;
\* whether the main loop ever drops the channel is up to the client.
Fairness ==
    /\ WF_vars(Listen)
    /\ WF_vars(Read \/ ReadEnd \/ Decode)
    /\ WF_vars(ReadMsg \/ ReadDisconnected)
    /\ WF_vars(Kill \/ Join)

Spec == Init /\ [][Next]_vars /\ Fairness

-----------------------------------------------------------------------------
(* Properties.                                                             *)

TypeOK ==
    /\ script \in Scripts
    /\ worker \in {"read", "parse", "ended", "panicked"}
    /\ server \in {"runs", "closed", "joined", "panicked"}
    /\ listener \in {"runs", "killed"}
    /\ decoder \in Decoders
    /\ size \in Nat /\ cut \in BOOLEAN
    /\ decoder.state # "InHeader" => decoder.tokens = <<>>
    /\ (decoder.state = "InContent") = (decoder.need > 0)

\* No header section up to the one of the i-th message is lost.
RecoversUpTo(i) == \A j \in DOMAIN script : j <= i => Recovers(script[j])

\* As long as no read has ended inside a header section the worker hands over
\* exactly the messages of the client, in their order, each decoded as a whole,
\* however the content was cut into reads, and past text, letters, the line of an
\* unknown field or of a length with a type behind it in front of a header.  Only a
\* header section that recovery cannot deal with ends this or makes the worker panic.
FramesExact ==
    /\ TypeOK
    /\ ~cut =>
          /\ worker = "panicked" => ~RecoversUpTo(Len(script))
          /\ LET seen == taken \o SelectSeq(channel, LAMBDA m : m # Heartbeat) IN
             \A i \in 1..Len(seen) :
                 RecoversUpTo(i) => i <= Len(script) /\ seen[i] = Outcome(script[i])

\* Every request that arrives is handed over under its id or refused under its
\* id, never refused without one; what is answered under an id can be read back as
\* a response, and a request is answered once.
RequestsKeepTheirId ==
    /\ \A i \in 1..Len(taken) :
          ~cut /\ RecoversUpTo(i) /\ LineMessage(script[i].doc) = "Request" =>
              /\ taken[i].id = script[i].doc.id
              /\ taken[i].res = "Err" => \E j \in 1..Len(answers) :
                                           answers[j].id = taken[i].id /\ answers[j].error # None
    /\ \A j \in 1..Len(answers) : answers[j].id # None =>
          /\ LineMessage(answers[j]) = "Response"
          /\ \A k \in 1..Len(answers) : answers[k].id = answers[j].id => k = j

\* A client that sends nothing that is refused, with nothing in between that
\* recovery cannot deal with, gets everything through, unless the server goes away
\* or a header section is cut.
Accepts(s) == \A i \in 1..Len(s) : Outcome(s[i]).res = "Msg" /\ Recovers(s[i])
Expected(s) == [i \in 1..Len(s) |-> Outcome(s[i])]
AllDelivered ==
    Accepts(script) => <>(cut \/ server # "runs" \/ taken = Expected(script))

\* Once the main loop drops the channel the worker ends and the drop returns,
\* wherever the worker was: reading, decoding or sending.
DropReturns == server = "closed" ~> server \in {"joined", "panicked"}

=============================================================================
