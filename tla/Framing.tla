------------------------------- MODULE Framing -------------------------------
(***************************************************************************)
(* The header section of the base protocol: the scanner of                 *)
(* ls/lsp/header.rs and the parser of ls/lsp.rs that cut the byte stream   *)
(* of the client into messages.                                            *)
(*                                                                         *)
(* The stream is a sequence of units.  "C" followed by "L" or "T" spells   *)
(* Content-Length or Content-Type (so that a name can be split and that    *)
(* its first letter, the mark of a message start, is told apart); "t" and  *)
(* "y" spell the value of the type; "0" and "1" are the digits of a length *)
(* in base two; "n" is any other name character and every further unit is  *)
(* printable, but no name character.  Offsets count from 0 as in the code. *)
(***************************************************************************)
EXTENDS Naturals, Integers, Sequences, SequencesExt, TLC

NameUnits == {"C", "L", "T", "n", "0", "1", "t"}
NoPrint == {" ", "CR", "LF"}

IsName(u) == u \in NameUnits
IsPrintable(u) == u \notin NoPrint
IsValueUnit(u) == IsPrintable(u) \/ u = " "

\* The unit at an offset of the buffer.
At(buf, i) == buf[i + 1]
Slice(buf, from, to) == SubSeq(buf, from + 1, to)

\* The scanner moves over the name or the value that starts at an offset.
NameEnd(buf, from) ==
    CHOOSE e \in from..Len(buf) : /\ \A i \in from..(e - 1) : IsName(At(buf, i))
                                  /\ e = Len(buf) \/ ~IsName(At(buf, e))
ValueEnd(buf, from) ==
    CHOOSE e \in from..Len(buf) : /\ \A i \in from..(e - 1) : IsValueUnit(At(buf, i))
                                  /\ e = Len(buf) \/ ~IsValueUnit(At(buf, e))

Token(kind, lexeme, start, end, fusible) ==
    [kind |-> kind, lexeme |-> lexeme, start |-> start, end |-> end, fusible |-> fusible]

NameToken(buf, start) ==
    LET e == NameEnd(buf, start)
    IN  [next |-> e, token |-> <<Token("Name", Slice(buf, start, e), start, e, e = Len(buf))>>]

\* A value that reaches the end of the buffer loses its last unit.
ValueToken(buf, start) ==
    LET e == ValueEnd(buf, start)
        end == IF e = Len(buf) THEN e - 1 ELSE e
    IN  [next |-> e, token |-> <<Token("Value", Slice(buf, start, end), start, end, e = Len(buf))>>]

\* What one call of scan_token returns: at most one token and the next offset,
\* or the offset of a scan error.
Skip(next) == [next |-> next, token |-> <<>>]
ScanError(offset) == [error |-> offset]
IsError(r) == "error" \in DOMAIN r

ScanToken(buf, i) ==
    LET u == At(buf, i)
        next == i + 1
        Follows(x) == next < Len(buf) /\ At(buf, next) = x
    IN  CASE u = ":" -> IF ~Follows(" ") THEN ScanError(next)
                        ELSE IF next + 1 = Len(buf) THEN Skip(next + 1)
                        ELSE IF ~IsPrintable(At(buf, next + 1)) THEN ScanError(next + 1)
                        ELSE ValueToken(buf, next + 1)
          [] u = "CR" -> IF Follows("LF")
                         THEN [next |-> next + 1,
                               token |-> <<Token("Term", <<"CR", "LF">>, i, next, FALSE)>>]
                         ELSE Skip(next)
          [] u = "LF" -> ScanError(i)
          [] u = " " -> Skip(next)
          [] IsName(u) -> NameToken(buf, i)
          [] OTHER -> ScanError(i)

HeaderSectionEnds(tokens) ==
    /\ Len(tokens) >= 2
    /\ \A i \in (Len(tokens) - 1)..Len(tokens) : tokens[i].kind = "Term"

Buffers == Seq(STRING)
Tokens == Seq([kind : STRING, lexeme : Buffers, start : Int, end : Int, fusible : BOOLEAN])

TokenResults == [next : Nat, token : Tokens] \cup [error : Nat]

\* The loop of scan, given the tokens so far and what scan_token returned last.
Scanned[buf \in Buffers, oneToken \in BOOLEAN, tokens \in Tokens, r \in TokenResults] ==
    IF IsError(r) THEN r
    ELSE LET ts == tokens \o r.token IN
         IF ~oneToken /\ HeaderSectionEnds(ts)
         THEN [tokens |-> [ts EXCEPT ![Len(ts)].kind = "EndOfHeaders"]]
         ELSE IF r.next >= Len(buf) \/ (oneToken /\ ts # <<>>) THEN [tokens |-> ts]
         ELSE Scanned[buf, oneToken, ts, ScanToken(buf, r.next)]

Scan(buf, oneToken) == Scanned[buf, oneToken, <<>>, Skip(0)]
ScanResults == [tokens : Tokens] \cup [error : Nat]

\* The tokens of an earlier buffer and those of the next one.
AssembleSequence(prior, post) ==
    LET l == Last(prior)
        f == Head(post)
    IN  IF /\ l.fusible /\ f.start = 0
           /\ l.kind = f.kind /\ f.kind \in {"Name", "Value"}
        THEN [prior EXCEPT ![Len(prior)].lexeme = @ \o f.lexeme] \o Tail(post)
        ELSE prior \o post

-----------------------------------------------------------------------------
(* The grammar of the header section.                                      *)

\* The number a sequence of digits spells, 0 when it is not a number.
NumberOf(lexeme) ==
    IF lexeme = <<>> \/ ~(ToSet(lexeme) \subseteq {"0", "1"}) THEN 0
    ELSE FoldLeft(LAMBDA n, u : 2 * n + (IF u = "1" THEN 1 ELSE 0), 0, lexeme)

\* The length a field announces: 0 when it is refused, TypeField for a type.
TypeField == -1
HeaderField(tokens) ==
    LET kinds == [i \in 1..Len(tokens) |-> tokens[i].kind] IN
    IF ~IsPrefix(<<"Name", "Value", "Term">>, kinds) THEN 0
    ELSE CASE IsSuffix(<<"C", "L">>, tokens[1].lexeme) -> NumberOf(tokens[2].lexeme)
           [] IsSuffix(<<"C", "T">>, tokens[1].lexeme) ->
                IF tokens[2].lexeme = <<"t", "y">> THEN TypeField ELSE 0
           [] OTHER -> 0

From(tokens, n) == SubSeq(tokens, n + 1, Len(tokens))

\* Drops as many tokens as the next field name is away from the offset, and one.
TryRecover(tokens, offset) ==
    LET names == {i \in 1..(Len(tokens) - offset) : tokens[offset + i].kind = "Name"}
    IN  IF names = {} THEN <<>> ELSE From(tokens, CHOOSE i \in names : \A j \in names : i <= j)

\* The length of the content (0: refused, Panic: the worker thread panics) and the
\* tokens that are left.  The search for the next name needs as many tokens as its
\* offset; the refusal of what stands in the place of the end names the kind of
\* the token that has come there after the search.
Panic == -2
ValidateHeaders(tokens) ==
    LET Valid(len) == [len |-> len, left |-> tokens]
        Panicking == [len |-> Panic, left |-> <<>>]
        Wrong(offset) == IF offset > Len(tokens) THEN Panicking
                         ELSE [len |-> 0, left |-> TryRecover(tokens, offset)]
        NotEnded(offset) == IF Len(TryRecover(tokens, offset + 1)) <= offset THEN Panicking
                            ELSE Wrong(offset + 1)
        Ended(offset, len) ==
            CASE Len(tokens) <= offset -> Wrong(offset + 1)
              [] Len(tokens) > offset /\ tokens[offset + 1].kind = "EndOfHeaders" -> Valid(len)
              [] OTHER -> NotEnded(offset)
        first == HeaderField(tokens)
        second == HeaderField(From(tokens, 3))
    IN  CASE first = 0 -> Wrong(1)
          [] first = TypeField -> IF second \in {0, TypeField} THEN Wrong(4)
                                  ELSE Ended(6, second)
          [] OTHER -> Ended(IF second = TypeField THEN 6 ELSE 3, first)

\* What is left is validated again until no token is left.
Recover[tokens \in Tokens] ==
    IF tokens = <<>> THEN 0
    ELSE LET v == ValidateHeaders(tokens) IN IF v.len # 0 THEN v.len ELSE Recover[v.left]

-----------------------------------------------------------------------------
(* The parser.  parse_header keeps the tokens of incomplete headers.  The  *)
(* buffer is drained up to and with an offset; when there is no such       *)
(* offset, or the validation panics, the worker thread panics, which is    *)
(* the buffer Panicked.                                                    *)

Panicked == <<"panic">>

Drain(buf, offset) == IF offset >= Len(buf) THEN Panicked ELSE From(buf, offset + 1)

\* The token that may end the header section comes first in the new data.
EndFirst(buf, hist) ==
    LET s == Scan(buf, TRUE) IN
    IF IsError(s) THEN [buf |-> Drain(buf, s.error), hist |-> <<>>]
    ELSE IF s.tokens = <<>> THEN [buf |-> Panicked, hist |-> hist]
    ELSE LET t == Head(s.tokens)
             kind == IF t.kind = "Term" THEN "EndOfHeaders" ELSE t.kind
         IN  [buf |-> Drain(buf, t.end), hist |-> Append(hist, [t EXCEPT !.kind = kind])]

\* The loop of parse_header, given what the scan of the buffer returned.
Assembled[buf \in Buffers, hist \in Tokens, s \in ScanResults] ==
    IF buf = Panicked THEN [buf |-> buf, hist |-> hist]
    ELSE IF IsError(s)
    THEN LET rest == Drain(buf, s.error) IN Assembled[rest, <<>>, Scan(rest, FALSE)]
    ELSE IF s.tokens = <<>> THEN [buf |-> <<>>, hist |-> hist]
    ELSE LET rest == Drain(buf, Last(s.tokens).end)
             all == IF hist = <<>> THEN s.tokens ELSE AssembleSequence(hist, s.tokens)
         IN  IF rest = <<>> \/ Last(all).kind = "EndOfHeaders"
             THEN [buf |-> rest, hist |-> all]
             ELSE Assembled[rest, all, Scan(rest, FALSE)]

\* parse_header: [buf, hist] and the announced length; 0 for "not yet" and
\* Malformed when no part of the header section is valid.
Malformed == -1
Assemblies == [buf : Buffers, hist : Tokens]
Headers == [buf : Buffers, hist : Tokens, len : Int]
HeaderResult[p \in Assemblies] ==
    IF p.hist = <<>> \/ Last(p.hist).kind # "EndOfHeaders" THEN [len |-> 0] @@ p
    ELSE LET len == Recover[p.hist]
         IN  [buf |-> IF len = Panic THEN Panicked ELSE p.buf, hist |-> <<>>,
              len |-> IF len = 0 THEN Malformed ELSE len]

ParseHeader(buf, hist) ==
    LET first == IF hist # <<>> /\ Last(hist).kind = "Term" THEN EndFirst(buf, hist)
                 ELSE [buf |-> buf, hist |-> hist]
    IN  HeaderResult[Assembled[first.buf, first.hist, Scan(first.buf, FALSE)]]

-----------------------------------------------------------------------------
\* guess_msg_start: everything before the first "C" is dropped.
Sync(buf) ==
    IF "C" \in ToSet(buf) THEN From(buf, SelectInSeq(buf, LAMBDA u : u = "C") - 1) ELSE <<>>

\* make_header: the type comes first, and then the length of the content.
Digits(n) == IF n < 2 THEN <<"1">> ELSE IF n = 2 THEN <<"1", "0">> ELSE <<"1", "1">>
LengthField(n) == <<"C", "L", ":", " ">> \o Digits(n) \o <<"CR", "LF">>
ContentTypeField == <<"C", "T", ":", " ", "t", "y", "CR", "LF">>
MakeHeader(n) == ContentTypeField \o LengthField(n) \o <<"CR", "LF">>
=============================================================================
