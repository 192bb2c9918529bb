----------------------- MODULE DocumentQueriesProofs ------------------------
(***************************************************************************)
(* Proofs about DocumentQueries, for every document, every nesting of the  *)
(* captures and any number of them: a span has one token, of the capture   *)
(* with the highest index, and comments without a gap are one fold.        *)
(***************************************************************************)
EXTENDS DocumentQueries, SequenceTheorems, FiniteSetTheorems, TLAPS

(***************************************************************************)
(* The lemmas about line tables.  They speak of texts and tables alone, so *)
(* that the constants and variables of the text document do not matter.    *)
(***************************************************************************)
Lines == INSTANCE TextDocumentProofs WITH
           Texts <- {}, Inserts <- {}, MaxEdits <- 0, MaxLength <- 0,
           editor <- <<>>, text <- <<>>, lines <- 0, edit <- 0, panicked <- FALSE, edits <- 0

Spots == [line : Nat, character : Nat]

(* What is proved in TextDocumentProofs is about the same table.           *)
LEMMA SameTable == \A s : Lines!LineMapOf(s) = LineMapOf(s)
<1> SUFFICES ASSUME NEW s
             PROVE  Lines!LineMapOf(s) = LineMapOf(s)
  OBVIOUS
<1>1. \A S : Lines!Ascending(S) = Ascending(S)
  BY DEF Lines!Ascending, Ascending, Lines!Cardinality, Cardinality
<1>2. \A x : Lines!Bytes(x) = Bytes(x) /\ Lines!Units(x) = Units(x)
  BY DEF Lines!Bytes, Bytes, Lines!Units, Units, Lines!Cardinality, Cardinality
<1>3. \A x, i : Lines!Offset(x, i) = Offset(x, i)
  BY <1>2 DEF Lines!Offset, Offset, Lines!Prefix, Prefix
<1>4. \A S : Lines!Min(S) = Min(S)
  BY DEF Lines!Min, Min
<1> DEFINE bs == {i \in DOMAIN s : IsBreak(s, i)}
           bs2 == {i \in DOMAIN s : Lines!IsBreak(s, i)}
           cut == Bytes(s) + 1
           fs == {1} \cup {Behind(s, i) : i \in {j \in bs : Offset(s, j) < cut}}
           fs2 == {1} \cup {Lines!Behind(s, i) : i \in {j \in bs2 : Lines!Offset(s, j) < cut}}
           first == Ascending(fs)
           first2 == Lines!Ascending(fs2)
           last(k) == Min({i \in bs : i >= first[k]} \cup {Len(s) + 1}) - 1
           last2(k) == Lines!Min({i \in bs2 : i >= first2[k]} \cup {Len(s) + 1}) - 1
           starts == [k \in DOMAIN first |-> 0 + Offset(s, first[k])]
           starts2 == [k \in DOMAIN first2 |-> 0 + Lines!Offset(s, first2[k])]
           units == [k \in DOMAIN first |-> IF first[k] > Len(s) THEN -1
                                            ELSE Units(SubSeq(s, first[k], last(k)))]
           units2 == [k \in DOMAIN first2 |-> IF first2[k] > Len(s) THEN -1
                                              ELSE Lines!Units(SubSeq(s, first2[k], last2(k)))]
<1>5. bs2 = bs
  BY DEF Lines!IsBreak, IsBreak
<1>6. first2 = first
  <2>1. fs2 = fs
    BY <1>3, <1>5 DEF Lines!Behind, Behind
  <2> QED
    BY <1>1, <2>1
<1>7. \A k : last2(k) = last(k)
  BY <1>4, <1>5, <1>6
<1> HIDE DEF first, first2, last, last2
<1>8. starts2 = starts
  BY <1>3, <1>6
<1>9. units2 = units
  BY <1>2, <1>6, <1>7
<1>10. LineMapOf(s) = [starts |-> starts, units |-> units]
  BY DEF LineMapOf, CreateLineMap, NoCutoff, None, first, last
<1>11. Lines!LineMapOf(s) = [starts |-> starts2, units |-> units2]
  <2>1. Lines!NoCutoff(s) = cut
    BY <1>2 DEF Lines!NoCutoff
  <2>2. Lines!CreateLineMap(s, 0, cut) = [starts |-> starts2, units |-> units2]
    BY DEF Lines!CreateLineMap, Lines!None, first2, last2
  <2> QED
    BY <2>1, <2>2 DEF Lines!LineMapOf
<1> QED
  BY <1>8, <1>9, <1>10, <1>11

(* Nodes start and end at positions in the order of their offsets.         *)
LEMMA SpotsOrdered ==
  ASSUME NEW s \in Seq(STRING), NEW a, NEW b, IsBorder(s, a), IsBorder(s, b)
  PROVE  LET p == ToPosition(a, LineMapOf(s), s)
             q == ToPosition(b, LineMapOf(s), s)
         IN  a \in Nat /\ b \in Nat /\ p \in Spots /\ q \in Spots /\ (a < b => Before(p, q))
<1>1. /\ \A x, i : Lines!Offset(x, i) = Offset(x, i)
      /\ \A x : Lines!LineMapOf(x) = LineMapOf(x)
      /\ \A o, l, x : Lines!ToPosition(o, l, x) = ToPosition(o, l, x)
      /\ \A p, q : Lines!Before(p, q) <=> Before(p, q)
  <2>1. \A x, i : Lines!Offset(x, i) = Offset(x, i)
    BY DEF Lines!Offset, Offset, Lines!Bytes, Bytes, Lines!Prefix, Prefix, Lines!Cardinality, Cardinality
  <2>2. \A o, l, x : Lines!ToPosition(o, l, x) = ToPosition(o, l, x)
    BY DEF Lines!ToPosition, ToPosition, Lines!Bytes, Bytes, Lines!Prefix, Prefix, Lines!Offset, Offset,
           Lines!Units, Units, Lines!Min, Min, Lines!Cardinality, Cardinality, Lines!NumLines, NumLines,
           Lines!Start, Start, Lines!MaxUnit, MaxUnit, Lines!EndsWithEol, EndsWithEol, Lines!LineAt, LineAt,
           Lines!Position, Position, Lines!From, From, Lines!None, None
  <2>3. \A p, q : Lines!Before(p, q) <=> Before(p, q)
    BY DEF Lines!Before, Before
  <2> QED
    BY <2>1, <2>2, <2>3, SameTable
<1>2. PICK i \in 1..(Len(s) + 1), j \in 1..(Len(s) + 1) : a = Offset(s, i) /\ b = Offset(s, j)
  BY DEF IsBorder
<1>3. /\ a \in Nat /\ b \in Nat /\ (a < b => i < j)
  BY <1>1, <1>2, Lines!OffsetsGrow
<1>4. LET p == ToPosition(Offset(s, i), LineMapOf(s), s)
          q == ToPosition(Offset(s, j), LineMapOf(s), s)
      IN  p \in Spots /\ (i < j => Before(p, q))
  BY <1>1, Lines!PositionsOrdered DEF Spots
<1>5. ToPosition(Offset(s, j), LineMapOf(s), s) \in Spots
  BY <1>1, Lines!PositionsOrdered DEF Spots
<1> QED
  BY <1>2, <1>3, <1>4, <1>5

-----------------------------------------------------------------------------
(***************************************************************************)
(* The task and the captures so far: a node that comes later lies behind   *)
(* an earlier one or in it.                                                *)
(***************************************************************************)

Captures ==
  {[start |-> s, end |-> e, name |-> n.name, kind |-> n.kind, parent |-> n.parent] :
     n \in query.doc.nodes, s \in query.doc.cuts, e \in query.doc.cuts}

QueryFits ==
  \/ query = NoQuery /\ seen = <<>> /\ answer \in {NoAnswer, Null}
  \/ /\ query.kind \in {"tokens", "folds"}
     /\ query.kind = "tokens" => query.doc \in TokenDocs
     /\ query.kind = "folds" => query.doc \in FoldDocs
     /\ query.lines = LineMapOf(query.doc.text)
     /\ seen \in Seq(Captures)

(* A node that comes later lies behind an earlier one or in it.            *)
BehindOrIn(c, d) == c.start >= d.end \/ (Inside(c, d) /\ d.kind # "comment")

NodesFit ==
  /\ \A i \in DOMAIN seen : seen[i].start <= seen[i].end
  /\ \A i, j \in DOMAIN seen : i < j => BehindOrIn(seen[j], seen[i]) /\ seen[i].start <= seen[j].start

SameNode(c, d) == c.start = d.start /\ c.end = d.end

(* The starts and ends of captures have positions in the order of their    *)
(* offsets.                                                                *)
LEMMA CaptureSpots ==
  ASSUME QueryFits, query # NoQuery, NEW c \in Captures, NEW d \in Captures
  PROVE  LET p == SpanOf(c, query.lines, query.doc.text)
             q == SpanOf(d, query.lines, query.doc.text)
         IN  /\ c.start \in Nat /\ c.end \in Nat
             /\ p.start \in Spots /\ p.end \in Spots
             /\ c.start < c.end => Before(p.start, p.end)
             /\ c.start < d.start => Before(p.start, q.start)
             /\ c.end < d.start => Before(p.end, q.start)
             /\ c.end < d.end => Before(p.end, q.end)
             /\ SameNode(c, d) => p = q
<1> DEFINE t == query.doc.text
<1>1. t \in Seq(STRING) /\ \A o \in query.doc.cuts : IsBorder(t, o)
  BY DocsAssumption DEF QueryFits
<1>2. c.start \in query.doc.cuts /\ c.end \in query.doc.cuts /\ d.start \in query.doc.cuts /\ d.end \in query.doc.cuts
  BY DEF Captures
<1>3. query.lines = LineMapOf(t)
  BY DEF QueryFits
<1> HIDE DEF t
<1>4. \A a, b \in query.doc.cuts :
        /\ a \in Nat /\ ToPosition(a, query.lines, t) \in Spots
        /\ a < b => Before(ToPosition(a, query.lines, t), ToPosition(b, query.lines, t))
  BY <1>1, <1>3, SpotsOrdered
<1> QED
  BY <1>2, <1>4 DEF SpanOf, SameNode, t

(* No position is before itself.                                           *)
LEMMA SpotsApart == \A p \in Spots : ~Before(p, p)
BY DEF Spots, Before

(* Captures with the same span are of the same node.                       *)
LEMMA SameSpan ==
  ASSUME QueryFits, query # NoQuery, NEW c \in Captures, NEW d \in Captures
  PROVE  SpanOf(c, query.lines, query.doc.text) = SpanOf(d, query.lines, query.doc.text) <=> SameNode(c, d)
<1> DEFINE p == SpanOf(c, query.lines, query.doc.text)
           q == SpanOf(d, query.lines, query.doc.text)
<1>1. /\ c.start \in Nat /\ d.start \in Nat /\ c.end \in Nat /\ d.end \in Nat
      /\ p.start \in Spots /\ p.end \in Spots /\ q.start \in Spots /\ q.end \in Spots
      /\ c.start < d.start => Before(p.start, q.start)
      /\ d.start < c.start => Before(q.start, p.start)
      /\ c.end < d.end => Before(p.end, q.end)
      /\ d.end < c.end => Before(q.end, p.end)
      /\ SameNode(c, d) => p = q
  BY CaptureSpots
<1> HIDE DEF p, q
<1>2. p = q => SameNode(c, d)
  BY <1>1, SpotsApart DEF SameNode
<1> QED
  BY <1>1, <1>2 DEF p, q

(* At the start nothing is asked and nothing captured.                     *)
LEMMA InitNodes == Init => QueryFits /\ NodesFit
BY DEF Init, QueryFits, NodesFit, NoAnswer

(* A capture comes behind the others.                                      *)
LEMMA NodeAdded ==
  ASSUME QueryFits, NodesFit, query # NoQuery, query' = query, answer' = answer,
         NEW c \in Captures, c.start <= c.end, Follows(c, seen), seen' = Append(seen, c)
  PROVE  /\ QueryFits' /\ NodesFit'
         /\ \A i \in DOMAIN seen : BehindOrIn(c, seen[i]) /\ seen[i].start <= c.start
         /\ c.kind = "comment" => SpanOf(c, query.lines, query.doc.text).end.character = 0
<1>1. seen \in Seq(Captures)
  BY DEF QueryFits
<1>2. \A i \in DOMAIN seen : BehindOrIn(c, seen[i])
  BY DEF Follows, BehindOrIn
<1>3. \A i \in DOMAIN seen : seen[i] \in Captures
  BY <1>1
<1>4. \A i \in DOMAIN seen : seen[i].start \in Nat /\ seen[i].end \in Nat /\ c.start \in Nat
  BY <1>1, <1>3, CaptureSpots
<1>5. \A i \in DOMAIN seen : seen[i].start <= c.start
  <2> SUFFICES ASSUME NEW i \in DOMAIN seen
               PROVE  seen[i].start <= c.start
    OBVIOUS
  <2>1. Len(seen) \in DOMAIN seen /\ i <= Len(seen) /\ Last(seen) = seen[Len(seen)] /\ seen # <<>>
    BY <1>1 DEF Last
  <2>2. seen[Len(seen)].start <= c.start
    BY <2>1 DEF Follows
  <2>3. seen[i].start <= seen[Len(seen)].start
    BY <1>4, <2>1 DEF NodesFit
  <2> QED
    BY <1>4, <2>1, <2>2, <2>3
<1>6. seen' \in Seq(Captures)
  BY <1>1
<1>7. QueryFits'
  BY <1>6 DEF QueryFits, Captures
<1>8. NodesFit'
  <2>1. /\ DOMAIN seen' = DOMAIN seen \cup {Len(seen) + 1} /\ DOMAIN seen = 1..Len(seen)
        /\ seen'[Len(seen) + 1] = c /\ \A i \in DOMAIN seen : seen'[i] = seen[i]
    BY <1>1
  <2> QED
    BY <1>2, <1>5, <2>1 DEF NodesFit, BehindOrIn, Inside
<1>9. c.kind = "comment" => SpanOf(c, query.lines, query.doc.text).end.character = 0
  BY DEF Follows, SpanOf
<1> QED
  BY <1>2, <1>5, <1>7, <1>8, <1>9

(* A step of the highlights query takes one capture and adds it to the     *)
(* tokens.                                                                 *)
LEMMA TokenCaptured ==
  ASSUME QueryFits, CaptureToken
  PROVE  /\ query.kind = "tokens" /\ query # NoQuery /\ query' = query /\ answer' = answer
         /\ \E c \in Captures :
              /\ c.start <= c.end /\ Follows(c, seen) /\ seen' = Append(seen, c)
              /\ found' = AddCapture(found, c, SpanOf(c, query.lines, query.doc.text))
<1>1. query.kind = "tokens" /\ query # NoQuery /\ NextCapture(AddCapture)
  BY DEF CaptureToken, NoQuery
<1>2. PICK n \in query.doc.nodes, s \in query.doc.cuts, e \in query.doc.cuts :
        LET c == [start |-> s, end |-> e, name |-> n.name, kind |-> n.kind, parent |-> n.parent]
        IN  /\ s <= e /\ Follows(c, seen) /\ seen' = Append(seen, c)
            /\ found' = AddCapture(found, c, SpanOf(c, query.lines, query.doc.text))
  BY <1>1 DEF NextCapture
<1>3. query' = query /\ answer' = answer
  BY <1>1 DEF NextCapture
<1> QED
  BY <1>1, <1>2, <1>3 DEF Captures

(* A step of the folds query takes one capture, before the answer is       *)
(* given.                                                                  *)
LEMMA FoldCaptured ==
  ASSUME QueryFits, CaptureFold
  PROVE  /\ query.kind = "folds" /\ query # NoQuery /\ query' = query /\ answer' = answer
         /\ answer = NoAnswer
         /\ \E c \in Captures :
              /\ c.start <= c.end /\ Follows(c, seen) /\ seen' = Append(seen, c)
              /\ found' = AddFold(found, c, SpanOf(c, query.lines, query.doc.text))
<1>1. query.kind = "folds" /\ query # NoQuery /\ NextCapture(AddFold)
  BY DEF CaptureFold, NoQuery
<1>2. PICK n \in query.doc.nodes, s \in query.doc.cuts, e \in query.doc.cuts :
        LET c == [start |-> s, end |-> e, name |-> n.name, kind |-> n.kind, parent |-> n.parent]
        IN  /\ s <= e /\ Follows(c, seen) /\ seen' = Append(seen, c)
            /\ found' = AddFold(found, c, SpanOf(c, query.lines, query.doc.text))
  BY <1>1 DEF NextCapture
<1>3. query' = query /\ answer' = answer /\ answer = NoAnswer
  BY <1>1 DEF NextCapture
<1> QED
  BY <1>1, <1>2, <1>3 DEF Captures

(* The other steps do not add to the captures.                             *)
LEMMA OtherSteps ==
  ASSUME QueryFits, NodesFit, [Next]_vars, ~CaptureToken, ~CaptureFold
  PROVE  /\ QueryFits' /\ NodesFit' /\ seen' = seen /\ found' = found
         /\ query # NoQuery => query' = query
         /\ query = NoQuery => seen = <<>>
<1>1. seen' = seen /\ found' = found
  BY DEF Next, UnknownDoc, TokensFullRequest, FoldingRangeRequest, TokensRangeRequest, Ask,
         FinishTokens, FinishFolds, vars
<1>2. query = NoQuery => seen = <<>>
  BY DEF QueryFits, NoQuery
<1>3. CASE query = NoQuery
  <2>1. CASE TokensFullRequest \/ TokensRangeRequest
    <3>1. query'.kind = "tokens" /\ query'.doc \in TokenDocs /\ query'.lines = LineMapOf(query'.doc.text)
      BY <2>1 DEF TokensFullRequest, TokensRangeRequest, Ask
    <3>2. seen' \in Seq(Captures')
      BY <1>1, <1>2, <1>3
    <3> QED
      BY <1>1, <1>2, <1>3, <3>1, <3>2 DEF QueryFits, NodesFit
  <2>2. CASE FoldingRangeRequest
    <3>1. query'.kind = "folds" /\ query'.doc \in FoldDocs /\ query'.lines = LineMapOf(query'.doc.text)
      BY <2>2 DEF FoldingRangeRequest, Ask
    <3>2. seen' \in Seq(Captures')
      BY <1>1, <1>2, <1>3
    <3> QED
      BY <1>1, <1>2, <1>3, <3>1, <3>2 DEF QueryFits, NodesFit
  <2>3. CASE UnknownDoc \/ UNCHANGED vars
    BY <1>1, <1>2, <1>3, <2>3 DEF UnknownDoc, vars, QueryFits, NodesFit, Captures
  <2>4. ~FinishTokens /\ ~FinishFolds
    BY <1>3 DEF FinishTokens, FinishFolds, NoQuery
  <2> QED
    BY <2>1, <2>2, <2>3, <2>4 DEF Next
<1>4. CASE query # NoQuery
  <2>1. query' = query
    BY <1>4 DEF Next, UnknownDoc, TokensFullRequest, FoldingRangeRequest, TokensRangeRequest, Ask,
                FinishTokens, FinishFolds, vars
  <2> QED
    BY <1>1, <1>4, <2>1 DEF QueryFits, NodesFit, Captures
<1> QED
  BY <1>3, <1>4

-----------------------------------------------------------------------------
(***************************************************************************)
(* Tokens. The capture a token shows is the first one with the highest     *)
(* index of its node. All captures of a node come in a row, but for empty  *)
(* ones and those that are not used, so that the last token is enough to   *)
(* compare with.                                                           *)
(***************************************************************************)

TokenOf(c) == [span |-> SpanOf(c, query.lines, query.doc.text),
               type |-> Min(TypesOf(c)), modifiers |-> ModifiersOf(c)]

UsedAt == {i \in DOMAIN seen : Used(seen[i])}
Index(i) == CaptureIndex[seen[i].name]
Top(i) ==
  /\ i \in UsedAt
  /\ \A j \in UsedAt : SameNode(seen[j], seen[i]) =>
       Index(j) < Index(i) \/ (Index(j) = Index(i) /\ i <= j)

\* The last token is that of the last capture that was used.
LastFits ==
  UsedAt # {} =>
    /\ found.list # <<>>
    /\ \E i \in DOMAIN seen : Top(i) /\ Last(found.list) = TokenOf(seen[i]) /\ found.prior = seen[i].name
    /\ \E u \in UsedAt : Last(found.list).span = TokenOf(seen[u]).span /\ \A j \in UsedAt : j <= u

TokensFit ==
  /\ found.list \in Seq({TokenOf(c) : c \in Captures})
  /\ \A i \in UsedAt : \E t \in DOMAIN found.list : found.list[t].span = TokenOf(seen[i]).span
  /\ \A t \in DOMAIN found.list : \E i \in DOMAIN seen : Top(i) /\ found.list[t] = TokenOf(seen[i])
  /\ \A t, u \in DOMAIN found.list : t # u => found.list[t].span # found.list[u].span
  /\ LastFits

(* Tokens have the same span if their captures are of the same node.       *)
LEMMA TokenOfSame ==
  ASSUME QueryFits, query # NoQuery, NEW c \in Captures, NEW d \in Captures
  PROVE  TokenOf(c).span = TokenOf(d).span <=> SameNode(c, d)
BY SameSpan DEF TokenOf

(* Captures of the highlights query have offsets and an index.             *)
LEMMA CaptureTyped ==
  ASSUME QueryFits, query.kind = "tokens"
  PROVE  /\ query # NoQuery /\ seen \in Seq(Captures)
         /\ \A c \in Captures : c.start \in Nat /\ c.end \in Nat /\ CaptureIndex[c.name] \in Nat
<1>1. query # NoQuery /\ seen \in Seq(Captures) /\ (query.kind = "tokens" => query.doc \in TokenDocs)
  BY DEF QueryFits, NoQuery
<1>2. \A c \in Captures : c.start \in Nat /\ c.end \in Nat
  BY <1>1, CaptureSpots
<1>3. \A c \in Captures : CaptureIndex[c.name] \in Nat
  BY <1>1, DocsAssumption DEF Captures
<1> QED
  BY <1>1, <1>2, <1>3

(* What the invariant says of the tokens is what HighestCaptureShown says. *)
LEMMA TokensShown ==
  ASSUME QueryFits, query.kind = "tokens" => TokensFit
  PROVE  HighestCaptureShown
<1> SUFFICES ASSUME query.kind = "tokens"
             PROVE  HighestCaptureShown
  BY DEF HighestCaptureShown
<1>1. /\ TokensFit /\ query # NoQuery /\ seen \in Seq(Captures)
      /\ \A c \in Captures : c.start \in Nat /\ c.end \in Nat /\ CaptureIndex[c.name] \in Nat
  BY CaptureTyped
<1>2. \A i \in DOMAIN seen : seen[i] \in Captures /\ i \in Nat /\ Index(i) \in Nat
  BY <1>1 DEF Index
<1>3. ASSUME NEW k \in UsedAt
      PROVE  LET same == {i \in DOMAIN seen : Used(seen[i]) /\ Inside(seen[i], seen[k]) /\ Inside(seen[k], seen[i])}
                 tops == {i \in same : \A j \in same : CaptureIndex[seen[j].name] <= CaptureIndex[seen[i].name]}
             IN  \E i \in DOMAIN found.list : found.list[i] = [TokenOf(seen[Min(tops)]) EXCEPT !.span = TokenOf(seen[k]).span]
  <2> DEFINE same == {i \in DOMAIN seen : Used(seen[i]) /\ Inside(seen[i], seen[k]) /\ Inside(seen[k], seen[i])}
             tops == {i \in same : \A j \in same : CaptureIndex[seen[j].name] <= CaptureIndex[seen[i].name]}
  <2>1. k \in DOMAIN seen
    BY DEF UsedAt
  <2>2. PICK t \in DOMAIN found.list : found.list[t].span = TokenOf(seen[k]).span
    BY <1>1 DEF TokensFit
  <2>3. PICK i \in DOMAIN seen : Top(i) /\ found.list[t] = TokenOf(seen[i])
    BY <1>1, <2>2 DEF TokensFit
  <2>4. SameNode(seen[i], seen[k])
    BY <1>1, <1>2, <2>1, <2>2, <2>3, TokenOfSame
  <2>5. \A j \in DOMAIN seen : j \in same <=> j \in UsedAt /\ SameNode(seen[j], seen[i])
    BY <1>1, <1>2, <2>1, <2>4 DEF Inside, SameNode, UsedAt
  <2>6. i \in tops /\ \A j \in tops : i <= j
    <3> HIDE DEF same
    <3>1. i \in same
      BY <2>3, <2>5 DEF Top, SameNode
    <3>2. same \subseteq DOMAIN seen
      BY DEF same
    <3>3. \A j \in same : Index(j) < Index(i) \/ (Index(j) = Index(i) /\ i <= j)
      BY <2>3, <2>5, <3>2 DEF Top
    <3> QED
      BY <1>2, <3>1, <3>2, <3>3 DEF Index
  <2>7. Min(tops) = i
    <3>1. tops \subseteq Nat
      BY <1>2
    <3> HIDE DEF tops
    <3> QED
      BY <2>6, <3>1 DEF Min
  <2>8. TokenOf(seen[i]).span = TokenOf(seen[k]).span
    BY <2>2, <2>3
  <2>9. found.list[t] = [TokenOf(seen[i]) EXCEPT !.span = TokenOf(seen[k]).span]
    BY <2>3, <2>8 DEF TokenOf
  <2> QED
    BY <2>7, <2>9
<1>4. \A i, j \in DOMAIN found.list : i # j => found.list[i].span # found.list[j].span
  BY <1>1 DEF TokensFit
<1> QED
  BY <1>3, <1>4 DEF HighestCaptureShown, TokenOf, UsedAt

(* A capture is added to those before.                                     *)
Added(c) ==
  /\ QueryFits /\ NodesFit /\ query # NoQuery /\ query' = query
  /\ seen' = Append(seen, c) /\ c \in Captures /\ c.start <= c.end
  /\ \A i \in DOMAIN seen : BehindOrIn(c, seen[i]) /\ seen[i].start <= c.start

(* The captures before stay at their places.                               *)
LEMMA AddedSeen ==
  ASSUME NEW c, Added(c)
  PROVE  /\ Len(seen) \in Nat /\ DOMAIN seen = 1..Len(seen)
         /\ DOMAIN seen' = 1..(Len(seen) + 1) /\ seen'[Len(seen) + 1] = c
         /\ \A i \in DOMAIN seen : i \in DOMAIN seen' /\ seen'[i] = seen[i] /\ seen[i] \in Captures
<1>1. seen \in Seq(Captures)
  BY DEF Added, QueryFits
<1> QED
  BY <1>1 DEF Added

(* The token of a capture depends on the query alone.                      *)
LEMMA TokenOfKept ==
  ASSUME query' = query
  PROVE  \A c : TokenOf(c)' = TokenOf(c)
BY DEF TokenOf

(* Used captures of one node have no used capture of another in between.   *)
LEMMA SameInRow ==
  ASSUME NEW c, Added(c), NEW j \in UsedAt, NEW u \in UsedAt, j <= u, SameNode(seen[j], c)
  PROVE  SameNode(seen[u], c)
<1>1. /\ c \in Captures /\ j \in DOMAIN seen /\ u \in DOMAIN seen
      /\ seen[j] \in Captures /\ seen[u] \in Captures /\ j \in Nat /\ u \in Nat
  BY AddedSeen DEF Added, UsedAt
<1>2. \A d \in Captures : d.start \in Nat /\ d.end \in Nat
  BY CaptureSpots DEF Added
<1>3. seen[u].start < seen[u].end
  BY <1>1, <1>2 DEF UsedAt, Used, Ignored, Added, NodesFit
<1>4. c.start >= seen[u].end \/ Inside(c, seen[u])
  BY <1>1 DEF Added, BehindOrIn
<1>5. CASE j = u
  BY <1>5
<1>6. CASE j < u
  <2>1. (seen[u].start >= seen[j].end \/ Inside(seen[u], seen[j])) /\ seen[j].start <= seen[u].start
    BY <1>1, <1>6 DEF Added, NodesFit, BehindOrIn
  <2>2. seen[j].start < seen[j].end
    BY <1>1, <1>2 DEF UsedAt, Used, Ignored, Added, NodesFit
  <2>3. seen[u].start <= c.start
    BY <1>1 DEF Added
  <2> QED
    BY <1>1, <1>2, <1>3, <1>4, <2>1, <2>2, <2>3 DEF SameNode, Inside
<1> QED
  BY <1>1, <1>5, <1>6

(* A capture that is not used changes nothing.                             *)
LEMMA UnusedFits ==
  ASSUME NEW c, Added(c), query.kind = "tokens", TokensFit, ~Used(c), found' = found
  PROVE  TokensFit'
<1> DEFINE n == Len(seen) + 1
<1>1. /\ \A i \in DOMAIN seen' : i \in DOMAIN seen \/ i = n
      /\ \A i \in DOMAIN seen : i \in DOMAIN seen' /\ seen'[i] = seen[i]
      /\ seen'[n] = c
  BY AddedSeen
<1>3. UsedAt' = UsedAt
  BY <1>1 DEF UsedAt, Used, Ignored, TypesOf
<1>4. \A i \in UsedAt : i \in DOMAIN seen /\ seen'[i] = seen[i]
  BY <1>1 DEF UsedAt
<1>5. \A i : Top(i)' <=> Top(i)
  BY <1>3, <1>4 DEF Top, Index, SameNode
<1>6. \A d : TokenOf(d)' = TokenOf(d)
  BY TokenOfKept DEF Added
<1>7. \A i : Top(i) => i \in DOMAIN seen' /\ i \in DOMAIN seen /\ seen'[i] = seen[i]
  BY <1>1 DEF Top, UsedAt
<1>8. found.list \in Seq({TokenOf(d) : d \in Captures})'
  <2>1. Captures' = Captures
    BY DEF Added, Captures
  <2> QED
    BY <1>6, <2>1 DEF TokensFit
<1>9. LastFits'
  BY <1>3, <1>4, <1>5, <1>6, <1>7 DEF LastFits, TokensFit
<1> QED
  BY <1>3, <1>4, <1>5, <1>6, <1>7, <1>8, <1>9 DEF TokensFit

(* A capture that is used, and the captures that were shown before.        *)
Taken(c) == Added(c) /\ query.kind = "tokens" /\ Used(c)

(* A capture that is used joins those that are, and the others keep index  *)
(* and place.                                                              *)
LEMMA TakenUsed ==
  ASSUME NEW c, Taken(c), NEW n, n = Len(seen) + 1
  PROVE  /\ UsedAt' = UsedAt \cup {n} /\ seen'[n] = c
         /\ \A i \in UsedAt : /\ i \in DOMAIN seen /\ i \in DOMAIN seen' /\ seen'[i] = seen[i]
                              /\ seen[i] \in Captures /\ i \in Nat /\ i < n
                              /\ Index(i)' = Index(i) /\ Index(i) \in Nat
         /\ CaptureIndex[c.name] \in Nat /\ Index(n)' = CaptureIndex[c.name]
         /\ n \in Nat /\ n \in DOMAIN seen'
<1>1. /\ Len(seen) \in Nat /\ DOMAIN seen = 1..Len(seen)
      /\ DOMAIN seen' = 1..n /\ seen'[n] = c
      /\ \A i \in DOMAIN seen : i \in DOMAIN seen' /\ seen'[i] = seen[i] /\ seen[i] \in Captures
  BY AddedSeen DEF Taken
<1>2. \A d \in Captures : CaptureIndex[d.name] \in Nat
  BY CaptureTyped DEF Taken, Added
<1>3. c \in Captures
  BY DEF Taken, Added
<1>4. UsedAt' = UsedAt \cup {n}
  BY <1>1 DEF UsedAt, Used, Ignored, TypesOf, Taken
<1>5. \A i \in UsedAt : i \in DOMAIN seen
  BY DEF UsedAt
<1>6. \A i \in UsedAt : Index(i)' = Index(i) /\ Index(i) \in Nat
  BY <1>1, <1>2, <1>5 DEF Index
<1>7. Index(n)' = CaptureIndex[c.name] /\ CaptureIndex[c.name] \in Nat
  BY <1>1, <1>2, <1>3 DEF Index
<1> QED
  BY <1>1, <1>4, <1>5, <1>6, <1>7

(* A capture that is shown stays so unless one of the same node has a      *)
(* higher index.                                                           *)
LEMMA TopKept ==
  ASSUME NEW c, Taken(c), NEW k, Top(k), SameNode(c, seen[k]) => CaptureIndex[c.name] <= Index(k)
  PROVE  Top(k)' /\ seen'[k] = seen[k] /\ k \in DOMAIN seen'
<1>0. PICK n : n = Len(seen) + 1
  OBVIOUS
<1>1. k \in UsedAt
  BY DEF Top
<1>2. k \in UsedAt' /\ seen'[k] = seen[k] /\ k \in DOMAIN seen'
  BY <1>1, TakenUsed
<1>3. ASSUME NEW j \in UsedAt', SameNode(seen'[j], seen'[k])
      PROVE  Index(j)' < Index(k)' \/ (Index(j)' = Index(k)' /\ k <= j)
  <2>1. CASE j \in UsedAt
    <3>1. SameNode(seen[j], seen[k])
      BY <1>1, <1>3, <2>1, TakenUsed
    <3> QED
      BY <1>1, <2>1, <3>1, TakenUsed DEF Top
  <2>2. CASE j = n
    <3>1. SameNode(c, seen[k])
      BY <1>0, <1>1, <1>3, <2>2, TakenUsed
    <3>2. CaptureIndex[c.name] <= Index(k)
      BY <3>1
    <3>3. Index(n)' = CaptureIndex[c.name] /\ k < n
      BY <1>0, <1>1, TakenUsed
    <3> QED
      BY <1>1, <2>2, <3>2, <3>3, TakenUsed
  <2> QED
    BY <1>0, <2>1, <2>2, TakenUsed
<1> QED
  BY <1>2, <1>3 DEF Top, SameNode

(* A capture with a higher index than all before of its node is shown.     *)
LEMMA TopNew ==
  ASSUME NEW c, Taken(c),
         \A j \in UsedAt : SameNode(seen[j], c) => Index(j) < CaptureIndex[c.name],
         NEW n, n = Len(seen) + 1
  PROVE  Top(n)'
<1>1. n \in UsedAt' /\ seen'[n] = c /\ n \in Nat
  BY TakenUsed
<1>2. ASSUME NEW j \in UsedAt', SameNode(seen'[j], seen'[n])
      PROVE  Index(j)' < Index(n)' \/ (Index(j)' = Index(n)' /\ n <= j)
  <2>1. CASE j \in UsedAt
    <3>1. SameNode(seen[j], c)
      BY <1>1, <1>2, <2>1, TakenUsed
    <3> QED
      BY <2>1, <3>1, TakenUsed
  <2>2. CASE j = n
    BY <1>1, <2>2
  <2> QED
    BY <2>1, <2>2, TakenUsed
<1> QED
  BY <1>1, <1>2 DEF Top, SameNode

\* What the last capture that was used has left.
LEMMA LastToken ==
  ASSUME NEW c, Taken(c), TokensFit, found.list # <<>>
  PROVE  /\ \E i \in UsedAt : Top(i) /\ Last(found.list) = TokenOf(seen[i]) /\ found.prior = seen[i].name
         /\ Last(found.list).span = TokenOf(c).span <=> \E j \in UsedAt : SameNode(seen[j], c)
<1>1. /\ QueryFits /\ query # NoQuery /\ c \in Captures
  BY DEF Taken, Added
<1>2. UsedAt # {}
  <2>1. 1 \in DOMAIN found.list
    BY DEF TokensFit
  <2> QED
    BY <2>1 DEF TokensFit, Top
<1>3. PICK i \in DOMAIN seen : Top(i) /\ Last(found.list) = TokenOf(seen[i]) /\ found.prior = seen[i].name
  BY <1>2 DEF TokensFit, LastFits
<1>4. PICK u \in UsedAt : Last(found.list).span = TokenOf(seen[u]).span /\ \A j \in UsedAt : j <= u
  BY <1>2 DEF TokensFit, LastFits
<1>5. i \in UsedAt /\ seen[i] \in Captures /\ seen[u] \in Captures
  BY <1>3, TakenUsed DEF Top
<1>6. Last(found.list).span = TokenOf(c).span <=> SameNode(seen[u], c)
  BY <1>1, <1>4, <1>5, TokenOfSame
<1>7. (\E j \in UsedAt : SameNode(seen[j], c)) => SameNode(seen[u], c)
  BY <1>4, SameInRow DEF Taken
<1> QED
  BY <1>3, <1>4, <1>5, <1>6, <1>7

\* What makes up the tokens after a capture: the list and the name that it ends with.
ShowsTop(c, list, prior) ==
  /\ list \in Seq({TokenOf(d) : d \in Captures})
  /\ \A i \in UsedAt' : \E t \in DOMAIN list : list[t].span = TokenOf(seen'[i]).span
  /\ \A t \in DOMAIN list : \E i \in DOMAIN seen' : Top(i)' /\ list[t] = TokenOf(seen'[i])
  /\ \A t, u \in DOMAIN list : t # u => list[t].span # list[u].span
  /\ list # <<>> /\ Last(list).span = TokenOf(c).span
  /\ \E i \in DOMAIN seen' : Top(i)' /\ Last(list) = TokenOf(seen'[i]) /\ prior = seen'[i].name

(* The list after a capture fits if it ends in the token of its node.      *)
LEMMA TokensKept ==
  ASSUME NEW c, Taken(c), TokensFit, ShowsTop(c, found'.list, found'.prior)
  PROVE  TokensFit'
<1>1. \A d : TokenOf(d)' = TokenOf(d)
  BY TokenOfKept DEF Taken, Added
<1>2. {TokenOf(d) : d \in Captures}' = {TokenOf(d) : d \in Captures}
  <2>1. Captures' = Captures
    BY DEF Taken, Added, Captures
  <2> QED
    BY <1>1, <2>1
<1>3. /\ Len(seen) + 1 \in UsedAt' /\ seen'[Len(seen) + 1] = c
      /\ \A j \in UsedAt' : j <= Len(seen) + 1
  BY TakenUsed
<1>4. LastFits'
  BY <1>1, <1>3 DEF LastFits, ShowsTop
<1> QED
  BY <1>1, <1>2, <1>4 DEF TokensFit, ShowsTop

(* A token is put behind the others.                                       *)
LEMMA TokenAdded ==
  ASSUME NEW c, Taken(c), TokensFit, \A j \in UsedAt : ~SameNode(seen[j], c),
         found' = [list |-> Append(found.list, TokenOf(c)), prior |-> c.name]
  PROVE  TokensFit'
<1> DEFINE S == {TokenOf(d) : d \in Captures}
           L == found.list
           M == Append(L, TokenOf(c))
<1>1. /\ L \in Seq(S) /\ c \in Captures /\ QueryFits /\ query # NoQuery
      /\ \A i \in UsedAt : \E t \in DOMAIN L : L[t].span = TokenOf(seen[i]).span
      /\ \A t \in DOMAIN L : \E i \in DOMAIN seen : Top(i) /\ L[t] = TokenOf(seen[i])
      /\ \A t, u \in DOMAIN L : t # u => L[t].span # L[u].span
  BY DEF TokensFit, Taken, Added
<1>2. PICK n : n = Len(seen) + 1
  OBVIOUS
<1>3. Top(n)' /\ seen'[n] = c /\ n \in DOMAIN seen' /\ UsedAt' = UsedAt \cup {n}
  BY <1>2, TopNew, TakenUsed
<1>4. TokenOf(c) \in S
  BY <1>1
<1> HIDE DEF S
<1>5. /\ M \in Seq(S) /\ M # <<>> /\ DOMAIN M = DOMAIN L \cup {Len(L) + 1} /\ Last(M) = TokenOf(c)
      /\ M[Len(L) + 1] = TokenOf(c) /\ \A t \in DOMAIN L : M[t] = L[t] /\ t # Len(L) + 1
  BY <1>1, <1>4 DEF Last
<1>6. found'.list = M /\ found'.prior = c.name
  OBVIOUS
<1> HIDE DEF M
<1>7. \A i \in UsedAt' : \E t \in DOMAIN M : M[t].span = TokenOf(seen'[i]).span
  <2>1. \A i \in UsedAt : seen'[i] = seen[i]
    BY <1>2, TakenUsed
  <2> QED
    BY <1>1, <1>3, <1>5, <2>1
<1>8. ASSUME NEW t \in DOMAIN L
      PROVE  /\ \E i \in DOMAIN seen' : Top(i)' /\ L[t] = TokenOf(seen'[i])
             /\ L[t].span # TokenOf(c).span
  <2>1. PICK i \in DOMAIN seen : Top(i) /\ L[t] = TokenOf(seen[i])
    BY <1>1
  <2>2. i \in UsedAt /\ seen[i] \in Captures /\ ~SameNode(seen[i], c)
    BY <2>1, TakenUsed DEF Top
  <2>3. L[t].span # TokenOf(c).span
    BY <1>1, <2>1, <2>2, TokenOfSame
  <2>4. Top(i)' /\ seen'[i] = seen[i] /\ i \in DOMAIN seen'
    BY <2>1, <2>2, TopKept DEF SameNode
  <2> QED
    BY <2>1, <2>3, <2>4
<1>9. \A t \in DOMAIN M : \E i \in DOMAIN seen' : Top(i)' /\ M[t] = TokenOf(seen'[i])
  BY <1>3, <1>5, <1>8
<1>10. \A t, u \in DOMAIN M : t # u => M[t].span # M[u].span
  BY <1>1, <1>5, <1>8
<1>11. \E i \in DOMAIN seen' : Top(i)' /\ Last(M) = TokenOf(seen'[i]) /\ c.name = seen'[i].name
  BY <1>3, <1>5
<1> QED
  <2>1. ShowsTop(c, M, c.name)
    BY <1>5, <1>7, <1>9, <1>10, <1>11 DEF ShowsTop, S
  <2> QED
    BY <1>6, <2>1, TokensKept

(* A token takes the place of the last one, which is of the same node.     *)
LEMMA TokenReplaced ==
  ASSUME NEW c, Taken(c), TokensFit, found.list # <<>>, Last(found.list).span = TokenOf(c).span,
         CaptureIndex[c.name] > CaptureIndex[found.prior],
         found' = [list |-> Append(Front(found.list), TokenOf(c)), prior |-> c.name]
  PROVE  TokensFit'
<1> DEFINE S == {TokenOf(d) : d \in Captures}
           L == found.list
           M == Append(Front(L), TokenOf(c))
<1>1. /\ L \in Seq(S) /\ c \in Captures /\ QueryFits /\ query # NoQuery
      /\ \A i \in UsedAt : \E t \in DOMAIN L : L[t].span = TokenOf(seen[i]).span
      /\ \A t \in DOMAIN L : \E i \in DOMAIN seen : Top(i) /\ L[t] = TokenOf(seen[i])
      /\ \A t, u \in DOMAIN L : t # u => L[t].span # L[u].span
  BY DEF TokensFit, Taken, Added
<1>2. PICK n : n = Len(seen) + 1
  OBVIOUS
<1>3. PICK k \in UsedAt : Top(k) /\ Last(L) = TokenOf(seen[k]) /\ found.prior = seen[k].name
  BY LastToken
<1>4. SameNode(seen[k], c) /\ Index(k) < CaptureIndex[c.name] /\ seen[k] \in Captures /\ Index(k) \in Nat
  <2>1. seen[k] \in Captures
    BY TakenUsed
  <2>2. TokenOf(seen[k]).span = TokenOf(c).span
    BY <1>3
  <2>3. SameNode(seen[k], c)
    BY <1>1, <2>1, <2>2, TokenOfSame
  <2>4. Index(k) = CaptureIndex[found.prior] /\ Index(k) \in Nat /\ CaptureIndex[c.name] \in Nat
    BY <1>2, <1>3, TakenUsed DEF Index
  <2> QED
    BY <2>1, <2>3, <2>4
<1>5. \A j \in UsedAt : SameNode(seen[j], c) => Index(j) < CaptureIndex[c.name]
  <2> SUFFICES ASSUME NEW j \in UsedAt, SameNode(seen[j], c)
               PROVE  Index(j) < CaptureIndex[c.name]
    OBVIOUS
  <2>1. SameNode(seen[j], seen[k])
    BY <1>4 DEF SameNode
  <2>2. Index(j) < Index(k) \/ Index(j) = Index(k)
    BY <1>3, <2>1 DEF Top
  <2>3. Index(j) \in Nat /\ CaptureIndex[c.name] \in Nat
    BY <1>2, TakenUsed
  <2> QED
    BY <1>4, <2>2, <2>3
<1>6. Top(n)' /\ seen'[n] = c /\ n \in DOMAIN seen' /\ UsedAt' = UsedAt \cup {n}
  BY <1>2, <1>5, TopNew, TakenUsed
<1>7. TokenOf(c) \in S
  BY <1>1
<1> HIDE DEF S
<1>8. /\ Len(L) \in Nat /\ Len(L) >= 1 /\ DOMAIN L = 1..Len(L) /\ Last(L) = L[Len(L)]
  BY <1>1 DEF Last
<1>9. Front(L) \in Seq(S) /\ Len(Front(L)) = Len(L) - 1 /\ \A t \in 1..(Len(L) - 1) : Front(L)[t] = L[t]
  BY <1>1, <1>8 DEF Front
<1>10. /\ M \in Seq(S) /\ M # <<>> /\ DOMAIN M = DOMAIN L /\ Last(M) = TokenOf(c)
       /\ M[Len(L)] = TokenOf(c) /\ \A t \in DOMAIN L : t # Len(L) => M[t] = L[t]
  BY <1>7, <1>8, <1>9 DEF Last
<1>11. found'.list = M /\ found'.prior = c.name
  OBVIOUS
<1> HIDE DEF M
<1>12. L[Len(L)].span = TokenOf(c).span /\ Len(L) \in DOMAIN L
  BY <1>8
<1>13. \A t \in DOMAIN M : M[t].span = L[t].span
  BY <1>10, <1>12
<1>14. \A i \in UsedAt' : \E t \in DOMAIN M : M[t].span = TokenOf(seen'[i]).span
  <2>1. \A i \in UsedAt : seen'[i] = seen[i]
    BY <1>2, TakenUsed
  <2> QED
    BY <1>1, <1>6, <1>10, <1>12, <1>13, <2>1
<1>15. ASSUME NEW t \in DOMAIN L, t # Len(L)
       PROVE  \E i \in DOMAIN seen' : Top(i)' /\ L[t] = TokenOf(seen'[i])
  <2>1. PICK i \in DOMAIN seen : Top(i) /\ L[t] = TokenOf(seen[i])
    BY <1>1
  <2>2. i \in UsedAt /\ seen[i] \in Captures
    BY <2>1, TakenUsed DEF Top
  <2>3. ~SameNode(seen[i], c)
    <3>1. TokenOf(seen[i]).span # TokenOf(c).span
      BY <1>1, <1>12, <1>15, <2>1
    <3> QED
      BY <1>1, <2>2, <3>1, TokenOfSame
  <2>4. Top(i)' /\ seen'[i] = seen[i] /\ i \in DOMAIN seen'
    BY <2>1, <2>3, TopKept DEF SameNode
  <2> QED
    BY <2>1, <2>4
<1>16. \A t \in DOMAIN M : \E i \in DOMAIN seen' : Top(i)' /\ M[t] = TokenOf(seen'[i])
  BY <1>6, <1>10, <1>15
<1>17. \A t, u \in DOMAIN M : t # u => M[t].span # M[u].span
  BY <1>1, <1>10, <1>13
<1>18. \E i \in DOMAIN seen' : Top(i)' /\ Last(M) = TokenOf(seen'[i]) /\ c.name = seen'[i].name
  BY <1>6, <1>10
<1> QED
  <2>1. ShowsTop(c, M, c.name)
    BY <1>10, <1>14, <1>16, <1>17, <1>18 DEF ShowsTop, S
  <2> QED
    BY <1>11, <2>1, TokensKept

(* A token of the same node stays.                                         *)
LEMMA TokenStays ==
  ASSUME NEW c, Taken(c), TokensFit, found.list # <<>>, Last(found.list).span = TokenOf(c).span,
         CaptureIndex[c.name] <= CaptureIndex[found.prior], found' = found
  PROVE  TokensFit'
<1> DEFINE S == {TokenOf(d) : d \in Captures}
           L == found.list
<1>1. /\ L \in Seq(S) /\ c \in Captures /\ QueryFits /\ query # NoQuery
      /\ \A i \in UsedAt : \E t \in DOMAIN L : L[t].span = TokenOf(seen[i]).span
      /\ \A t \in DOMAIN L : \E i \in DOMAIN seen : Top(i) /\ L[t] = TokenOf(seen[i])
      /\ \A t, u \in DOMAIN L : t # u => L[t].span # L[u].span
  BY DEF TokensFit, Taken, Added
<1>2. PICK n : n = Len(seen) + 1
  OBVIOUS
<1>3. PICK k \in UsedAt : Top(k) /\ Last(L) = TokenOf(seen[k]) /\ found.prior = seen[k].name
  BY LastToken
<1>4. SameNode(seen[k], c) /\ CaptureIndex[c.name] <= Index(k) /\ seen[k] \in Captures
  <2>1. seen[k] \in Captures
    BY TakenUsed
  <2>2. TokenOf(seen[k]).span = TokenOf(c).span
    BY <1>3
  <2>3. SameNode(seen[k], c)
    BY <1>1, <2>1, <2>2, TokenOfSame
  <2>4. Index(k) = CaptureIndex[found.prior]
    BY <1>3 DEF Index
  <2> QED
    BY <2>1, <2>3, <2>4
<1>5. ASSUME NEW i, Top(i)
      PROVE  Top(i)' /\ seen'[i] = seen[i] /\ i \in DOMAIN seen'
  <2>1. ASSUME SameNode(c, seen[i])
        PROVE  CaptureIndex[c.name] <= Index(i)
    <3>1. SameNode(seen[k], seen[i]) /\ i \in UsedAt
      BY <1>4, <1>5, <2>1 DEF SameNode, Top
    <3>2. Index(k) < Index(i) \/ Index(k) = Index(i)
      BY <1>5, <3>1 DEF Top
    <3>3. Index(k) \in Nat /\ Index(i) \in Nat /\ CaptureIndex[c.name] \in Nat
      BY <1>2, <3>1, TakenUsed
    <3> QED
      BY <1>4, <3>2, <3>3
  <2> QED
    BY <1>5, <2>1, TopKept
<1>6. seen'[n] = c /\ UsedAt' = UsedAt \cup {n} /\ \A i \in UsedAt : seen'[i] = seen[i]
  BY <1>2, TakenUsed
<1>7. Len(L) \in DOMAIN L /\ Last(L) = L[Len(L)]
  BY <1>1 DEF Last
<1> HIDE DEF S
<1>8. \A i \in UsedAt' : \E t \in DOMAIN L : L[t].span = TokenOf(seen'[i]).span
  BY <1>1, <1>6, <1>7
<1>9. \A t \in DOMAIN L : \E i \in DOMAIN seen' : Top(i)' /\ L[t] = TokenOf(seen'[i])
  BY <1>1, <1>5
<1>10. \E i \in DOMAIN seen' : Top(i)' /\ Last(L) = TokenOf(seen'[i]) /\ found.prior = seen'[i].name
  BY <1>3, <1>5
<1> QED
  <2>1. ShowsTop(c, L, found.prior)
    BY <1>1, <1>7, <1>8, <1>9, <1>10 DEF ShowsTop, S
  <2> QED
    BY <2>1, TokensKept

(* A capture of a token.                                                   *)
LEMMA CaptureTokenFits ==
  ASSUME QueryFits, NodesFit, query.kind = "tokens" => TokensFit, CaptureToken
  PROVE  QueryFits' /\ NodesFit' /\ query'.kind = "tokens" /\ TokensFit'
<1>1. query.kind = "tokens" /\ query # NoQuery /\ query' = query /\ answer' = answer /\ TokensFit
  BY TokenCaptured
<1>2. PICK c \in Captures :
        /\ c.start <= c.end /\ Follows(c, seen) /\ seen' = Append(seen, c)
        /\ found' = AddCapture(found, c, SpanOf(c, query.lines, query.doc.text))
  BY TokenCaptured
<1>3. QueryFits' /\ NodesFit' /\ Added(c)
  BY <1>1, <1>2, NodeAdded DEF Added
<1> DEFINE again == found.list # <<>> /\ Last(found.list).span = TokenOf(c).span
<1>4. TokensFit'
  <2>1. CASE ~Used(c)
    <3>1. found' = found
      BY <1>2, <2>1 DEF AddCapture, Used
    <3> QED
      BY <1>1, <1>3, <2>1, <3>1, UnusedFits
  <2>2. CASE Used(c)
    <3>1. Taken(c)
      BY <1>1, <1>3, <2>2 DEF Taken
    <3>2. found' = IF again /\ CaptureIndex[c.name] <= CaptureIndex[found.prior] THEN found
                   ELSE [list |-> Append(IF again THEN Front(found.list) ELSE found.list, TokenOf(c)),
                         prior |-> c.name]
      BY <1>2, <2>2 DEF AddCapture, Used, TokenOf
    <3>3. CASE again
      <4>1. PICK k \in UsedAt : found.prior = seen[k].name
        BY <1>1, <3>1, <3>3, LastToken
      <4>2. PICK n : n = Len(seen) + 1
        OBVIOUS
      <4>3. CaptureIndex[found.prior] \in Nat /\ CaptureIndex[c.name] \in Nat
        BY <3>1, <4>1, <4>2, TakenUsed DEF Index
      <4>4. CASE CaptureIndex[c.name] <= CaptureIndex[found.prior]
        BY <1>1, <3>1, <3>2, <3>3, <4>4, TokenStays
      <4>5. CASE CaptureIndex[c.name] > CaptureIndex[found.prior]
        <5>1. found' = [list |-> Append(Front(found.list), TokenOf(c)), prior |-> c.name]
          BY <3>2, <3>3, <4>3, <4>5
        <5> QED
          BY <1>1, <3>1, <3>3, <4>5, <5>1, TokenReplaced
      <4> QED
        BY <4>3, <4>4, <4>5
    <3>4. CASE ~again
      <4>1. found' = [list |-> Append(found.list, TokenOf(c)), prior |-> c.name]
        BY <3>2, <3>4
      <4>2. \A j \in UsedAt : ~SameNode(seen[j], c)
        <5>1. CASE found.list = <<>>
          BY <1>1, <5>1 DEF TokensFit
        <5>2. CASE found.list # <<>>
          BY <1>1, <3>1, <3>4, <5>2, LastToken
        <5> QED
          BY <5>1, <5>2
      <4> QED
        BY <1>1, <3>1, <4>1, <4>2, TokenAdded
    <3> QED
      BY <3>3, <3>4
  <2> QED
    BY <2>1, <2>2
<1> QED
  BY <1>1, <1>3, <1>4

TokenInv ==
  /\ QueryFits /\ NodesFit
  /\ query.kind = "tokens" => TokensFit
  /\ query = NoQuery => found = [list |-> <<>>, prior |-> "none"]

\* Nothing is shown before the first capture.
LEMMA TokensFitFirst ==
  ASSUME seen' = <<>>, found'.list = <<>>
  PROVE  TokensFit'
<1>1. UsedAt' = {} /\ DOMAIN found'.list = {}
  BY DEF UsedAt
<1>2. found'.list \in Seq({TokenOf(c) : c \in Captures})'
  OBVIOUS
<1> QED
  BY <1>1, <1>2 DEF TokensFit, LastFits

(* Every step keeps the invariant of the tokens.                           *)
LEMMA TokenInvInductive == TokenInv /\ [Next]_vars => TokenInv'
<1> SUFFICES ASSUME TokenInv, [Next]_vars
             PROVE  TokenInv'
  OBVIOUS
<1>1. CASE CaptureToken
  <2>1. QueryFits' /\ NodesFit' /\ query'.kind = "tokens" /\ TokensFit'
    BY <1>1, CaptureTokenFits DEF TokenInv
  <2> QED
    BY <2>1 DEF TokenInv, NoQuery
<1>2. CASE CaptureFold
  <2>1. query.kind = "folds" /\ query # NoQuery /\ query' = query /\ answer' = answer
    BY <1>2, FoldCaptured DEF TokenInv
  <2>2. PICK c \in Captures : c.start <= c.end /\ Follows(c, seen) /\ seen' = Append(seen, c)
    BY <1>2, FoldCaptured DEF TokenInv
  <2>3. QueryFits' /\ NodesFit'
    BY <2>1, <2>2, NodeAdded DEF TokenInv
  <2> QED
    BY <2>1, <2>3 DEF TokenInv
<1>3. CASE ~CaptureToken /\ ~CaptureFold
  <2>1. /\ QueryFits' /\ NodesFit' /\ seen' = seen /\ found' = found
        /\ query # NoQuery => query' = query
        /\ query = NoQuery => seen = <<>>
    BY <1>3, OtherSteps DEF TokenInv
  <2>2. CASE query = NoQuery
    <3>1. seen' = <<>> /\ found' = [list |-> <<>>, prior |-> "none"]
      BY <2>1, <2>2 DEF TokenInv
    <3>2. TokensFit'
      BY <3>1, TokensFitFirst
    <3> QED
      BY <2>1, <3>1, <3>2 DEF TokenInv
  <2>3. CASE query # NoQuery
    <3>1. query' = query
      BY <2>1, <2>3
    <3>2. TokensFit' <=> TokensFit
      BY <2>1, <3>1 DEF TokensFit, LastFits, UsedAt, Top, Index, TokenOf, Captures
    <3> QED
      BY <2>1, <2>3, <3>1, <3>2 DEF TokenInv
  <2> QED
    BY <2>2, <2>3
<1> QED
  BY <1>1, <1>2, <1>3

(* A span has at most one token, and it shows the first of the captures    *)
(* with the highest index among all that were used of its node             *)
(* (AddCapture, HighestCaptureShown).                                      *)
THEOREM HighestCaptureStaysShown == Spec => []HighestCaptureShown
<1>1. Init => TokenInv
  BY InitNodes DEF Init, TokenInv, NoQuery
<1>2. TokenInv => HighestCaptureShown
  BY TokensShown DEF TokenInv
<1> QED
  BY <1>1, <1>2, TokenInvInductive, PTL DEF Spec

-----------------------------------------------------------------------------
(***************************************************************************)
(* Folds. The list holds the folds of whole runs of comments, those of     *)
(* long ones all, and ends in the fold of the run that the last comment    *)
(* belongs to.                                                             *)
(***************************************************************************)

FoldNodes ==
  /\ QueryFits /\ NodesFit /\ query.kind = "folds"
  /\ \A i \in DOMAIN seen : seen[i].kind = "comment" => Span(i).end.character = 0

(* The folds query has three captures, one for comments only.              *)
LEMMA FoldTyped ==
  ASSUME FoldNodes
  PROVE  /\ query # NoQuery /\ seen \in Seq(Captures)
         /\ \A c \in Captures : /\ c.name \in {"comment", "block", "other"}
                                /\ c.name = "comment" <=> c.kind = "comment"
<1>1. query # NoQuery /\ seen \in Seq(Captures) /\ query.doc \in FoldDocs
  BY DEF FoldNodes, QueryFits, NoQuery
<1>2. \A n \in query.doc.nodes : /\ n.name \in {"comment", "block", "other"}
                                 /\ n.name = "comment" <=> n.kind = "comment"
  BY <1>1, DocsAssumption
<1> QED
  BY <1>1, <1>2 DEF Captures

(* Nodes that are not empty are in the order of their lines; a comment     *)
(* ends in a later line than it starts in, and what comes after it starts  *)
(* there or below.                                                         *)
LEMMA SolidLines ==
  ASSUME FoldNodes
  PROVE  /\ Solid \subseteq DOMAIN seen /\ Solid \subseteq Nat
         /\ \A i \in Solid : Span(i).start \in Spots /\ Span(i).end \in Spots
         /\ \A i \in Solid : seen[i].name = "comment" => Span(i).start.line < Span(i).end.line
         /\ \A i, j \in Solid : i < j /\ seen[i].name = "comment" => Span(i).end.line <= Span(j).start.line
         /\ \A i, j \in Solid : i <= j => Span(i).start.line <= Span(j).start.line
<1>1. /\ QueryFits /\ NodesFit /\ query # NoQuery /\ seen \in Seq(Captures)
      /\ \A c \in Captures : c.name = "comment" <=> c.kind = "comment"
  BY FoldTyped DEF FoldNodes
<1>2. \A i \in DOMAIN seen : seen[i] \in Captures /\ i \in Nat
  BY <1>1
<1>3. \A i \in Solid : i \in DOMAIN seen /\ seen[i] \in Captures /\ i \in Nat
  BY <1>2 DEF Solid
<1>4. ASSUME NEW i \in Solid
      PROVE  /\ Span(i).start \in Spots /\ Span(i).end \in Spots
             /\ seen[i].name = "comment" => Span(i).start.line < Span(i).end.line
  <2>1. /\ Span(i).start \in Spots /\ Span(i).end \in Spots
        /\ seen[i].start < seen[i].end => Before(Span(i).start, Span(i).end)
    BY <1>1, <1>3, CaptureSpots DEF Span
  <2>2. seen[i].start < seen[i].end
    BY DEF Solid
  <2>3. seen[i].name = "comment" => Span(i).end.character = 0
    BY <1>1, <1>3 DEF FoldNodes
  <2> QED
    BY <2>1, <2>2, <2>3 DEF Before, Spots
<1>5. ASSUME NEW i \in Solid, NEW j \in Solid
      PROVE  /\ i < j /\ seen[i].name = "comment" => Span(i).end.line <= Span(j).start.line
             /\ i <= j => Span(i).start.line <= Span(j).start.line
  <2>1. /\ seen[i].start \in Nat /\ seen[i].end \in Nat /\ seen[j].start \in Nat
        /\ seen[i].start < seen[j].start => Before(Span(i).start, Span(j).start)
        /\ seen[i].end < seen[j].start => Before(Span(i).end, Span(j).start)
    <3>1. seen[i] \in Captures /\ seen[j] \in Captures
      BY <1>3
    <3> QED
      BY <1>1, <3>1, CaptureSpots DEF Span
  <2>2. /\ seen[i].start = seen[j].start => Span(i).start = Span(j).start
        /\ seen[i].end = seen[j].start => Span(i).end = Span(j).start
    BY DEF Span, SpanOf
  <2>3. Span(i).start \in Spots /\ Span(j).start \in Spots /\ Span(i).end \in Spots
    BY <1>4
  <2>4. i < j => seen[i].start <= seen[j].start /\ BehindOrIn(seen[j], seen[i])
    BY <1>1, <1>3 DEF NodesFit
  <2>5. i < j /\ seen[i].name = "comment" => seen[j].start >= seen[i].end
    BY <1>1, <1>3, <2>4 DEF BehindOrIn
  <2>6. ASSUME i < j, seen[i].name = "comment"
        PROVE  Span(i).end.line <= Span(j).start.line
    BY <2>1, <2>2, <2>3, <2>5, <2>6 DEF Before, Spots
  <2>7. ASSUME i <= j
        PROVE  Span(i).start.line <= Span(j).start.line
    <3>1. CASE i = j
      BY <2>3, <3>1 DEF Spots
    <3>2. CASE i < j
      BY <2>1, <2>2, <2>3, <2>4, <3>2 DEF Before, Spots
    <3> QED
      BY <1>3, <2>7, <3>1, <3>2
  <2> QED
    BY <2>6, <2>7
<1> QED
  BY <1>3, <1>4, <1>5

(* A part of a run is a run.                                               *)
LEMMA PartOfRun ==
  ASSUME FoldNodes, NEW i, NEW j, Run(i, j), NEW k \in Solid, NEW l \in Solid, i <= k, k <= l, l <= j
  PROVE  Run(k, l)
<1>1. Solid \subseteq Nat
  BY SolidLines
<1>2. \A m \in Solid : k <= m /\ m <= l => i <= m /\ m <= j
  BY <1>1 DEF Run
<1>3. \A m, o \in Solid : k <= m /\ o <= l => i <= m /\ o <= j
  BY <1>1 DEF Run
<1> QED
  BY <1>2, <1>3 DEF Run

(* Two runs that share a comment are one.                                  *)
LEMMA RunsJoin ==
  ASSUME FoldNodes, NEW i, NEW j, Run(i, j), NEW k, NEW l, Run(k, l), i <= k, k <= j, j <= l
  PROVE  Run(i, l)
<1>1. Solid \subseteq Nat /\ i \in Solid /\ j \in Solid /\ k \in Solid /\ l \in Solid
  BY SolidLines DEF Run
<1>2. \A m \in Solid : i <= m /\ m <= l => seen[m].name = "comment"
  <2>1. \A m \in Solid : m <= j \/ k <= m
    BY <1>1
  <2> QED
    BY <2>1 DEF Run
<1>3. ASSUME NEW m \in Solid, NEW o \in Solid, i <= m, o <= l, Adjacent(m, o)
      PROVE  Span(m).end.line = Span(o).start.line
  <2>1. j <= m \/ o <= j
    BY <1>1, <1>3 DEF Adjacent
  <2>2. CASE o <= j
    BY <1>3, <2>2 DEF Run
  <2>3. CASE j <= m
    <3>1. k <= m
      BY <1>1, <2>3
    <3> QED
      BY <1>3, <3>1 DEF Run
  <2> QED
    BY <2>1, <2>2, <2>3
<1>4. i <= l
  BY <1>1
<1> QED
  BY <1>1, <1>2, <1>3, <1>4 DEF Run

(* Runs that cannot be made longer are the same or share no comment.       *)
LEMMA RunsApart ==
  ASSUME FoldNodes, NEW i, NEW j, WholeRun(i, j), NEW k, NEW l, WholeRun(k, l)
  PROVE  (i = k /\ j = l) \/ j < k \/ l < i
<1>1. /\ Solid \subseteq Nat /\ i \in Solid /\ j \in Solid /\ k \in Solid /\ l \in Solid
      /\ Run(i, j) /\ Run(k, l) /\ i <= j /\ k <= l
  BY SolidLines DEF WholeRun, Run
<1>2. ASSUME NEW a, NEW b, WholeRun(a, b), NEW c, NEW d, WholeRun(c, d), a <= c, c <= b
      PROVE  a = c /\ b = d
  <2>1. /\ a \in Solid /\ b \in Solid /\ c \in Solid /\ d \in Solid /\ Run(a, b) /\ Run(c, d)
        /\ a \in Nat /\ b \in Nat /\ c \in Nat /\ d \in Nat /\ a <= b /\ c <= d
    BY <1>1, <1>2 DEF WholeRun, Run
  <2>2. d <= b
    <3> SUFFICES ASSUME b < d
                 PROVE  FALSE
      BY <2>1
    <3>1. Run(a, d)
      BY <1>2, <2>1, RunsJoin
    <3> QED
      BY <1>2, <2>1, <3>1 DEF WholeRun
  <2>3. a = c
    <3> SUFFICES ASSUME a < c
                 PROVE  FALSE
      BY <1>2, <2>1
    <3>1. a <= d /\ a <= a
      BY <2>1
    <3>2. Run(a, d)
      BY <2>1, <2>2, <3>1, PartOfRun
    <3> QED
      BY <1>2, <2>1, <3>2 DEF WholeRun
  <2>4. b = d
    <3> SUFFICES ASSUME d < b
                 PROVE  FALSE
      BY <2>1, <2>2
    <3>1. Run(c, b)
      BY <2>1, <2>3
    <3> QED
      BY <1>2, <2>1, <3>1 DEF WholeRun
  <2> QED
    BY <2>3, <2>4
<1>3. (i <= k /\ k <= j) \/ (k <= i /\ i <= l) \/ j < k \/ l < i
  BY <1>1
<1> QED
  BY <1>2, <1>3

(* The folds of two runs do not touch.                                     *)
LEMMA FoldsApart ==
  ASSUME FoldNodes, NEW i, NEW j, WholeRun(i, j), NEW k, NEW l, WholeRun(k, l), ~(i = k /\ j = l)
  PROVE  /\ RunFold(k, l).startLine \notin Span(i).start.line..(Span(j).end.line - 1)
         /\ RunFold(k, l).startLine # RunFold(i, j).startLine
<1>1. /\ i \in Solid /\ j \in Solid /\ k \in Solid /\ l \in Solid /\ i <= j /\ k <= l
      /\ seen[j].name = "comment" /\ seen[l].name = "comment"
      /\ i \in Nat /\ j \in Nat /\ k \in Nat /\ l \in Nat
  <2>1. Solid \subseteq Nat
    BY SolidLines
  <2> QED
    BY <2>1 DEF WholeRun, Run
<1>2. RunFold(k, l).startLine = Span(k).start.line /\ RunFold(i, j).startLine = Span(i).start.line
  BY DEF RunFold, Fold
<1>3. \A m \in Solid : Span(m).start.line \in Nat /\ Span(m).end.line \in Nat
  BY SolidLines DEF Spots
<1>4. j < k \/ l < i
  BY RunsApart
<1>5. CASE j < k
  <2>1. Span(j).end.line <= Span(k).start.line /\ Span(j).start.line < Span(j).end.line
        /\ Span(i).start.line <= Span(j).start.line
    BY <1>1, <1>5, SolidLines
  <2> QED
    BY <1>1, <1>2, <1>3, <2>1
<1>6. CASE l < i
  <2>1. Span(l).end.line <= Span(i).start.line /\ Span(l).start.line < Span(l).end.line
        /\ Span(k).start.line <= Span(l).start.line
    BY <1>1, <1>6, SolidLines
  <2> QED
    BY <1>1, <1>2, <1>3, <2>1
<1> QED
  BY <1>4, <1>5, <1>6

(* A node that is not empty is added as the capture number n.              *)
Grown(c, n) ==
  /\ FoldNodes /\ FoldNodes' /\ query' = query /\ seen' = Append(seen, c) /\ c \in Captures
  /\ c.start < c.end /\ n = Len(seen) + 1

(* The nodes before keep their spans and folds.                            *)
LEMMA GrownSolid ==
  ASSUME NEW c, NEW n, Grown(c, n)
  PROVE  /\ Solid' = Solid \cup {n} /\ n \in Nat /\ n \notin Solid /\ seen'[n] = c
         /\ Solid \subseteq Nat
         /\ \A i \in Solid : i < n /\ seen'[i] = seen[i] /\ Span(i)' = Span(i)
         /\ \A i, j \in Solid : RunFold(i, j)' = RunFold(i, j)
<1>1. seen \in Seq(Captures)
  BY DEF Grown, FoldNodes, QueryFits, NoQuery
<1>2. /\ Len(seen) \in Nat /\ DOMAIN seen = 1..Len(seen) /\ DOMAIN seen' = 1..n /\ seen'[n] = c
      /\ \A i \in DOMAIN seen : i \in DOMAIN seen' /\ seen'[i] = seen[i]
  BY <1>1 DEF Grown
<1>3. n = Len(seen) + 1 /\ c.start < c.end /\ query' = query
  BY DEF Grown
<1>4. \A i \in Solid : i \in DOMAIN seen
  BY DEF Solid
<1>5. Solid' = Solid \cup {n}
  BY <1>2, <1>3 DEF Solid
<1>6. \A i \in Solid : seen'[i] = seen[i] /\ Span(i)' = Span(i)
  BY <1>2, <1>3, <1>4 DEF Span
<1>7. \A i, j \in Solid : RunFold(i, j)' = RunFold(i, j)
  BY <1>6 DEF RunFold
<1> QED
  BY <1>2, <1>3, <1>4, <1>5, <1>6, <1>7

\* The runs among the captures before are the same.
LEMMA RunsBefore ==
  ASSUME NEW c, NEW n, Grown(c, n)
  PROVE  /\ \A i, j \in Solid : Run(i, j)' <=> Run(i, j)
         /\ \A i, j : Run(i, j)' => i \in Solid' /\ j \in Solid' /\ i <= j
         /\ \A i : Run(i, n)' => c.name = "comment"
         /\ c.name = "comment" => Run(n, n)'
<1>1. /\ Solid' = Solid \cup {n} /\ n \in Nat /\ n \notin Solid /\ seen'[n] = c /\ Solid \subseteq Nat
      /\ \A i \in Solid : i < n /\ seen'[i] = seen[i] /\ Span(i)' = Span(i)
  BY GrownSolid
<1>0. /\ \A k \in Solid : k \in Nat /\ k < n /\ k <= n /\ ~(n <= k)
      /\ \A k : k \in Solid' <=> k \in Solid \/ k = n
  BY <1>1
<1>2. \A k, l \in Solid : Adjacent(k, l)' <=> Adjacent(k, l)
  BY <1>0 DEF Adjacent
<1>3. \A i, j \in Solid : Run(i, j)' <=> Run(i, j)
  <2> SUFFICES ASSUME NEW i \in Solid, NEW j \in Solid
               PROVE  Run(i, j)' <=> Run(i, j)
    OBVIOUS
  <2>1. \A k \in Solid' : k <= j => k \in Solid
    BY <1>0
  <2>2. (\A k \in Solid' : i <= k /\ k <= j => seen'[k].name = "comment")
           <=> (\A k \in Solid : i <= k /\ k <= j => seen[k].name = "comment")
    BY <1>1, <2>1
  <2>3. (\A k, l \in Solid' : i <= k /\ l <= j /\ Adjacent(k, l)' => Span(k)'.end.line = Span(l)'.start.line)
           <=> (\A k, l \in Solid : i <= k /\ l <= j /\ Adjacent(k, l) => Span(k).end.line = Span(l).start.line)
    <3>1. \A k, l \in Solid' : l <= j /\ Adjacent(k, l)' => k \in Solid /\ l \in Solid
      BY <1>1, <2>1 DEF Adjacent
    <3> QED
      BY <1>1, <1>2, <3>1
  <2>4. Run(i, j)' <=> /\ i \in Solid' /\ j \in Solid' /\ i <= j
                       /\ \A k \in Solid' : i <= k /\ k <= j => seen'[k].name = "comment"
                       /\ \A k, l \in Solid' : i <= k /\ l <= j /\ Adjacent(k, l)' => Span(k)'.end.line = Span(l)'.start.line
    BY DEF Run
  <2> QED
    BY <1>1, <2>2, <2>3, <2>4 DEF Run
<1>4. \A i, j : Run(i, j)' => i \in Solid' /\ j \in Solid' /\ i <= j
  BY DEF Run
<1>5. \A i : Run(i, n)' => c.name = "comment"
  <2> SUFFICES ASSUME NEW i, Run(i, n)'
               PROVE  c.name = "comment"
    OBVIOUS
  <2>1. i <= n /\ n <= n /\ n \in Solid'
    BY <1>1, <1>4
  <2> QED
    BY <1>1, <2>1 DEF Run
<1>6. ASSUME c.name = "comment"
      PROVE  Run(n, n)'
  <2>1. \A k \in Solid' : n <= k /\ k <= n => k = n
    BY <1>1
  <2>2. \A k, l \in Solid' : n <= k /\ l <= n => ~(k < l)
    BY <1>1
  <2>3. n \in Solid' /\ n <= n
    BY <1>1
  <2> QED
    BY <1>1, <1>6, <2>1, <2>2, <2>3 DEF Run, Adjacent
<1> QED
  BY <1>3, <1>4, <1>5, <1>6

Latest(u) == u \in Solid /\ \A k \in Solid : k <= u

\* A run reaches the new capture if it reaches the last one and that ends where it starts.
LEMMA RunsToNew ==
  ASSUME NEW c, NEW n, Grown(c, n), NEW u, Latest(u), NEW i \in Solid
  PROVE  Run(i, n)' <=> c.name = "comment" /\ Run(i, u) /\ Span(u).end.line = Span(n)'.start.line
<1>1. /\ Solid' = Solid \cup {n} /\ n \in Nat /\ n \notin Solid /\ seen'[n] = c /\ Solid \subseteq Nat
      /\ \A k \in Solid : k < n /\ seen'[k] = seen[k] /\ Span(k)' = Span(k)
  BY GrownSolid
<1>2. u \in Solid /\ \A k \in Solid : k <= u
  BY DEF Latest
<1>3. Adjacent(u, n)' /\ \A k \in Solid' : Adjacent(k, n)' => k = u
  BY <1>1, <1>2 DEF Adjacent
<1>4. ASSUME Run(i, n)'
      PROVE  c.name = "comment" /\ Run(i, u) /\ Span(u).end.line = Span(n)'.start.line
  <2>1. c.name = "comment"
    BY <1>4, RunsBefore
  <2>2. Span(u)'.end.line = Span(n)'.start.line
    <3>1. i <= u /\ n <= n /\ u \in Solid' /\ n \in Solid'
      BY <1>1, <1>2
    <3> QED
      BY <1>3, <1>4, <3>1 DEF Run
  <2>3. Run(i, u)'
    <3>1. \A k \in Solid' : k <= u => k <= n
      BY <1>1, <1>2
    <3>2. i \in Solid' /\ u \in Solid' /\ i <= u
      BY <1>1, <1>2
    <3>3. \A k \in Solid' : i <= k /\ k <= u => seen'[k].name = "comment"
      BY <1>4, <3>1 DEF Run
    <3>4. \A k, l \in Solid' : i <= k /\ l <= u /\ Adjacent(k, l)' => Span(k)'.end.line = Span(l)'.start.line
      BY <1>4, <3>1 DEF Run
    <3> QED
      BY <3>2, <3>3, <3>4 DEF Run
  <2> QED
    BY <1>1, <1>2, <2>1, <2>2, <2>3, RunsBefore
<1>5. ASSUME c.name = "comment", Run(i, u), Span(u).end.line = Span(n)'.start.line
      PROVE  Run(i, n)'
  <2>1. Run(i, u)'
    BY <1>2, <1>5, RunsBefore
  <2>2. i \in Solid' /\ n \in Solid' /\ i <= n
    BY <1>1
  <2>3. \A k \in Solid' : k <= u \/ k = n
    BY <1>1, <1>2
  <2>4. \A k \in Solid' : i <= k /\ k <= n => seen'[k].name = "comment"
    BY <1>1, <1>5, <2>1, <2>3 DEF Run
  <2>5. \A k, l \in Solid' : i <= k /\ l <= n /\ Adjacent(k, l)' => Span(k)'.end.line = Span(l)'.start.line
    <3>1. Span(u)'.end.line = Span(n)'.start.line
      BY <1>1, <1>2, <1>5
    <3>2. \A k, l \in Solid' : i <= k /\ l <= u /\ Adjacent(k, l)' => Span(k)'.end.line = Span(l)'.start.line
      BY <2>1 DEF Run
    <3> QED
      BY <1>3, <2>3, <3>1, <3>2
  <2> QED
    BY <2>2, <2>4, <2>5 DEF Run
<1> QED
  BY <1>4, <1>5

\* A capture that no run goes on with leaves the others as they are.
LEMMA WholeRunsKept ==
  ASSUME NEW c, NEW n, Grown(c, n), \A i \in Solid : ~Run(i, n)'
  PROVE  \A i, j : WholeRun(i, j)' <=> WholeRun(i, j) \/ (i = n /\ j = n /\ c.name = "comment")
<1>1. /\ Solid' = Solid \cup {n} /\ n \in Nat /\ n \notin Solid /\ Solid \subseteq Nat
      /\ \A k \in Solid : k < n
  BY GrownSolid
<1>2. /\ \A i, j \in Solid : Run(i, j)' <=> Run(i, j)
      /\ \A i, j : Run(i, j)' => i \in Solid' /\ j \in Solid' /\ i <= j
      /\ Run(n, n)' <=> c.name = "comment"
  BY RunsBefore
<1>3. \A i, j : WholeRun(i, j)' <=>
        Run(i, j)' /\ \A k \in Solid' : (k < i => ~Run(k, j)') /\ (k > j => ~Run(i, k)')
  BY DEF WholeRun
<1>4. \A i, j : WholeRun(i, j) => i \in Solid /\ j \in Solid /\ Run(i, j)
  BY DEF WholeRun, Run
<1>5. \A i, j \in Solid : WholeRun(i, j)' <=> WholeRun(i, j)
  BY <1>1, <1>2, <1>3 DEF WholeRun
<1>6. WholeRun(n, n)' <=> c.name = "comment"
  BY <1>1, <1>2, <1>3
<1>7. ASSUME NEW i, NEW j, WholeRun(i, j)'
      PROVE  (i \in Solid /\ j \in Solid) \/ (i = n /\ j = n)
  <2>1. Run(i, j)'
    BY <1>3, <1>7
  <2>2. i \in Solid' /\ j \in Solid' /\ i <= j
    BY <1>2, <2>1
  <2>3. CASE j = n
    BY <1>1, <2>1, <2>2, <2>3
  <2>4. CASE j \in Solid
    BY <1>1, <2>2, <2>4
  <2> QED
    BY <1>1, <2>2, <2>3, <2>4
<1> QED
  BY <1>1, <1>4, <1>5, <1>6, <1>7

\* A comment that the last run goes on with makes it longer.
LEMMA WholeRunGrown ==
  ASSUME NEW c, NEW n, Grown(c, n), c.name = "comment", NEW a, NEW u, WholeRun(a, u), Latest(u),
         Span(u).end.line = Span(n)'.start.line
  PROVE  \A i, j : WholeRun(i, j)' <=> (WholeRun(i, j) /\ j # u) \/ (i = a /\ j = n)
<1>1. /\ Solid' = Solid \cup {n} /\ n \in Nat /\ n \notin Solid /\ Solid \subseteq Nat
      /\ \A k \in Solid : k < n
  BY GrownSolid
<1>2. /\ \A i, j \in Solid : Run(i, j)' <=> Run(i, j)
      /\ \A i, j : Run(i, j)' => i \in Solid' /\ j \in Solid' /\ i <= j
      /\ Run(n, n)'
      /\ \A i \in Solid : Run(i, n)' <=> Run(i, u)
  BY RunsBefore, RunsToNew
<1>3. \A i, j : WholeRun(i, j)' <=>
        Run(i, j)' /\ \A k \in Solid' : (k < i => ~Run(k, j)') /\ (k > j => ~Run(i, k)')
  BY DEF WholeRun
<1>4. /\ a \in Solid /\ u \in Solid /\ Run(a, u) /\ a <= u /\ \A k \in Solid : k <= u
      /\ \A k \in Solid : k < a => ~Run(k, u)
  BY DEF WholeRun, Run, Latest
<1>5. WholeRun(a, n)'
  <2>1. Run(a, n)'
    BY <1>2, <1>4
  <2>2. ASSUME NEW k \in Solid'
        PROVE  (k < a => ~Run(k, n)') /\ (k > n => ~Run(a, k)')
    <3>1. ~(k > n) /\ (k < a => k \in Solid)
      BY <1>1, <1>4
    <3> QED
      BY <1>2, <1>4, <3>1
  <2> QED
    BY <1>3, <2>1, <2>2
<1>6. ASSUME NEW i \in Solid, NEW j \in Solid
      PROVE  WholeRun(i, j)' <=> WholeRun(i, j) /\ j # u
  <2>1. ASSUME WholeRun(i, j), j # u
        PROVE  ~Run(i, u)
    BY <1>1, <1>4, <2>1 DEF WholeRun
  <2>2. ASSUME WholeRun(i, j)'
        PROVE  WholeRun(i, j) /\ ~Run(i, u)
    BY <1>1, <1>2, <1>3, <2>2 DEF WholeRun
  <2>3. ASSUME WholeRun(i, j), ~Run(i, u)
        PROVE  WholeRun(i, j)'
    BY <1>1, <1>2, <1>3, <2>3 DEF WholeRun
  <2>4. WholeRun(i, u) => Run(i, u)
    BY DEF WholeRun
  <2> QED
    BY <2>1, <2>2, <2>3, <2>4
<1>7. ASSUME NEW i, WholeRun(i, n)'
      PROVE  i = a
  <2>1. i \in Solid'
    BY <1>2, <1>3, <1>7
  <2>2. i # n
    BY <1>1, <1>3, <1>5, <1>7, <1>4
  <2>3. Run(i, u) /\ ~(a < i)
    BY <1>1, <1>2, <1>3, <1>4, <1>7, <2>1, <2>2
  <2> QED
    BY <1>1, <1>4, <2>1, <2>2, <2>3
<1>8. \A i, j : WholeRun(i, j)' => (i \in Solid /\ j \in Solid) \/ j = n
  BY <1>1, <1>2, <1>3
<1>9. \A i, j : WholeRun(i, j) => i \in Solid /\ j \in Solid
  BY DEF WholeRun, Run
<1> QED
  BY <1>1, <1>5, <1>6, <1>7, <1>8, <1>9

FoldRecords ==
  [startLine : Nat, startCharacter : Nat, endLine : Nat, endCharacter : Nat, kind : {"comment", "region"}]

\* The folds of comments are those of whole runs, one of each, and no long one is missing.
FoldsShow(list) ==
  /\ list \in Seq(FoldRecords)
  /\ \A t \in DOMAIN list : list[t].kind = "comment" =>
       \E i, j \in Solid : WholeRun(i, j) /\ list[t] = RunFold(i, j)
  /\ \A t, u \in DOMAIN list :
       t # u /\ list[t].kind = "comment" /\ list[u].kind = "comment" => list[t].startLine # list[u].startLine
  /\ \A i, j \in Solid : WholeRun(i, j) /\ Len3(RunFold(i, j)) => \E t \in DOMAIN list : list[t] = RunFold(i, j)

\* The last fold is that of the comment that came last.
PriorFits ==
  /\ found.prior = "comment" =>
       found.list # <<>> /\ \E a, u : WholeRun(a, u) /\ Latest(u) /\ Last(found.list) = RunFold(a, u)
  /\ found.prior # "comment" => \A u : Latest(u) => seen[u].name # "comment"
  /\ Solid # {} => \E u : Latest(u)

FoldsFit == FoldsShow(found.list) /\ PriorFits

(* The fold of a run is a fold.                                            *)
LEMMA FoldTypes ==
  ASSUME FoldNodes, NEW i \in Solid, NEW j \in Solid
  PROVE  RunFold(i, j) \in FoldRecords
<1>1. Span(i).start \in Spots /\ Span(j).end \in Spots
  BY SolidLines
<1> QED
  BY <1>1 DEF RunFold, Fold, FoldRecords, Spots

(* The folds of two runs do not start in the same line, after a step too.  *)
LEMMA FoldsApartNext ==
  (FoldNodes => \A i, j, k, l : WholeRun(i, j) /\ WholeRun(k, l) /\ ~(i = k /\ j = l)
                                  => RunFold(k, l).startLine # RunFold(i, j).startLine)'
<1>1. FoldNodes => \A i, j, k, l : WholeRun(i, j) /\ WholeRun(k, l) /\ ~(i = k /\ j = l)
                                  => RunFold(k, l).startLine # RunFold(i, j).startLine
  BY FoldsApart
<1> QED
  BY <1>1, PTL

\* The folds K of the list L stay, and f is put behind them.
FoldsThenOne(n, L, K, f) ==
  /\ K \in Seq(FoldRecords) /\ DOMAIN K \subseteq DOMAIN L /\ \A t \in DOMAIN K : K[t] = L[t]
  /\ \A t \in DOMAIN K : K[t].kind = "comment" =>
       \E i, j \in Solid : WholeRun(i, j)' /\ K[t] = RunFold(i, j)
  /\ f \in FoldRecords
  /\ f.kind = "comment" => \E i \in Solid' : WholeRun(i, n)' /\ f = RunFold(i, n)'
  /\ \A i, j \in Solid' : WholeRun(i, j)' /\ Len3(RunFold(i, j)') =>
       f = RunFold(i, j)' \/ \E t \in DOMAIN K : K[t] = RunFold(i, j)'

(* The list fits if the folds that stay and the new one are those of whole *)
(* runs.                                                                   *)
LEMMA ListGrown ==
  ASSUME NEW c, NEW n, Grown(c, n), NEW L, FoldsShow(L), NEW K, NEW f, FoldsThenOne(n, L, K, f),
         NEW M, M = Append(K, f)
  PROVE  FoldsShow(M)'
<1>1. /\ Solid' = Solid \cup {n} /\ n \notin Solid /\ FoldNodes'
      /\ \A i, j \in Solid : RunFold(i, j)' = RunFold(i, j)
  BY GrownSolid DEF Grown
<1>2. /\ M \in Seq(FoldRecords) /\ DOMAIN M = DOMAIN K \cup {Len(K) + 1} /\ M[Len(K) + 1] = f
      /\ \A t \in DOMAIN K : M[t] = K[t]
  BY DEF FoldsThenOne
<1>3. \A t \in DOMAIN M : M[t].kind = "comment" =>
        \E i, j \in Solid' : WholeRun(i, j)' /\ M[t] = RunFold(i, j)'
  <2>1. ASSUME NEW t \in DOMAIN K, K[t].kind = "comment"
        PROVE  \E i, j \in Solid' : WholeRun(i, j)' /\ K[t] = RunFold(i, j)'
    BY <1>1, <2>1 DEF FoldsThenOne
  <2>2. ASSUME f.kind = "comment"
        PROVE  \E i, j \in Solid' : WholeRun(i, j)' /\ f = RunFold(i, j)'
    BY <1>1, <2>2 DEF FoldsThenOne
  <2> QED
    BY <1>2, <2>1, <2>2
<1>4. ASSUME NEW t \in DOMAIN K, K[t].kind = "comment", f.kind = "comment"
      PROVE  K[t].startLine # f.startLine
  <2>1. PICK i \in Solid, j \in Solid : WholeRun(i, j)' /\ K[t] = RunFold(i, j)'
    BY <1>1, <1>4 DEF FoldsThenOne
  <2>2. PICK k \in Solid' : WholeRun(k, n)' /\ f = RunFold(k, n)'
    BY <1>4 DEF FoldsThenOne
  <2>3. j # n
    BY <1>1
  <2> QED
    BY <1>1, <2>1, <2>2, <2>3, FoldsApartNext
<1>5. \A t, u \in DOMAIN M :
        t # u /\ M[t].kind = "comment" /\ M[u].kind = "comment" => M[t].startLine # M[u].startLine
  <2>1. \A t, u \in DOMAIN K :
          t # u /\ K[t].kind = "comment" /\ K[u].kind = "comment" => K[t].startLine # K[u].startLine
    BY DEF FoldsShow, FoldsThenOne
  <2> QED
    BY <1>2, <1>4, <2>1
<1>6. \A i, j \in Solid' : WholeRun(i, j)' /\ Len3(RunFold(i, j)') => \E t \in DOMAIN M : M[t] = RunFold(i, j)'
  BY <1>2 DEF FoldsThenOne
<1> QED
  BY <1>2, <1>3, <1>5, <1>6 DEF FoldsShow, Len3

\* The fold of the last run is taken off: the folds of the others stay.
LEMMA FrontShows ==
  ASSUME FoldNodes, NEW L, FoldsShow(L), L # <<>>, NEW a, NEW u, WholeRun(a, u), Latest(u),
         Last(L) = RunFold(a, u), NEW K, K = Front(L)
  PROVE  /\ K \in Seq(FoldRecords) /\ DOMAIN K \subseteq DOMAIN L /\ \A t \in DOMAIN K : K[t] = L[t]
         /\ \A t \in DOMAIN K : K[t].kind = "comment" =>
              \E i, j \in Solid : WholeRun(i, j) /\ j # u /\ K[t] = RunFold(i, j)
         /\ \A i, j \in Solid : WholeRun(i, j) /\ Len3(RunFold(i, j)) /\ ~(i = a /\ j = u) =>
              \E t \in DOMAIN K : K[t] = RunFold(i, j)
<1>1. /\ L \in Seq(FoldRecords) /\ Len(L) \in Nat /\ Len(L) >= 1 /\ DOMAIN L = 1..Len(L) /\ Last(L) = L[Len(L)]
  BY DEF FoldsShow, Last
<1>2. K \in Seq(FoldRecords) /\ DOMAIN K = 1..(Len(L) - 1) /\ \A t \in 1..(Len(L) - 1) : K[t] = L[t]
  BY <1>1 DEF Front
<1>3. /\ DOMAIN K \subseteq DOMAIN L /\ \A t \in DOMAIN K : K[t] = L[t] /\ t # Len(L)
      /\ Len(L) \in DOMAIN L /\ \A t \in DOMAIN L : t \in DOMAIN K \/ t = Len(L)
  BY <1>1, <1>2
<1>4. \A i, j : WholeRun(i, j) => i \in Solid /\ j \in Solid /\ i <= j /\ j <= u /\ i \in Nat /\ j \in Nat
  <2>1. Solid \subseteq Nat
    BY SolidLines
  <2> QED
    BY <2>1 DEF WholeRun, Run, Latest
<1>5. RunFold(a, u).kind = "comment"
  BY DEF RunFold, Fold
<1>6. ASSUME NEW t \in DOMAIN K, K[t].kind = "comment"
      PROVE  \E i, j \in Solid : WholeRun(i, j) /\ j # u /\ K[t] = RunFold(i, j)
  <2>1. PICK i \in Solid, j \in Solid : WholeRun(i, j) /\ L[t] = RunFold(i, j)
    BY <1>3, <1>6 DEF FoldsShow
  <2>2. L[t].startLine # L[Len(L)].startLine
    BY <1>1, <1>3, <1>5, <1>6 DEF FoldsShow
  <2>3. ~(i = a /\ j = u)
    BY <1>1, <2>1, <2>2
  <2>4. j < a \/ u < i
    BY <2>1, <2>3, RunsApart
  <2>5. j # u
    BY <1>4, <2>1, <2>4
  <2> QED
    BY <1>3, <2>1, <2>5
<1>7. ASSUME NEW i \in Solid, NEW j \in Solid, WholeRun(i, j), Len3(RunFold(i, j)), ~(i = a /\ j = u)
      PROVE  \E t \in DOMAIN K : K[t] = RunFold(i, j)
  <2>1. PICK t \in DOMAIN L : L[t] = RunFold(i, j)
    BY <1>7 DEF FoldsShow
  <2>2. RunFold(i, j).startLine # RunFold(a, u).startLine
    BY <1>7, FoldsApart
  <2>3. t # Len(L)
    BY <1>1, <2>1, <2>2
  <2> QED
    BY <1>3, <2>1, <2>3
<1> QED
  BY <1>2, <1>3, <1>6, <1>7

\* The fold of a capture that no run goes on with.
FoldOfNew(c, n, f) ==
  /\ f \in FoldRecords
  /\ f.kind = "comment" <=> c.name = "comment"
  /\ c.name = "comment" => f = RunFold(n, n)'
  /\ \A i \in Solid : ~Run(i, n)'

(* The fold of a capture that no run goes on with is put behind the        *)
(* others.                                                                 *)
LEMMA FoldPut ==
  ASSUME NEW c, NEW n, Grown(c, n), NEW L, FoldsShow(L), NEW f, FoldOfNew(c, n, f),
         NEW M, M = Append(L, f)
  PROVE  FoldsShow(M)'
<1>1. \A i, j : WholeRun(i, j)' <=> WholeRun(i, j) \/ (i = n /\ j = n /\ c.name = "comment")
  BY WholeRunsKept DEF FoldOfNew
<1>2. /\ L \in Seq(FoldRecords) /\ DOMAIN L \subseteq DOMAIN L /\ \A t \in DOMAIN L : L[t] = L[t]
      /\ f \in FoldRecords
  BY DEF FoldsShow, FoldOfNew
<1>3. /\ Solid' = Solid \cup {n} /\ \A i, j \in Solid : RunFold(i, j)' = RunFold(i, j)
  BY GrownSolid
<1>4. \A t \in DOMAIN L : L[t].kind = "comment" => \E i, j \in Solid : WholeRun(i, j)' /\ L[t] = RunFold(i, j)
  BY <1>1 DEF FoldsShow
<1>5. f.kind = "comment" => \E i \in Solid' : WholeRun(i, n)' /\ f = RunFold(i, n)'
  BY <1>1, <1>3 DEF FoldOfNew
<1>6. ASSUME NEW i \in Solid', NEW j \in Solid', WholeRun(i, j)', Len3(RunFold(i, j)')
      PROVE  f = RunFold(i, j)' \/ \E t \in DOMAIN L : L[t] = RunFold(i, j)'
  <2>1. CASE i = n /\ j = n /\ c.name = "comment"
    BY <2>1 DEF FoldOfNew
  <2>2. CASE WholeRun(i, j)
    <3>1. i \in Solid /\ j \in Solid
      BY <2>2 DEF WholeRun, Run
    <3> QED
      BY <1>3, <1>6, <2>2, <3>1 DEF FoldsShow
  <2> QED
    BY <1>1, <1>6, <2>1, <2>2
<1>7. FoldsThenOne(n, L, L, f)
  BY <1>2, <1>4, <1>5, <1>6 DEF FoldsThenOne
<1> QED
  BY <1>7, ListGrown

\* A fold that has stayed too short makes room for it.
LEMMA FoldTakesPlace ==
  ASSUME NEW c, NEW n, Grown(c, n), NEW L, FoldsShow(L), NEW f, FoldOfNew(c, n, f),
         L # <<>>, NEW a, NEW u, WholeRun(a, u), Latest(u), Last(L) = RunFold(a, u), ~Len3(RunFold(a, u)),
         NEW M, M = Append(Front(L), f)
  PROVE  FoldsShow(M)'
<1>1. \A i, j : WholeRun(i, j)' <=> WholeRun(i, j) \/ (i = n /\ j = n /\ c.name = "comment")
  BY WholeRunsKept DEF FoldOfNew
<1>2. PICK K : K = Front(L)
  OBVIOUS
<1>3. /\ K \in Seq(FoldRecords) /\ DOMAIN K \subseteq DOMAIN L /\ \A t \in DOMAIN K : K[t] = L[t]
      /\ \A t \in DOMAIN K : K[t].kind = "comment" => \E i, j \in Solid : WholeRun(i, j) /\ K[t] = RunFold(i, j)
      /\ \A i, j \in Solid : WholeRun(i, j) /\ Len3(RunFold(i, j)) /\ ~(i = a /\ j = u) =>
           \E t \in DOMAIN K : K[t] = RunFold(i, j)
  <2>1. FoldNodes
    BY DEF Grown
  <2> QED
    BY <1>2, <2>1, FrontShows
<1>4. /\ Solid' = Solid \cup {n} /\ \A i, j \in Solid : RunFold(i, j)' = RunFold(i, j)
  BY GrownSolid
<1>5. \A t \in DOMAIN K : K[t].kind = "comment" => \E i, j \in Solid : WholeRun(i, j)' /\ K[t] = RunFold(i, j)
  BY <1>1, <1>3
<1>6. f \in FoldRecords /\ (f.kind = "comment" => \E i \in Solid' : WholeRun(i, n)' /\ f = RunFold(i, n)')
  BY <1>1, <1>4 DEF FoldOfNew
<1>7. ASSUME NEW i \in Solid', NEW j \in Solid', WholeRun(i, j)', Len3(RunFold(i, j)')
      PROVE  f = RunFold(i, j)' \/ \E t \in DOMAIN K : K[t] = RunFold(i, j)'
  <2>1. CASE i = n /\ j = n /\ c.name = "comment"
    BY <2>1 DEF FoldOfNew
  <2>2. CASE WholeRun(i, j)
    <3>1. i \in Solid /\ j \in Solid
      BY <2>2 DEF WholeRun, Run
    <3>2. RunFold(i, j)' = RunFold(i, j)
      BY <1>4, <3>1
    <3>3. Len3(RunFold(i, j)) /\ ~(i = a /\ j = u)
      BY <1>7, <3>2
    <3> QED
      BY <1>3, <2>2, <3>1, <3>2, <3>3
  <2> QED
    BY <1>1, <1>7, <2>1, <2>2
<1>8. M = Append(K, f)
  BY <1>2
<1>9. FoldsThenOne(n, L, K, f)
  BY <1>3, <1>5, <1>6, <1>7 DEF FoldsThenOne
<1> QED
  BY <1>8, <1>9, ListGrown

\* A comment makes the last fold longer.
LEMMA FoldGrows ==
  ASSUME NEW c, NEW n, Grown(c, n), c.name = "comment", NEW L, FoldsShow(L),
         L # <<>>, NEW a, NEW u, WholeRun(a, u), Latest(u), Last(L) = RunFold(a, u),
         Span(u).end.line = Span(n)'.start.line,
         NEW f, f = RunFold(a, n)', f \in FoldRecords, NEW M, M = Append(Front(L), f)
  PROVE  FoldsShow(M)' /\ WholeRun(a, n)'
<1>1. \A i, j : WholeRun(i, j)' <=> (WholeRun(i, j) /\ j # u) \/ (i = a /\ j = n)
  BY WholeRunGrown
<1>2. PICK K : K = Front(L)
  OBVIOUS
<1>3. /\ K \in Seq(FoldRecords) /\ DOMAIN K \subseteq DOMAIN L /\ \A t \in DOMAIN K : K[t] = L[t]
      /\ \A t \in DOMAIN K : K[t].kind = "comment" =>
           \E i, j \in Solid : WholeRun(i, j) /\ j # u /\ K[t] = RunFold(i, j)
      /\ \A i, j \in Solid : WholeRun(i, j) /\ Len3(RunFold(i, j)) /\ ~(i = a /\ j = u) =>
           \E t \in DOMAIN K : K[t] = RunFold(i, j)
  <2>1. FoldNodes
    BY DEF Grown
  <2> QED
    BY <1>2, <2>1, FrontShows
<1>4. /\ Solid' = Solid \cup {n} /\ \A i, j \in Solid : RunFold(i, j)' = RunFold(i, j)
  BY GrownSolid
<1>5. \A t \in DOMAIN K : K[t].kind = "comment" => \E i, j \in Solid : WholeRun(i, j)' /\ K[t] = RunFold(i, j)
  BY <1>1, <1>3
<1>6. a \in Solid'
  BY <1>4 DEF WholeRun, Run
<1>7. f.kind = "comment" => \E i \in Solid' : WholeRun(i, n)' /\ f = RunFold(i, n)'
  BY <1>1, <1>6
<1>8. ASSUME NEW i \in Solid', NEW j \in Solid', WholeRun(i, j)', Len3(RunFold(i, j)')
      PROVE  f = RunFold(i, j)' \/ \E t \in DOMAIN K : K[t] = RunFold(i, j)'
  <2>1. CASE i = a /\ j = n
    BY <2>1
  <2>2. CASE WholeRun(i, j) /\ j # u
    <3>1. i \in Solid /\ j \in Solid
      BY <2>2 DEF WholeRun, Run
    <3>2. RunFold(i, j)' = RunFold(i, j)
      BY <1>4, <3>1
    <3>3. Len3(RunFold(i, j))
      BY <1>8, <3>2
    <3> QED
      BY <1>3, <2>2, <3>1, <3>2, <3>3
  <2> QED
    BY <1>1, <1>8, <2>1, <2>2
<1>9. M = Append(K, f)
  BY <1>2
<1> QED
  <2>1. WholeRun(a, n)'
    BY <1>1
  <2>2. FoldsThenOne(n, L, K, f)
    BY <1>3, <1>5, <1>7, <1>8 DEF FoldsThenOne
  <2>3. FoldsShow(M)'
    BY <1>9, <2>2, ListGrown
  <2> QED
    BY <2>1, <2>3

\* A node that folds nothing leaves the list as it is.
LEMMA FoldsStay ==
  ASSUME NEW c, NEW n, Grown(c, n), NEW L, FoldsShow(L), c.name # "comment"
  PROVE  FoldsShow(L)'
<1>1. \A i \in Solid : ~Run(i, n)'
  BY RunsBefore
<1>2. \A i, j : WholeRun(i, j)' <=> WholeRun(i, j)
  BY <1>1, WholeRunsKept
<1>3. /\ Solid' = Solid \cup {n} /\ \A i, j \in Solid : RunFold(i, j)' = RunFold(i, j)
  BY GrownSolid
<1>4. \A i, j : WholeRun(i, j) => i \in Solid /\ j \in Solid
  BY DEF WholeRun, Run
<1>5. \A t \in DOMAIN L : L[t].kind = "comment" => \E i, j \in Solid' : WholeRun(i, j)' /\ L[t] = RunFold(i, j)'
  BY <1>2, <1>3 DEF FoldsShow
<1>6. \A i, j \in Solid' : WholeRun(i, j)' /\ Len3(RunFold(i, j)') => \E t \in DOMAIN L : L[t] = RunFold(i, j)'
  BY <1>2, <1>3, <1>4 DEF FoldsShow
<1> QED
  BY <1>5, <1>6 DEF FoldsShow, Len3

\* An empty node folds nothing and ends no run.
LEMMA EmptyFits ==
  ASSUME FoldNodes, FoldsFit, query' = query, NEW c, seen' = Append(seen, c), c.start = c.end,
         c.start \in Nat, found' = found
  PROVE  FoldsFit'
<1>1. seen \in Seq(Captures)
  BY DEF FoldNodes, QueryFits, NoQuery
<1>2. /\ DOMAIN seen' = DOMAIN seen \cup {Len(seen) + 1} /\ seen'[Len(seen) + 1] = c
      /\ \A i \in DOMAIN seen : seen'[i] = seen[i]
  BY <1>1
<1>3. Solid' = Solid /\ \A i \in Solid : seen'[i] = seen[i] /\ Span(i)' = Span(i)
  BY <1>2 DEF Solid, Span
<1>4. \A i, j : Run(i, j)' <=> Run(i, j)
  <2>1. \A k, l : Adjacent(k, l)' <=> Adjacent(k, l)
    BY <1>3 DEF Adjacent
  <2> SUFFICES ASSUME NEW i, NEW j, i \in Solid, j \in Solid
               PROVE  Run(i, j)' <=> Run(i, j)
    BY <1>3 DEF Run
  <2>2. (\A k \in Solid' : i <= k /\ k <= j => seen'[k].name = "comment")
           <=> (\A k \in Solid : i <= k /\ k <= j => seen[k].name = "comment")
    BY <1>3
  <2>3. (\A k, l \in Solid' : i <= k /\ l <= j /\ Adjacent(k, l)' => Span(k)'.end.line = Span(l)'.start.line)
           <=> (\A k, l \in Solid : i <= k /\ l <= j /\ Adjacent(k, l) => Span(k).end.line = Span(l).start.line)
    BY <1>3, <2>1
  <2>4. Run(i, j)' <=> /\ i \in Solid' /\ j \in Solid' /\ i <= j
                       /\ \A k \in Solid' : i <= k /\ k <= j => seen'[k].name = "comment"
                       /\ \A k, l \in Solid' : i <= k /\ l <= j /\ Adjacent(k, l)' => Span(k)'.end.line = Span(l)'.start.line
    BY DEF Run
  <2> QED
    BY <1>3, <2>2, <2>3, <2>4 DEF Run
<1>5. \A i, j : WholeRun(i, j)' <=> WholeRun(i, j)
  BY <1>3, <1>4 DEF WholeRun
<1>6. \A i, j : WholeRun(i, j) => i \in Solid /\ j \in Solid
  BY DEF WholeRun, Run
<1>7. \A i, j \in Solid : RunFold(i, j)' = RunFold(i, j)
  BY <1>3 DEF RunFold
<1>8. \A u : Latest(u)' <=> Latest(u)
  BY <1>3 DEF Latest
<1>9. FoldsShow(found.list)'
  BY <1>3, <1>5, <1>7 DEF FoldsFit, FoldsShow, Len3
<1>10. PriorFits'
  <2>1. \A u : Latest(u) => seen'[u] = seen[u]
    BY <1>3 DEF Latest
  <2> QED
    BY <1>3, <1>5, <1>6, <1>7, <1>8, <2>1 DEF FoldsFit, PriorFits
<1> QED
  BY <1>9, <1>10 DEF FoldsFit

(* A node that is not empty is the latest one after its capture.           *)
LEMMA LatestIsNew ==
  ASSUME NEW c, NEW n, Grown(c, n)
  PROVE  \A u : Latest(u)' <=> u = n
<1>1. /\ Solid' = Solid \cup {n} /\ n \in Nat /\ n \notin Solid /\ Solid \subseteq Nat
      /\ \A i \in Solid : i < n
  BY GrownSolid
<1>2. \A i \in Solid : i \in Nat /\ i <= n /\ ~(n <= i)
  BY <1>1
<1>3. Latest(n)'
  <2>1. n <= n /\ n \in Solid'
    BY <1>1
  <2> QED
    BY <1>1, <1>2, <2>1 DEF Latest
<1>4. \A u : Latest(u)' => u = n
  BY <1>1, <1>2 DEF Latest
<1> QED
  BY <1>3, <1>4

(* A fold with another end is the fold of the longer span.                 *)
LEMMA FoldLonger ==
  ASSUME NEW p, NEW q, NEW r, NEW f, f = Fold([start |-> p, end |-> q], "comment"),
         NEW g, g = [f EXCEPT !.endLine = r.line, !.endCharacter = r.character]
  PROVE  g = Fold([start |-> p, end |-> r], "comment")
<1>1. PICK h : h = [f EXCEPT !.endLine = r.line]
  OBVIOUS
<1>2. h = Fold([start |-> p, end |-> [line |-> r.line, character |-> q.character]], "comment")
  BY <1>1 DEF Fold
<1>3. g = [h EXCEPT !.endCharacter = r.character]
  BY <1>1 DEF Fold
<1> QED
  BY <1>2, <1>3 DEF Fold

\* What a node that is not empty makes of the folds.
LEMMA SolidFits ==
  ASSUME NEW c, NEW n, Grown(c, n), FoldsFit, found' = AddFold(found, c, Span(n)')
  PROVE  FoldsFit'
<1> DEFINE p == Span(n)'
<1>1. /\ FoldNodes /\ c.start # c.end /\ c.name \in {"comment", "block", "other"}
  <2>1. c.start \in Nat /\ c.end \in Nat /\ c.start < c.end
    <3>1. QueryFits /\ query # NoQuery /\ c \in Captures /\ c.start < c.end
      BY FoldTyped DEF Grown, FoldNodes
    <3> QED
      BY <3>1, CaptureSpots
  <2> QED
    BY <2>1, FoldTyped DEF Grown
<1>2. p.start \in Spots /\ p.end \in Spots /\ seen'[n] = c /\ n \in Solid'
  <2>1. n \in Solid' /\ seen'[n] = c
    BY GrownSolid
  <2>2. p = SpanOf(c, query.lines, query.doc.text)
    BY <2>1 DEF Span, Grown
  <2> HIDE DEF p
  <2>3. QueryFits /\ query # NoQuery /\ c \in Captures
    BY FoldTyped DEF Grown, FoldNodes
  <2> QED
    BY <2>1, <2>2, <2>3, CaptureSpots
<1>3. PICK L, prior : L = found.list /\ prior = found.prior
  OBVIOUS
<1>4. /\ FoldsShow(L)
      /\ prior = "comment" => L # <<>> /\ \E a, u : WholeRun(a, u) /\ Latest(u) /\ Last(L) = RunFold(a, u)
      /\ prior # "comment" => \A u : Latest(u) => seen[u].name # "comment"
      /\ Solid # {} => \E u : Latest(u)
  BY <1>3 DEF FoldsFit, PriorFits
<1>5. PICK q : q = p
  OBVIOUS
<1>6. PICK f : f = Fold(q, IF c.name = "block" THEN "region" ELSE "comment")
  OBVIOUS
<1>7. /\ f \in FoldRecords /\ (c.name = "block" => f.kind = "region")
      /\ c.name = "comment" => f.kind = "comment" /\ f = RunFold(n, n)'
  <2>1. f \in FoldRecords /\ (c.name = "block" => f.kind = "region")
    BY <1>1, <1>2, <1>5, <1>6 DEF Fold, FoldRecords, Spots
  <2>2. RunFold(n, n)' = Fold([start |-> Span(n)'.start, end |-> Span(n)'.end], "comment")
    BY DEF RunFold
  <2>3. ASSUME c.name = "comment"
        PROVE  f.kind = "comment" /\ f = RunFold(n, n)'
    BY <1>5, <1>6, <2>2, <2>3 DEF Fold
  <2> QED
    BY <2>1, <2>3
<1>8. found' = [list |-> IF c.name = "other" THEN L
                         ELSE IF prior = "comment"
                         THEN IF c.name = "comment" /\ Last(L).endLine = q.start.line
                              THEN Append(Front(L), [Last(L) EXCEPT !.endLine = q.end.line, !.endCharacter = q.end.character])
                              ELSE IF Len3(Last(L)) THEN Append(L, f) ELSE Append(Front(L), f)
                         ELSE Append(L, f),
                prior |-> c.name]
  BY <1>1, <1>3, <1>5, <1>6 DEF AddFold, ReplaceLast
<1> HIDE DEF p
<1>9. /\ \A u : Latest(u)' <=> u = n
      /\ Solid' # {} => \E u : Latest(u)'
  BY LatestIsNew
<1>10. PICK M : M = found'.list
  OBVIOUS
<1>11. ASSUME FoldsShow(M)',
              c.name = "comment" => M # <<>> /\ \E a : WholeRun(a, n)' /\ Last(M) = RunFold(a, n)'
       PROVE  FoldsFit'
  <2>1. found'.prior = c.name
    BY <1>8
  <2>2. PriorFits'
    BY <1>2, <1>9, <1>10, <1>11, <2>1 DEF PriorFits
  <2>3. FoldsShow(found.list)'
    BY <1>10, <1>11 DEF FoldsShow, Len3
  <2> QED
    BY <2>2, <2>3 DEF FoldsFit
<1>12. CASE c.name = "other"
  <2>1. M = L
    BY <1>8, <1>10, <1>12
  <2>2. FoldsShow(M)'
    BY <1>4, <1>12, <2>1, FoldsStay
  <2> QED
    BY <1>11, <1>12, <2>2
<1>13. ASSUME c.name # "other", ~(c.name = "comment" /\ prior = "comment" /\ Last(L).endLine = q.start.line)
       PROVE  FoldsFit'
  <2>1. \A i \in Solid : ~Run(i, n)'
    <3> SUFFICES ASSUME NEW i \in Solid, Run(i, n)'
                 PROVE  FALSE
      OBVIOUS
    <3>1. PICK u : Latest(u)
      BY <1>4
    <3>2. c.name = "comment" /\ Run(i, u) /\ Span(u).end.line = q.start.line
      BY <1>5, <3>1, RunsToNew DEF p
    <3>3. seen[u].name = "comment"
      <4>1. u \in Solid /\ u <= u
        <5>1. Solid \subseteq Nat
          BY <1>1, SolidLines
        <5> QED
          BY <3>1, <5>1 DEF Latest
      <4> QED
        BY <3>2, <4>1 DEF Run
    <3>4. prior = "comment"
      BY <1>4, <3>1, <3>3
    <3>5. PICK a, v : WholeRun(a, v) /\ Latest(v) /\ Last(L) = RunFold(a, v)
      BY <1>4, <3>4
    <3>6. v = u
      <4>1. Solid \subseteq Nat
        BY <1>1, SolidLines
      <4> QED
        BY <3>1, <3>5, <4>1 DEF Latest
    <3>7. Last(L).endLine = Span(u).end.line
      BY <3>5, <3>6 DEF RunFold, Fold
    <3> QED
      BY <1>13, <3>2, <3>4, <3>7
  <2>2. FoldOfNew(c, n, f)
    <3>1. f.kind = "comment" <=> c.name = "comment"
      BY <1>1, <1>7, <1>13
    <3> QED
      BY <1>7, <2>1, <3>1 DEF FoldOfNew
  <2>3. c.name = "comment" => WholeRun(n, n)' /\ f = RunFold(n, n)'
    BY <1>7, <2>1, WholeRunsKept
  <2>4. CASE M = Append(L, f)
    <3>1. FoldsShow(M)'
      BY <1>4, <2>2, <2>4, FoldPut
    <3>2. M # <<>> /\ Last(M) = f
      <4>1. L \in Seq(FoldRecords)
        BY <1>4 DEF FoldsShow
      <4> QED
        BY <1>7, <2>4, <4>1 DEF Last
    <3> QED
      BY <1>11, <2>3, <3>1, <3>2
  <2>5. CASE prior = "comment" /\ ~Len3(Last(L)) /\ M = Append(Front(L), f)
    <3>1. PICK a, u : L # <<>> /\ WholeRun(a, u) /\ Latest(u) /\ Last(L) = RunFold(a, u)
      BY <1>4, <2>5
    <3>2. FoldsShow(M)'
      BY <1>4, <2>2, <2>5, <3>1, FoldTakesPlace
    <3>3. M # <<>> /\ Last(M) = f
      <4>1. Front(L) \in Seq(FoldRecords)
        BY <1>1, <1>4, <3>1, FrontShows
      <4> QED
        BY <1>7, <2>5, <4>1 DEF Last
    <3> QED
      BY <1>11, <2>3, <3>2, <3>3
  <2> QED
    BY <1>8, <1>10, <1>13, <2>4, <2>5
<1>14. ASSUME c.name = "comment", prior = "comment", Last(L).endLine = q.start.line
       PROVE  FoldsFit'
  <2>1. PICK a, u : L # <<>> /\ WholeRun(a, u) /\ Latest(u) /\ Last(L) = RunFold(a, u)
    BY <1>4, <1>14
  <2>2. a \in Solid /\ u \in Solid /\ Span(a)' = Span(a)
    BY <2>1, GrownSolid DEF WholeRun, Run
  <2>3. Span(u).end.line = Span(n)'.start.line
    BY <1>5, <1>14, <2>1 DEF RunFold, Fold, p
  <2>4. PICK g : g = [Last(L) EXCEPT !.endLine = q.end.line, !.endCharacter = q.end.character]
    OBVIOUS
  <2>5. g = RunFold(a, n)' /\ g \in FoldRecords
    <3>1. RunFold(a, n)' = Fold([start |-> Span(a).start, end |-> q.end], "comment")
      BY <1>5, <2>2 DEF RunFold, p
    <3>2. g = Fold([start |-> Span(a).start, end |-> q.end], "comment")
      <4>1. Last(L) = Fold([start |-> Span(a).start, end |-> Span(u).end], "comment")
        BY <2>1 DEF RunFold
      <4> QED
        BY <2>4, <4>1, FoldLonger
    <3>3. Span(a).start \in Spots /\ q.end \in Spots
      BY <1>1, <1>2, <1>5, <2>2, SolidLines
    <3> QED
      BY <3>1, <3>2, <3>3 DEF Fold, FoldRecords, Spots
  <2>6. M = Append(Front(L), g)
    BY <1>8, <1>10, <1>14, <2>4
  <2>7. FoldsShow(M)' /\ WholeRun(a, n)'
    BY <1>4, <1>14, <2>1, <2>3, <2>5, <2>6, FoldGrows
  <2>8. M # <<>> /\ Last(M) = g
    <3>1. Front(L) \in Seq(FoldRecords)
      BY <1>1, <1>4, <2>1, FrontShows
    <3> QED
      BY <2>5, <2>6, <3>1 DEF Last
  <2> QED
    BY <1>11, <2>5, <2>7, <2>8
<1> QED
  BY <1>12, <1>13, <1>14

(* A capture of a fold.                                                    *)
LEMMA CaptureFoldFits ==
  ASSUME FoldNodes, FoldsFit, CaptureFold
  PROVE  FoldNodes' /\ FoldsFit'
<1>1. query.kind = "folds" /\ query # NoQuery /\ query' = query /\ answer' = answer /\ QueryFits /\ NodesFit
  BY FoldCaptured DEF FoldNodes
<1>2. PICK c \in Captures :
        /\ c.start <= c.end /\ Follows(c, seen) /\ seen' = Append(seen, c)
        /\ found' = AddFold(found, c, SpanOf(c, query.lines, query.doc.text))
  BY <1>1, FoldCaptured
<1>3. /\ QueryFits' /\ NodesFit'
      /\ c.kind = "comment" => SpanOf(c, query.lines, query.doc.text).end.character = 0
  BY <1>1, <1>2, NodeAdded
<1>4. PICK n : n = Len(seen) + 1
  OBVIOUS
<1>5. /\ \A i \in DOMAIN seen' : i \in DOMAIN seen \/ i = n
      /\ seen'[n] = c /\ \A i \in DOMAIN seen : seen'[i] = seen[i]
  <2>1. seen \in Seq(Captures)
    BY FoldTyped
  <2> QED
    BY <1>2, <1>4, <2>1
<1>6. FoldNodes'
  <2>1. \A i \in DOMAIN seen' : seen'[i].kind = "comment" => SpanOf(seen'[i], query.lines, query.doc.text).end.character = 0
    BY <1>3, <1>5 DEF FoldNodes, Span
  <2> QED
    BY <1>1, <1>3, <2>1 DEF FoldNodes, Span
<1>7. c.start \in Nat /\ c.end \in Nat
  BY <1>1, CaptureSpots
<1>8. CASE c.start = c.end
  <2>1. found' = found
    BY <1>2, <1>8 DEF AddFold
  <2> QED
    BY <1>1, <1>2, <1>6, <1>7, <1>8, <2>1, EmptyFits
<1>9. CASE c.start < c.end
  <2>1. Grown(c, n)
    BY <1>1, <1>2, <1>4, <1>6, <1>9 DEF Grown
  <2>2. Span(n)' = SpanOf(c, query.lines, query.doc.text)
    BY <1>1, <1>5 DEF Span
  <2>3. found' = AddFold(found, c, Span(n)')
    BY <1>2, <2>2
  <2> QED
    BY <1>6, <2>1, <2>3, SolidFits
<1> QED
  BY <1>2, <1>7, <1>8, <1>9

\* Nothing is folded before the first capture.
LEMMA FoldsFitFirst ==
  ASSUME seen' = <<>>, found' = [list |-> <<>>, prior |-> "none"]
  PROVE  FoldsFit'
<1>1. Solid' = {} /\ DOMAIN found'.list = {} /\ found'.prior = "none" /\ found'.list = <<>>
  BY DEF Solid
<1>2. FoldsShow(found.list)'
  BY <1>1 DEF FoldsShow
<1>3. PriorFits'
  BY <1>1 DEF PriorFits, Latest
<1> QED
  BY <1>2, <1>3 DEF FoldsFit

(* The answer is made of the folds, and they stay as they are.             *)
AnswerFits ==
  Answered("folds") =>
    /\ query.kind = "folds"
    /\ answer.data = MarkCodeFolds(EndFolds(found), answer.encoding.foldKinds, answer.encoding.linesOnly)

FoldInv ==
  /\ QueryFits /\ NodesFit
  /\ query.kind = "folds" => FoldNodes /\ FoldsFit
  /\ query = NoQuery => found = [list |-> <<>>, prior |-> "none"]
  /\ AnswerFits

(* Every step keeps the answer to what was found.                          *)
LEMMA AnswerStays == QueryFits /\ AnswerFits /\ [Next]_vars => AnswerFits'
<1> SUFFICES ASSUME QueryFits, AnswerFits, [Next]_vars
             PROVE  AnswerFits'
  OBVIOUS
<1>1. CASE UNCHANGED vars
  BY <1>1 DEF vars, AnswerFits, Answered
<1>2. CASE UnknownDoc
  BY <1>2 DEF UnknownDoc, Null, AnswerFits, Answered
<1>3. CASE TokensFullRequest \/ TokensRangeRequest \/ FoldingRangeRequest
  BY <1>3 DEF TokensFullRequest, TokensRangeRequest, FoldingRangeRequest, Ask, NoAnswer, AnswerFits, Answered
<1>4. CASE CaptureToken
  BY <1>4, TokenCaptured DEF AnswerFits, Answered
<1>5. CASE CaptureFold
  BY <1>5, FoldCaptured DEF NoAnswer, AnswerFits, Answered
<1>6. CASE FinishTokens
  BY <1>6 DEF FinishTokens, AnswerFits, Answered
<1>7. CASE FinishFolds
  BY <1>7 DEF FinishFolds, AnswerFits, Answered
<1> QED
  BY <1>1, <1>2, <1>3, <1>4, <1>5, <1>6, <1>7 DEF Next

(* Every step keeps the invariant of the folds.                            *)
LEMMA FoldInvInductive == FoldInv /\ [Next]_vars => FoldInv'
<1> SUFFICES ASSUME FoldInv, [Next]_vars
             PROVE  FoldInv'
  OBVIOUS
<1>0. AnswerFits'
  BY AnswerStays DEF FoldInv
<1>1. CASE CaptureFold
  <2>1. query.kind = "folds" /\ query # NoQuery /\ query' = query
    BY <1>1, FoldCaptured DEF FoldInv
  <2>2. FoldNodes' /\ FoldsFit'
    BY <1>1, <2>1, CaptureFoldFits DEF FoldInv
  <2> QED
    BY <1>0, <2>1, <2>2 DEF FoldInv, FoldNodes
<1>2. CASE CaptureToken
  <2>1. query.kind = "tokens" /\ query # NoQuery /\ query' = query /\ answer' = answer
    BY <1>2, TokenCaptured DEF FoldInv
  <2>2. PICK c \in Captures : c.start <= c.end /\ Follows(c, seen) /\ seen' = Append(seen, c)
    BY <1>2, TokenCaptured DEF FoldInv
  <2>3. QueryFits' /\ NodesFit'
    BY <2>1, <2>2, NodeAdded DEF FoldInv
  <2> QED
    BY <1>0, <2>1, <2>3 DEF FoldInv
<1>3. CASE ~CaptureToken /\ ~CaptureFold
  <2>1. /\ QueryFits' /\ NodesFit' /\ seen' = seen /\ found' = found
        /\ query # NoQuery => query' = query
        /\ query = NoQuery => seen = <<>>
    BY <1>3, OtherSteps DEF FoldInv
  <2>2. CASE query = NoQuery
    <3>1. seen' = <<>> /\ found' = [list |-> <<>>, prior |-> "none"]
      BY <2>1, <2>2 DEF FoldInv
    <3>2. FoldsFit'
      BY <3>1, FoldsFitFirst
    <3>3. query'.kind = "folds" => FoldNodes'
      BY <2>1, <3>1 DEF FoldNodes
    <3> QED
      BY <1>0, <2>1, <3>1, <3>2, <3>3 DEF FoldInv
  <2>3. CASE query # NoQuery
    <3>1. query' = query
      BY <2>1, <2>3
    <3>2. FoldsFit' <=> FoldsFit
      BY <2>1, <3>1 DEF FoldsFit, FoldsShow, PriorFits, Latest, Solid, Span, Adjacent, Run, WholeRun, RunFold, Len3
    <3>3. FoldNodes' <=> FoldNodes
      BY <2>1, <3>1 DEF FoldInv, FoldNodes, Span
    <3> QED
      BY <1>0, <2>1, <2>3, <3>1, <3>2, <3>3 DEF FoldInv
  <2> QED
    BY <2>2, <2>3
<1> QED
  BY <1>1, <1>2, <1>3

WholeLines(fold) ==
  [fold EXCEPT !.endLine = IF fold.endCharacter = 0 /\ @ > fold.startLine THEN @ - 1 ELSE @,
               !.startCharacter = None, !.endCharacter = None]

\* What the client's abilities change of a fold.
LEMMA MarkedFolds ==
  ASSUME NEW L \in Seq(FoldRecords), NEW kinds, NEW linesOnly,
         NEW D, D = MarkCodeFolds(L, kinds, linesOnly)
  PROVE  /\ DOMAIN D = DOMAIN L
         /\ \A t \in DOMAIN L : /\ D[t] = MarkCodeFolds(<<L[t]>>, kinds, linesOnly)[1]
                                /\ D[t].startLine = L[t].startLine
                                /\ D[t].kind = "comment" => L[t].kind = "comment"
<1>1. PICK S : S = StripUnsupportedKinds(L, kinds)
  OBVIOUS
<1>2. /\ DOMAIN S = DOMAIN L
      /\ \A t \in DOMAIN L : /\ S[t] = IF L[t].kind \in kinds THEN L[t] ELSE [L[t] EXCEPT !.kind = "none"]
  BY <1>1 DEF StripUnsupportedKinds
<1>3. \A t \in DOMAIN L : L[t] \in FoldRecords
  OBVIOUS
<1>4. \A t \in DOMAIN L : /\ S[t].startLine = L[t].startLine
                          /\ S[t].kind = "comment" => L[t].kind = "comment"
  BY <1>2, <1>3 DEF FoldRecords
<1>5. \A t \in DOMAIN L : StripUnsupportedKinds(<<L[t]>>, kinds) = <<S[t]>>
  BY <1>2 DEF StripUnsupportedKinds
<1>6. D = EncodeFolds(S, linesOnly)
  BY <1>1 DEF MarkCodeFolds
<1>7. \A t \in DOMAIN L : MarkCodeFolds(<<L[t]>>, kinds, linesOnly)[1] = EncodeFolds(<<S[t]>>, linesOnly)[1]
  BY <1>5 DEF MarkCodeFolds
<1>8. \A F : EncodeFolds(F, linesOnly) = IF ~linesOnly THEN F ELSE [t \in DOMAIN F |-> WholeLines(F[t])]
  BY DEF EncodeFolds, WholeLines
<1>9. DOMAIN D = DOMAIN L /\ \A t \in DOMAIN L : D[t] = EncodeFolds(<<S[t]>>, linesOnly)[1]
  <2>1. CASE ~linesOnly
    <3>1. D = S /\ \A s : EncodeFolds(<<s>>, linesOnly) = <<s>>
      BY <1>6, <1>8, <2>1
    <3> QED
      BY <1>2, <3>1
  <2>2. CASE linesOnly
    <3>1. \A F : EncodeFolds(F, linesOnly) = [t \in DOMAIN F |-> WholeLines(F[t])]
      BY <1>8, <2>2
    <3>2. ASSUME NEW s
          PROVE  EncodeFolds(<<s>>, linesOnly)[1] = WholeLines(s)
      <4>1. EncodeFolds(<<s>>, linesOnly) = [t \in DOMAIN <<s>> |-> WholeLines(<<s>>[t])]
        BY <3>1
      <4> QED
        BY <4>1
    <3>3. D = [t \in DOMAIN S |-> WholeLines(S[t])]
      BY <1>6, <3>1
    <3> QED
      BY <1>2, <3>2, <3>3
  <2> QED
    BY <2>1, <2>2
<1>10. \A t \in DOMAIN L : D[t].startLine = S[t].startLine /\ D[t].kind = S[t].kind
  <2>1. \A t \in DOMAIN L : "startLine" \in DOMAIN S[t] /\ "kind" \in DOMAIN S[t]
    BY <1>2, <1>3 DEF FoldRecords
  <2>2. ASSUME NEW s, "startLine" \in DOMAIN s, "kind" \in DOMAIN s
        PROVE  WholeLines(s).startLine = s.startLine /\ WholeLines(s).kind = s.kind
    BY <2>2 DEF WholeLines
  <2>3. \A t \in DOMAIN L : D[t] = S[t] \/ D[t] = WholeLines(S[t])
    BY <1>2, <1>6, <1>8
  <2> QED
    BY <2>1, <2>2, <2>3
<1> QED
  BY <1>4, <1>7, <1>9, <1>10

(* What the invariant says of the folds is what CommentsFoldOnce says.     *)
LEMMA FoldsOnce == FoldInv => CommentsFoldOnce
<1> SUFFICES ASSUME FoldInv, Answered("folds"), NEW i \in Solid, NEW j \in Solid,
                    WholeRun(i, j), Len3(RunFold(i, j))
             PROVE  \E k \in DOMAIN answer.data :
                      /\ answer.data[k] = MarkCodeFolds(<<RunFold(i, j)>>, answer.encoding.foldKinds,
                                                      answer.encoding.linesOnly)[1]
                      /\ \A l \in DOMAIN answer.data \ {k} :
                           answer.data[l].kind = "comment" =>
                              answer.data[l].startLine \notin Span(i).start.line..(Span(j).end.line - 1)
  BY DEF CommentsFoldOnce
<1>1. /\ FoldNodes /\ FoldsFit
      /\ answer.data = MarkCodeFolds(EndFolds(found), answer.encoding.foldKinds, answer.encoding.linesOnly)
  BY DEF FoldInv, AnswerFits
<1>2. PICK L : L = EndFolds(found)
  OBVIOUS
<1>3. /\ L \in Seq(FoldRecords)
      /\ \A t \in DOMAIN L : L[t].kind = "comment" => \E a, b \in Solid : WholeRun(a, b) /\ L[t] = RunFold(a, b)
      /\ \A t, u \in DOMAIN L :
           t # u /\ L[t].kind = "comment" /\ L[u].kind = "comment" => L[t].startLine # L[u].startLine
      /\ \E t \in DOMAIN L : L[t] = RunFold(i, j)
  <2>1. CASE L = found.list
    BY <1>1, <2>1 DEF FoldsFit, FoldsShow
  <2>2. CASE L # found.list
    <3>1. found.prior = "comment" /\ ~Len3(Last(found.list)) /\ L = Front(found.list)
      BY <1>2, <2>2 DEF EndFolds
    <3>2. PICK F : F = found.list
      OBVIOUS
    <3>3. PICK a, u : F # <<>> /\ WholeRun(a, u) /\ Latest(u) /\ Last(F) = RunFold(a, u)
      BY <1>1, <3>1, <3>2 DEF FoldsFit, PriorFits
    <3>4. FoldsShow(F)
      BY <1>1, <3>2 DEF FoldsFit
    <3>5. /\ L \in Seq(FoldRecords) /\ DOMAIN L \subseteq DOMAIN F /\ \A t \in DOMAIN L : L[t] = F[t]
          /\ \A t \in DOMAIN L : L[t].kind = "comment" =>
               \E b, d \in Solid : WholeRun(b, d) /\ d # u /\ L[t] = RunFold(b, d)
          /\ \A b, d \in Solid : WholeRun(b, d) /\ Len3(RunFold(b, d)) /\ ~(b = a /\ d = u) =>
               \E t \in DOMAIN L : L[t] = RunFold(b, d)
      BY <1>1, <3>1, <3>2, <3>3, <3>4, FrontShows
    <3>6. ~(i = a /\ j = u)
      BY <3>1, <3>2, <3>3
    <3>7. \A t, v \in DOMAIN F :
            t # v /\ F[t].kind = "comment" /\ F[v].kind = "comment" => F[t].startLine # F[v].startLine
      BY <3>4 DEF FoldsShow
    <3> QED
      BY <3>5, <3>6, <3>7
  <2> QED
    BY <2>1, <2>2
<1>4. PICK k \in DOMAIN L : L[k] = RunFold(i, j)
  BY <1>3
<1>5. PICK D : D = answer.data
  OBVIOUS
<1>6. /\ DOMAIN D = DOMAIN L
      /\ \A t \in DOMAIN L : /\ D[t] = MarkCodeFolds(<<L[t]>>, answer.encoding.foldKinds, answer.encoding.linesOnly)[1]
                             /\ D[t].startLine = L[t].startLine
                             /\ D[t].kind = "comment" => L[t].kind = "comment"
  BY <1>1, <1>2, <1>3, <1>5, MarkedFolds
<1>7. ASSUME NEW l \in DOMAIN D \ {k}, D[l].kind = "comment"
      PROVE  D[l].startLine \notin Span(i).start.line..(Span(j).end.line - 1)
  <2>1. l \in DOMAIN L /\ l # k /\ L[l].kind = "comment" /\ D[l].startLine = L[l].startLine
    BY <1>6, <1>7
  <2>2. PICK a \in Solid, b \in Solid : WholeRun(a, b) /\ L[l] = RunFold(a, b)
    BY <1>3, <2>1
  <2>3. L[l].startLine # L[k].startLine
    <3>1. L[k].kind = "comment"
      BY <1>4 DEF RunFold, Fold
    <3> QED
      BY <1>3, <2>1, <3>1
  <2>4. ~(i = a /\ j = b)
    BY <1>4, <2>2, <2>3
  <2>5. RunFold(a, b).startLine \notin Span(i).start.line..(Span(j).end.line - 1)
    BY <1>1, <2>2, <2>4, FoldsApart
  <2> QED
    BY <2>1, <2>2, <2>5
<1>8. D[k] = MarkCodeFolds(<<RunFold(i, j)>>, answer.encoding.foldKinds, answer.encoding.linesOnly)[1]
  BY <1>4, <1>6
<1> QED
  BY <1>5, <1>6, <1>7, <1>8

(* Every run of comments without a gap that is three lines long is one     *)
(* fold of the answer, from its first to its last comment, and no other    *)
(* fold of comments starts in its lines (AddFold, EndFolds, MarkCodeFolds, *)
(* CommentsFoldOnce).                                                      *)
THEOREM CommentsStayFoldedOnce == Spec => []CommentsFoldOnce
<1>1. Init => FoldInv
  BY InitNodes DEF Init, FoldInv, NoQuery, NoAnswer, AnswerFits, Answered
<1> QED
  BY <1>1, FoldsOnce, FoldInvInductive, PTL DEF Spec
=============================================================================
