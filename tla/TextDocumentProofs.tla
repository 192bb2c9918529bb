------------------------- MODULE TextDocumentProofs -------------------------
(***************************************************************************)
(* Proofs about TextDocument, for every text a document is opened with,    *)
(* every text a change puts in and any number of changes: the server       *)
(* replaces what the editor replaced and tells Tree-sitter so, and the     *)
(* line table stays exact at both ends of the text.                        *)
(*                                                                         *)
(* The table after a change is described by the characters its lines start *)
(* at: up to the end of the new text they are those of the new text, in    *)
(* order and once; the lines behind it may stand there twice, unless the   *)
(* change is in the first or in the last line (Lists, Relisted).           *)
(*                                                                         *)
(* The lemmas about the line table come first, for every text: what the    *)
(* bisection finds, where the lines of a text start and how wide they are, *)
(* and that an offset survives the way to a position and back.             *)
(***************************************************************************)
EXTENDS TextDocument, FiniteSetTheorems, FunctionTheorems, SequenceTheorems,
        WellFoundedInduction, TLAPS

-----------------------------------------------------------------------------
(***************************************************************************)
(* The bisection of LineAt.  The search is a recursive function, so it is  *)
(* a CHOOSE until some function is shown to satisfy its equation: one      *)
(* does, built from the least depth at which the search is settled.        *)
(***************************************************************************)

Spans(N) == (0..N) \X (0..N)
Middle(p) == p[1] \div 2 + p[2] \div 2

(* The middle of a span that is not empty lies in it.                      *)
LEMMA MiddleBetween ==
  ASSUME NEW N \in Nat, NEW p \in Spans(N), p[1] < p[2]
  PROVE  /\ Middle(p) \in 0..N
         /\ p[1] <= Middle(p)
         /\ Middle(p) < p[2]
BY DEF Spans, Middle

(* A set of numbers without a least one is empty.                          *)
LEMMA NoneIsLeast ==
  ASSUME NEW T \in SUBSET Nat, \A n \in T : \E m \in T : m < n
  PROVE  T = {}
<1>1. SUFFICES ASSUME T # {} PROVE FALSE
  OBVIOUS
<1>2. PICK n \in T : \A m \in T : <<m, n>> \notin OpToRel(<, Nat)
  BY <1>1, WFMin, NatLessThanWellFounded
<1>3. PICK m \in T : m < n
  OBVIOUS
<1>4. <<m, n>> \in OpToRel(<, Nat)
  BY <1>3 DEF OpToRel
<1> QED
  BY <1>2, <1>4

(* A search by halves that goes left from the lines in G is well defined.  *)
SearchBy(G, N, f) ==
  f = [p \in Spans(N) |->
         IF p[1] >= p[2] THEN p[2] - 1
         ELSE IF Middle(p) \in G THEN f[<<p[1], Middle(p)>>]
         ELSE f[<<Middle(p) + 1, p[2]>>]]

(* A function satisfies the equation of the bisection.                     *)
LEMMA SearchExists ==
  ASSUME NEW G, NEW N \in Nat
  PROVE  \E f : SearchBy(G, N, f)
<1> DEFINE D(n) == {p \in Spans(N) : p[2] - p[1] < n}
           Halved(p) == IF Middle(p) \in G THEN <<p[1], Middle(p)>>
                        ELSE <<Middle(p) + 1, p[2]>>
           Value(f, p) == IF p[1] >= p[2] THEN p[2] - 1 ELSE f[Halved(p)]
           Good(n) == \E f : f = [p \in D(n) |-> Value(f, p)]
<1>1. ASSUME NEW n \in Nat, NEW p \in D(n + 1), p[1] < p[2]
      PROVE  Halved(p) \in D(n)
  BY <1>1, MiddleBetween DEF Spans
<1>2. ASSUME NEW n \in Nat, NEW p \in D(n)
      PROVE  p \in D(n + 1)
  BY <1>2 DEF Spans
<1>3. Good(0)
  <2>1. \A p \in D(0) : p[1] >= p[2]
    BY DEF Spans
  <2> DEFINE g == [p \in D(0) |-> p[2] - 1]
  <2>2. g = [p \in D(0) |-> Value(g, p)]
    BY <2>1
  <2> QED
    BY <2>2
<1>4. ASSUME NEW n \in Nat, Good(n)
      PROVE  Good(n + 1)
  <2>1. PICK f : f = [p \in D(n) |-> Value(f, p)]
    BY <1>4
  <2> DEFINE g == [p \in D(n + 1) |-> Value(f, p)]
  <2>2. ASSUME NEW p \in D(n)
        PROVE  g[p] = f[p]
    BY <1>2, <2>1, <2>2
  <2>3. ASSUME NEW p \in D(n + 1)
        PROVE  Value(f, p) = Value(g, p)
    <3>1. CASE p[1] >= p[2]
      BY <3>1
    <3>2. CASE p[1] < p[2]
      BY <1>1, <2>2, <2>3, <3>2
    <3> QED
      BY <2>3, <3>1, <3>2 DEF Spans
  <2>4. g = [p \in D(n + 1) |-> Value(g, p)]
    BY <2>3
  <2> QED
    BY <2>4
<1> HIDE DEF Good
<1>5. \A n \in Nat : Good(n)
  <2> DEFINE Bad == {n \in Nat : ~Good(n)}
  <2>1. ASSUME NEW n \in Bad
        PROVE  \E m \in Bad : m < n
    <3>1. n # 0
      BY <1>3
    <3>2. n - 1 \in Nat /\ n - 1 < n /\ (n - 1) + 1 = n
      BY <3>1
    <3>3. ~Good(n - 1)
      BY <1>4, <3>2
    <3> QED
      BY <3>2, <3>3
  <2>2. Bad = {}
    BY <2>1, NoneIsLeast
  <2> QED
    BY <2>2
<1>6. D(N + 1) = Spans(N)
  BY DEF Spans
<1>7. PICK f : f = [p \in D(N + 1) |-> Value(f, p)]
  <2>1. Good(N + 1)
    BY <1>5
  <2> QED
    BY <2>1 DEF Good
<1>8. f = [p \in Spans(N) |-> Value(f, p)]
  BY <1>6, <1>7
<1>9. \A p \in Spans(N) :
        Value(f, p) = IF p[1] >= p[2] THEN p[2] - 1
                      ELSE IF Middle(p) \in G THEN f[<<p[1], Middle(p)>>]
                      ELSE f[<<Middle(p) + 1, p[2]>>]
  OBVIOUS
<1> QED
  BY <1>8, <1>9 DEF SearchBy

(* It finds the last line that is not in G, if those in G are behind the   *)
(* others.                                                                 *)
LEMMA SearchFinds ==
  ASSUME NEW G, NEW N \in Nat, NEW f, SearchBy(G, N, f), NEW k \in 0..N,
         \A i \in 0..(N - 1) : i \in G <=> i >= k
  PROVE  f[<<0, N>>] = k - 1
<1> DEFINE Wrong == {p \in Spans(N) : p[1] <= k /\ k <= p[2] /\ f[p] # k - 1}
           Sizes == {p[2] - p[1] : p \in Wrong}
<1>1. ASSUME NEW p \in Wrong
      PROVE  \E q \in Wrong : q[2] - q[1] < p[2] - p[1]
  <2>1. p \in Spans(N) /\ p[1] \in 0..N /\ p[2] \in 0..N /\ p[1] <= k /\ k <= p[2]
        /\ f[p] # k - 1
    BY DEF Spans
  <2>2. f[p] = IF p[1] >= p[2] THEN p[2] - 1
               ELSE IF Middle(p) \in G THEN f[<<p[1], Middle(p)>>]
               ELSE f[<<Middle(p) + 1, p[2]>>]
    BY <2>1 DEF SearchBy
  <2>3. p[1] < p[2]
    BY <2>1, <2>2
  <2>4. Middle(p) \in 0..N /\ p[1] <= Middle(p) /\ Middle(p) < p[2]
    BY <2>1, <2>3, MiddleBetween
  <2>5. CASE Middle(p) \in G
    <3>1. k <= Middle(p)
      BY <2>1, <2>4, <2>5
    <3> DEFINE q == <<p[1], Middle(p)>>
    <3>2. q \in Spans(N) /\ q[1] = p[1] /\ q[2] = Middle(p) /\ f[q] # k - 1
      BY <2>1, <2>2, <2>3, <2>4, <2>5 DEF Spans
    <3> QED
      BY <2>1, <2>4, <3>1, <3>2
  <2>6. CASE Middle(p) \notin G
    <3>1. Middle(p) + 1 <= k
      BY <2>1, <2>4, <2>6
    <3> DEFINE q == <<Middle(p) + 1, p[2]>>
    <3>2. q \in Spans(N) /\ q[1] = Middle(p) + 1 /\ q[2] = p[2] /\ f[q] # k - 1
      BY <2>1, <2>2, <2>3, <2>4, <2>6 DEF Spans
    <3> QED
      BY <2>1, <2>4, <3>1, <3>2
  <2> QED
    BY <2>5, <2>6
<1>2. Wrong = {}
  <2>1. Sizes \subseteq Nat
    BY DEF Spans
  <2>2. \A n \in Sizes : \E m \in Sizes : m < n
    BY <1>1
  <2>3. Sizes = {}
    BY <2>1, <2>2, NoneIsLeast
  <2> QED
    BY <2>3
<1>3. <<0, N>> \in Spans(N) /\ <<0, N>>[1] = 0 /\ <<0, N>>[2] = N
  BY DEF Spans
<1> QED
  BY <1>2, <1>3

(* When the lines from p on, and no others, start behind an offset, LineAt *)
(* finds line p - 1.                                                       *)
LEMMA LineAtFinds ==
  ASSUME NEW map, NumLines(map) \in Nat, NEW offset, NEW k \in 0..NumLines(map),
         \A i \in 0..(NumLines(map) - 1) : Start(map, i) > offset <=> i >= k
  PROVE  LineAt(map, offset) = k - 1
<1> DEFINE N == NumLines(map)
           G == {i \in 0..N : Start(map, i) > offset}
<1>1. \E f : SearchBy(G, N, f)
  BY SearchExists
<1> DEFINE F == CHOOSE f : SearchBy(G, N, f)
<1>2. SearchBy(G, N, F)
  BY <1>1
<1>3. F[<<0, N>>] = k - 1
  <2> HIDE DEF F
  <2>1. \A i \in 0..(N - 1) : i \in G <=> i >= k
    OBVIOUS
  <2> QED
    BY <1>2, <2>1, SearchFinds
<1>4. LineAt(map, offset) = F[<<0, N>>]
  <2> DEFINE Body(f, p) ==
        IF p[1] >= p[2] THEN p[2] - 1
        ELSE IF Start(map, Middle(p)) > offset THEN f[<<p[1], Middle(p)>>]
        ELSE f[<<Middle(p) + 1, p[2]>>]
  <2>1. \A f : SearchBy(G, N, f) <=> f = [p \in (0..N) \X (0..N) |-> Body(f, p)]
    <3>1. ASSUME NEW p \in Spans(N), p[1] < p[2] PROVE Middle(p) \in G <=> Start(map, Middle(p)) > offset
      BY <3>1, MiddleBetween
    <3>2. ASSUME NEW f, NEW p \in Spans(N)
          PROVE Body(f, p) = IF p[1] >= p[2] THEN p[2] - 1
         ELSE IF Middle(p) \in G THEN f[<<p[1], Middle(p)>>]
         ELSE f[<<Middle(p) + 1, p[2]>>]
      <4>1. CASE p[1] >= p[2]
        BY <4>1
      <4>2. CASE p[1] < p[2]
        BY <3>1, <4>2
      <4> QED BY <3>2, <4>1, <4>2 DEF Spans
    <3> QED
      BY <3>2 DEF SearchBy, Spans
  <2>2. F = CHOOSE f : f = [p \in (0..N) \X (0..N) |-> Body(f, p)]
    BY <2>1
  <2> QED
    BY <2>2 DEF LineAt, Middle
<1> QED
  BY <1>3, <1>4

-----------------------------------------------------------------------------
(***************************************************************************)
(* Slices of a text and their measures.                                    *)
(***************************************************************************)

(* The wide characters from a to b.                                        *)
Wide(s, a, b) == {i \in a..b : s[i] = "w"}

(* The length and the elements of a slice.                                 *)
LEMMA SliceOf ==
  ASSUME NEW C, NEW s \in Seq(C), NEW a \in 1..(Len(s) + 1), NEW b \in (a - 1)..Len(s)
  PROVE  /\ SubSeq(s, a, b) \in Seq(C)
         /\ Len(SubSeq(s, a, b)) = b - a + 1
         /\ DOMAIN SubSeq(s, a, b) = 1..(b - a + 1)
         /\ \A i \in 1..(b - a + 1) : SubSeq(s, a, b)[i] = s[a + i - 1]
<1>1. \A i \in a..b : s[i] \in C
  OBVIOUS
<1>2. SubSeq(s, a, b) \in Seq(C) /\ Len(SubSeq(s, a, b)) = b - a + 1
      /\ \A i \in 1..(b - a + 1) : SubSeq(s, a, b)[i] = s[a + i - 1]
  BY <1>1, SubSeqProperties
<1> QED
  BY <1>2

(* The wide characters of a slice are finitely many, at most as many as it *)
(* has characters.                                                         *)
LEMMA WideCount ==
  ASSUME NEW s, NEW a \in Int, NEW b \in Int
  PROVE  /\ IsFiniteSet(Wide(s, a, b)) /\ Cardinality(Wide(s, a, b)) \in Nat
         /\ a > b => Cardinality(Wide(s, a, b)) = 0
<1>1. IsFiniteSet(a..b) /\ Wide(s, a, b) \in SUBSET (a..b)
  BY FS_Interval DEF Wide
<1>2. a > b => Wide(s, a, b) = {}
  BY DEF Wide
<1> QED
  BY <1>1, <1>2, FS_Subset, FS_CardinalityType, FS_EmptySet

(* The wide characters of two adjacent slices are those of both.           *)
LEMMA WideSplit ==
  ASSUME NEW s, NEW a \in Int, NEW b \in Int, NEW c \in Int, a <= c + 1, c <= b
  PROVE  Cardinality(Wide(s, a, b)) =
           Cardinality(Wide(s, a, c)) + Cardinality(Wide(s, c + 1, b))
<1> DEFINE A == Wide(s, a, c)
           B == Wide(s, c + 1, b)
<1>1. Wide(s, a, b) = A \union B
  BY DEF Wide
<1>2. A \intersect B = {}
  BY DEF Wide
<1>3. Cardinality({}) = 0
  BY FS_EmptySet
<1>4. /\ IsFiniteSet(A) /\ IsFiniteSet(B)
      /\ Cardinality(A) \in Nat /\ Cardinality(B) \in Nat
  BY WideCount
<1> HIDE DEF A, B
<1>5. Cardinality(A \union B) = Cardinality(A) + Cardinality(B) - Cardinality(A \intersect B)
  BY <1>4, FS_Union
<1>6. Cardinality(A \intersect B) = 0
  BY <1>2, <1>3
<1>7. Cardinality(A \union B) = Cardinality(A) + Cardinality(B)
  BY <1>4, <1>5, <1>6
<1> QED
  BY <1>1, <1>7 DEF A, B

(* Bytes and units of a slice.                                             *)
LEMMA SliceMeasure ==
  ASSUME NEW C, NEW s \in Seq(C), NEW a \in 1..(Len(s) + 1), NEW b \in (a - 1)..Len(s)
  PROVE  /\ Bytes(SubSeq(s, a, b)) = (b - a + 1) + 3 * Cardinality(Wide(s, a, b))
         /\ Units(SubSeq(s, a, b)) = (b - a + 1) + Cardinality(Wide(s, a, b))
<1> DEFINE t == SubSeq(s, a, b)
           W == {i \in DOMAIN t : t[i] = "w"}
           f == [i \in Wide(s, a, b) |-> i - a + 1]
<1>1. /\ Len(t) = b - a + 1 /\ DOMAIN t = 1..(b - a + 1)
      /\ \A i \in 1..(b - a + 1) : t[i] = s[a + i - 1]
  BY SliceOf
<1>2. f \in Bijection(Wide(s, a, b), W)
  <2>1. \A i \in Wide(s, a, b) : f[i] \in W
    <3> SUFFICES ASSUME NEW i \in Wide(s, a, b)
                 PROVE  f[i] \in W
      OBVIOUS
    <3>1. i \in a..b /\ s[i] = "w" /\ f[i] = i - a + 1
      BY DEF Wide
    <3>2. f[i] \in 1..(b - a + 1) /\ a + f[i] - 1 = i
      BY <3>1
    <3> HIDE DEF f, t
    <3> QED
      BY <1>1, <3>1, <3>2
  <2>2. \A i, j \in Wide(s, a, b) : f[i] = f[j] => i = j
    BY DEF Wide
  <2>3. \A j \in W : \E i \in Wide(s, a, b) : f[i] = j
    <3> SUFFICES ASSUME NEW j \in W
                 PROVE  \E i \in Wide(s, a, b) : f[i] = j
      OBVIOUS
    <3> DEFINE i == a + j - 1
    <3>1. j \in 1..(b - a + 1) /\ i \in a..b
      BY <1>1
    <3>2. s[i] = "w"
      BY <1>1, <3>1
    <3>3. i \in Wide(s, a, b)
      BY <3>1, <3>2 DEF Wide
    <3>4. f[i] = j
      BY <3>1, <3>3
    <3> QED
      BY <3>3, <3>4
  <2> QED
    BY <2>1, <2>2, <2>3, Fun_IsBij
<1>3. Cardinality(W) = Cardinality(Wide(s, a, b))
  <2> DEFINE V == Wide(s, a, b)
  <2>1. IsFiniteSet(V)
    BY WideCount
  <2>2. ExistsBijection(V, W)
    BY <1>2 DEF ExistsBijection
  <2> HIDE DEF V, W
  <2>3. Cardinality(W) = Cardinality(V)
    BY <2>1, <2>2, FS_Bijection
  <2> QED
    BY <2>3 DEF V
<1> QED
  BY <1>1, <1>3 DEF Bytes, Units

(* A slice has at least a byte and a unit per character, and none when it  *)
(* is empty.                                                               *)
LEMMA SliceTyped ==
  ASSUME NEW C, NEW s \in Seq(C), NEW a \in 1..(Len(s) + 1), NEW b \in (a - 1)..Len(s)
  PROVE  /\ Bytes(SubSeq(s, a, b)) \in Nat /\ Units(SubSeq(s, a, b)) \in Nat
         /\ Bytes(SubSeq(s, a, b)) >= b - a + 1 /\ Units(SubSeq(s, a, b)) >= b - a + 1
         /\ b = a - 1 => Bytes(SubSeq(s, a, b)) = 0 /\ Units(SubSeq(s, a, b)) = 0
<1> DEFINE n == Cardinality(Wide(s, a, b))
<1>1. n \in Nat /\ (b = a - 1 => n = 0)
  BY WideCount
<1> HIDE DEF n
<1>2. Bytes(SubSeq(s, a, b)) = (b - a + 1) + 3 * n /\ Units(SubSeq(s, a, b)) = (b - a + 1) + n
  BY SliceMeasure DEF n
<1> QED
  BY <1>1, <1>2

(* Bytes and units of adjacent slices add up.                              *)
LEMMA SliceSplit ==
  ASSUME NEW C, NEW s \in Seq(C), NEW a \in 1..(Len(s) + 1), NEW b \in (a - 1)..Len(s),
         NEW c \in (a - 1)..b
  PROVE  /\ Bytes(SubSeq(s, a, b)) = Bytes(SubSeq(s, a, c)) + Bytes(SubSeq(s, c + 1, b))
         /\ Units(SubSeq(s, a, b)) = Units(SubSeq(s, a, c)) + Units(SubSeq(s, c + 1, b))
<1>1. c + 1 \in 1..(Len(s) + 1) /\ b \in ((c + 1) - 1)..Len(s) /\ c \in (a - 1)..Len(s)
  OBVIOUS
<1> DEFINE m == Cardinality(Wide(s, a, c))
           n == Cardinality(Wide(s, c + 1, b))
<1>2. m \in Nat /\ n \in Nat /\ Cardinality(Wide(s, a, b)) = m + n
  BY WideCount, WideSplit
<1>3. /\ Bytes(SubSeq(s, a, b)) = (b - a + 1) + 3 * Cardinality(Wide(s, a, b))
      /\ Units(SubSeq(s, a, b)) = (b - a + 1) + Cardinality(Wide(s, a, b))
  BY SliceMeasure
<1>4. /\ Bytes(SubSeq(s, a, c)) = (c - a + 1) + 3 * m
      /\ Units(SubSeq(s, a, c)) = (c - a + 1) + m
  BY <1>1, SliceMeasure
<1>5. /\ Bytes(SubSeq(s, c + 1, b)) = (b - (c + 1) + 1) + 3 * n
      /\ Units(SubSeq(s, c + 1, b)) = (b - (c + 1) + 1) + n
  BY <1>1, SliceMeasure
<1> HIDE DEF m, n
<1> QED
  BY <1>2, <1>3, <1>4, <1>5

(* A longer slice has more units.                                          *)
LEMMA UnitsGrow ==
  ASSUME NEW C, NEW s \in Seq(C), NEW a \in 1..(Len(s) + 1), NEW b \in (a - 1)..Len(s),
         NEW c \in (a - 1)..Len(s)
  PROVE  b < c <=> Units(SubSeq(s, a, b)) < Units(SubSeq(s, a, c))
<1>1. ASSUME NEW x \in (a - 1)..Len(s), NEW y \in (a - 1)..Len(s), x < y
      PROVE  Units(SubSeq(s, a, x)) < Units(SubSeq(s, a, y))
  <2>1. x \in (a - 1)..y /\ x + 1 \in 1..(Len(s) + 1) /\ y \in ((x + 1) - 1)..Len(s)
    BY <1>1
  <2>2. Units(SubSeq(s, a, y)) = Units(SubSeq(s, a, x)) + Units(SubSeq(s, x + 1, y))
    BY <2>1, SliceSplit
  <2>3. Units(SubSeq(s, x + 1, y)) \in Nat /\ Units(SubSeq(s, x + 1, y)) >= y - (x + 1) + 1
        /\ Units(SubSeq(s, a, x)) \in Nat
    BY <2>1, SliceTyped
  <2> QED
    BY <1>1, <2>2, <2>3
<1>2. Units(SubSeq(s, a, b)) \in Nat /\ Units(SubSeq(s, a, c)) \in Nat
  BY SliceTyped
<1>3. CASE b < c
  BY <1>1, <1>3
<1>4. CASE b = c
  BY <1>2, <1>4
<1>5. CASE c < b
  BY <1>1, <1>2, <1>5
<1> QED
  BY <1>3, <1>4, <1>5

(* Offsets into a text.                                                    *)
LEMMA OffsetSplit ==
  ASSUME NEW C, NEW s \in Seq(C), NEW i \in 1..(Len(s) + 1), NEW j \in i..(Len(s) + 1)
  PROVE  /\ Offset(s, i) \in Nat
         /\ Offset(s, j) = Offset(s, i) + Bytes(SubSeq(s, i, j - 1))
<1>1. 1 \in 1..(Len(s) + 1) /\ j - 1 \in (1 - 1)..Len(s) /\ i - 1 \in (1 - 1)..(j - 1)
      /\ i - 1 \in (1 - 1)..Len(s) /\ (i - 1) + 1 = i
  OBVIOUS
<1>2. Bytes(SubSeq(s, 1, j - 1)) =
        Bytes(SubSeq(s, 1, i - 1)) + Bytes(SubSeq(s, (i - 1) + 1, j - 1))
  BY <1>1, SliceSplit
<1>3. Bytes(SubSeq(s, 1, i - 1)) \in Nat
  BY <1>1, SliceTyped
<1> QED
  BY <1>1, <1>2, <1>3 DEF Offset, Prefix

(* The offsets of characters are in the order of the characters.           *)
LEMMA OffsetsGrow ==
  ASSUME NEW C, NEW s \in Seq(C), NEW i \in 1..(Len(s) + 1), NEW j \in 1..(Len(s) + 1)
  PROVE  /\ i < j <=> Offset(s, i) < Offset(s, j)
         /\ i = j <=> Offset(s, i) = Offset(s, j)
         /\ Offset(s, i) \in Nat
<1>1. ASSUME NEW x \in 1..(Len(s) + 1), NEW y \in 1..(Len(s) + 1), x < y
      PROVE  Offset(s, x) < Offset(s, y)
  <2>1. y \in x..(Len(s) + 1) /\ y - 1 \in (x - 1)..Len(s)
    BY <1>1
  <2>2. Offset(s, x) \in Nat /\ Offset(s, y) = Offset(s, x) + Bytes(SubSeq(s, x, y - 1))
    BY <2>1, OffsetSplit
  <2>3. Bytes(SubSeq(s, x, y - 1)) \in Nat /\ Bytes(SubSeq(s, x, y - 1)) >= (y - 1) - x + 1
    BY <2>1, SliceTyped
  <2> QED
    BY <1>1, <2>2, <2>3
<1>2. Offset(s, i) \in Nat /\ Offset(s, j) \in Nat
  <2>1. i \in i..(Len(s) + 1) /\ j \in j..(Len(s) + 1)
    OBVIOUS
  <2> QED
    BY <2>1, OffsetSplit
<1>3. CASE i < j
  BY <1>1, <1>2, <1>3
<1>4. CASE i = j
  BY <1>2, <1>4
<1>5. CASE j < i
  BY <1>1, <1>2, <1>5
<1> QED
  BY <1>2, <1>3, <1>4, <1>5

(* A text starts at offset 0 and ends at its length in bytes.              *)
LEMMA OffsetEnds ==
  ASSUME NEW C, NEW s \in Seq(C)
  PROVE  Offset(s, 1) = 0 /\ Offset(s, Len(s) + 1) = Bytes(s) /\ Bytes(s) \in Nat
<1>1. 1 \in 1..(Len(s) + 1) /\ 0 \in (1 - 1)..Len(s) /\ Len(s) \in (1 - 1)..Len(s)
  OBVIOUS
<1>2. Bytes(SubSeq(s, 1, 1 - 1)) = 0 /\ Bytes(SubSeq(s, 1, Len(s))) \in Nat
  BY <1>1, SliceTyped
<1>3. SubSeq(s, 1, Len(s)) = s
  BY SubSeqFull
<1>4. Offset(s, Len(s) + 1) = Bytes(SubSeq(s, 1, Len(s)))
  <2>1. (Len(s) + 1) - 1 = Len(s)
    OBVIOUS
  <2> QED
    BY <2>1 DEF Offset, Prefix
<1> QED
  BY <1>2, <1>3, <1>4 DEF Offset, Prefix

(* The text from the offset of a character is its rest from there.         *)
LEMMA FromAt ==
  ASSUME NEW C, NEW s \in Seq(C), NEW i \in 1..(Len(s) + 1)
  PROVE  From(s, Offset(s, i)) = SubSeq(s, i, Len(s))
<1> DEFINE c == CHOOSE j \in 1..(Len(s) + 1) : Offset(s, j) = Offset(s, i)
<1>1. c \in 1..(Len(s) + 1) /\ Offset(s, c) = Offset(s, i)
  OBVIOUS
<1> HIDE DEF c
<1>2. c = i
  BY <1>1, OffsetsGrow
<1> QED
  BY <1>2 DEF From, c

(* The prefix of the rest of a text is a slice of the text.                *)
LEMMA PrefixOfSlice ==
  ASSUME NEW C, NEW s \in Seq(C), NEW a \in 1..(Len(s) + 1), NEW m \in 0..(Len(s) - a + 1)
  PROVE  Prefix(SubSeq(s, a, Len(s)), m) = SubSeq(s, a, a + m - 1)
<1> DEFINE t == SubSeq(s, a, Len(s))
           p == SubSeq(t, 1, m)
           q == SubSeq(s, a, a + m - 1)
<1>1. t \in Seq(C) /\ Len(t) = Len(s) - a + 1 /\ \A i \in 1..(Len(s) - a + 1) : t[i] = s[a + i - 1]
  BY SliceOf
<1> HIDE DEF t
<1>2. p \in Seq(C) /\ Len(p) = m /\ \A i \in 1..m : p[i] = t[i]
  BY <1>1, SliceOf
<1>3. q \in Seq(C) /\ Len(q) = m /\ \A i \in 1..m : q[i] = s[a + i - 1]
  BY SliceOf
<1> HIDE DEF p, q
<1>4. ASSUME NEW i \in 1..m
      PROVE  p[i] = q[i]
  <2>1. i \in 1..(Len(s) - a + 1)
    OBVIOUS
  <2> QED
    BY <1>1, <1>2, <1>3, <2>1
<1>5. p = q
  BY <1>2, <1>3, <1>4
<1> QED
  BY <1>5 DEF p, q, t, Prefix

-----------------------------------------------------------------------------
(***************************************************************************)
(* The table that create_line_map makes of a text.                         *)
(***************************************************************************)

(* The k-th element of a finite set.                                       *)
LEMMA AscendingOf ==
  ASSUME NEW S \in SUBSET Nat, IsFiniteSet(S)
  PROVE  /\ Cardinality(S) \in Nat
         /\ Ascending(S) \in [1..Cardinality(S) -> S]
         /\ \A j, k \in 1..Cardinality(S) : j < k <=> Ascending(S)[j] < Ascending(S)[k]
         /\ \A x \in S : \E k \in 1..Cardinality(S) : Ascending(S)[k] = x
<1> DEFINE n == Cardinality(S)
           Below(x) == {y \in S : y < x}
           Rank(x) == Cardinality(Below(x))
           r == [x \in S |-> Rank(x) + 1]
           f == Ascending(S)
<1>0. \A x \in S : x \in Nat
  OBVIOUS
<1>1. n \in Nat
  BY FS_CardinalityType
<1>2. \A x \in S : IsFiniteSet(Below(x)) /\ Rank(x) \in Nat
  BY FS_Subset, FS_CardinalityType
<1>3. ASSUME NEW x \in S, NEW y \in S, x < y
      PROVE  Rank(x) < Rank(y)
  <2>1. Below(x) \in SUBSET Below(y) /\ x \in Below(y) /\ x \notin Below(x)
    <3>1. x \in Nat /\ y \in Nat
      BY <1>0
    <3>2. ASSUME NEW z \in S, z < x PROVE z < y
      <4>1. z \in Nat
        BY <1>0
      <4> QED
        BY <1>3, <3>1, <3>2, <4>1
    <3>3. Below(x) \in SUBSET Below(y)
      BY <3>2
    <3> QED
      BY <1>3, <3>1, <3>3
  <2>2. Rank(x) <= Rank(y) /\ Rank(x) # Rank(y)
    BY <1>2, <2>1, FS_Subset
  <2> QED
    BY <1>2, <2>2
<1>4. \A x \in S : Rank(x) + 1 \in 1..n
  <2> SUFFICES ASSUME NEW x \in S
               PROVE  Rank(x) + 1 \in 1..n
    OBVIOUS
  <2>1. Below(x) \in SUBSET S /\ x \notin Below(x)
    BY <1>0
  <2>2. Rank(x) <= n /\ Rank(x) # n
    BY <2>1, FS_Subset
  <2>3. Rank(x) \in Nat
    BY <1>2
  <2> HIDE DEF Rank, n
  <2> QED
    BY <1>1, <2>2, <2>3
<1> HIDE DEF Rank
<1>5. ASSUME NEW x \in S, NEW y \in S, Rank(x) = Rank(y)
      PROVE  x = y
  <2>1. x \in Nat /\ y \in Nat /\ Rank(x) \in Nat
    BY <1>0, <1>2
  <2>2. ~(x < y) /\ ~(y < x)
    BY <1>3, <1>5, <2>1
  <2> QED
    BY <2>1, <2>2
<1>6. \A k \in 1..n : \E x \in S : Rank(x) = k - 1
  <2>1. r \in Injection(S, 1..n)
    <3>1. r \in [S -> 1..n] /\ \A x, y \in S : r[x] = r[y] => x = y
      <4>1. r \in [S -> 1..n]
        BY <1>4
      <4>2. ASSUME NEW x \in S, NEW y \in S, r[x] = r[y]
            PROVE  x = y
        <5>1. Rank(x) + 1 = Rank(y) + 1 /\ Rank(x) \in Nat /\ Rank(y) \in Nat
          BY <1>2, <4>2
        <5>2. Rank(x) = Rank(y)
          BY <5>1
        <5> QED
          BY <1>5, <5>2
      <4> QED
        BY <4>1, <4>2
    <3> QED
      BY <3>1, Fun_IsInj
  <2>2. IsFiniteSet(1..n) /\ Cardinality(1..n) = n
    BY <1>1, FS_Interval
  <2>3. r \in Surjection(S, 1..n)
    BY <2>1, <2>2, FS_Injection
  <2> HIDE DEF r
  <2>4. \A k \in 1..n : \E x \in S : r[x] = k
    BY <2>3, Fun_SurjectionProperties
  <2> SUFFICES ASSUME NEW k \in 1..n
               PROVE  \E x \in S : Rank(x) = k - 1
    OBVIOUS
  <2>5. PICK x \in S : r[x] = k
    BY <2>4
  <2>6. Rank(x) + 1 = k /\ Rank(x) \in Nat
    BY <1>2, <2>5 DEF r
  <2> QED
    BY <2>6
<1>7. \A k \in 1..n : f[k] \in S /\ Rank(f[k]) = k - 1
  <2> SUFFICES ASSUME NEW k \in 1..n
               PROVE  f[k] \in S /\ Rank(f[k]) = k - 1
    OBVIOUS
  <2>1. f[k] = CHOOSE x \in S : Rank(x) = k - 1
    BY DEF Ascending, Rank
  <2> QED
    BY <1>6, <2>1
<1>8. f \in [1..n -> S]
  BY <1>7 DEF Ascending
<1> HIDE DEF f, n
<1>9. \A j, k \in 1..n : j < k => f[j] < f[k]
  <2> SUFFICES ASSUME NEW j \in 1..n, NEW k \in 1..n, j < k
               PROVE  f[j] < f[k]
    OBVIOUS
  <2>1. /\ f[j] \in S /\ f[k] \in S /\ Rank(f[j]) = j - 1 /\ Rank(f[k]) = k - 1
        /\ f[j] \in Nat /\ f[k] \in Nat
    BY <1>0, <1>7
  <2>2. f[j] # f[k]
    BY <1>1, <2>1 DEF n
  <2>3. ~(f[k] < f[j])
    <3>1. ~(k - 1 < j - 1)
      BY <1>1 DEF n
    <3> QED
      BY <1>3, <2>1, <3>1
  <2> QED
    BY <2>1, <2>2, <2>3
<1>10. \A x \in S : \E k \in 1..n : f[k] = x
  <2> SUFFICES ASSUME NEW x \in S
               PROVE  \E k \in 1..n : f[k] = x
    OBVIOUS
  <2>1. Rank(x) + 1 \in 1..n /\ Rank(x) \in Nat
    BY <1>2, <1>4
  <2>2. f[Rank(x) + 1] \in S /\ Rank(f[Rank(x) + 1]) = (Rank(x) + 1) - 1
    BY <1>7, <2>1
  <2>3. Rank(f[Rank(x) + 1]) = Rank(x)
    BY <2>1, <2>2
  <2>4. f[Rank(x) + 1] = x
    BY <1>5, <2>2, <2>3
  <2> QED
    BY <2>1, <2>4
<1>11. \A j, k \in 1..n : f[j] < f[k] => j < k
  <2> SUFFICES ASSUME NEW j \in 1..n, NEW k \in 1..n, f[j] < f[k]
               PROVE  j < k
    OBVIOUS
  <2>1. f[j] \in Nat /\ f[k] \in Nat
    BY <1>0, <1>7
  <2>2. j # k /\ ~(k < j)
    BY <1>9, <2>1
  <2> QED
    BY <1>1, <2>2 DEF n
<1> QED
  BY <1>1, <1>8, <1>9, <1>10, <1>11 DEF f, n

(* The first characters of the lines a table lists, and the character      *)
(* behind the last one of a line.                                          *)
Breaks(s) == {i \in DOMAIN s : IsBreak(s, i)}
Firsts(s, cutoff) == {1} \cup {Behind(s, i) : i \in {j \in Breaks(s) : Offset(s, j) < cutoff}}
LineEnd(s, f) == Min({i \in Breaks(s) : i >= f} \cup {Len(s) + 1})
LineUnits(s, f) == IF f > Len(s) THEN None ELSE Units(SubSeq(s, f, LineEnd(s, f) - 1))

(* A set of numbers has a least one.                                       *)
LEMMA LeastOf ==
  ASSUME NEW S \in SUBSET Nat, S # {}
  PROVE  Min(S) \in S /\ \A y \in S : Min(S) <= y
<1>1. \E x \in S : \A y \in S : x <= y
  <2>1. SUFFICES ASSUME \A x \in S : \E y \in S : y < x
                 PROVE  FALSE
    OBVIOUS
  <2> QED
    BY <2>1, NoneIsLeast
<1> QED
  BY <1>1 DEF Min

(* A set of numbers up to a bound has a greatest one.                      *)
LEMMA GreatestOf ==
  ASSUME NEW len \in Nat, NEW S \in SUBSET (0..len), S # {}
  PROVE  \E x \in S : \A y \in S : x >= y
<1> DEFINE T == {len - x : x \in S}
<1>1. \A x \in S : x \in 0..len
  OBVIOUS
<1>2. T \in SUBSET Nat
  BY <1>1
<1>3. T # {}
  OBVIOUS
<1>4. Min(T) \in T /\ \A z \in T : Min(T) <= z
  BY <1>2, <1>3, LeastOf
<1>5. PICK x \in S : Min(T) = len - x
  BY <1>4
<1>6. ASSUME NEW y \in S PROVE x >= y
  <2>1. Min(T) <= len - y
    BY <1>4
  <2> HIDE DEF T
  <2>2. x \in 0..len /\ y \in 0..len
    BY <1>1
  <2> QED
    BY <1>5, <2>1, <2>2
<1> QED
  BY <1>6

(* The first characters of the lines lie in the text or right behind it.   *)
LEMMA FirstsTyped ==
  ASSUME NEW C, NEW s \in Seq(C), NEW cutoff
  PROVE  /\ Firsts(s, cutoff) \in SUBSET (1..(Len(s) + 1))
         /\ 1 \in Firsts(s, cutoff)
         /\ IsFiniteSet(Firsts(s, cutoff))
         /\ \A i \in DOMAIN s : Behind(s, i) \in {i + 1, i + 2} /\ Behind(s, i) <= Len(s) + 1
<1>1. \A i \in DOMAIN s : Behind(s, i) \in {i + 1, i + 2} /\ Behind(s, i) \in 1..(Len(s) + 1)
  BY DEF Behind
<1>2. Firsts(s, cutoff) \in SUBSET (1..(Len(s) + 1)) /\ 1 \in Firsts(s, cutoff)
  BY <1>1 DEF Firsts, Breaks
<1>3. IsFiniteSet(1..(Len(s) + 1))
  BY FS_Interval
<1> QED
  BY <1>1, <1>2, <1>3, FS_Subset

(* A line ends in front of the first line break behind its start, or with  *)
(* the text.                                                               *)
LEMMA LineEndOf ==
  ASSUME NEW C, NEW s \in Seq(C), NEW f \in 1..(Len(s) + 1)
  PROVE  /\ LineEnd(s, f) \in f..(Len(s) + 1)
         /\ LineEnd(s, f) <= Len(s) => LineEnd(s, f) \in Breaks(s)
         /\ \A i \in Breaks(s) : i >= f => LineEnd(s, f) <= i
<1> DEFINE S == {i \in Breaks(s) : i >= f} \cup {Len(s) + 1}
<1>1. S \in SUBSET Nat /\ S # {} /\ \A i \in S : i \in f..(Len(s) + 1)
  BY DEF Breaks
<1>2. Min(S) \in S /\ \A y \in S : Min(S) <= y
  BY <1>1, LeastOf
<1>3. LineEnd(s, f) = Min(S)
  BY DEF LineEnd
<1> QED
  BY <1>1, <1>2, <1>3

(* A table lists, with the starts shifted by bias, the lines of s whose    *)
(* first characters are in F, each once and in order.                      *)
Tabulates(map, F, s, bias) ==
  LET n == Cardinality(F)
      first == Ascending(F)
  IN  /\ n \in Nat /\ n >= 1 /\ first \in [1..n -> F]
      /\ map.starts \in Seq(Int) /\ map.units \in Seq(Int)
      /\ Len(map.starts) = n /\ Len(map.units) = n
      /\ \A k \in 1..n : /\ map.starts[k] = bias + Offset(s, first[k])
                         /\ map.units[k] = LineUnits(s, first[k])
      /\ first[1] = 1
      /\ \A j, k \in 1..n : j < k <=> first[j] < first[k]
      /\ \A x \in F : \E k \in 1..n : first[k] = x

(* The table has one entry for each first character, in order.             *)
LEMMA TableOf ==
  ASSUME NEW C, NEW s \in Seq(C), NEW bias \in Int, NEW cutoff
  PROVE  Tabulates(CreateLineMap(s, bias, cutoff), Firsts(s, cutoff), s, bias)
<1> DEFINE map == CreateLineMap(s, bias, cutoff)
           F == Firsts(s, cutoff)
           n == Cardinality(F)
           first == Ascending(F)
<1>1. F \in SUBSET Nat /\ F \in SUBSET (1..(Len(s) + 1)) /\ 1 \in F /\ IsFiniteSet(F)
  BY FirstsTyped
<1> HIDE DEF F
<1>2. /\ n \in Nat /\ first \in [1..n -> F]
      /\ \A j, k \in 1..n : j < k <=> first[j] < first[k]
      /\ \A x \in F : \E k \in 1..n : first[k] = x
  BY <1>1, AscendingOf
<1>3. map = [starts |-> [k \in 1..n |-> bias + Offset(s, first[k])],
             units |-> [k \in 1..n |-> LineUnits(s, first[k])]]
  BY <1>2 DEF CreateLineMap, F, Firsts, Breaks, LineUnits, LineEnd
<1> HIDE DEF n, first, map
<1>4. ASSUME NEW k \in 1..n
      PROVE  first[k] \in 1..(Len(s) + 1) /\ Offset(s, first[k]) \in Int /\ LineUnits(s, first[k]) \in Int
  <2>1. first[k] \in 1..(Len(s) + 1)
    BY <1>1, <1>2
  <2>2. Offset(s, first[k]) \in Nat
    BY <2>1, OffsetsGrow
  <2>3. LineUnits(s, first[k]) \in Int
    <3>1. LineEnd(s, first[k]) - 1 \in (first[k] - 1)..Len(s)
      BY <2>1, LineEndOf
    <3>2. Units(SubSeq(s, first[k], LineEnd(s, first[k]) - 1)) \in Nat
      BY <2>1, <3>1, SliceTyped
    <3> QED
      BY <3>2 DEF LineUnits, None
  <2> QED
    BY <2>1, <2>2, <2>3
<1>5. [k \in 1..n |-> bias + Offset(s, first[k])] \in Seq(Int)
  BY <1>2, <1>4
<1>6. [k \in 1..n |-> LineUnits(s, first[k])] \in Seq(Int)
  BY <1>2, <1>4
<1>7. /\ map.starts \in Seq(Int) /\ map.units \in Seq(Int)
      /\ Len(map.starts) = n /\ Len(map.units) = n
      /\ \A k \in 1..n : map.starts[k] = bias + Offset(s, first[k])
                         /\ map.units[k] = LineUnits(s, first[k])
  BY <1>2, <1>3, <1>5, <1>6
<1>8. PICK k \in 1..n : first[k] = 1
  BY <1>1, <1>2
<1>9. first[1] = 1
  <2>1. 1 \in 1..n /\ first[1] \in 1..(Len(s) + 1)
    <3>1. 1 \in 1..n
      BY <1>2
    <3>2. first[1] \in F
      BY <1>2, <3>1
    <3> QED
      BY <1>1, <3>1, <3>2
  <2>2. ~(1 < k)
    <3>1. ~(first[1] < first[k])
      BY <1>8, <2>1
    <3> QED
      BY <1>2, <2>1, <3>1
  <2>3. k = 1
    BY <1>2, <2>2
  <2> QED
    BY <1>8, <2>3
<1> QED
  BY <1>2, <1>7, <1>8, <1>9 DEF Tabulates, n, first, map, F

(* The least number of a set.                                              *)
LEMMA MinIs ==
  ASSUME NEW S \in SUBSET Int, NEW x \in S, \A y \in S : x <= y
  PROVE  Min(S) = x
<1> DEFINE m == CHOOSE z \in S : \A y \in S : z <= y
<1>1. m \in S /\ \A y \in S : m <= y
  OBVIOUS
<1> HIDE DEF m
<1>2. m \in Int /\ x \in Int /\ m <= x /\ x <= m
  BY <1>1
<1> QED
  BY <1>2 DEF Min, m

(* The greatest number of a set.                                           *)
LEMMA MaxIs ==
  ASSUME NEW S \in SUBSET Int, NEW x \in S, \A y \in S : y <= x
  PROVE  Max(S) = x
<1> DEFINE m == CHOOSE z \in S : \A y \in S : z >= y
<1>1. m \in S /\ \A y \in S : m >= y
  OBVIOUS
<1> HIDE DEF m
<1>2. m \in Int /\ x \in Int /\ m <= x /\ x <= m
  BY <1>1
<1> QED
  BY <1>2 DEF Max, m

(* The table of a whole text.                                              *)
FirstsOf(s) == Firsts(s, NoCutoff(s))
NumFirsts(s) == Cardinality(FirstsOf(s))
FirstOf(s, k) == Ascending(FirstsOf(s))[k]

(* The line table of a text: its lines start behind the line breaks, in    *)
(* order, each at the offset of its first character.                       *)
LEMMA FullTable ==
  ASSUME NEW C, NEW s \in Seq(C)
  PROVE  LET map == LineMapOf(s)
             n == NumFirsts(s)
         IN  /\ n \in Nat /\ n >= 1 /\ NumLines(map) = n
             /\ FirstsOf(s) = {1} \cup {Behind(s, i) : i \in Breaks(s)}
             /\ \A k \in 1..n : /\ FirstOf(s, k) \in FirstsOf(s)
                                /\ FirstOf(s, k) \in 1..(Len(s) + 1)
                                /\ Start(map, k - 1) = Offset(s, FirstOf(s, k))
                                /\ MaxUnit(map, k - 1) = LineUnits(s, FirstOf(s, k))
             /\ FirstOf(s, 1) = 1
             /\ \A j, k \in 1..n : j < k <=> FirstOf(s, j) < FirstOf(s, k)
             /\ \A x \in FirstsOf(s) : \E k \in 1..n : FirstOf(s, k) = x
             /\ map.starts \in Seq(Int) /\ map.units \in Seq(Int)
             /\ Len(map.starts) = n /\ Len(map.units) = n
<1> DEFINE map == LineMapOf(s)
           F == FirstsOf(s)
           n == NumFirsts(s)
           first == Ascending(F)
<1>1. Bytes(s) \in Nat
  BY OffsetEnds
<1>2. ASSUME NEW j \in Breaks(s)
      PROVE  Offset(s, j) < NoCutoff(s)
  <2>1. j \in 1..(Len(s) + 1) /\ Len(s) + 1 \in 1..(Len(s) + 1) /\ j < Len(s) + 1
    BY DEF Breaks
  <2>2. Offset(s, j) < Offset(s, Len(s) + 1) /\ Offset(s, j) \in Nat
    BY <2>1, OffsetsGrow
  <2>3. Offset(s, Len(s) + 1) = Bytes(s)
    BY OffsetEnds
  <2> QED
    BY <1>1, <2>2, <2>3 DEF NoCutoff
<1>3. F = {1} \cup {Behind(s, i) : i \in Breaks(s)}
  BY <1>2 DEF FirstsOf, Firsts
<1>4. /\ n \in Nat /\ n >= 1 /\ first \in [1..n -> F]
      /\ map.starts \in Seq(Int) /\ map.units \in Seq(Int)
      /\ Len(map.starts) = n /\ Len(map.units) = n
      /\ \A k \in 1..n : /\ map.starts[k] = 0 + Offset(s, first[k])
                         /\ map.units[k] = LineUnits(s, first[k])
      /\ first[1] = 1
      /\ \A j, k \in 1..n : j < k <=> first[j] < first[k]
      /\ \A x \in F : \E k \in 1..n : first[k] = x
  <2>1. Tabulates(map, F, s, 0)
    BY TableOf DEF LineMapOf, FirstsOf
  <2> HIDE DEF map, F
  <2> QED
    BY <2>1 DEF Tabulates, NumFirsts, F
<1>5. F \in SUBSET (1..(Len(s) + 1))
  BY FirstsTyped DEF FirstsOf
<1> HIDE DEF map, F, n, first
<1>6. ASSUME NEW k \in 1..n
      PROVE  /\ first[k] \in F /\ first[k] \in 1..(Len(s) + 1)
             /\ Start(map, k - 1) = Offset(s, first[k])
             /\ MaxUnit(map, k - 1) = LineUnits(s, first[k])
  <2>1. first[k] \in F /\ first[k] \in 1..(Len(s) + 1) /\ (k - 1) + 1 = k
    <3>1. first[k] \in F
      BY <1>4
    <3>2. k \in Int
      BY <1>4
    <3>3. first[k] \in 1..(Len(s) + 1)
      BY <1>5, <3>1
    <3>4. (k - 1) + 1 = k
      BY <3>2
    <3> QED
      BY <3>1, <3>3, <3>4
  <2>2. Offset(s, first[k]) \in Nat
    BY <2>1, OffsetsGrow
  <2> QED
    BY <1>4, <2>1, <2>2 DEF Start, MaxUnit
<1>7. NumLines(map) = n
  BY <1>4 DEF NumLines
<1> QED
  BY <1>3, <1>4, <1>6, <1>7 DEF map, F, n, first, FirstOf

(* The line of a character: the last one that starts no later.             *)
InLine(s, i, k) ==
  /\ k \in 1..NumFirsts(s) /\ FirstOf(s, k) <= i
  /\ \A j \in 1..NumFirsts(s) : j > k => FirstOf(s, j) > i

(* Every character is in a line.                                           *)
LEMMA LineExists ==
  ASSUME NEW C, NEW s \in Seq(C), NEW i \in 1..(Len(s) + 1)
  PROVE  \E k : InLine(s, i, k)
<1> DEFINE n == NumFirsts(s)
           Later == {j \in 1..n : FirstOf(s, j) > i} \cup {n + 1}
           m == Min(Later)
<1>1. /\ n \in Nat /\ n >= 1 /\ FirstOf(s, 1) = 1
      /\ \A k \in 1..n : FirstOf(s, k) \in 1..(Len(s) + 1)
      /\ \A j, k \in 1..n : j < k <=> FirstOf(s, j) < FirstOf(s, k)
  BY FullTable
<1> HIDE DEF n
<1>2. Later \in SUBSET Nat /\ Later # {}
  BY <1>1
<1>3. m \in Later /\ \A y \in Later : m <= y
  BY <1>2, LeastOf
<1> HIDE DEF m
<1>4. m # 1 /\ m \in 1..(n + 1)
  BY <1>1, <1>3
<1>5. m - 1 \in 1..n /\ FirstOf(s, m - 1) <= i
  BY <1>1, <1>3, <1>4
<1>6. ASSUME NEW j \in 1..n, j > m - 1
      PROVE  FirstOf(s, j) > i
  <2>1. j >= m /\ m \in 1..n
    BY <1>1, <1>4, <1>6
  <2>2. FirstOf(s, m) > i
    BY <1>1, <1>3, <2>1
  <2>3. j = m \/ FirstOf(s, m) < FirstOf(s, j)
    BY <1>1, <2>1
  <2>4. FirstOf(s, m) \in Int /\ FirstOf(s, j) \in Int
    BY <1>1, <2>1
  <2> QED
    BY <2>2, <2>3, <2>4
<1> QED
  BY <1>5, <1>6 DEF InLine, n

(* The bisection finds it.                                                 *)
LEMMA LineAtInLine ==
  ASSUME NEW C, NEW s \in Seq(C), NEW i \in 1..(Len(s) + 1), NEW k, InLine(s, i, k)
  PROVE  LineAt(LineMapOf(s), Offset(s, i)) = k - 1
<1> DEFINE n == NumFirsts(s)
           map == LineMapOf(s)
<1>1. /\ n \in Nat /\ n >= 1 /\ NumLines(map) = n
      /\ \A j \in 1..n : FirstOf(s, j) \in 1..(Len(s) + 1)
                         /\ Start(map, j - 1) = Offset(s, FirstOf(s, j))
      /\ \A j, l \in 1..n : j < l <=> FirstOf(s, j) < FirstOf(s, l)
  BY FullTable
<1>2. k \in 1..n /\ FirstOf(s, k) <= i /\ \A j \in 1..n : j > k => FirstOf(s, j) > i
  BY DEF InLine
<1> HIDE DEF n, map
<1>3. ASSUME NEW l \in 0..(n - 1)
      PROVE  Start(map, l) > Offset(s, i) <=> l >= k
  <2> DEFINE j == l + 1
  <2>1. j \in 1..n /\ j - 1 = l
    BY <1>1
  <2>2. Start(map, l) = Offset(s, FirstOf(s, j)) /\ FirstOf(s, j) \in 1..(Len(s) + 1)
    <3>1. Start(map, j - 1) = Offset(s, FirstOf(s, j)) /\ FirstOf(s, j) \in 1..(Len(s) + 1)
      BY <1>1, <2>1
    <3> QED
      BY <2>1, <3>1
  <2>3. Offset(s, i) < Offset(s, FirstOf(s, j)) <=> i < FirstOf(s, j)
    BY <2>2, OffsetsGrow
  <2>4. Offset(s, i) \in Nat /\ Offset(s, FirstOf(s, j)) \in Nat
    BY <2>2, OffsetsGrow
  <2>5. i < FirstOf(s, j) <=> l >= k
    <3>1. CASE l >= k
      BY <1>1, <1>2, <2>1, <3>1
    <3>2. CASE l < k
      <4>1. j = k \/ j < k
        BY <1>1, <1>2, <3>2
      <4>2. j = k \/ FirstOf(s, j) < FirstOf(s, k)
        BY <1>1, <1>2, <2>1, <4>1
      <4>3. FirstOf(s, k) \in Int /\ FirstOf(s, j) \in Int
        BY <1>1, <1>2, <2>2
      <4> QED
        BY <1>1, <1>2, <3>2, <4>2, <4>3
    <3> QED
      BY <1>1, <1>2, <3>1, <3>2
  <2> HIDE DEF j
  <2> QED
    BY <2>2, <2>3, <2>4, <2>5
<1>4. NumLines(map) \in Nat /\ k \in 0..NumLines(map)
  BY <1>1, <1>2
<1> QED
  BY <1>1, <1>3, <1>4, LineAtFinds DEF map

(* A character that is not the second one of a line break stands in its    *)
(* line.                                                                   *)
LEMMA BeforeLineEnd ==
  ASSUME NEW C, NEW s \in Seq(C), NEW i \in 1..(Len(s) + 1), NEW k, InLine(s, i, k),
         ~(i \in 2..Len(s) /\ s[i - 1] = "CR" /\ s[i] = "LF")
  PROVE  i \in FirstOf(s, k)..LineEnd(s, FirstOf(s, k))
<1> DEFINE n == NumFirsts(s)
           f == FirstOf(s, k)
           b == LineEnd(s, f)
<1>1. /\ n \in Nat
      /\ FirstsOf(s) = {1} \cup {Behind(s, j) : j \in Breaks(s)}
      /\ \A j \in 1..n : FirstOf(s, j) \in 1..(Len(s) + 1)
      /\ \A j, l \in 1..n : j < l <=> FirstOf(s, j) < FirstOf(s, l)
      /\ \A x \in FirstsOf(s) : \E j \in 1..n : FirstOf(s, j) = x
  BY FullTable
<1>2. k \in 1..n /\ f <= i /\ \A j \in 1..n : j > k => FirstOf(s, j) > i
  BY DEF InLine
<1> HIDE DEF n
<1>3. f \in 1..(Len(s) + 1)
  BY <1>1, <1>2
<1>4. b \in f..(Len(s) + 1) /\ (b <= Len(s) => b \in Breaks(s))
  BY <1>3, LineEndOf
<1> HIDE DEF b
<1>5. SUFFICES ASSUME i > b PROVE FALSE
  BY <1>2, <1>3, <1>4 DEF b
<1>6. b <= Len(s) /\ b \in Breaks(s) /\ b \in DOMAIN s
  BY <1>3, <1>4, <1>5
<1>7. PICK j \in 1..n : FirstOf(s, j) = Behind(s, b)
  BY <1>1, <1>6
<1>8. Behind(s, b) \in {b + 1, b + 2} /\ b \in Int
  BY <1>6, FirstsTyped
<1>9. f < FirstOf(s, j)
  BY <1>3, <1>4, <1>7, <1>8
<1>10. j > k
  BY <1>1, <1>2, <1>9
<1>11. i < Behind(s, b)
  BY <1>2, <1>7, <1>10
<1>12. i = b + 1 /\ Behind(s, b) = b + 2
  BY <1>5, <1>8, <1>11
<1>13. s[b] = "CR" /\ b < Len(s) /\ s[b + 1] = "LF"
  BY <1>8, <1>12 DEF Behind
<1>14. i \in 2..Len(s) /\ i - 1 = b
  BY <1>6, <1>12, <1>13
<1> QED
  BY <1>12, <1>13, <1>14

-----------------------------------------------------------------------------
(***************************************************************************)
(* From an offset to a position and back.                                  *)
(***************************************************************************)

(* Scanning the rest of a text from a character on for the units in front  *)
(* of another one stops at that one.                                       *)
LEMMA ScanStops ==
  ASSUME NEW C, NEW s \in Seq(C), NEW f \in 1..(Len(s) + 1), NEW i \in f..(Len(s) + 1)
  PROVE  LET t == SubSeq(s, f, Len(s))
             c == Units(SubSeq(s, f, i - 1))
         IN  /\ ScanUnits(t, c) = i - f /\ FitUnits(t, c) = i - f
             /\ Prefix(t, i - f) = SubSeq(s, f, i - 1)
<1> DEFINE t == SubSeq(s, f, Len(s))
           c == Units(SubSeq(s, f, i - 1))
           len == Len(s) - f + 1
<1>1. Len(t) = len /\ len \in Nat
  BY SliceOf
<1>2. ASSUME NEW m \in 0..len
      PROVE  /\ Prefix(t, m) = SubSeq(s, f, f + m - 1)
             /\ Units(Prefix(t, m)) \in Nat
             /\ Units(Prefix(t, m)) >= c <=> m >= i - f
             /\ Units(Prefix(t, m)) <= c <=> m <= i - f
  <2>1. Prefix(t, m) = SubSeq(s, f, f + m - 1)
    BY PrefixOfSlice
  <2>2. f + m - 1 \in (f - 1)..Len(s) /\ i - 1 \in (f - 1)..Len(s)
    OBVIOUS
  <2>3. Units(SubSeq(s, f, f + m - 1)) \in Nat /\ c \in Nat
    BY <2>2, SliceTyped
  <2>4. f + m - 1 < i - 1 <=> Units(SubSeq(s, f, f + m - 1)) < c
    BY <2>2, UnitsGrow
  <2>5. i - 1 < f + m - 1 <=> c < Units(SubSeq(s, f, f + m - 1))
    BY <2>2, UnitsGrow
  <2> HIDE DEF t, c
  <2> QED
    BY <2>1, <2>2, <2>3, <2>4, <2>5
<1>3. i - f \in 0..len
  OBVIOUS
<1> HIDE DEF t, c, len
<1>4. ScanUnits(t, c) = i - f
  <2> DEFINE S == {m \in 0..len : Units(Prefix(t, m)) >= c} \cup {len}
  <2>1. S \in SUBSET Int
    BY <1>1
  <2>2. i - f \in S
    BY <1>2, <1>3
  <2>3. \A m \in S : i - f <= m
    BY <1>1, <1>2, <1>3
  <2> HIDE DEF S
  <2>4. Min(S) = i - f
    BY <2>1, <2>2, <2>3, MinIs
  <2> QED
    BY <1>1, <2>4 DEF ScanUnits, S
<1>5. FitUnits(t, c) = i - f
  <2> DEFINE S == {m \in 0..len : Units(Prefix(t, m)) <= c}
  <2>1. S \in SUBSET Int
    BY <1>1
  <2>2. i - f \in S
    BY <1>2, <1>3
  <2>3. \A m \in S : m <= i - f
    BY <1>1, <1>2, <1>3
  <2> HIDE DEF S
  <2>4. Max(S) = i - f
    BY <2>1, <2>2, <2>3, MaxIs
  <2> QED
    BY <1>1, <2>4 DEF FitUnits, S
<1>6. Prefix(t, i - f) = SubSeq(s, f, i - 1)
  <2>1. f + (i - f) - 1 = i - 1
    OBVIOUS
  <2> QED
    BY <1>2, <1>3, <2>1
<1> QED
  BY <1>4, <1>5, <1>6 DEF t, c

(* The position in line k of the character i.                              *)
SpotOf(s, k, i) == Position(k - 1, Units(SubSeq(s, FirstOf(s, k), i - 1)))

(* The position of a character is where it stands in its line.             *)
LEMMA SpotPlaced ==
  ASSUME NEW C, NEW s \in Seq(C), NEW k \in 1..NumFirsts(s),
         NEW i \in FirstOf(s, k)..(Len(s) + 1)
  PROVE  /\ ByteOffsetAt(SpotOf(s, k, i), LineMapOf(s), s) = Offset(s, i)
         /\ IsBorder(s, Offset(s, i))
         /\ CanLocate(SpotOf(s, k, i), LineMapOf(s), s)
         /\ SpotOf(s, k, i).line = k - 1 /\ SpotOf(s, k, i).character \in Nat
         /\ SpotOf(s, k, i).character = 0 <=> i = FirstOf(s, k)
<1> DEFINE map == LineMapOf(s)
           f == FirstOf(s, k)
           c == Units(SubSeq(s, f, i - 1))
           t == SubSeq(s, f, Len(s))
<1>1. /\ NumFirsts(s) \in Nat /\ NumLines(map) = NumFirsts(s)
      /\ f \in 1..(Len(s) + 1) /\ Start(map, k - 1) = Offset(s, f)
  BY FullTable
<1> HIDE DEF map
<1>2. f \in Int /\ i \in 1..(Len(s) + 1) /\ i - 1 \in (f - 1)..Len(s)
  BY <1>1
<1>3. c \in Nat /\ c >= (i - 1) - f + 1 /\ (i = f => c = 0)
  BY <1>1, <1>2, SliceTyped
<1>4. SpotOf(s, k, i) = [line |-> k - 1, character |-> c]
  BY DEF SpotOf, Position
<1>5. Offset(s, i) = Offset(s, f) + Bytes(SubSeq(s, f, i - 1)) /\ Offset(s, f) \in Nat
  BY <1>1, <1>2, OffsetSplit
<1>6. From(s, Start(map, k - 1)) = t
  BY <1>1, FromAt
<1>7. ScanUnits(t, c) = i - f /\ Prefix(t, i - f) = SubSeq(s, f, i - 1)
  BY <1>1, <1>2, ScanStops
<1> HIDE DEF c, t, f
<1>8. ~(k - 1 >= NumLines(map))
  BY <1>1
<1>9. ByteOffsetAt(SpotOf(s, k, i), map, s) = Offset(s, i)
  <2>1. CASE c = 0
    <3>1. i = f
      BY <1>2, <1>3, <2>1
    <3>2. Offset(s, f) = Offset(s, f) + 0
      BY <1>5
    <3>3. ByteOffsetAt(SpotOf(s, k, i), map, s) = Offset(s, f) + 0
      BY <1>1, <1>4, <1>8, <2>1 DEF ByteOffsetAt, ColumnAt
    <3> QED
      BY <3>1, <3>2, <3>3
  <2>2. CASE c # 0
    <3>1. ColumnAt(SpotOf(s, k, i), map, s) = Bytes(SubSeq(s, f, i - 1))
      <4>1. ColumnAt([line |-> k - 1, character |-> c], map, s)
              = Bytes(Prefix(From(s, Start(map, k - 1)), ScanUnits(From(s, Start(map, k - 1)), c)))
        BY <1>8, <2>2 DEF ColumnAt
      <4> QED
        BY <1>4, <1>6, <1>7, <4>1
    <3> QED
      BY <1>1, <1>4, <1>5, <1>8, <3>1 DEF ByteOffsetAt
  <2> QED
    BY <2>1, <2>2
<1>10. \A j \in 1..(Len(s) + 1) : IsBorder(s, Offset(s, j))
  BY DEF IsBorder
<1>11. CanLocate(SpotOf(s, k, i), map, s)
  BY <1>1, <1>4, <1>10 DEF CanLocate
<1> QED
  BY <1>2, <1>3, <1>4, <1>9, <1>10, <1>11 DEF map, f

(* Positions up to the end of a line are left alone.                       *)
LEMMA SpotNormal ==
  ASSUME NEW C, NEW s \in Seq(C), NEW k \in 1..NumFirsts(s),
         NEW i \in FirstOf(s, k)..LineEnd(s, FirstOf(s, k))
  PROVE  NormalizePosition(SpotOf(s, k, i), LineMapOf(s), s) = SpotOf(s, k, i)
<1> DEFINE map == LineMapOf(s)
           f == FirstOf(s, k)
           b == LineEnd(s, f)
           c == Units(SubSeq(s, f, i - 1))
           t == SubSeq(s, f, Len(s))
           max == IF MaxUnit(map, k - 1) = None THEN 0 ELSE MaxUnit(map, k - 1)
<1>1. /\ NumFirsts(s) \in Nat /\ NumLines(map) = NumFirsts(s)
      /\ f \in 1..(Len(s) + 1) /\ Start(map, k - 1) = Offset(s, f)
      /\ MaxUnit(map, k - 1) = LineUnits(s, f)
  BY FullTable
<1>2. b \in f..(Len(s) + 1)
  BY <1>1, LineEndOf
<1>3. i \in 1..(Len(s) + 1) /\ i \in f..(Len(s) + 1) /\ i - 1 \in (f - 1)..Len(s)
      /\ b - 1 \in (f - 1)..Len(s) /\ i - 1 <= b - 1
  BY <1>1, <1>2
<1>4. c \in Nat /\ Units(SubSeq(s, f, b - 1)) \in Nat
  BY <1>1, <1>3, SliceTyped
<1>5. c <= Units(SubSeq(s, f, b - 1))
  <2>1. ~(b - 1 < i - 1)
    BY <1>2, <1>3
  <2>2. ~(Units(SubSeq(s, f, b - 1)) < c)
    BY <1>1, <1>3, <2>1, UnitsGrow
  <2> QED
    BY <1>4, <2>2
<1>6. SpotOf(s, k, i) = [line |-> k - 1, character |-> c]
  BY DEF SpotOf, Position
<1>7. From(s, Start(map, k - 1)) = t
  BY <1>1, FromAt
<1>8. FitUnits(t, c) = i - f /\ Prefix(t, i - f) = SubSeq(s, f, i - 1)
  BY <1>1, <1>3, ScanStops
<1>9. c = Units(SubSeq(s, f, i - 1))
  OBVIOUS
<1>10. f > Len(s) => b = f /\ i = f /\ c = 0
  <2>1. SUFFICES ASSUME f > Len(s) PROVE b = f /\ i = f /\ c = 0
    OBVIOUS
  <2>2. b = f /\ i = f
    BY <1>1, <1>2, <1>3, <2>1
  <2>3. i - 1 = f - 1
    BY <2>2
  <2> QED
    BY <1>1, <1>3, <2>2, <2>3, SliceTyped
<1> HIDE DEF c, t, f, map
<1>11. max \in Nat /\ c <= max
  <2>1. CASE f > Len(s)
    BY <1>1, <1>10, <2>1 DEF LineUnits
  <2>2. CASE ~(f > Len(s))
    <3>1. MaxUnit(map, k - 1) = Units(SubSeq(s, f, b - 1))
      BY <1>1, <2>2 DEF LineUnits
    <3> QED
      BY <1>4, <1>5, <3>1 DEF None
  <2> QED
    BY <2>1, <2>2
<1> HIDE DEF b
<1>12. ~(k - 1 >= NumLines(map)) /\ ~(c > max)
  BY <1>1, <1>4, <1>11
<1>13. Position(k - 1, Units(Prefix(t, FitUnits(t, c)))) = [line |-> k - 1, character |-> c]
  BY <1>8, <1>9 DEF Position
<1> QED
  BY <1>6, <1>7, <1>12, <1>13 DEF NormalizePosition, map

(* The last line ends with the text: there is a line behind a final line   *)
(* break, and it has no characters.                                        *)
LEMMA LastLine ==
  ASSUME NEW C, NEW s \in Seq(C)
  PROVE  LET map == LineMapOf(s)
             n == NumFirsts(s)
             f == FirstOf(s, n)
         IN  /\ LineEnd(s, f) = Len(s) + 1
             /\ EndsWithEol(map) <=> f = Len(s) + 1
             /\ f <= Len(s) => /\ MaxUnit(map, n - 1) = Units(SubSeq(s, f, Len(s)))
                               /\ MaxUnit(map, n - 1) \in Nat
             /\ InLine(s, Len(s) + 1, n)
<1> DEFINE map == LineMapOf(s)
           n == NumFirsts(s)
           f == FirstOf(s, n)
           b == LineEnd(s, f)
<1>1. /\ n \in Nat /\ n >= 1 /\ NumLines(map) = n
      /\ FirstsOf(s) = {1} \cup {Behind(s, j) : j \in Breaks(s)}
      /\ \A j \in 1..n : FirstOf(s, j) \in 1..(Len(s) + 1)
      /\ \A j, l \in 1..n : j < l <=> FirstOf(s, j) < FirstOf(s, l)
      /\ \A x \in FirstsOf(s) : \E j \in 1..n : FirstOf(s, j) = x
      /\ MaxUnit(map, n - 1) = LineUnits(s, f)
  BY FullTable
<1> HIDE DEF n, map
<1>2. n \in 1..n /\ f \in 1..(Len(s) + 1)
  BY <1>1
<1>3. b \in f..(Len(s) + 1) /\ (b <= Len(s) => b \in Breaks(s))
  BY <1>2, LineEndOf
<1> HIDE DEF b
<1>4. b = Len(s) + 1
  <2>1. SUFFICES ASSUME b <= Len(s) PROVE FALSE
    BY <1>2, <1>3
  <2>2. b \in DOMAIN s /\ Behind(s, b) \in FirstsOf(s)
    BY <1>1, <1>2, <1>3, <2>1
  <2>3. PICK j \in 1..n : FirstOf(s, j) = Behind(s, b)
    BY <1>1, <2>2
  <2>4. Behind(s, b) \in {b + 1, b + 2} /\ b \in Int
    BY <2>2, FirstsTyped
  <2>5. f < FirstOf(s, j)
    BY <1>2, <1>3, <2>3, <2>4
  <2>6. n < j
    BY <1>1, <1>2, <2>5
  <2> QED
    BY <1>1, <2>6
<1>5. ASSUME f <= Len(s)
      PROVE  MaxUnit(map, n - 1) = Units(SubSeq(s, f, Len(s))) /\ MaxUnit(map, n - 1) \in Nat
  <2>1. LineUnits(s, f) = Units(SubSeq(s, f, Len(s)))
    <3>1. ~(f > Len(s)) /\ (Len(s) + 1) - 1 = Len(s)
      BY <1>2, <1>5
    <3> QED
      BY <1>4, <3>1 DEF LineUnits, b
  <2>2. Len(s) \in (f - 1)..Len(s)
    BY <1>2
  <2>3. Units(SubSeq(s, f, Len(s))) \in Nat
    BY <1>2, <2>2, SliceTyped
  <2> QED
    BY <1>1, <2>1, <2>3
<1>6. EndsWithEol(map) <=> f = Len(s) + 1
  <2>1. CASE f <= Len(s)
    BY <1>1, <1>2, <1>5, <2>1 DEF EndsWithEol, None
  <2>2. CASE f > Len(s)
    BY <1>1, <1>2, <2>2 DEF EndsWithEol, LineUnits
  <2> QED
    BY <1>2, <2>1, <2>2
<1>7. InLine(s, Len(s) + 1, n)
  <2>1. f <= Len(s) + 1 /\ \A j \in 1..n : ~(j > n)
    BY <1>1, <1>2
  <2> QED
    BY <1>2, <2>1 DEF InLine, n
<1> QED
  BY <1>4, <1>5, <1>6, <1>7 DEF n, map, b

(* to_position returns the position of a character.                        *)
LEMMA PositionFound ==
  ASSUME NEW C, NEW s \in Seq(C), NEW i \in 1..Len(s), NEW k, InLine(s, i, k)
  PROVE  ToPosition(Offset(s, i), LineMapOf(s), s) = SpotOf(s, k, i)
<1> DEFINE map == LineMapOf(s)
           f == FirstOf(s, k)
           t == SubSeq(s, f, Len(s))
           len == Len(s) - f + 1
           o == Offset(s, i)
<1>1. k \in 1..NumFirsts(s) /\ f <= i
  BY DEF InLine
<1>2. f \in 1..(Len(s) + 1) /\ Start(map, k - 1) = Offset(s, f)
  BY <1>1, FullTable
<1>3. i \in 1..(Len(s) + 1) /\ f \in 1..Len(s) /\ i \in f..(Len(s) + 1)
  BY <1>1, <1>2
<1>4. LineAt(map, o) = k - 1
  BY <1>3, LineAtInLine
<1>5. o < Bytes(s) /\ o \in Nat /\ Bytes(s) \in Nat
  <2>1. Len(s) + 1 \in 1..(Len(s) + 1) /\ i < Len(s) + 1
    OBVIOUS
  <2>2. o < Offset(s, Len(s) + 1) /\ o \in Nat
    BY <1>3, <2>1, OffsetsGrow
  <2> QED
    BY <2>2, OffsetEnds
<1>6. From(s, Start(map, k - 1)) = t
  BY <1>2, FromAt
<1>7. Len(t) = len /\ len \in Nat
  BY <1>3, SliceOf
<1>8. ASSUME NEW m \in 0..len
      PROVE  Offset(s, f) + Bytes(Prefix(t, m)) >= o <=> m >= i - f
  <2>1. Prefix(t, m) = SubSeq(s, f, (f + m) - 1)
    BY <1>2, PrefixOfSlice
  <2>2. f + m \in f..(Len(s) + 1) /\ f + m \in 1..(Len(s) + 1)
    BY <1>3
  <2>3. Offset(s, f + m) = Offset(s, f) + Bytes(SubSeq(s, f, (f + m) - 1))
    BY <1>2, <2>2, OffsetSplit
  <2>4. Offset(s, f + m) \in Nat /\ (f + m < i <=> Offset(s, f + m) < o)
    BY <1>3, <2>2, OffsetsGrow
  <2> HIDE DEF t, o
  <2> QED
    BY <1>3, <1>5, <2>1, <2>2, <2>3, <2>4 DEF o
<1>9. Prefix(t, i - f) = SubSeq(s, f, i - 1)
  BY <1>2, <1>3, ScanStops
<1> HIDE DEF map, t, len, o, f
<1> DEFINE S == {m \in 0..len : Offset(s, f) + Bytes(Prefix(t, m)) >= o} \cup {len}
<1>10. Min(S) = i - f
  <2>1. S \in SUBSET Int
    BY <1>7
  <2>2. i - f \in 0..len
    BY <1>3 DEF len
  <2>3. i - f \in S
    BY <1>3, <1>8, <2>2
  <2>4. \A m \in S : i - f <= m
    BY <1>3, <1>7, <1>8, <2>2
  <2> HIDE DEF S
  <2> QED
    BY <2>1, <2>3, <2>4, MinIs
<1>11. ToPosition(o, map, s) = Position(k - 1, Units(Prefix(t, Min(S))))
  <2> DEFINE line == LineAt(map, o)
             tail == From(s, Start(map, line))
             past == {m \in 0..Len(tail) : Start(map, line) + Bytes(Prefix(tail, m)) >= o}
                       \cup {Len(tail)}
  <2>1. ToPosition(o, map, s) = Position(line, Units(Prefix(tail, Min(past))))
    BY <1>5 DEF ToPosition
  <2>2. line = k - 1 /\ Start(map, line) = Offset(s, f) /\ tail = t /\ Len(tail) = len
    BY <1>2, <1>4, <1>6, <1>7
  <2>3. past = S
    BY <2>2
  <2> HIDE DEF past, line, tail, S
  <2> QED
    BY <2>1, <2>2, <2>3
<1> QED
  BY <1>9, <1>10, <1>11 DEF SpotOf, map, o, f

(* A character that is not the second one of a line break is found again   *)
(* at its position.                                                        *)
LEMMA PositionsRoundTrip ==
  ASSUME NEW C, NEW s \in Seq(C), NEW i \in 1..(Len(s) + 1),
         ~(i \in 2..Len(s) /\ s[i - 1] = "CR" /\ s[i] = "LF")
  PROVE  ToByteOffset(ToPosition(Offset(s, i), LineMapOf(s), s), LineMapOf(s), s) = Offset(s, i)
<1> DEFINE map == LineMapOf(s)
           n == NumFirsts(s)
           f == FirstOf(s, n)
<1>1. CASE i <= Len(s)
  <2>1. PICK k : InLine(s, i, k)
    BY LineExists
  <2>2. ToPosition(Offset(s, i), map, s) = SpotOf(s, k, i)
    BY <1>1, <2>1, PositionFound
  <2>3. k \in 1..n /\ i \in FirstOf(s, k)..LineEnd(s, FirstOf(s, k))
    BY <2>1, BeforeLineEnd DEF InLine
  <2>4. NormalizePosition(SpotOf(s, k, i), map, s) = SpotOf(s, k, i)
    BY <2>3, SpotNormal
  <2>5. i \in FirstOf(s, k)..(Len(s) + 1)
    BY <2>3
  <2>6. ByteOffsetAt(SpotOf(s, k, i), map, s) = Offset(s, i)
    BY <2>3, <2>5, SpotPlaced
  <2> QED
    BY <2>2, <2>4, <2>6 DEF ToByteOffset
<1>2. CASE i = Len(s) + 1
  <2>1. Offset(s, i) = Bytes(s) /\ Bytes(s) \in Nat
    BY <1>2, OffsetEnds
  <2>2. /\ n \in Nat /\ n >= 1 /\ NumLines(map) = n /\ n \in 1..n
        /\ f \in 1..(Len(s) + 1)
    BY FullTable
  <2>3. /\ LineEnd(s, f) = Len(s) + 1 /\ (EndsWithEol(map) <=> f = Len(s) + 1)
        /\ f <= Len(s) => /\ MaxUnit(map, n - 1) = Units(SubSeq(s, f, Len(s)))
                          /\ MaxUnit(map, n - 1) \in Nat
    BY LastLine
  <2>4. i \in f..LineEnd(s, f) /\ i \in f..(Len(s) + 1) /\ i - 1 = Len(s)
    BY <1>2, <2>2, <2>3
  <2>5. ByteOffsetAt(SpotOf(s, n, i), map, s) = Offset(s, i)
    BY <2>2, <2>4, SpotPlaced
  <2>6. NormalizePosition(SpotOf(s, n, i), map, s) = SpotOf(s, n, i)
    BY <2>2, <2>4, SpotNormal
  <2> HIDE DEF n, map, f
  <2>7. CASE f = Len(s) + 1
    <3>1. SpotOf(s, n, i) = Position(n - 1, 0)
      <4>1. i = f /\ i - 1 = f - 1 /\ i - 1 \in (f - 1)..Len(s)
        BY <1>2, <2>2, <2>7
      <4>2. Units(SubSeq(s, f, i - 1)) = 0
        BY <2>2, <4>1, SliceTyped
      <4> QED
        BY <4>2 DEF SpotOf, f
    <3>2. ToPosition(Offset(s, i), map, s) = Position(n - 1, 0)
      BY <2>1, <2>2, <2>3, <2>7 DEF ToPosition
    <3> QED
      BY <2>5, <2>6, <3>1, <3>2 DEF ToByteOffset, map
  <2>8. CASE f <= Len(s)
    <3>1. SpotOf(s, n, i) = Position(n - 1, MaxUnit(map, n - 1))
      BY <2>3, <2>4, <2>8 DEF SpotOf, f
    <3>2. ToPosition(Offset(s, i), map, s) = Position(n, 0)
      BY <2>1, <2>2, <2>3, <2>8 DEF ToPosition
    <3>3. NormalizePosition(Position(n, 0), map, s) = Position(n - 1, MaxUnit(map, n - 1))
      <4>1. [line |-> n, character |-> 0].line >= NumLines(map) /\ ~EndsWithEol(map)
        BY <2>2, <2>3, <2>8
      <4> QED
        BY <2>2, <4>1 DEF NormalizePosition, Position
    <3> QED
      BY <2>5, <3>1, <3>2, <3>3 DEF ToByteOffset, map
  <2> QED
    BY <2>2, <2>7, <2>8
<1> QED
  BY <1>1, <1>2

(* The positions of characters are in the order of the characters; a       *)
(* character that is not the first one of its line does not stand at 0.    *)
LEMMA PositionsOrdered ==
  ASSUME NEW C, NEW s \in Seq(C), NEW i \in 1..(Len(s) + 1), NEW j \in 1..(Len(s) + 1)
  PROVE  LET p == ToPosition(Offset(s, i), LineMapOf(s), s)
             q == ToPosition(Offset(s, j), LineMapOf(s), s)
         IN  /\ p \in [line : Nat, character : Nat]
             /\ i < j => Before(p, q)
<1> DEFINE map == LineMapOf(s)
           n == NumFirsts(s)
           f == FirstOf(s, n)
           at(x) == ToPosition(Offset(s, x), map, s)
           behind == Position(IF EndsWithEol(map) THEN n - 1 ELSE n, 0)
<1>1. /\ n \in Nat /\ n >= 1 /\ NumLines(map) = n /\ n \in 1..n
      /\ \A k \in 1..n : FirstOf(s, k) \in 1..(Len(s) + 1)
      /\ \A k, l \in 1..n : k < l <=> FirstOf(s, k) < FirstOf(s, l)
  BY FullTable
<1>2. (EndsWithEol(map) <=> f = Len(s) + 1) /\ f \in 1..(Len(s) + 1)
  BY <1>1, LastLine
<1>3. at(Len(s) + 1) = behind
  <2>1. Offset(s, Len(s) + 1) = Bytes(s) /\ Bytes(s) \in Nat
    BY OffsetEnds
  <2>2. Bytes(s) >= Bytes(s)
    BY <2>1
  <2> QED
    BY <1>1, <2>1, <2>2 DEF ToPosition
<1>4. ASSUME NEW x \in 1..Len(s)
      PROVE  \E k \in 1..n : InLine(s, x, k) /\ at(x) = SpotOf(s, k, x)
  <2>1. PICK k : InLine(s, x, k)
    BY LineExists
  <2> QED
    BY <2>1, PositionFound DEF InLine
<1>5. ASSUME NEW x \in 1..(Len(s) + 1), NEW k \in 1..n, InLine(s, x, k)
      PROVE  /\ SpotOf(s, k, x) \in [line : Nat, character : Nat]
             /\ SpotOf(s, k, x).line = k - 1
  <2>1. FirstOf(s, k) \in 1..(Len(s) + 1) /\ x - 1 \in (FirstOf(s, k) - 1)..Len(s)
    BY <1>1, <1>5 DEF InLine
  <2>2. Units(SubSeq(s, FirstOf(s, k), x - 1)) \in Nat
    BY <2>1, SliceTyped
  <2>3. k - 1 \in Nat
    BY <1>1
  <2> QED
    BY <2>2, <2>3 DEF SpotOf, Position
<1>6. ASSUME NEW x \in 1..(Len(s) + 1)
      PROVE  at(x) \in [line : Nat, character : Nat]
  <2>1. CASE x \in 1..Len(s)
    BY <2>1, <1>4, <1>5
  <2>2. CASE x = Len(s) + 1
    <3>1. n - 1 \in Nat /\ n \in Nat
      BY <1>1
    <3> QED
      BY <2>2, <1>3, <3>1 DEF Position
  <2> QED
    BY <2>1, <2>2
<1>7. ASSUME i < j
      PROVE  Before(at(i), at(j))
  <2>1. i \in 1..Len(s)
    BY <1>7
  <2>2. PICK k \in 1..n : InLine(s, i, k) /\ at(i) = SpotOf(s, k, i)
    BY <1>4, <2>1
  <2>3. SpotOf(s, k, i).line = k - 1 /\ FirstOf(s, k) <= i /\ FirstOf(s, k) \in 1..(Len(s) + 1)
    BY <1>1, <1>5, <2>1, <2>2 DEF InLine
  <2>4. CASE j \in 1..Len(s)
    <3>1. PICK l \in 1..n : InLine(s, j, l) /\ at(j) = SpotOf(s, l, j)
      BY <1>4, <2>4
    <3>2. SpotOf(s, l, j).line = l - 1 /\ FirstOf(s, l) \in 1..(Len(s) + 1)
      BY <1>1, <1>5, <2>4, <3>1
    <3>3. k <= l
      <4>1. ~(l < k)
        <5>1. SUFFICES ASSUME l < k PROVE FALSE
          OBVIOUS
        <5>2. FirstOf(s, k) > j
          BY <3>1, <5>1 DEF InLine
        <5> QED
          BY <1>7, <2>3, <5>2
      <4> QED
        BY <1>1, <4>1
    <3>4. CASE k < l
      BY <2>2, <2>3, <3>1, <3>2, <3>4 DEF Before
    <3>5. CASE k = l
      <4>1. i - 1 \in (FirstOf(s, k) - 1)..Len(s) /\ j - 1 \in (FirstOf(s, k) - 1)..Len(s) /\ i - 1 < j - 1
        BY <1>7, <2>3
      <4>2. Units(SubSeq(s, FirstOf(s, k), i - 1)) < Units(SubSeq(s, FirstOf(s, k), j - 1))
        BY <2>3, <4>1, UnitsGrow
      <4> QED
        BY <2>2, <3>1, <3>5, <4>2 DEF SpotOf, Position, Before
    <3> QED
      BY <1>1, <3>3, <3>4, <3>5
  <2>5. CASE j = Len(s) + 1
    <3>1. at(j) = behind
      BY <1>3, <2>5
    <3>2. k - 1 < behind.line
      <4>1. CASE EndsWithEol(map)
        <5>1. k # n
          BY <1>2, <2>1, <2>3, <4>1
        <5> QED
          BY <1>1, <4>1, <5>1 DEF Position
      <4>2. CASE ~EndsWithEol(map)
        BY <1>1, <4>2 DEF Position
      <4> QED
        BY <4>1, <4>2
    <3> QED
      BY <2>2, <2>3, <3>1, <3>2 DEF Before
  <2> QED
    BY <2>4, <2>5
<1> QED
  BY <1>6, <1>7

-----------------------------------------------------------------------------
(***************************************************************************)
(* Line breaks and the rest of a text from a character on.                 *)
(***************************************************************************)

(* Character i is the second one of a line break of two.                   *)
Torn(s, i) == i \in 2..Len(s) /\ s[i - 1] = "CR" /\ s[i] = "LF"

(* No line starts between the two characters of a line break.              *)
LEMMA FirstNotTorn ==
  ASSUME NEW C, NEW s \in Seq(C), NEW k \in 1..NumFirsts(s)
  PROVE  ~Torn(s, FirstOf(s, k))
<1> DEFINE f == FirstOf(s, k)
<1>1. /\ FirstsOf(s) = {1} \cup {Behind(s, j) : j \in Breaks(s)}
      /\ f \in FirstsOf(s) /\ f \in 1..(Len(s) + 1)
  BY FullTable
<1> HIDE DEF f
<1>2. SUFFICES ASSUME Torn(s, f) PROVE FALSE
  BY DEF f
<1>3. f \in 2..Len(s) /\ s[f - 1] = "CR" /\ s[f] = "LF"
  BY <1>2 DEF Torn
<1>4. PICK y \in Breaks(s) : f = Behind(s, y)
  BY <1>1, <1>3
<1>5. y \in DOMAIN s /\ y \in 1..Len(s)
  BY DEF Breaks
<1>6. CASE f = y + 1
  BY <1>3, <1>4, <1>5, <1>6 DEF Behind
<1>7. CASE f = y + 2
  <2>1. s[y] = "CR" /\ y < Len(s) /\ s[y + 1] = "LF"
    BY <1>4, <1>5, <1>7 DEF Behind
  <2>2. y + 1 = f - 1
    BY <1>5, <1>7
  <2> QED
    BY <1>3, <2>1, <2>2
<1> QED
  BY <1>4, <1>5, <1>6, <1>7, FirstsTyped

(* A later line starts behind a line break that ends this line or comes    *)
(* after it.                                                               *)
LEMMA LaterLine ==
  ASSUME NEW C, NEW s \in Seq(C), NEW k \in 1..NumFirsts(s), NEW l \in 1..NumFirsts(s), k < l
  PROVE  \E x \in Breaks(s) : /\ Behind(s, x) = FirstOf(s, l)
                              /\ x >= FirstOf(s, k) /\ x >= LineEnd(s, FirstOf(s, k))
                              /\ x < FirstOf(s, l)
<1> DEFINE f == FirstOf(s, k)
           g == FirstOf(s, l)
<1>1. /\ FirstsOf(s) = {1} \cup {Behind(s, j) : j \in Breaks(s)}
      /\ f \in 1..(Len(s) + 1) /\ g \in 1..(Len(s) + 1) /\ g \in FirstsOf(s)
      /\ f < g
  BY FullTable
<1>2. ~Torn(s, f)
  BY FirstNotTorn
<1> HIDE DEF f, g
<1>3. PICK x \in Breaks(s) : Behind(s, x) = g
  BY <1>1
<1>4. x \in DOMAIN s /\ x \in 1..Len(s) /\ Behind(s, x) \in {x + 1, x + 2}
  BY FirstsTyped DEF Breaks
<1>5. x >= f
  <2>1. SUFFICES ASSUME x < f PROVE FALSE
    BY <1>1, <1>4
  <2>2. g = x + 2 /\ f = x + 1
    BY <1>1, <1>3, <1>4, <2>1
  <2>3. s[x] = "CR" /\ x < Len(s) /\ s[x + 1] = "LF"
    BY <1>3, <1>4, <2>2 DEF Behind
  <2>4. f \in 2..Len(s) /\ f - 1 = x
    BY <1>4, <2>2, <2>3
  <2> QED
    BY <1>2, <2>2, <2>3, <2>4 DEF Torn
<1>6. x >= LineEnd(s, f)
  <2>1. LineEnd(s, f) <= x /\ LineEnd(s, f) \in f..(Len(s) + 1)
    BY <1>1, <1>5, LineEndOf
  <2> QED
    BY <1>1, <1>4, <2>1
<1>7. x < g
  BY <1>3, <1>4
<1> QED
  BY <1>3, <1>5, <1>6, <1>7 DEF f, g

(* The characters up to the end of a line are in this line.                *)
LEMMA UpToLineEnd ==
  ASSUME NEW C, NEW s \in Seq(C), NEW k \in 1..NumFirsts(s),
         NEW i \in FirstOf(s, k)..LineEnd(s, FirstOf(s, k))
  PROVE  /\ InLine(s, i, k) /\ i \in 1..(Len(s) + 1) /\ ~Torn(s, i)
         /\ \A j \in Breaks(s) : j >= FirstOf(s, k) /\ j < i => FALSE
<1> DEFINE f == FirstOf(s, k)
           b == LineEnd(s, f)
<1>1. f \in 1..(Len(s) + 1)
  BY FullTable
<1>2. b \in f..(Len(s) + 1) /\ \A j \in Breaks(s) : j >= f => b <= j
  BY <1>1, LineEndOf
<1>3. i \in 1..(Len(s) + 1) /\ f <= i /\ i <= b /\ i \in Int
  BY <1>1, <1>2
<1> HIDE DEF b
<1>4. ASSUME NEW l \in 1..NumFirsts(s), l > k
      PROVE  FirstOf(s, l) > i
  <2>1. NumFirsts(s) \in Nat /\ FirstOf(s, l) \in 1..(Len(s) + 1)
    BY FullTable
  <2>2. k < l
    BY <1>4, <2>1
  <2>3. \E x \in Breaks(s) : x >= b /\ x < FirstOf(s, l)
    BY <2>2, LaterLine DEF b
  <2>4. Breaks(s) \subseteq Int
    BY DEF Breaks
  <2> QED
    BY <1>2, <1>3, <2>1, <2>3, <2>4
<1>5. InLine(s, i, k)
  BY <1>3, <1>4 DEF InLine, f
<1>6. \A j \in Breaks(s) : j \in 1..Len(s)
  BY DEF Breaks
<1>7. \A j \in Breaks(s) : ~(j >= f /\ j < i)
  BY <1>1, <1>2, <1>3, <1>6
<1>8. ~Torn(s, i)
  <2>1. SUFFICES ASSUME Torn(s, i) PROVE FALSE
    OBVIOUS
  <2>2. i \in 2..Len(s) /\ s[i - 1] = "CR" /\ s[i] = "LF"
    BY <2>1 DEF Torn
  <2>3. i # f
    BY <2>1, FirstNotTorn DEF f
  <2>4. i - 1 >= f /\ i - 1 < i /\ i - 1 \in DOMAIN s
    BY <1>1, <1>3, <2>2, <2>3
  <2>5. i - 1 \in Breaks(s)
    BY <2>2, <2>4 DEF Breaks, IsBreak
  <2> QED
    BY <1>7, <2>4, <2>5
<1> QED
  BY <1>3, <1>5, <1>7, <1>8 DEF f

(* Numbers listed in ascending order, all those of a set up to a bound,    *)
(* are the first elements of the set in order.                             *)
LEMMA AscendingIs ==
  ASSUME NEW S \in SUBSET Nat, IsFiniteSet(S), NEW m \in Nat, NEW g \in [1..m -> Nat], NEW e \in Int,
         \A j \in 1..m : \A k \in 1..m : j < k => g[j] < g[k],
         \A k \in 1..m : g[k] \in S /\ g[k] <= e,
         \A x \in S : x <= e => \E k \in 1..m : g[k] = x
  PROVE  /\ m <= Cardinality(S)
         /\ \A k \in 1..m : Ascending(S)[k] = g[k]
         /\ \A k \in 1..Cardinality(S) : k > m => Ascending(S)[k] > e
<1> DEFINE n == Cardinality(S)
           A == Ascending(S)
           Bad == {k \in 1..m : k > n \/ A[k] # g[k]}
<1>1. /\ n \in Nat /\ A \in [1..n -> S]
      /\ \A j, k \in 1..n : j < k <=> A[j] < A[k]
      /\ \A x \in S : \E k \in 1..n : A[k] = x
  BY AscendingOf
<1>2. \A k \in 1..n : A[k] \in S /\ A[k] \in Nat
  BY <1>1
<1>3. \A k \in 1..m : g[k] \in Nat
  OBVIOUS
<1> HIDE DEF n, A
<1>4. ASSUME NEW k \in Bad, \A x \in Bad : ~(x < k)
      PROVE  FALSE
  <2>1. k \in 1..m /\ k \in Nat
    OBVIOUS
  <2>2. \A x \in 1..m : x < k => x <= n /\ A[x] = g[x]
    BY <1>1, <1>4
  <2>3. PICK p \in 1..n : A[p] = g[k]
    BY <1>1, <2>1
  <2>4. p >= k
    <3>1. SUFFICES ASSUME p < k PROVE FALSE
      BY <1>1, <2>1
    <3>2. p \in 1..m
      BY <1>1, <2>1, <3>1
    <3>3. A[p] = g[p] /\ g[p] < g[k]
      BY <2>1, <2>2, <3>1, <3>2
    <3> QED
      BY <1>3, <2>1, <2>3, <3>2, <3>3
  <2>5. k \in 1..n
    BY <1>1, <2>1, <2>4
  <2>6. A[k] <= g[k]
    <3>1. k = p \/ k < p
      BY <1>1, <2>1, <2>4
    <3>2. A[k] = A[p] \/ A[k] < A[p]
      BY <1>1, <2>5, <3>1
    <3> QED
      BY <1>2, <2>3, <2>5, <3>2
  <2>7. A[k] \in S /\ A[k] <= e
    <3>1. A[k] \in Nat /\ g[k] \in Nat /\ g[k] <= e /\ A[k] \in S
      BY <1>2, <1>3, <2>1, <2>5
    <3> QED
      BY <2>6, <3>1
  <2>8. PICK q \in 1..m : g[q] = A[k]
    BY <2>7
  <2>9. CASE q < k
    <3>1. q \in 1..n /\ A[q] = g[q] /\ A[q] < A[k]
      <4>1. q <= n /\ A[q] = g[q]
        BY <2>2, <2>9
      <4>2. q \in 1..n
        BY <1>1, <4>1
      <4> QED
        BY <1>1, <2>5, <2>9, <4>1, <4>2
    <3> QED
      BY <1>2, <2>5, <2>8, <3>1
  <2>10. CASE k < q
    <3>1. g[k] < g[q]
      BY <2>1, <2>10
    <3>2. g[k] \in Nat /\ g[q] \in Nat /\ A[k] \in Nat
      BY <1>2, <1>3, <2>1, <2>5
    <3> QED
      BY <2>6, <2>8, <3>1, <3>2
  <2>11. CASE q = k
    <3>1. A[k] = g[k] /\ ~(k > n)
      BY <1>1, <2>5, <2>8, <2>11
    <3> QED
      BY <3>1
  <2> QED
    BY <2>1, <2>9, <2>10, <2>11
<1>5. Bad = {}
  <2>1. Bad \in SUBSET Nat
    OBVIOUS
  <2>2. \A k \in Bad : \E x \in Bad : x < k
    BY <1>4
  <2> HIDE DEF Bad
  <2> QED
    BY <2>1, <2>2, NoneIsLeast
<1>6. \A k \in 1..m : k <= n /\ A[k] = g[k]
  <2> SUFFICES ASSUME NEW k \in 1..m
               PROVE  k <= n /\ A[k] = g[k]
    OBVIOUS
  <2>1. ~(k > n) /\ A[k] = g[k]
    BY <1>5
  <2> QED
    BY <1>1, <2>1
<1>7. m <= n
  <2>1. m = 0 \/ m \in 1..m
    OBVIOUS
  <2> QED
    BY <1>1, <1>6, <2>1
<1>8. ASSUME NEW k \in 1..n, k > m
      PROVE  A[k] > e
  <2>1. SUFFICES ASSUME A[k] <= e PROVE FALSE
    BY <1>2
  <2>2. PICK q \in 1..m : g[q] = A[k]
    BY <1>2, <2>1
  <2>3. q \in 1..n /\ q < k /\ A[q] = A[k]
    BY <1>1, <1>6, <1>7, <1>8, <2>2
  <2>4. A[q] < A[k]
    BY <1>1, <2>3
  <2> QED
    BY <1>2, <2>3, <2>4
<1> QED
  BY <1>6, <1>7, <1>8 DEF A, n

(* Two texts with the same first characters have the same line breaks      *)
(* there, if they do not go on within a line break.                        *)
LEMMA SameHeads ==
  ASSUME NEW C, NEW s \in Seq(C), NEW r \in Seq(C),
         NEW f \in 1..(Len(s) + 1), f <= Len(r) + 1,
         \A x \in 1..(f - 1) : r[x] = s[x], ~Torn(s, f), ~Torn(r, f)
  PROVE  \A x \in 1..(f - 1) : /\ x \in Breaks(r) <=> x \in Breaks(s)
                               /\ Behind(r, x) = Behind(s, x) /\ Behind(s, x) <= f
<1> SUFFICES ASSUME NEW x \in 1..(f - 1)
             PROVE  /\ x \in Breaks(r) <=> x \in Breaks(s)
                    /\ Behind(r, x) = Behind(s, x) /\ Behind(s, x) <= f
  OBVIOUS
<1>1. x \in DOMAIN s /\ x \in DOMAIN r /\ r[x] = s[x] /\ x \in Int
  OBVIOUS
<1>2. x # 1 => r[x - 1] = s[x - 1]
  OBVIOUS
<1>3. x \in Breaks(r) <=> x \in Breaks(s)
  BY <1>1, <1>2 DEF Breaks, IsBreak
<1>4. CASE x + 1 < f
  <2>1. x + 1 \in 1..(f - 1) /\ x < Len(s) /\ x < Len(r)
    BY <1>4
  <2> QED
    BY <1>1, <1>3, <1>4, <2>1 DEF Behind
<1>5. CASE x + 1 = f
  <2>1. ~(s[x] = "CR" /\ x < Len(s) /\ s[x + 1] = "LF")
    <3>1. SUFFICES ASSUME s[x] = "CR", x < Len(s), s[x + 1] = "LF" PROVE FALSE
      OBVIOUS
    <3>2. f \in 2..Len(s) /\ f - 1 = x /\ s[f - 1] = "CR" /\ s[f] = "LF"
      BY <1>5, <3>1
    <3> QED
      BY <3>2 DEF Torn
  <2>2. ~(r[x] = "CR" /\ x < Len(r) /\ r[x + 1] = "LF")
    <3>1. SUFFICES ASSUME r[x] = "CR", x < Len(r), r[x + 1] = "LF" PROVE FALSE
      OBVIOUS
    <3>2. f \in 2..Len(r) /\ f - 1 = x /\ r[f - 1] = "CR" /\ r[f] = "LF"
      BY <1>5, <3>1
    <3> QED
      BY <3>2 DEF Torn
  <2>3. Behind(s, x) = x + 1 /\ Behind(r, x) = x + 1
    BY <2>1, <2>2 DEF Behind
  <2> QED
    BY <1>3, <1>5, <2>3
<1> QED
  BY <1>1, <1>4, <1>5

(* The rest of a text from a character on that is not the second one of a  *)
(* line break has the line breaks of the text.                             *)
LEMMA TailBreaks ==
  ASSUME NEW C, NEW r \in Seq(C), NEW f \in 1..(Len(r) + 1), ~Torn(r, f)
  PROVE  LET t == SubSeq(r, f, Len(r))
         IN  /\ t \in Seq(C) /\ Len(t) = Len(r) - f + 1
             /\ \A x \in 1..Len(t) : /\ x \in Breaks(t) <=> x + (f - 1) \in Breaks(r)
                                     /\ Behind(r, x + (f - 1)) = Behind(t, x) + (f - 1)
<1> DEFINE t == SubSeq(r, f, Len(r))
<1>1. t \in Seq(C) /\ Len(t) = Len(r) - f + 1 /\ \A x \in 1..(Len(r) - f + 1) : t[x] = r[f + x - 1]
  <2>1. Len(r) \in (f - 1)..Len(r)
    OBVIOUS
  <2> QED
    BY <2>1, SliceOf
<1> HIDE DEF t
<1>2. ASSUME NEW x \in 1..Len(t)
      PROVE  /\ x \in Breaks(t) <=> x + (f - 1) \in Breaks(r)
             /\ Behind(r, x + (f - 1)) = Behind(t, x) + (f - 1)
  <2> DEFINE y == x + (f - 1)
  <2>1. y \in DOMAIN r /\ y \in Int /\ f + x - 1 = y /\ x \in DOMAIN t /\ t[x] = r[y] /\ y >= f
    BY <1>1
  <2>2. x # 1 => t[x - 1] = r[y - 1] /\ y # 1
    <3>1. SUFFICES ASSUME x # 1 PROVE t[x - 1] = r[y - 1] /\ y # 1
      OBVIOUS
    <3>2. x - 1 \in 1..(Len(r) - f + 1) /\ f + (x - 1) - 1 = y - 1
      BY <1>1, <3>1
    <3>3. t[x - 1] = r[f + (x - 1) - 1]
      BY <1>1, <3>2
    <3> QED
      BY <3>1, <3>2, <3>3
  <2>3. x < Len(t) <=> y < Len(r)
    BY <1>1
  <2>4. x < Len(t) => t[x + 1] = r[y + 1]
    <3>1. SUFFICES ASSUME x < Len(t) PROVE t[x + 1] = r[y + 1]
      OBVIOUS
    <3>2. x + 1 \in 1..(Len(r) - f + 1) /\ f + (x + 1) - 1 = y + 1
      BY <1>1, <3>1
    <3>3. t[x + 1] = r[f + (x + 1) - 1]
      BY <1>1, <3>2
    <3> QED
      BY <3>2, <3>3
  <2>5. x = 1 => y = f
    OBVIOUS
  <2>6. Behind(r, y) = Behind(t, x) + (f - 1)
    <3>1. CASE t[x] = "CR" /\ x < Len(t) /\ t[x + 1] = "LF"
      <4>1. Behind(t, x) = x + 2 /\ Behind(r, y) = y + 2
        BY <2>1, <2>3, <2>4, <3>1 DEF Behind
      <4> QED
        BY <4>1
    <3>2. CASE ~(t[x] = "CR" /\ x < Len(t) /\ t[x + 1] = "LF")
      <4>1. Behind(t, x) = x + 1 /\ Behind(r, y) = y + 1
        BY <2>1, <2>3, <2>4, <3>2 DEF Behind
      <4> QED
        BY <4>1
    <3> QED
      BY <3>1, <3>2
  <2> HIDE DEF y
  <2>7. CASE x # 1
    <3>1. IsBreak(t, x) <=> IsBreak(r, y)
      BY <2>1, <2>2, <2>7 DEF IsBreak
    <3> QED
      BY <2>1, <2>6, <3>1 DEF Breaks, y
  <2>8. CASE x = 1
    <3>1. y = 1 \/ ~(r[y - 1] = "CR" /\ r[y] = "LF")
      <4>1. y = 1 \/ y \in 2..Len(r)
        BY <2>1
      <4> QED
        BY <2>5, <2>8, <4>1 DEF Torn
    <3>2. IsBreak(t, x) <=> IsBreak(r, y)
      BY <2>1, <2>8, <3>1 DEF IsBreak
    <3> QED
      BY <2>1, <2>6, <3>2 DEF Breaks, y
  <2> QED
    BY <2>7, <2>8
<1> QED
  BY <1>1, <1>2 DEF t

(* The offsets of such a rest.                                             *)
LEMMA TailOffsets ==
  ASSUME NEW C, NEW r \in Seq(C), NEW f \in 1..(Len(r) + 1)
  PROVE  LET t == SubSeq(r, f, Len(r))
         IN  \A x \in 1..(Len(t) + 1) :
               /\ x + (f - 1) \in 1..(Len(r) + 1)
               /\ Offset(r, x + (f - 1)) = Offset(r, f) + Offset(t, x)
<1> DEFINE t == SubSeq(r, f, Len(r))
<1>1. t \in Seq(C) /\ Len(t) = Len(r) - f + 1
  <2>1. Len(r) \in (f - 1)..Len(r)
    OBVIOUS
  <2> QED
    BY <2>1, SliceOf
<1> SUFFICES ASSUME NEW x \in 1..(Len(t) + 1)
             PROVE  /\ x + (f - 1) \in 1..(Len(r) + 1)
                    /\ Offset(r, x + (f - 1)) = Offset(r, f) + Offset(t, x)
  BY DEF t
<1>2. x - 1 \in 0..(Len(r) - f + 1) /\ f + (x - 1) - 1 = (x + (f - 1)) - 1
      /\ x + (f - 1) \in f..(Len(r) + 1)
  BY <1>1
<1>3. Prefix(t, x - 1) = SubSeq(r, f, f + (x - 1) - 1)
  BY <1>2, PrefixOfSlice
<1>4. Offset(r, x + (f - 1)) = Offset(r, f) + Bytes(SubSeq(r, f, (x + (f - 1)) - 1))
  BY <1>2, OffsetSplit
<1>5. x + (f - 1) \in 1..(Len(r) + 1)
  BY <1>2
<1> HIDE DEF t
<1> QED
  BY <1>2, <1>3, <1>4, <1>5 DEF Offset

(* The lines of such a rest are as wide as they are in the text.           *)
LEMMA TailUnits ==
  ASSUME NEW C, NEW r \in Seq(C), NEW f \in 1..(Len(r) + 1), ~Torn(r, f)
  PROVE  LET t == SubSeq(r, f, Len(r))
         IN  \A x \in 1..(Len(t) + 1) : LineUnits(t, x) = LineUnits(r, x + (f - 1))
<1> DEFINE t == SubSeq(r, f, Len(r))
<1>1. /\ t \in Seq(C) /\ Len(t) = Len(r) - f + 1
      /\ \A x \in 1..Len(t) : x \in Breaks(t) <=> x + (f - 1) \in Breaks(r)
  BY TailBreaks
<1> SUFFICES ASSUME NEW x \in 1..(Len(t) + 1)
             PROVE  LineUnits(t, x) = LineUnits(r, x + (f - 1))
  BY DEF t
<1> DEFINE y == x + (f - 1)
           b == LineEnd(t, x)
           c == LineEnd(r, y)
<1>2. y \in 1..(Len(r) + 1) /\ y \in Int /\ (x > Len(t) <=> y > Len(r)) /\ y >= f
  BY <1>1
<1> HIDE DEF t
<1>3. b \in x..(Len(t) + 1) /\ (b <= Len(t) => b \in Breaks(t))
      /\ \A z \in Breaks(t) : z >= x => b <= z
  BY <1>1, LineEndOf
<1> HIDE DEF b, y
<1>4. c \in y..(Len(r) + 1) /\ (c <= Len(r) => c \in Breaks(r))
      /\ \A z \in Breaks(r) : z >= y => c <= z
  BY <1>2, LineEndOf
<1> HIDE DEF c
<1>5. c <= b + (f - 1)
  <2>1. CASE b > Len(t)
    BY <1>1, <1>2, <1>3, <1>4, <2>1
  <2>2. CASE b <= Len(t)
    <3>1. b \in 1..Len(t) /\ b \in Breaks(t)
      BY <1>1, <1>3, <2>2
    <3>2. b + (f - 1) \in Breaks(r) /\ b + (f - 1) >= y
      BY <1>1, <1>3, <3>1 DEF y
    <3> QED
      BY <1>4, <3>2
  <2> QED
    BY <1>1, <1>3, <2>1, <2>2
<1>6. b + (f - 1) <= c
  <2>1. CASE c > Len(r)
    BY <1>1, <1>2, <1>3, <1>4, <2>1
  <2>2. CASE c <= Len(r)
    <3> DEFINE z == c - (f - 1)
    <3>1. z \in 1..Len(t) /\ z + (f - 1) = c /\ z >= x
      BY <1>1, <1>2, <1>4, <2>2 DEF y
    <3>2. z \in Breaks(t)
      BY <1>1, <1>4, <2>2, <3>1
    <3>3. b <= z
      BY <1>3, <3>1, <3>2
    <3> QED
      BY <1>1, <1>3, <1>4, <3>3
  <2> QED
    BY <1>2, <1>4, <2>1, <2>2
<1>7. c = b + (f - 1) /\ b \in Int /\ c \in Int
  BY <1>1, <1>2, <1>3, <1>4, <1>5, <1>6
<1>8. CASE x > Len(t)
  BY <1>2, <1>8 DEF LineUnits, y
<1>9. CASE ~(x > Len(t))
  <2>1. SubSeq(t, x, b - 1) = SubSeq(r, y, c - 1)
    <3> DEFINE u == SubSeq(t, x, b - 1)
               v == SubSeq(r, y, c - 1)
    <3>1. b - 1 \in (x - 1)..Len(t) /\ c - 1 \in (y - 1)..Len(r)
      BY <1>1, <1>2, <1>3, <1>4
    <3>2. u \in Seq(C) /\ Len(u) = (b - 1) - x + 1
          /\ \A i \in 1..((b - 1) - x + 1) : u[i] = t[x + i - 1]
      BY <1>1, <3>1, SliceOf
    <3>3. v \in Seq(C) /\ Len(v) = (c - 1) - y + 1
          /\ \A i \in 1..((c - 1) - y + 1) : v[i] = r[y + i - 1]
      BY <1>2, <3>1, SliceOf
    <3>4. (c - 1) - y + 1 = (b - 1) - x + 1
      BY <1>7 DEF y
    <3>5. \A i \in 1..Len(t) : t[i] = r[f + i - 1]
      <4>1. Len(r) \in (f - 1)..Len(r) /\ Len(t) = Len(r) - f + 1
        BY <1>1
      <4> QED
        BY <4>1, SliceOf DEF t
    <3> HIDE DEF u, v
    <3>6. ASSUME NEW i \in 1..((b - 1) - x + 1)
          PROVE  u[i] = v[i]
      <4>1. x + i - 1 \in 1..Len(t) /\ f + (x + i - 1) - 1 = y + i - 1
        BY <1>1, <3>1 DEF y
      <4>2. u[i] = t[x + i - 1] /\ v[i] = r[y + i - 1]
        BY <3>2, <3>3, <3>4
      <4> QED
        BY <3>5, <4>1, <4>2
    <3>7. Len(v) = (b - 1) - x + 1 /\ v \in Seq(C)
      BY <3>3, <3>4
    <3>8. u = v
      BY <3>2, <3>6, <3>7
    <3> QED
      BY <3>8 DEF u, v
  <2> QED
    BY <1>2, <1>9, <2>1 DEF LineUnits, b, c, y
<1> QED
  BY <1>8, <1>9 DEF y

(* The lines that start later than a character start behind the line       *)
(* breaks of the rest of the text.                                         *)
LEMMA FirstsBehind ==
  ASSUME NEW C, NEW r \in Seq(C), NEW f \in 1..(Len(r) + 1), ~Torn(r, f), NEW g \in Int, g > f
  PROVE  g \in FirstsOf(r) <=>
           \E y \in Breaks(SubSeq(r, f, Len(r))) : g = Behind(SubSeq(r, f, Len(r)), y) + (f - 1)
<1> DEFINE t == SubSeq(r, f, Len(r))
<1>1. /\ t \in Seq(C) /\ Len(t) = Len(r) - f + 1
      /\ \A x \in 1..Len(t) : /\ x \in Breaks(t) <=> x + (f - 1) \in Breaks(r)
                              /\ Behind(r, x + (f - 1)) = Behind(t, x) + (f - 1)
  BY TailBreaks
<1>2. FirstsOf(r) = {1} \cup {Behind(r, x) : x \in Breaks(r)}
  BY FullTable
<1>3. \A y \in Breaks(t) : y \in 1..Len(t)
  BY <1>1 DEF Breaks
<1>4. \A x \in Breaks(r) : x \in 1..Len(r)
  BY DEF Breaks
<1> HIDE DEF t
<1>5. ASSUME NEW y \in Breaks(t), g = Behind(t, y) + (f - 1)
      PROVE  g \in FirstsOf(r)
  <2>1. y \in 1..Len(t) /\ y + (f - 1) \in Breaks(r)
    BY <1>1, <1>3
  <2>2. Behind(r, y + (f - 1)) = g
    BY <1>1, <1>5, <2>1
  <2> QED
    BY <1>2, <2>1, <2>2
<1>6. ASSUME g \in FirstsOf(r)
      PROVE  \E y \in Breaks(t) : g = Behind(t, y) + (f - 1)
  <2>1. PICK x \in Breaks(r) : g = Behind(r, x)
    BY <1>2, <1>6
  <2>2. x \in 1..Len(r)
    BY <1>4
  <2>3. x >= f
    <3>1. SUFFICES ASSUME x < f PROVE FALSE
      BY <2>2
    <3>2. x \in 1..(f - 1) /\ f <= Len(r) + 1
      BY <2>2, <3>1
    <3>3. \A z \in 1..(f - 1) : Behind(r, z) <= f
      BY <3>2, SameHeads
    <3>4. Behind(r, x) <= f
      BY <3>2, <3>3
    <3> QED
      BY <2>1, <3>4
  <2> DEFINE y == x - (f - 1)
  <2>4. y \in 1..Len(t) /\ y + (f - 1) = x
    BY <1>1, <2>2, <2>3
  <2> HIDE DEF y
  <2>5. y \in Breaks(t) /\ Behind(t, y) + (f - 1) = g
    BY <1>1, <2>1, <2>4
  <2> QED
    BY <2>5
<1> QED
  BY <1>5, <1>6 DEF t

(* The same, for the first characters of all lines.                        *)
LEMMA FirstsNotTorn ==
  ASSUME NEW C, NEW s \in Seq(C), NEW g \in FirstsOf(s)
  PROVE  ~Torn(s, g)
<1>1. \E k \in 1..NumFirsts(s) : FirstOf(s, k) = g
  BY FullTable
<1> QED
  BY <1>1, FirstNotTorn

-----------------------------------------------------------------------------
(***************************************************************************)
(* The positions of the editor are places between characters.              *)
(***************************************************************************)

(* The end of the text, in a line of its own.                              *)
EndSpot(s) == Position(NumFirsts(s), 0)

(* Position p is in front of character i of line k, or at the end of it.   *)
IsSpotOf(s, p, k, i) ==
  /\ k \in 1..NumFirsts(s) /\ i \in FirstOf(s, k)..LineEnd(s, FirstOf(s, k))
  /\ p = SpotOf(s, k, i)

(* A position of the editor is a spot, or lies behind the last line.       *)
LEMMA CharSpotsAre ==
  ASSUME NEW C, NEW s \in Seq(C), NEW p \in CharSpots(s)
  PROVE  p = EndSpot(s) \/ \E k, i : IsSpotOf(s, p, k, i)
<1> DEFINE map == LineMapOf(s)
           n == NumFirsts(s)
           width(l) == IF MaxUnit(map, l) = None THEN 0 ELSE MaxUnit(map, l)
<1>1. n \in Nat /\ NumLines(map) = n
  BY FullTable
<1>2. p \in Spots(s) /\ NormalizePosition(p, map, s).character = p.character
  BY DEF CharSpots
<1>3. p = EndSpot(s) \/ \E l \in 0..(n - 1) : \E c \in 0..width(l) : p = Position(l, c)
  BY <1>1, <1>2 DEF Spots, EndSpot
<1>4. ASSUME NEW l \in 0..(n - 1), NEW c \in 0..width(l), p = Position(l, c)
      PROVE  \E k, i : IsSpotOf(s, p, k, i)
  <2> DEFINE k == l + 1
             f == FirstOf(s, k)
             b == LineEnd(s, f)
             t == SubSeq(s, f, Len(s))
             len == Len(s) - f + 1
  <2>1. k \in 1..n /\ k - 1 = l
    BY <1>1
  <2>2. f \in 1..(Len(s) + 1) /\ Start(map, k - 1) = Offset(s, f)
        /\ MaxUnit(map, k - 1) = LineUnits(s, f)
    BY <2>1, FullTable
  <2>3. b \in f..(Len(s) + 1)
    BY <2>2, LineEndOf
  <2> HIDE DEF map, n, k, f, b
  <2>4. f \in f..b /\ b \in f..b /\ b - 1 \in (f - 1)..Len(s) /\ f - 1 \in (f - 1)..Len(s)
    BY <2>2, <2>3
  <2>5. Units(SubSeq(s, f, f - 1)) = 0 /\ Units(SubSeq(s, f, b - 1)) \in Nat
    BY <2>2, <2>4, SliceTyped
  <2>6. SpotOf(s, k, f) = Position(l, 0)
    BY <2>1, <2>5 DEF SpotOf, f
  <2>7. CASE c = 0
    BY <1>4, <2>1, <2>4, <2>6, <2>7 DEF IsSpotOf, f, b, n
  <2>8. CASE c # 0
    <3>1. width(l) # 0 /\ width(l) = MaxUnit(map, l) /\ MaxUnit(map, l) # None
      BY <2>8
    <3>2. ~(f > Len(s))
      BY <2>1, <2>2, <3>1 DEF LineUnits
    <3>3. width(l) = Units(SubSeq(s, f, b - 1))
      BY <2>1, <2>2, <3>1, <3>2 DEF LineUnits, b
    <3>4. CASE c = width(l)
      <4>1. SpotOf(s, k, b) = Position(l, c)
        BY <2>1, <3>3, <3>4 DEF SpotOf, f
      <4> QED
        BY <1>4, <2>1, <2>4, <4>1 DEF IsSpotOf, f, b, n
    <3>5. CASE c # width(l)
      <4>1. c \in 1..(width(l) - 1) /\ ~(c > width(l)) /\ width(l) \in Nat /\ c \in Nat
        BY <2>5, <2>8, <3>3, <3>5
      <4>2. From(s, Start(map, l)) = t
        BY <2>1, <2>2, FromAt
      <4> DEFINE m == FitUnits(t, c)
                 S == {x \in 0..Len(t) : Units(Prefix(t, x)) <= c}
      <4>3. ~([line |-> l, character |-> c].line >= NumLines(map))
        BY <1>1
      <4>4. NormalizePosition([line |-> l, character |-> c], map, s)
              = Position(l, Units(Prefix(t, m)))
        BY <3>1, <4>1, <4>2, <4>3 DEF NormalizePosition
      <4>5. Units(Prefix(t, m)) = c
        BY <1>2, <1>4, <4>4 DEF Position, map
      <4>6. Len(t) = len /\ len \in Nat
        BY <2>2, SliceOf
      <4>7. \A x \in 0..len : Prefix(t, x) = SubSeq(s, f, f + x - 1)
        BY <2>2, PrefixOfSlice
      <4>8. m \in 0..len
        <5>1. \A x \in 0..len : Units(Prefix(t, x)) \in Nat
          <6> SUFFICES ASSUME NEW x \in 0..len
                       PROVE  Units(Prefix(t, x)) \in Nat
            OBVIOUS
          <6>1. f + x - 1 \in (f - 1)..Len(s)
            BY <2>2
          <6> QED
            BY <2>2, <4>7, <6>1, SliceTyped
        <5>2. S \in SUBSET (0..len) /\ 0 \in S
          <6>1. 0 \in 0..len /\ f + 0 - 1 = f - 1
            BY <2>2, <4>6
          <6>2. Prefix(t, 0) = SubSeq(s, f, f - 1)
            BY <4>7, <6>1
          <6>3. 0 <= c
            BY <4>1
          <6> QED
            BY <2>5, <4>6, <6>1, <6>2, <6>3
        <5> HIDE DEF S
        <5>3. \E x \in S : \A y \in S : x >= y
          BY <4>6, <5>2, GreatestOf
        <5>4. Max(S) \in S
          BY <5>3 DEF Max
        <5> QED
          BY <5>2, <5>4 DEF FitUnits, S
      <4> HIDE DEF m, t
      <4> DEFINE i == f + m
      <4>9. i - 1 = f + m - 1 /\ i - 1 \in (f - 1)..Len(s) /\ i \in Int /\ f <= i
        BY <2>2, <4>8
      <4>10. Units(SubSeq(s, f, i - 1)) = c
        BY <4>5, <4>7, <4>8, <4>9
      <4>11. i - 1 < b - 1
        <5>1. Units(SubSeq(s, f, i - 1)) < Units(SubSeq(s, f, b - 1))
          BY <2>5, <3>3, <4>1, <4>10
        <5> QED
          BY <2>2, <2>4, <4>9, <5>1, UnitsGrow
      <4>12. i \in f..b
        BY <2>2, <2>3, <4>9, <4>11
      <4>13. SpotOf(s, k, i) = Position(l, c)
        BY <2>1, <4>10 DEF SpotOf, f
      <4> QED
        BY <1>4, <2>1, <4>12, <4>13 DEF IsSpotOf, f, b, n
    <3> QED
      BY <3>4, <3>5
  <2> QED
    BY <2>7, <2>8
<1> QED
  BY <1>3, <1>4

(* A normalized position p of the editor is the place of character i.      *)
Place(s, p, i) ==
  /\ i \in 1..(Len(s) + 1)
  /\ \/ \E k : IsSpotOf(s, p, k, i)
     \/ p = EndSpot(s) /\ i = Len(s) + 1 /\ EndsWithEol(LineMapOf(s))

(* The positions of the editor are in the order of their characters.       *)
LEMMA SpotsInOrder ==
  ASSUME NEW C, NEW s \in Seq(C), NEW p, NEW q, NEW k, NEW l, NEW i, NEW j,
         IsSpotOf(s, p, k, i), IsSpotOf(s, q, l, j), ~Before(q, p)
  PROVE  i <= j
<1> DEFINE n == NumFirsts(s)
<1>1. n \in Nat /\ \A m \in 1..n : FirstOf(s, m) \in 1..(Len(s) + 1)
  BY FullTable
<1>3. /\ k \in 1..n /\ l \in 1..n
      /\ i \in FirstOf(s, k)..LineEnd(s, FirstOf(s, k))
      /\ j \in FirstOf(s, l)..LineEnd(s, FirstOf(s, l))
      /\ p = SpotOf(s, k, i) /\ q = SpotOf(s, l, j)
  BY DEF IsSpotOf
<1> HIDE DEF n
<1>4. /\ i \in 1..(Len(s) + 1) /\ j \in 1..(Len(s) + 1) /\ i \in Int /\ j \in Int
  BY <1>3, UpToLineEnd DEF n
<1>5. k <= l
  <2>1. SUFFICES ASSUME l < k PROVE FALSE
    BY <1>1, <1>3
  <2>2. p.line = k - 1 /\ q.line = l - 1
    BY <1>3 DEF SpotOf, Position
  <2> QED
    BY <1>1, <1>3, <2>1, <2>2 DEF Before
<1>6. CASE k < l
  <2>1. \E x \in Breaks(s) : x >= LineEnd(s, FirstOf(s, k)) /\ x < FirstOf(s, l)
    BY <1>3, <1>6, LaterLine DEF n
  <2>2. Breaks(s) \subseteq Int
    BY DEF Breaks
  <2>3. FirstOf(s, l) \in Int /\ FirstOf(s, k) \in 1..(Len(s) + 1)
    BY <1>1, <1>3
  <2>4. LineEnd(s, FirstOf(s, k)) \in Int
    BY <2>3, LineEndOf
  <2> QED
    BY <1>3, <1>4, <2>1, <2>2, <2>3, <2>4
<1>7. CASE k = l
  <2> DEFINE f == FirstOf(s, k)
             u == Units(SubSeq(s, f, i - 1))
             v == Units(SubSeq(s, f, j - 1))
  <2>1. f \in 1..(Len(s) + 1) /\ f <= i /\ f <= j
    BY <1>1, <1>3, <1>4, <1>7
  <2>2. i - 1 \in (f - 1)..Len(s) /\ j - 1 \in (f - 1)..Len(s)
    BY <1>4, <2>1
  <2>3. u \in Nat /\ v \in Nat
    BY <2>1, <2>2, SliceTyped
  <2>4. p = [line |-> k - 1, character |-> u] /\ q = [line |-> k - 1, character |-> v]
    BY <1>3, <1>7 DEF SpotOf, Position
  <2>5. ~(v < u)
    BY <2>4 DEF Before
  <2>6. ~(j - 1 < i - 1)
    BY <2>1, <2>2, <2>5, UnitsGrow
  <2> QED
    BY <1>4, <2>6
<1> QED
  BY <1>1, <1>3, <1>5, <1>6, <1>7

(* A place is where the conversions of positions put it, in the line of    *)
(* its character; the end of the text in a line of its own has the number  *)
(* of lines for its line.                                                  *)
LEMMA PlaceOf ==
  ASSUME NEW C, NEW s \in Seq(C), NEW p, NEW i, Place(s, p, i)
  PROVE  LET map == LineMapOf(s)
         IN  /\ ByteOffsetAt(p, map, s) = Offset(s, i) /\ CanLocate(p, map, s)
             /\ i \in 1..(Len(s) + 1) /\ ~Torn(s, i)
             /\ \E k : /\ InLine(s, i, k)
                       /\ \A x \in Breaks(s) : x >= FirstOf(s, k) /\ x < i => FALSE
                       /\ \/ p.line = k - 1
                          \/ p.line = NumFirsts(s) /\ k = NumFirsts(s) /\ i = Len(s) + 1
<1> DEFINE map == LineMapOf(s)
           n == NumFirsts(s)
<1>1. n \in Nat /\ n >= 1 /\ NumLines(map) = n
  BY FullTable
<1>2. CASE \E k : IsSpotOf(s, p, k, i)
  <2>1. PICK k : IsSpotOf(s, p, k, i)
    BY <1>2
  <2>2. /\ k \in 1..n /\ i \in FirstOf(s, k)..LineEnd(s, FirstOf(s, k))
        /\ p = SpotOf(s, k, i)
    BY <2>1 DEF IsSpotOf
  <2>3. /\ InLine(s, i, k) /\ i \in 1..(Len(s) + 1) /\ ~Torn(s, i)
        /\ \A x \in Breaks(s) : x >= FirstOf(s, k) /\ x < i => FALSE
    BY <2>2, UpToLineEnd
  <2>4. FirstOf(s, k) \in 1..(Len(s) + 1)
    BY <2>2, FullTable
  <2>5. i \in FirstOf(s, k)..(Len(s) + 1)
    BY <2>2, <2>3, <2>4
  <2>6. ByteOffsetAt(p, map, s) = Offset(s, i) /\ CanLocate(p, map, s) /\ p.line = k - 1
    BY <2>2, <2>5, SpotPlaced
  <2> QED
    BY <2>3, <2>6
<1>3. CASE p = EndSpot(s) /\ i = Len(s) + 1 /\ EndsWithEol(LineMapOf(s))
  <2>1. p.line = n
    BY <1>3 DEF EndSpot, Position
  <2>2. ByteOffsetAt(p, map, s) = Bytes(s) /\ CanLocate(p, map, s)
    BY <1>1, <2>1 DEF ByteOffsetAt, CanLocate
  <2>3. Bytes(s) = Offset(s, i) /\ i \in 1..(Len(s) + 1)
    BY <1>3, OffsetEnds
  <2>4. ~Torn(s, i)
    BY <1>3 DEF Torn
  <2>5. InLine(s, i, n) /\ LineEnd(s, FirstOf(s, n)) = Len(s) + 1
    BY <1>3, LastLine
  <2>6. FirstOf(s, n) \in 1..(Len(s) + 1)
    BY <1>1, FullTable
  <2>7. \A x \in Breaks(s) : x >= FirstOf(s, n) => Len(s) + 1 <= x
    BY <2>5, <2>6, LineEndOf
  <2>8. \A x \in Breaks(s) : x >= FirstOf(s, n) /\ x < i => FALSE
    BY <1>3, <2>7 DEF Breaks
  <2> QED
    BY <1>3, <2>1, <2>2, <2>3, <2>4, <2>5, <2>8
<1> QED
  BY <1>2, <1>3 DEF Place

(* Every position of the editor is normalized to a place, with the same    *)
(* offset.                                                                 *)
LEMMA SpotsArePlaces ==
  ASSUME NEW C, NEW s \in Seq(C), NEW p \in CharSpots(s)
  PROVE  LET map == LineMapOf(s)
         IN  \E i : /\ Place(s, NormalizePosition(p, map, s), i)
                    /\ ByteOffsetAt(p, map, s) = Offset(s, i) /\ CanLocate(p, map, s)
                    /\ \/ NormalizePosition(p, map, s) = p
                       \/ p = EndSpot(s) /\ i = Len(s) + 1
<1> DEFINE map == LineMapOf(s)
           n == NumFirsts(s)
           f == FirstOf(s, n)
<1>1. n \in Nat /\ n >= 1 /\ NumLines(map) = n
  BY FullTable
<1>2. ASSUME NEW k, NEW i, IsSpotOf(s, p, k, i)
      PROVE  /\ Place(s, p, i) /\ NormalizePosition(p, map, s) = p
             /\ ByteOffsetAt(p, map, s) = Offset(s, i) /\ CanLocate(p, map, s)
  <2>1. /\ k \in 1..n /\ i \in FirstOf(s, k)..LineEnd(s, FirstOf(s, k))
        /\ p = SpotOf(s, k, i)
    BY <1>2 DEF IsSpotOf
  <2>2. i \in 1..(Len(s) + 1)
    BY <2>1, UpToLineEnd
  <2>3. Place(s, p, i)
    BY <1>2, <2>2 DEF Place
  <2>4. NormalizePosition(p, map, s) = p
    BY <2>1, SpotNormal
  <2>5. ByteOffsetAt(p, map, s) = Offset(s, i) /\ CanLocate(p, map, s)
    BY <2>3, PlaceOf
  <2> QED
    BY <2>3, <2>4, <2>5
<1>3. CASE p = EndSpot(s)
  <2> DEFINE i == Len(s) + 1
             q == NormalizePosition(p, map, s)
  <2>1. p.line = n /\ p = Position(n, 0) /\ p.line >= NumLines(map)
    BY <1>1, <1>3 DEF EndSpot, Position
  <2>2. q = IF EndsWithEol(map) THEN Position(n, 0) ELSE Position(n - 1, MaxUnit(map, n - 1))
    BY <1>1, <2>1 DEF NormalizePosition
  <2>3. ByteOffsetAt(p, map, s) = Offset(s, i) /\ CanLocate(p, map, s) /\ i \in 1..(Len(s) + 1)
    <3>1. ByteOffsetAt(p, map, s) = Bytes(s) /\ CanLocate(p, map, s)
      BY <2>1 DEF ByteOffsetAt, CanLocate
    <3>2. Bytes(s) = Offset(s, i)
      BY OffsetEnds
    <3> QED
      BY <3>1, <3>2
  <2>4. Place(s, q, i)
    <3>1. CASE EndsWithEol(map)
      BY <2>2, <2>3, <3>1 DEF Place, EndSpot
    <3>2. CASE ~EndsWithEol(map)
      <4>1. /\ n \in 1..n /\ f \in 1..(Len(s) + 1)
        BY <1>1, FullTable
      <4>2. /\ LineEnd(s, f) = i /\ (EndsWithEol(map) <=> f = Len(s) + 1)
            /\ f <= Len(s) => MaxUnit(map, n - 1) = Units(SubSeq(s, f, Len(s)))
        BY LastLine
      <4>3. f <= Len(s) /\ i - 1 = Len(s) /\ i \in f..i
        BY <3>2, <4>1, <4>2
      <4>4. q = SpotOf(s, n, i)
        BY <2>2, <3>2, <4>2, <4>3 DEF SpotOf
      <4>5. IsSpotOf(s, q, n, i)
        BY <4>1, <4>2, <4>3, <4>4 DEF IsSpotOf
      <4> QED
        BY <2>3, <4>5 DEF Place
    <3> QED
      BY <3>1, <3>2
  <2> QED
    BY <1>3, <2>3, <2>4
<1> QED
  BY <1>2, <1>3, CharSpotsAre

(* The range a change of the editor replaces, from character i up to       *)
(* character j, as the server finds it.                                    *)
RangeOf(s, a, b, i, j) ==
  LET map == LineMapOf(s)
      range == WellFormed(a, b, map, s)
  IN  /\ i \in 1..(Len(s) + 1) /\ j \in i..(Len(s) + 1)
      /\ Place(s, range.start, i) /\ Place(s, range.end, j) /\ ~Before(range.end, range.start)
      /\ ByteOffsetAt(a, map, s) = Offset(s, i) /\ CanLocate(a, map, s)
      /\ ByteOffsetAt(b, map, s) = Offset(s, j) /\ CanLocate(b, map, s)

(* A character has one position at which it is the place of an editor's    *)
(* cursor, and this is a pair of numbers.                                  *)
LEMMA SpotTyped ==
  ASSUME NEW C, NEW s \in Seq(C), NEW p, NEW k, NEW i, IsSpotOf(s, p, k, i)
  PROVE  p.character \in Int
<1>1. /\ k \in 1..NumFirsts(s) /\ i \in FirstOf(s, k)..LineEnd(s, FirstOf(s, k))
      /\ p = SpotOf(s, k, i)
  BY DEF IsSpotOf
<1>2. FirstOf(s, k) \in 1..(Len(s) + 1) /\ i \in 1..(Len(s) + 1)
  BY <1>1, FullTable, UpToLineEnd
<1>3. i \in FirstOf(s, k)..(Len(s) + 1)
  BY <1>1, <1>2
<1>4. SpotOf(s, k, i).character \in Nat
  BY <1>1, <1>3, SpotPlaced
<1> QED
  BY <1>1, <1>4

(* The spots of one character are in one line.                             *)
LEMMA SpotUnique ==
  ASSUME NEW C, NEW s \in Seq(C), NEW p, NEW q, NEW k, NEW l, NEW i,
         IsSpotOf(s, p, k, i), IsSpotOf(s, q, l, i)
  PROVE  k = l
<1>1. NumFirsts(s) \in Nat
  BY FullTable
<1>2. InLine(s, i, k) /\ InLine(s, i, l) /\ i \in 1..(Len(s) + 1)
  BY UpToLineEnd DEF IsSpotOf
<1>3. k \in 1..NumFirsts(s) /\ l \in 1..NumFirsts(s)
  BY <1>2 DEF InLine
<1>4. FirstOf(s, k) \in Int /\ FirstOf(s, l) \in Int
  BY <1>3, FullTable
<1> QED
  BY <1>1, <1>2, <1>3, <1>4 DEF InLine

(* The range of a change of the editor lies between two characters.        *)
LEMMA RangeFound ==
  ASSUME NEW C, NEW s \in Seq(C), NEW a \in CharSpots(s), NEW b \in CharSpots(s), ~Before(b, a)
  PROVE  \E i, j : RangeOf(s, a, b, i, j)
<1> DEFINE map == LineMapOf(s)
           n == NumFirsts(s)
           p == NormalizePosition(a, map, s)
           q == NormalizePosition(b, map, s)
<1>1. n \in Nat /\ n >= 1
  BY FullTable
<1>2. PICK i : /\ Place(s, p, i) /\ ByteOffsetAt(a, map, s) = Offset(s, i) /\ CanLocate(a, map, s)
               /\ p = a \/ (a = EndSpot(s) /\ i = Len(s) + 1)
  BY SpotsArePlaces
<1>3. PICK j : /\ Place(s, q, j) /\ ByteOffsetAt(b, map, s) = Offset(s, j) /\ CanLocate(b, map, s)
               /\ q = b \/ (b = EndSpot(s) /\ j = Len(s) + 1)
  BY SpotsArePlaces
<1>4. i \in 1..(Len(s) + 1) /\ j \in 1..(Len(s) + 1)
  BY <1>2, <1>3 DEF Place
<1>5. WellFormed(a, b, map, s)
        = IF Before(q, p) THEN [start |-> q, end |-> p] ELSE [start |-> p, end |-> q]
  BY DEF WellFormed
<1>6. ASSUME NEW x, NEW k, NEW y, IsSpotOf(s, x, k, y)
      PROVE  x.line \in 0..(n - 1) /\ x.line \in Int
  <2>1. k \in 1..n /\ x = SpotOf(s, k, y)
    BY <1>6 DEF IsSpotOf
  <2>2. x.line = k - 1
    BY <2>1 DEF SpotOf, Position
  <2> QED
    BY <1>1, <2>1, <2>2
<1> HIDE DEF map, n, p, q
\* Two places that are spots.
<1>7. ASSUME NEW k, NEW l, IsSpotOf(s, p, k, i), IsSpotOf(s, q, l, j), i <= j
      PROVE  ~Before(q, p)
  <2>1. SUFFICES ASSUME Before(q, p) PROVE FALSE
    OBVIOUS
  <2>2. p.line \in Int /\ q.line \in Int
    BY <1>6, <1>7
  <2>3. p.character \in Int /\ q.character \in Int
    BY <1>7, SpotTyped
  <2>4. ~Before(p, q)
    BY <2>1, <2>2, <2>3 DEF Before
  <2>5. j <= i
    BY <1>7, <2>4, SpotsInOrder
  <2>6. i = j
    BY <1>4, <1>7, <2>5
  <2>7. k = l
    BY <1>7, <2>6, SpotUnique
  <2>8. p = q
    BY <1>7, <2>6, <2>7 DEF IsSpotOf
  <2> QED
    BY <2>1, <2>2, <2>3, <2>8 DEF Before
<1>8. i <= j /\ ~Before(q, p)
  <2>1. CASE p = EndSpot(s) /\ i = Len(s) + 1 /\ EndsWithEol(LineMapOf(s))
    <3>1. a = EndSpot(s)
      BY <1>2, <2>1
    <3>2. b = EndSpot(s)
      <4>1. SUFFICES ASSUME b # EndSpot(s) PROVE FALSE
        OBVIOUS
      <4>2. \E k, y : IsSpotOf(s, b, k, y)
        BY <4>1, CharSpotsAre
      <4>3. b.line \in 0..(n - 1)
        BY <1>6, <4>2
      <4>4. a.line = n
        BY <3>1 DEF EndSpot, Position, n
      <4> QED
        BY <1>1, <4>3, <4>4 DEF Before
    <3>3. q = p
      BY <3>1, <3>2 DEF p, q
    <3>4. j = Len(s) + 1
      <4>1. q = EndSpot(s) /\ ~(\E k : IsSpotOf(s, q, k, j))
        <5>1. q.line = n
          BY <2>1, <3>3 DEF EndSpot, Position, n
        <5> QED
          BY <1>1, <1>6, <2>1, <3>3, <5>1
      <4> QED
        BY <1>3, <4>1 DEF Place
    <3>5. ~Before(q, p)
      <4>1. p.line = n /\ q.line = n /\ p.character = 0 /\ q.character = 0
        BY <2>1, <3>3 DEF EndSpot, Position, n
      <4> QED
        BY <1>1, <4>1 DEF Before
    <3> QED
      BY <1>4, <2>1, <3>4, <3>5
  <2>2. CASE \E k : IsSpotOf(s, p, k, i)
    <3>1. PICK k : IsSpotOf(s, p, k, i)
      BY <2>2
    <3>2. CASE q = EndSpot(s) /\ j = Len(s) + 1 /\ EndsWithEol(LineMapOf(s))
      <4>1. q.line = n /\ p.line \in 0..(n - 1)
        BY <1>6, <3>1, <3>2 DEF EndSpot, Position, n
      <4> QED
        BY <1>1, <1>4, <3>2, <4>1 DEF Before
    <3>3. CASE \E l : IsSpotOf(s, q, l, j)
      <4>1. PICK l : IsSpotOf(s, q, l, j)
        BY <3>3
      <4>2. i <= j
        <5>1. CASE b = EndSpot(s) /\ j = Len(s) + 1
          BY <1>4, <5>1
        <5>2. CASE q = b /\ b # EndSpot(s)
          <6>1. a # EndSpot(s)
            <7>1. SUFFICES ASSUME a = EndSpot(s) PROVE FALSE
              OBVIOUS
            <7>2. a.line = n /\ b.line \in 0..(n - 1)
              BY <1>6, <4>1, <5>2, <7>1 DEF EndSpot, Position, n
            <7> QED
              BY <1>1, <7>2 DEF Before
          <6>2. p = a
            BY <1>2, <6>1
          <6> QED
            BY <3>1, <4>1, <5>2, <6>2, SpotsInOrder
        <5>3. CASE q = b /\ b = EndSpot(s)
          <6>1. q.line = n /\ q.line \in 0..(n - 1)
            BY <1>6, <4>1, <5>3 DEF EndSpot, Position, n
          <6> QED
            BY <1>1, <6>1
        <5> QED
          BY <1>3, <5>1, <5>2, <5>3
      <4> QED
        BY <1>7, <3>1, <4>1, <4>2
    <3> QED
      BY <1>3, <3>2, <3>3 DEF Place
  <2> QED
    BY <1>2, <2>1, <2>2 DEF Place
<1>9. WellFormed(a, b, map, s).start = p /\ WellFormed(a, b, map, s).end = q
  BY <1>5, <1>8
<1>10. j \in i..(Len(s) + 1)
  BY <1>4, <1>8
<1> QED
  BY <1>2, <1>3, <1>4, <1>8, <1>9, <1>10 DEF RangeOf, map

(* Such a change can be applied.                                           *)
LEMMA RangeApplies ==
  ASSUME NEW C, NEW s \in Seq(C), NEW a, NEW b, NEW i, NEW j, RangeOf(s, a, b, i, j)
  PROVE  LET map == LineMapOf(s)
             range == WellFormed(a, b, map, s)
         IN  /\ ByteOffsetAt(range.start, map, s) = Offset(s, i)
             /\ ByteOffsetAt(range.end, map, s) = Offset(s, j)
             /\ Applicable(a, b, map, s)
<1> DEFINE map == LineMapOf(s)
           range == WellFormed(a, b, map, s)
<1>1. /\ i \in 1..(Len(s) + 1) /\ j \in i..(Len(s) + 1)
      /\ Place(s, range.start, i) /\ Place(s, range.end, j)
      /\ CanLocate(a, map, s) /\ CanLocate(b, map, s)
  BY DEF RangeOf
<1> HIDE DEF range, map
<1>2. j \in 1..(Len(s) + 1) /\ ~(j < i)
  BY <1>1
<1>3. /\ ByteOffsetAt(range.start, map, s) = Offset(s, i) /\ CanLocate(range.start, map, s)
      /\ ByteOffsetAt(range.end, map, s) = Offset(s, j) /\ CanLocate(range.end, map, s)
  BY <1>1, PlaceOf DEF map
<1>4. Offset(s, i) <= Offset(s, j)
  BY <1>1, <1>2, OffsetsGrow
<1>5. IsBorder(s, Offset(s, i)) /\ IsBorder(s, Offset(s, j))
  BY <1>1, <1>2 DEF IsBorder
<1>6. Applicable(a, b, map, s)
  BY <1>1, <1>3, <1>4, <1>5 DEF Applicable, range
<1> QED
  BY <1>3, <1>6 DEF range, map

-----------------------------------------------------------------------------
(***************************************************************************)
(* The new text of a change.                                               *)
(***************************************************************************)

(* The text s with the characters from i up to j replaced.                 *)
Spliced(s, i, j, new) == SubSeq(s, 1, i - 1) \o new \o SubSeq(s, j, Len(s))

(* The characters of s from a to b are in r, moved by d.                   *)
Moved(r, s, a, b, d) == \A x \in a..b : r[x + d] = s[x]

(* Two sequences in a row.                                                 *)
LEMMA ConcatParts ==
  ASSUME NEW C, NEW p \in Seq(C), NEW q \in Seq(C)
  PROVE  /\ p \o q \in Seq(C) /\ Len(p \o q) = Len(p) + Len(q)
         /\ \A x \in 1..Len(p) : (p \o q)[x] = p[x]
         /\ Moved(p \o q, q, 1, Len(q), Len(p))
<1>1. \A x \in 1..Len(q) : Len(p) + x = x + Len(p)
  OBVIOUS
<1>2. \A x \in 1..Len(q) : (p \o q)[Len(p) + x] = q[x]
  OBVIOUS
<1>3. Moved(p \o q, q, 1, Len(q), Len(p))
  BY <1>1, <1>2 DEF Moved
<1> QED
  BY <1>3

(* The length and the characters of the new text of a change.              *)
LEMMA SplicedOf ==
  ASSUME NEW C, NEW s \in Seq(C), NEW new \in Seq(C),
         NEW i \in 1..(Len(s) + 1), NEW j \in 1..(Len(s) + 1)
  PROVE  LET r == Spliced(s, i, j, new)
             e == i + Len(new)
         IN  /\ r \in Seq(C) /\ Len(r) = (e - 1) + (Len(s) - j + 1)
             /\ \A x \in 1..(i - 1) : r[x] = s[x]
             /\ Moved(r, new, 1, Len(new), i - 1)
             /\ Moved(r, s, j, Len(s), e - j)
<1> DEFINE p == SubSeq(s, 1, i - 1)
           q == SubSeq(s, j, Len(s))
           m == p \o new
           r == m \o q
           e == i + Len(new)
<1>1. p \in Seq(C) /\ Len(p) = i - 1 /\ \A x \in 1..(i - 1) : p[x] = s[x]
  <2>1. 1 \in 1..(Len(s) + 1) /\ i - 1 \in (1 - 1)..Len(s) /\ (i - 1) - 1 + 1 = i - 1
    OBVIOUS
  <2>2. p \in Seq(C) /\ Len(p) = i - 1 /\ \A x \in 1..(i - 1) : p[x] = s[1 + x - 1]
    BY <2>1, SliceOf
  <2> HIDE DEF p
  <2> QED
    BY <2>2
<1>2. q \in Seq(C) /\ Len(q) = Len(s) - j + 1 /\ \A x \in 1..(Len(s) - j + 1) : q[x] = s[j + x - 1]
  <2>1. Len(s) \in (j - 1)..Len(s)
    OBVIOUS
  <2> QED
    BY <2>1, SliceOf
<1> HIDE DEF p, q
<1>3. /\ m \in Seq(C) /\ Len(m) = e - 1
      /\ \A x \in 1..(i - 1) : m[x] = p[x]
      /\ \A x \in 1..Len(new) : m[i - 1 + x] = new[x]
  BY <1>1
<1>4. Len(new) \in Nat
  OBVIOUS
<1> HIDE DEF m
<1>5. /\ r \in Seq(C) /\ Len(r) = (e - 1) + (Len(s) - j + 1)
      /\ \A x \in 1..(e - 1) : r[x] = m[x]
      /\ \A x \in 1..(Len(s) - j + 1) : r[e - 1 + x] = q[x]
  <2>1. e - 1 \in Int /\ Len(s) - j + 1 \in Int
    BY <1>4
  <2> HIDE DEF e
  <2>2. m \in Seq(C) /\ q \in Seq(C) /\ Len(m) = e - 1 /\ Len(q) = Len(s) - j + 1
    BY <1>2, <1>3
  <2>3. /\ r \in Seq(C) /\ Len(r) = Len(m) + Len(q)
        /\ \A x \in 1..Len(m) : r[x] = m[x]
        /\ Moved(r, q, 1, Len(q), Len(m))
    BY <2>2, ConcatParts
  <2>4. \A x \in 1..(Len(s) - j + 1) : r[e - 1 + x] = q[x]
    <3> HIDE DEF r
    <3>1. \A x \in 1..Len(q) : r[x + Len(m)] = q[x]
      BY <2>3 DEF Moved
    <3>2. \A x \in 1..Len(q) : x + Len(m) = e - 1 + x
      BY <2>1, <2>2
    <3> QED
      BY <2>2, <3>1, <3>2
  <2> QED
    BY <2>2, <2>3, <2>4
<1> HIDE DEF r
<1>6. \A x \in 1..(i - 1) : r[x] = s[x]
  BY <1>1, <1>3, <1>4, <1>5
<1>7. Moved(r, new, 1, Len(new), i - 1)
  <2> SUFFICES ASSUME NEW x \in 1..Len(new)
               PROVE  r[x + (i - 1)] = new[x]
    BY DEF Moved
  <2>1. x + (i - 1) = i - 1 + x /\ i - 1 + x \in 1..(e - 1)
    BY <1>4
  <2> QED
    BY <1>3, <1>4, <1>5, <2>1
<1>8. ASSUME NEW x \in j..Len(s)
      PROVE  r[x + (e - j)] = s[x]
  <2> DEFINE y == x - j + 1
  <2>1. y \in 1..(Len(s) - j + 1) /\ e - 1 + y = x + (e - j) /\ j + y - 1 = x
    BY <1>4
  <2> HIDE DEF y
  <2>2. r[e - 1 + y] = q[y] /\ q[y] = s[j + y - 1]
    BY <1>2, <1>5, <2>1
  <2> QED
    BY <2>1, <2>2
<1> QED
  BY <1>5, <1>6, <1>7, <1>8 DEF Spliced, Moved, r, m, p, q

(* The change of a text by offsets is the one by characters.               *)
LEMMA ReplaceIs ==
  ASSUME NEW C, NEW s \in Seq(C), NEW new,
         NEW i \in 1..(Len(s) + 1), NEW j \in 1..(Len(s) + 1)
  PROVE  Replace(s, Offset(s, i), Offset(s, j), new) = Spliced(s, i, j, new)
<1> DEFINE at(o) == CHOOSE x \in 1..(Len(s) + 1) : Offset(s, x) = o
<1>1. ASSUME NEW x \in 1..(Len(s) + 1)
      PROVE  at(Offset(s, x)) = x
  <2>1. at(Offset(s, x)) \in 1..(Len(s) + 1) /\ Offset(s, at(Offset(s, x))) = Offset(s, x)
    OBVIOUS
  <2> HIDE DEF at
  <2> QED
    BY <2>1, OffsetsGrow
<1>2. Replace(s, Offset(s, i), Offset(s, j), new)
        = SubSeq(s, 1, at(Offset(s, i)) - 1) \o new \o SubSeq(s, at(Offset(s, j)), Len(s))
  BY DEF Replace
<1> HIDE DEF at
<1> QED
  BY <1>1, <1>2 DEF Spliced

(* Offsets in a changed text.                                              *)
LEMMA SplicedOffsets ==
  ASSUME NEW C, NEW s \in Seq(C), NEW new \in Seq(C),
         NEW i \in 1..(Len(s) + 1), NEW j \in i..(Len(s) + 1)
  PROVE  LET r == Spliced(s, i, j, new)
             e == i + Len(new)
         IN  /\ e \in 1..(Len(r) + 1)
             /\ \A x \in 1..i : Offset(r, x) = Offset(s, x)
             /\ Offset(r, e) = Offset(s, i) + Bytes(new)
             /\ \A x \in j..(Len(s) + 1) :
                  Offset(r, x + (e - j)) = Offset(s, x) + (Offset(r, e) - Offset(s, j))
             /\ \A x \in j..(Len(s) + 1) :
                  SubSeq(r, x + (e - j), Len(r)) = SubSeq(s, x, Len(s))
<1> DEFINE r == Spliced(s, i, j, new)
           e == i + Len(new)
<1>1. /\ r \in Seq(C) /\ Len(r) = (e - 1) + (Len(s) - j + 1)
      /\ \A x \in 1..(i - 1) : r[x] = s[x]
      /\ \A x \in 1..Len(new) : r[x + (i - 1)] = new[x]
      /\ \A x \in j..Len(s) : r[x + (e - j)] = s[x]
  <2>1. j \in 1..(Len(s) + 1)
    OBVIOUS
  <2>2. /\ r \in Seq(C) /\ Len(r) = (e - 1) + (Len(s) - j + 1)
        /\ \A x \in 1..(i - 1) : r[x] = s[x]
        /\ Moved(r, new, 1, Len(new), i - 1)
        /\ Moved(r, s, j, Len(s), e - j)
    BY <2>1, SplicedOf
  <2> QED
    BY <2>2 DEF Moved
<1> DEFINE len == Len(new)
<1> HIDE DEF r
<1>2. len \in Nat /\ e = i + len /\ e \in 1..(Len(r) + 1)
  BY <1>1
<1> HIDE DEF e, len
<1>3. ASSUME NEW a \in 1..(Len(r) + 1), NEW b \in (a - 1)..Len(r), NEW d \in Int, NEW t \in Seq(C),
             a + d \in 1..(Len(t) + 1), b + d <= Len(t),
             \A x \in a..b : r[x] = t[x + d]
      PROVE  SubSeq(r, a, b) = SubSeq(t, a + d, b + d)
  <2> DEFINE u == SubSeq(r, a, b)
             v == SubSeq(t, a + d, b + d)
  <2>1. u \in Seq(C) /\ Len(u) = b - a + 1 /\ \A x \in 1..(b - a + 1) : u[x] = r[a + x - 1]
    BY <1>1, SliceOf
  <2>2. b + d \in ((a + d) - 1)..Len(t)
    BY <1>1, <1>3
  <2>3. v \in Seq(C) /\ Len(v) = (b + d) - (a + d) + 1
        /\ \A x \in 1..((b + d) - (a + d) + 1) : v[x] = t[(a + d) + x - 1]
    BY <1>3, <2>2, SliceOf
  <2>4. (b + d) - (a + d) + 1 = b - a + 1
    BY <1>1
  <2> HIDE DEF u, v
  <2>5. ASSUME NEW x \in 1..(b - a + 1)
        PROVE  u[x] = v[x]
    <3>1. a + x - 1 \in a..b /\ (a + x - 1) + d = (a + d) + x - 1
      BY <1>1
    <3> QED
      BY <1>3, <2>1, <2>3, <2>4, <3>1
  <2>6. Len(v) = b - a + 1 /\ v \in Seq(C)
    BY <2>3, <2>4
  <2>7. u = v
    BY <2>1, <2>5, <2>6
  <2> QED
    BY <2>7 DEF u, v
<1>4. ASSUME NEW x \in 1..i
      PROVE  Offset(r, x) = Offset(s, x)
  <2>1. 1 \in 1..(Len(r) + 1) /\ x - 1 \in (1 - 1)..Len(r) /\ 1 + 0 \in 1..(Len(s) + 1)
        /\ (x - 1) + 0 <= Len(s) /\ (x - 1) + 0 = x - 1 /\ 1 + 0 = 1 /\ 0 \in Int
    BY <1>1, <1>2
  <2>2. \A y \in 1..(x - 1) : r[y] = s[y + 0]
    BY <1>1
  <2>3. SubSeq(r, 1, x - 1) = SubSeq(s, 1 + 0, (x - 1) + 0)
    BY <1>3, <2>1, <2>2
  <2> QED
    BY <2>1, <2>3 DEF Offset, Prefix
<1>5. Offset(r, e) = Offset(s, i) + Bytes(new)
  <2>1. i \in 1..(Len(r) + 1) /\ e \in i..(Len(r) + 1) /\ e - 1 \in (i - 1)..Len(r)
        /\ i + (1 - i) = 1 /\ (e - 1) + (1 - i) = len /\ 1 - i \in Int
    BY <1>1, <1>2
  <2>2. Offset(r, e) = Offset(r, i) + Bytes(SubSeq(r, i, e - 1))
    BY <1>1, <2>1, OffsetSplit
  <2>3. \A y \in i..(e - 1) : r[y] = new[y + (1 - i)]
    <3> SUFFICES ASSUME NEW y \in i..(e - 1)
                 PROVE  r[y] = new[y + (1 - i)]
      OBVIOUS
    <3>1. y + (1 - i) \in 1..len /\ (y + (1 - i)) + (i - 1) = y
      BY <1>2
    <3> QED
      BY <1>1, <3>1 DEF len
  <2>4. i + (1 - i) \in 1..(Len(new) + 1) /\ (e - 1) + (1 - i) <= Len(new)
    BY <1>2, <2>1 DEF len
  <2>5. SubSeq(r, i, e - 1) = SubSeq(new, i + (1 - i), (e - 1) + (1 - i))
    BY <1>3, <2>1, <2>3, <2>4
  <2>6. SubSeq(r, i, e - 1) = new
    <3>1. SubSeq(new, 1, Len(new)) = new
      BY SubSeqFull
    <3> QED
      BY <2>1, <2>5, <3>1 DEF len
  <2>7. i \in 1..i
    OBVIOUS
  <2> QED
    BY <1>4, <2>2, <2>6, <2>7
<1>6. ASSUME NEW x \in j..(Len(s) + 1)
      PROVE  /\ Offset(r, x + (e - j)) = Offset(s, x) + (Offset(r, e) - Offset(s, j))
             /\ SubSeq(r, x + (e - j), Len(r)) = SubSeq(s, x, Len(s))
  <2> DEFINE d == j - e
             y == x + (e - j)
  <2>1. /\ d \in Int /\ y \in Int /\ y + d = x /\ e + d = j /\ y \in e..(Len(r) + 1)
        /\ Len(r) + d = Len(s) /\ (y - 1) + d = x - 1
    BY <1>1, <1>2
  <2>2. \A z \in e..Len(r) : r[z] = s[z + d]
    <3> SUFFICES ASSUME NEW z \in e..Len(r)
                 PROVE  r[z] = s[z + d]
      OBVIOUS
    <3>1. z \in Int /\ z >= e /\ z <= Len(r) /\ Len(r) \in Int /\ e \in Int /\ Len(s) \in Int
      BY <1>1, <1>2
    <3>2. z + d >= j /\ z + d <= Len(r) + d /\ z + d \in Int /\ (z + d) + (e - j) = z
      BY <2>1, <3>1
    <3>3. z + d \in j..Len(s)
      BY <2>1, <3>1, <3>2
    <3> QED
      BY <1>1, <3>2, <3>3
  <2> HIDE DEF d, y
  <2>3. /\ y \in 1..(Len(r) + 1) /\ Len(r) \in (y - 1)..Len(r)
        /\ y + d \in 1..(Len(s) + 1) /\ Len(r) + d <= Len(s)
        /\ y - 1 \in (e - 1)..Len(r) /\ e + d \in 1..(Len(s) + 1) /\ (y - 1) + d <= Len(s)
    BY <1>1, <1>2, <2>1
  <2>4. (\A z \in y..Len(r) : r[z] = s[z + d]) /\ (\A z \in e..(y - 1) : r[z] = s[z + d])
    BY <1>2, <2>1, <2>2
  <2>5. SubSeq(r, y, Len(r)) = SubSeq(s, y + d, Len(r) + d)
    BY <1>3, <2>1, <2>3, <2>4
  <2>6. SubSeq(r, e, y - 1) = SubSeq(s, e + d, (y - 1) + d)
    BY <1>2, <1>3, <2>1, <2>3, <2>4
  <2>7. Offset(r, y) = Offset(r, e) + Bytes(SubSeq(r, e, y - 1)) /\ Offset(r, e) \in Nat
    BY <1>1, <1>2, <2>1, OffsetSplit
  <2>8. j \in 1..(Len(s) + 1) /\ x \in j..(Len(s) + 1) /\ x - 1 \in (j - 1)..Len(s)
    OBVIOUS
  <2>9. Offset(s, x) = Offset(s, j) + Bytes(SubSeq(s, j, x - 1)) /\ Offset(s, j) \in Nat
    BY <2>8, OffsetSplit
  <2>10. Bytes(SubSeq(s, j, x - 1)) \in Nat
    BY <2>8, SliceTyped
  <2>11. SubSeq(r, e, y - 1) = SubSeq(s, j, x - 1) /\ SubSeq(r, y, Len(r)) = SubSeq(s, x, Len(s))
    BY <2>1, <2>5, <2>6
  <2> DEFINE B == Bytes(SubSeq(s, j, x - 1))
  <2>a. Offset(r, y) = Offset(r, e) + B /\ Offset(s, x) = Offset(s, j) + B /\ B \in Nat
    BY <2>7, <2>9, <2>10, <2>11
  <2> HIDE DEF B
  <2>12. Offset(r, y) = Offset(s, x) + (Offset(r, e) - Offset(s, j))
    BY <2>7, <2>9, <2>a
  <2> QED
    BY <2>11, <2>12 DEF y
<1> QED
  BY <1>2, <1>4, <1>5, <1>6 DEF r, e

-----------------------------------------------------------------------------
(***************************************************************************)
(* The line table after a change.                                          *)
(***************************************************************************)

(* The change of the characters from i, in line k, up to j, in line l.     *)
ChangeOf(s, new, i, j, k, l) ==
  /\ i \in 1..(Len(s) + 1) /\ j \in i..(Len(s) + 1)
  /\ InLine(s, i, k) /\ InLine(s, j, l) /\ ~Torn(s, j)
  /\ \A x \in Breaks(s) : x >= FirstOf(s, l) /\ x < j => FALSE
  /\ ~Torn(Spliced(s, i, j, new), i) /\ ~Torn(Spliced(s, i, j, new), i + Len(new))

(* The ends of such a change in the old and in the new text.               *)
LEMMA ChangeFacts ==
  ASSUME NEW C, NEW s \in Seq(C), NEW new \in Seq(C), NEW i, NEW j, NEW k, NEW l,
         ChangeOf(s, new, i, j, k, l)
  PROVE  LET r == Spliced(s, i, j, new)
             f == FirstOf(s, k)
             e == i + Len(new)
             n == NumFirsts(s)
         IN  /\ i \in 1..(Len(s) + 1) /\ j \in 1..(Len(s) + 1) /\ i <= j
             /\ r \in Seq(C) /\ e \in 1..(Len(r) + 1) /\ i <= e
             /\ Len(r) - e = Len(s) - j
             /\ f \in 1..(Len(s) + 1) /\ f \in 1..(Len(r) + 1) /\ f <= i
             /\ ~Torn(s, f) /\ ~Torn(r, f)
             /\ n \in Nat /\ k \in 1..n /\ l \in 1..n /\ k <= l
             /\ \A x \in 1..(i - 1) : r[x] = s[x]
<1> DEFINE r == Spliced(s, i, j, new)
           f == FirstOf(s, k)
           e == i + Len(new)
           n == NumFirsts(s)
<1>1. /\ i \in 1..(Len(s) + 1) /\ j \in i..(Len(s) + 1)
      /\ InLine(s, i, k) /\ InLine(s, j, l)
      /\ ~Torn(r, i)
  BY DEF ChangeOf
<1>2. j \in 1..(Len(s) + 1) /\ i <= j
  BY <1>1
<1>3. /\ r \in Seq(C) /\ Len(r) = (e - 1) + (Len(s) - j + 1)
      /\ \A x \in 1..(i - 1) : r[x] = s[x]
  BY <1>1, <1>2, SplicedOf
<1>4. Len(new) \in Nat /\ Len(s) \in Nat
  OBVIOUS
<1> HIDE DEF r
<1>5. e \in 1..(Len(r) + 1) /\ i <= e /\ Len(r) - e = Len(s) - j
  BY <1>1, <1>2, <1>3, <1>4
<1> HIDE DEF e
<1>6. n \in Nat /\ \A x \in 1..n : FirstOf(s, x) \in 1..(Len(s) + 1)
  BY FullTable
<1> HIDE DEF n
<1>7. k \in 1..n /\ l \in 1..n /\ f <= i
  BY <1>1 DEF InLine, n
<1>8. f \in 1..(Len(s) + 1)
  BY <1>6, <1>7
<1>9. f \in 1..(Len(r) + 1)
  BY <1>1, <1>3, <1>5, <1>7, <1>8
<1>10. ~Torn(s, f)
  BY <1>7, FirstNotTorn DEF n
<1>11. k <= l
  <2>1. SUFFICES ASSUME k > l PROVE FALSE
    BY <1>6, <1>7
  <2>2. FirstOf(s, k) > j
    BY <1>1, <1>7, <2>1 DEF InLine, n
  <2> QED
    BY <1>1, <1>2, <1>7, <1>8, <2>2
<1>12. ~Torn(r, f)
  <2>1. CASE f = i
    BY <1>1, <2>1
  <2>2. CASE f # i
    <3>1. SUFFICES ASSUME Torn(r, f) PROVE FALSE
      OBVIOUS
    <3>2. f \in 2..Len(r) /\ r[f - 1] = "CR" /\ r[f] = "LF"
      BY <3>1 DEF Torn
    <3>3. f \in 1..(i - 1) /\ f - 1 \in 1..(i - 1) /\ f \in 2..Len(s)
      BY <1>1, <1>7, <1>8, <2>2, <3>2
    <3>4. s[f - 1] = "CR" /\ s[f] = "LF"
      BY <1>3, <3>2, <3>3
    <3> QED
      BY <1>10, <3>3, <3>4 DEF Torn
  <2> QED
    BY <2>1, <2>2
<1> QED
  BY <1>1, <1>2, <1>3, <1>5, <1>6, <1>7, <1>8, <1>9, <1>10, <1>11, <1>12 DEF r, e, n

(* The lines up to the one of the change start as before.                  *)
LEMMA HeadFirsts ==
  ASSUME NEW C, NEW s \in Seq(C), NEW new \in Seq(C), NEW i, NEW j, NEW k, NEW l,
         ChangeOf(s, new, i, j, k, l)
  PROVE  LET r == Spliced(s, i, j, new)
             f == FirstOf(s, k)
         IN  /\ \A g \in 1..f : g \in FirstsOf(r) <=> g \in FirstsOf(s)
             /\ \A g \in 1..(f - 1) : g \in FirstsOf(s) => LineUnits(r, g) = LineUnits(s, g)
<1> DEFINE r == Spliced(s, i, j, new)
           f == FirstOf(s, k)
<1>1. /\ i \in 1..(Len(s) + 1) /\ r \in Seq(C)
      /\ f \in 1..(Len(s) + 1) /\ f \in 1..(Len(r) + 1) /\ f <= i
      /\ ~Torn(s, f) /\ ~Torn(r, f) /\ k \in 1..NumFirsts(s)
      /\ \A x \in 1..(i - 1) : r[x] = s[x]
  BY ChangeFacts
<1>2. f \in FirstsOf(s)
  BY <1>1, FullTable
<1> HIDE DEF r, f
<1>3. f <= Len(r) + 1 /\ \A x \in 1..(f - 1) : r[x] = s[x]
  BY <1>1
<1>4. \A x \in 1..(f - 1) : /\ x \in Breaks(r) <=> x \in Breaks(s)
                            /\ Behind(r, x) = Behind(s, x) /\ Behind(s, x) <= f
  BY <1>1, <1>3, SameHeads
<1>5. /\ FirstsOf(s) = {1} \cup {Behind(s, x) : x \in Breaks(s)}
      /\ FirstsOf(r) = {1} \cup {Behind(r, x) : x \in Breaks(r)}
  <2>1. FirstsOf(s) = {1} \cup {Behind(s, x) : x \in Breaks(s)}
    BY FullTable
  <2>2. FirstsOf(r) = {1} \cup {Behind(r, x) : x \in Breaks(r)}
    BY <1>1, FullTable
  <2> QED
    BY <2>1, <2>2
<1>6. /\ \A x \in Breaks(s) : x \in 1..Len(s) /\ Behind(s, x) \in {x + 1, x + 2}
      /\ \A x \in Breaks(r) : x \in 1..Len(r) /\ Behind(r, x) \in {x + 1, x + 2}
  <2>1. \A x \in DOMAIN s : Behind(s, x) \in {x + 1, x + 2}
    BY FirstsTyped
  <2>2. \A x \in DOMAIN r : Behind(r, x) \in {x + 1, x + 2}
    BY <1>1, FirstsTyped
  <2>3. Breaks(s) \subseteq DOMAIN s /\ Breaks(r) \subseteq DOMAIN r
    BY DEF Breaks
  <2>4. DOMAIN s = 1..Len(s) /\ DOMAIN r = 1..Len(r)
    BY <1>1
  <2> QED
    BY <2>1, <2>2, <2>3, <2>4
<1>7. ASSUME NEW g \in 1..f
      PROVE  g \in FirstsOf(r) <=> g \in FirstsOf(s)
  <2>1. ASSUME g \in FirstsOf(s), g # 1 PROVE g \in FirstsOf(r)
    <3>1. PICK x \in Breaks(s) : g = Behind(s, x)
      BY <1>5, <2>1
    <3>2. x \in 1..(f - 1)
      BY <1>1, <1>6, <3>1
    <3> QED
      BY <1>4, <1>5, <3>1, <3>2
  <2>2. ASSUME g \in FirstsOf(r), g # 1 PROVE g \in FirstsOf(s)
    <3>1. PICK x \in Breaks(r) : g = Behind(r, x)
      BY <1>5, <2>2
    <3>2. x \in 1..(f - 1)
      BY <1>1, <1>6, <3>1
    <3> QED
      BY <1>4, <1>5, <3>1, <3>2
  <2> QED
    BY <1>5, <2>1, <2>2
<1>8. ASSUME NEW g \in 1..(f - 1), g \in FirstsOf(s)
      PROVE  LineUnits(r, g) = LineUnits(s, g)
  <2> DEFINE b == LineEnd(s, g)
             c == LineEnd(r, g)
  <2>1. g \in 1..(Len(s) + 1) /\ g \in 1..(Len(r) + 1) /\ ~(g > Len(s)) /\ ~(g > Len(r))
    BY <1>1
  <2>2. b \in g..(Len(s) + 1) /\ (b <= Len(s) => b \in Breaks(s))
        /\ \A x \in Breaks(s) : x >= g => b <= x
    BY <2>1, LineEndOf
  <2>3. c \in g..(Len(r) + 1) /\ (c <= Len(r) => c \in Breaks(r))
        /\ \A x \in Breaks(r) : x >= g => c <= x
    BY <1>1, <2>1, LineEndOf
  <2>4. \E x \in Breaks(s) : x >= g /\ x < f
    <3>1. PICK x \in Breaks(s) : f = Behind(s, x)
      BY <1>2, <1>5, <2>1
    <3>2. x \in 1..(f - 1) /\ Behind(s, x) \in {x + 1, x + 2}
      BY <1>1, <1>6, <3>1
    <3>3. x >= g
      <4>1. SUFFICES ASSUME x < g PROVE FALSE
        BY <2>1, <3>2
      <4>2. g = x + 1 /\ f = x + 2
        BY <3>1, <3>2, <4>1
      <4>3. s[x] = "CR" /\ s[x + 1] = "LF"
        BY <3>1, <3>2, <4>2 DEF Behind
      <4>4. g \in 2..Len(s) /\ g - 1 = x
        BY <2>1, <3>2, <4>2
      <4>5. Torn(s, g)
        BY <4>2, <4>3, <4>4 DEF Torn
      <4> QED
        BY <1>8, <4>5, FirstsNotTorn
    <3>4. x < f
      BY <1>1, <3>2
    <3> QED
      BY <3>3, <3>4
  <2> HIDE DEF b, c
  <2>5. b < f /\ b \in 1..(f - 1) /\ b \in Breaks(s)
    BY <1>1, <1>6, <2>1, <2>2, <2>4
  <2>6. b \in Breaks(r) /\ b >= g /\ c <= b
    BY <1>4, <2>2, <2>3, <2>5
  <2>7. c \in 1..(f - 1) /\ c \in Breaks(r)
    BY <1>1, <2>1, <2>3, <2>5, <2>6
  <2>8. c \in Breaks(s) /\ c >= g /\ b <= c
    BY <1>4, <2>1, <2>2, <2>3, <2>7
  <2>9. b = c
    BY <2>5, <2>6, <2>7, <2>8
  <2>10. SubSeq(r, g, b - 1) = SubSeq(s, g, b - 1)
    <3> DEFINE u == SubSeq(r, g, b - 1)
               v == SubSeq(s, g, b - 1)
    <3>1. b - 1 \in (g - 1)..Len(s) /\ b - 1 \in (g - 1)..Len(r)
      BY <1>1, <2>2, <2>5
    <3>2. /\ u \in Seq(C) /\ Len(u) = (b - 1) - g + 1
          /\ \A x \in 1..((b - 1) - g + 1) : u[x] = r[g + x - 1]
      BY <1>1, <2>1, <3>1, SliceOf
    <3>3. /\ v \in Seq(C) /\ Len(v) = (b - 1) - g + 1
          /\ \A x \in 1..((b - 1) - g + 1) : v[x] = s[g + x - 1]
      BY <2>1, <3>1, SliceOf
    <3>4. \A x \in 1..((b - 1) - g + 1) : g + x - 1 \in 1..(f - 1)
      BY <1>1, <2>1, <2>5
    <3> HIDE DEF u, v
    <3>5. ASSUME NEW x \in 1..((b - 1) - g + 1)
          PROVE  u[x] = v[x]
      BY <1>3, <3>2, <3>3, <3>4
    <3>6. u = v
      BY <3>2, <3>3, <3>5
    <3> QED
      BY <3>6 DEF u, v
  <2> QED
    BY <2>1, <2>9, <2>10 DEF LineUnits, b, c
<1> QED
  BY <1>7, <1>8 DEF r, f

(* The lines behind the change start as before, moved by its length.       *)
LEMMA RestFirsts ==
  ASSUME NEW C, NEW s \in Seq(C), NEW new \in Seq(C), NEW i, NEW j, NEW k, NEW l,
         ChangeOf(s, new, i, j, k, l), NEW g \in Int, g > j
  PROVE  LET r == Spliced(s, i, j, new)
             e == i + Len(new)
         IN  /\ g \in FirstsOf(s) <=> g + (e - j) \in FirstsOf(r)
             /\ g \in FirstsOf(s) =>
                  /\ LineUnits(r, g + (e - j)) = LineUnits(s, g)
                  /\ Offset(r, g + (e - j)) = Offset(s, g) + (Offset(r, e) - Offset(s, j))
<1> DEFINE r == Spliced(s, i, j, new)
           e == i + Len(new)
           t == SubSeq(s, j, Len(s))
           h == g + (e - j)
<1>1. /\ i \in 1..(Len(s) + 1) /\ j \in 1..(Len(s) + 1) /\ i <= j
      /\ r \in Seq(C) /\ e \in 1..(Len(r) + 1)
      /\ Len(r) - e = Len(s) - j
  BY ChangeFacts
<1>2. ~Torn(s, j) /\ ~Torn(r, e)
  BY DEF ChangeOf
<1>3. j \in i..(Len(s) + 1) /\ j \in j..(Len(s) + 1) /\ j + (e - j) = e
  BY <1>1
<1>4. \A x \in j..(Len(s) + 1) :
        /\ Offset(r, x + (e - j)) = Offset(s, x) + (Offset(r, e) - Offset(s, j))
        /\ SubSeq(r, x + (e - j), Len(r)) = SubSeq(s, x, Len(s))
  BY <1>1, <1>3, SplicedOffsets
<1>5. SubSeq(r, e, Len(r)) = t
  BY <1>3, <1>4
<1>6. h \in Int /\ h > e /\ h - (e - 1) = g - (j - 1)
  BY <1>1
<1> HIDE DEF r, e, t, h
<1>7. g \in FirstsOf(s) <=> \E y \in Breaks(t) : g = Behind(t, y) + (j - 1)
  BY <1>1, <1>2, FirstsBehind DEF t
<1>8. h \in FirstsOf(r) <=> \E y \in Breaks(t) : h = Behind(t, y) + (e - 1)
  BY <1>1, <1>2, <1>5, <1>6, FirstsBehind
<1>9. \A y \in Breaks(t) : Behind(t, y) \in Int
  <2>1. t \in Seq(C)
    BY <1>1, <1>2, TailBreaks DEF t
  <2>2. \A y \in DOMAIN t : Behind(t, y) \in {y + 1, y + 2}
    BY <2>1, FirstsTyped
  <2>3. \A y \in Breaks(t) : y \in DOMAIN t /\ y \in Int
    BY <2>1 DEF Breaks
  <2> QED
    BY <2>2, <2>3
<1>10. g \in FirstsOf(s) <=> h \in FirstsOf(r)
  <2>1. \A b \in Int : h = b + (e - 1) <=> g = b + (j - 1)
    <3>1. e \in Int /\ j \in Int
      BY <1>1
    <3> QED
      BY <1>6, <3>1
  <2> QED
    BY <1>7, <1>8, <1>9, <2>1
<1>11. ASSUME g \in FirstsOf(s)
       PROVE  LineUnits(r, h) = LineUnits(s, g) /\ g \in j..(Len(s) + 1)
  <2>1. g \in 1..(Len(s) + 1)
    BY <1>11, FirstsTyped DEF FirstsOf
  <2> DEFINE x == g - (j - 1)
  <2>2. t \in Seq(C) /\ Len(t) = Len(s) - j + 1
    BY <1>1, <1>2, TailBreaks DEF t
  <2>3. x \in 1..(Len(t) + 1) /\ x + (j - 1) = g /\ x + (e - 1) = h
    BY <1>1, <1>6, <2>1, <2>2
  <2> HIDE DEF x
  <2>4. \A y \in 1..(Len(t) + 1) : LineUnits(t, y) = LineUnits(s, y + (j - 1))
    BY <1>1, <1>2, TailUnits DEF t
  <2>5. \A y \in 1..(Len(t) + 1) : LineUnits(t, y) = LineUnits(r, y + (e - 1))
    BY <1>1, <1>2, <1>5, TailUnits
  <2>6. LineUnits(t, x) = LineUnits(s, g) /\ LineUnits(t, x) = LineUnits(r, h)
    <3>1. LineUnits(t, x) = LineUnits(s, x + (j - 1))
      BY <2>3, <2>4
    <3>2. LineUnits(t, x) = LineUnits(r, x + (e - 1))
      BY <2>3, <2>5
    <3> QED
      BY <2>3, <3>1, <3>2
  <2> QED
    BY <1>1, <2>1, <2>6
<1>12. g \in FirstsOf(s) => Offset(r, h) = Offset(s, g) + (Offset(r, e) - Offset(s, j))
  BY <1>4, <1>11 DEF h
<1> QED
  BY <1>10, <1>11, <1>12 DEF r, e, h

(* The lines found by the scan from the line of the change on are lines of *)
(* the changed text, among them all up to the end of the change.           *)
LEMMA SegmentFirsts ==
  ASSUME NEW C, NEW s \in Seq(C), NEW new \in Seq(C), NEW i, NEW j, NEW k, NEW l,
         ChangeOf(s, new, i, j, k, l)
  PROVE  LET r == Spliced(s, i, j, new)
             f == FirstOf(s, k)
             e == i + Len(new)
             t == SubSeq(r, f, Len(r))
             F == Firsts(t, Offset(r, e))
         IN  /\ t \in Seq(C) /\ f \in FirstsOf(r)
             /\ \A x \in F : /\ x \in 1..(Len(t) + 1)
                             /\ x + (f - 1) \in FirstsOf(r) /\ x + (f - 1) \in 1..(Len(r) + 1)
                             /\ Offset(r, x + (f - 1)) = Offset(r, f) + Offset(t, x)
                             /\ LineUnits(t, x) = LineUnits(r, x + (f - 1))
             /\ \A g \in FirstsOf(r) : f <= g /\ g <= e => g - (f - 1) \in F
             /\ f = 1 => \A x \in F : x <= e
<1> DEFINE r == Spliced(s, i, j, new)
           f == FirstOf(s, k)
           e == i + Len(new)
           t == SubSeq(r, f, Len(r))
           o == Offset(r, e)
           F == Firsts(t, o)
<1>1. /\ r \in Seq(C) /\ e \in 1..(Len(r) + 1)
      /\ f \in 1..(Len(s) + 1) /\ f \in 1..(Len(r) + 1)
      /\ ~Torn(r, f) /\ k \in 1..NumFirsts(s)
  BY ChangeFacts
<1>2. i \in 1..(Len(s) + 1) /\ i <= e /\ f <= i
  BY ChangeFacts
<1>3. ~Torn(r, e)
  BY DEF ChangeOf
<1>4. f \in FirstsOf(r)
  <2>1. f \in FirstsOf(s) /\ f \in 1..f
    BY <1>1, FullTable
  <2> QED
    BY <2>1, HeadFirsts
<1> HIDE DEF r, f, e
<1>5. /\ t \in Seq(C) /\ Len(t) = Len(r) - f + 1
      /\ \A x \in 1..Len(t) : /\ x \in Breaks(t) <=> x + (f - 1) \in Breaks(r)
                              /\ Behind(r, x + (f - 1)) = Behind(t, x) + (f - 1)
  BY <1>1, TailBreaks
<1>6. \A x \in 1..(Len(t) + 1) : /\ x + (f - 1) \in 1..(Len(r) + 1)
                                 /\ Offset(r, x + (f - 1)) = Offset(r, f) + Offset(t, x)
  BY <1>1, TailOffsets
<1>7. \A x \in 1..(Len(t) + 1) : LineUnits(t, x) = LineUnits(r, x + (f - 1))
  BY <1>1, TailUnits
<1>8. \A g \in Int : g > f =>
        (g \in FirstsOf(r) <=> \E y \in Breaks(t) : g = Behind(t, y) + (f - 1))
  BY <1>1, FirstsBehind
<1>9. FirstsOf(r) \in SUBSET (1..(Len(r) + 1))
  BY <1>1, FirstsTyped DEF FirstsOf
<1>t. t = SubSeq(r, f, Len(r))
  OBVIOUS
<1> HIDE DEF t
<1>10. /\ \A x \in DOMAIN t : Behind(t, x) \in {x + 1, x + 2} /\ Behind(t, x) <= Len(t) + 1
       /\ F \in SUBSET (1..(Len(t) + 1)) /\ 1 \in F
  BY <1>5, FirstsTyped
<1>11. \A y \in Breaks(t) : /\ y \in 1..Len(t) /\ y \in 1..(Len(t) + 1)
                            /\ Behind(t, y) \in {y + 1, y + 2}
  BY <1>5, <1>10 DEF Breaks
<1>12. F = {1} \cup {Behind(t, y) : y \in {z \in Breaks(t) : Offset(t, z) < o}}
  BY DEF Firsts
<1>13. o \in Nat /\ Offset(r, f) \in Nat
  BY <1>1, OffsetsGrow
<1>14. \A y \in 1..(Len(t) + 1) : Offset(t, y) \in Nat
  BY <1>5, OffsetsGrow
<1> HIDE DEF o, F
<1>15. ASSUME NEW x \in F
       PROVE  x + (f - 1) \in FirstsOf(r)
  <2>1. CASE x = 1
    BY <1>1, <1>4, <2>1
  <2>2. CASE x # 1
    <3>1. PICK y \in Breaks(t) : x = Behind(t, y)
      BY <1>12, <2>2
    <3>2. x \in 1..(Len(t) + 1) /\ x + (f - 1) \in Int /\ x + (f - 1) > f
      BY <1>1, <1>5, <1>10, <2>2
    <3> QED
      BY <1>8, <3>1, <3>2
  <2> QED
    BY <2>1, <2>2
<1>16. ASSUME NEW g \in FirstsOf(r), f <= g, g <= e
       PROVE  g - (f - 1) \in F
  <2>1. CASE g = f
    <3>1. g - (f - 1) = 1
      BY <1>1, <2>1
    <3> QED
      BY <1>10, <3>1
  <2>2. CASE g # f
    <3>1. g \in Int /\ g > f
      BY <1>1, <1>9, <1>16, <2>2
    <3>2. PICK y \in Breaks(t) : g = Behind(t, y) + (f - 1)
      BY <1>8, <3>1
    <3>3. y \in 1..Len(t) /\ y \in 1..(Len(t) + 1) /\ Behind(t, y) \in {y + 1, y + 2}
      BY <1>11
    <3>4. y + (f - 1) \in 1..(Len(r) + 1) /\ y + (f - 1) < e
      BY <1>1, <1>6, <1>16, <3>2, <3>3
    <3>5. Offset(r, y + (f - 1)) < o
      BY <1>1, <3>4, OffsetsGrow DEF o
    <3>6. Offset(t, y) < o
      <4>1. Offset(r, y + (f - 1)) = Offset(r, f) + Offset(t, y) /\ Offset(t, y) \in Nat
        BY <1>6, <1>14, <3>3
      <4> QED
        BY <1>13, <3>5, <4>1
    <3>7. Behind(t, y) \in F
      BY <1>12, <3>6
    <3>8. g - (f - 1) = Behind(t, y)
      BY <1>1, <3>1, <3>2, <3>3
    <3> QED
      BY <3>7, <3>8
  <2> QED
    BY <2>1, <2>2
<1>17. ASSUME f = 1, NEW x \in F
       PROVE  x <= e
  <2>1. CASE x = 1
    BY <1>1, <2>1
  <2>2. CASE x # 1
    <3>1. PICK y \in Breaks(t) : x = Behind(t, y) /\ Offset(t, y) < o
      BY <1>12, <2>2
    <3>2. t = r
      <4>1. SubSeq(r, 1, Len(r)) = r
        BY <1>1, SubSeqFull
      <4> QED
        BY <1>17, <1>t, <4>1
    <3>3. y \in 1..(Len(r) + 1) /\ y \in 1..Len(r)
      BY <1>11, <3>2
    <3>4. y < e
      BY <1>1, <3>1, <3>2, <3>3, OffsetsGrow DEF o
    <3>5. y \in 1..(e - 1) /\ e <= Len(r) + 1
      BY <1>1, <3>3, <3>4
    <3>6. \A z \in 1..(e - 1) : Behind(r, z) <= e
      BY <1>1, <1>3, <3>5, SameHeads
    <3> QED
      BY <3>1, <3>2, <3>5, <3>6
  <2> QED
    BY <2>1, <2>2
<1>18. \A x \in F : x \in 1..(Len(t) + 1)
  BY <1>10
<1> QED
  BY <1>4, <1>5, <1>6, <1>7, <1>15, <1>16, <1>17, <1>18 DEF r, f, e, t, o, F

(* What is left of a sequence behind its first elements.                   *)
LEMMA RestOf ==
  ASSUME NEW C, NEW q \in Seq(C), NEW b \in 0..Len(q)
  PROVE  /\ SubSeq(q, b + 1, Len(q)) \in Seq(C) /\ Len(SubSeq(q, b + 1, Len(q))) = Len(q) - b
         /\ DOMAIN SubSeq(q, b + 1, Len(q)) = 1..(Len(q) - b)
         /\ \A x \in 1..(Len(q) - b) : SubSeq(q, b + 1, Len(q))[x] = q[x + b]
<1> DEFINE w == SubSeq(q, b + 1, Len(q))
<1> DEFINE a == b + 1
<1>1. /\ a \in 1..(Len(q) + 1) /\ Len(q) \in (a - 1)..Len(q)
      /\ Len(q) - a + 1 = Len(q) - b
  OBVIOUS
<1>2. \A x \in 1..(Len(q) - b) : a + x - 1 = x + b
  OBVIOUS
<1> HIDE DEF a
<1>3. /\ SubSeq(q, a, Len(q)) \in Seq(C) /\ Len(SubSeq(q, a, Len(q))) = Len(q) - a + 1
      /\ DOMAIN SubSeq(q, a, Len(q)) = 1..(Len(q) - a + 1)
      /\ \A x \in 1..(Len(q) - a + 1) : SubSeq(q, a, Len(q))[x] = q[a + x - 1]
  BY <1>1, SliceOf
<1>4. w = SubSeq(q, a, Len(q))
  BY DEF a
<1> HIDE DEF w
<1>5. w \in Seq(C) /\ Len(w) = Len(q) - b /\ DOMAIN w = 1..(Len(q) - b)
  BY <1>1, <1>3, <1>4
<1>6. \A x \in 1..(Len(q) - b) : w[x] = q[x + b]
  BY <1>1, <1>2, <1>3, <1>4
<1> QED
  BY <1>5, <1>6 DEF w

(* The first a elements of one, a second one and a third one.              *)
LEMMA JoinedOf ==
  ASSUME NEW C, NEW old \in Seq(C), NEW a \in 0..Len(old), NEW mid \in Seq(C), NEW last \in Seq(C)
  PROVE  LET u == SubSeq(old, 1, a) \o mid \o last
         IN  /\ u \in Seq(C) /\ Len(u) = a + Len(mid) + Len(last)
             /\ \A x \in 1..a : u[x] = old[x]
             /\ Moved(u, mid, 1, Len(mid), a)
             /\ Moved(u, last, 1, Len(last), a + Len(mid))
<1> DEFINE p == SubSeq(old, 1, a)
           m == p \o mid
           u == m \o last
           c == a + Len(mid)
<1>1. p \in Seq(C) /\ Len(p) = a /\ \A x \in 1..a : p[x] = old[x]
  <2>1. 1 \in 1..(Len(old) + 1) /\ a \in (1 - 1)..Len(old) /\ a - 1 + 1 = a
    OBVIOUS
  <2>2. p \in Seq(C) /\ Len(p) = a /\ \A x \in 1..a : p[x] = old[1 + x - 1]
    BY <2>1, SliceOf
  <2> HIDE DEF p
  <2> QED
    BY <2>2
<1> HIDE DEF p
<1>2. /\ m \in Seq(C) /\ Len(m) = c
      /\ \A x \in 1..a : m[x] = p[x]
      /\ Moved(m, mid, 1, Len(mid), a)
  <2>1. /\ p \o mid \in Seq(C) /\ Len(p \o mid) = Len(p) + Len(mid)
        /\ \A x \in 1..Len(p) : (p \o mid)[x] = p[x]
        /\ Moved(p \o mid, mid, 1, Len(mid), Len(p))
    BY <1>1, ConcatParts
  <2> QED
    BY <1>1, <2>1
<1>3. Len(mid) \in Nat /\ Len(last) \in Nat /\ c \in Nat /\ a <= c
  OBVIOUS
<1> HIDE DEF m
<1>4. /\ u \in Seq(C) /\ Len(u) = c + Len(last)
      /\ \A x \in 1..c : u[x] = m[x]
      /\ Moved(u, last, 1, Len(last), c)
  <2>1. /\ m \o last \in Seq(C) /\ Len(m \o last) = Len(m) + Len(last)
        /\ \A x \in 1..Len(m) : (m \o last)[x] = m[x]
        /\ Moved(m \o last, last, 1, Len(last), Len(m))
    BY <1>2, ConcatParts
  <2> QED
    BY <1>2, <2>1
<1> HIDE DEF u
<1>5. \A x \in 1..a : u[x] = old[x]
  BY <1>1, <1>2, <1>3, <1>4
<1>6. Moved(u, mid, 1, Len(mid), a)
  <2> SUFFICES ASSUME NEW x \in 1..Len(mid)
               PROVE  u[x + a] = mid[x]
    BY DEF Moved
  <2>1. x + a \in 1..c /\ m[x + a] = mid[x]
    BY <1>2, <1>3 DEF Moved
  <2> QED
    BY <1>4, <2>1
<1> QED
  BY <1>4, <1>5, <1>6 DEF u, m, p

(* A table lists the first characters g[1], ..., g[M] of lines of r: up to *)
(* g[c] in order, with all the lines that start up to character e, and     *)
(* then, in order as well, the lines that start behind it.                 *)
Lists(table, r, e, g, M, c) ==
  /\ M \in Nat /\ c \in 0..M /\ g \in [1..M -> FirstsOf(r)]
  /\ table.starts \in Seq(Int) /\ Len(table.starts) = M
  /\ table.units \in Seq(Int) /\ Len(table.units) = M
  /\ \A x \in 1..M : table.starts[x] = Offset(r, g[x]) /\ table.units[x] = LineUnits(r, g[x])
  /\ \A x \in 1..c : \A y \in 1..c : x < y => g[x] < g[y]
  /\ \A x \in (c + 1)..M : \A y \in (c + 1)..M : x < y => g[x] < g[y]
  /\ \A x \in (c + 1)..M : g[x] > e
  /\ \A h \in FirstsOf(r) : h <= e => \E x \in 1..c : g[x] = h
  /\ \A h \in FirstsOf(r) : h > e => \E x \in (c + 1)..M : g[x] = h

(* The table after a change: with one that starts in the first line all    *)
(* the lines listed up to c start by the end of the new text, and one that *)
(* ends in the last line leaves none behind.                               *)
TableFrom(s, new, i, j, k, l) ==
  LET r == Spliced(s, i, j, new)
      o == Offset(r, i + Len(new))
  IN  FromSegment(LineMapOf(s), r, k - 1, l, o, o - Offset(s, j))

Relisted(s, new, i, j, k, l, g, M, c) ==
  LET table == TableFrom(s, new, i, j, k, l)
  IN  /\ Lists(table, Spliced(s, i, j, new), i + Len(new), g, M, c)
      /\ FirstOf(s, k) = 1 => \A x \in 1..c : g[x] <= i + Len(new)
      /\ l = NumFirsts(s) => c = M
      /\ table = [starts |-> table.starts, units |-> table.units]

(* The table after a change is relisted.                                   *)
LEMMA TableAfter ==
  ASSUME NEW C, NEW s \in Seq(C), NEW new \in Seq(C), NEW i, NEW j, NEW k, NEW l,
         ChangeOf(s, new, i, j, k, l)
  PROVE  \E g, M, c : Relisted(s, new, i, j, k, l, g, M, c)
<1> DEFINE map == LineMapOf(s)
           n == NumFirsts(s)
           r == Spliced(s, i, j, new)
           f == FirstOf(s, k)
           e == i + Len(new)
           o == Offset(r, e)
           d == e - j
           shift == o - Offset(s, j)
           table == FromSegment(map, r, k - 1, l, o, shift)
           t == SubSeq(r, f, Len(r))
           F == Firsts(t, o)
           N == Cardinality(F)
           first == Ascending(F)
           seg == CreateLineMap(t, Offset(r, f), o)
           rest == SubSeq(map.starts, l + 1, n)
           moved == [x \in DOMAIN rest |-> Shifted(rest[x], shift)]
           widths == SubSeq(map.units, l + 1, n)
           c == (k - 1) + N
           M == c + (n - l)
           g == [x \in 1..M |-> IF x < k THEN FirstOf(s, x)
                                ELSE IF x <= c THEN first[x - (k - 1)] + (f - 1)
                                ELSE FirstOf(s, (x - c) + l) + d]
<1>1. /\ i \in 1..(Len(s) + 1) /\ j \in 1..(Len(s) + 1) /\ i <= j
      /\ r \in Seq(C) /\ e \in 1..(Len(r) + 1) /\ i <= e
      /\ Len(r) - e = Len(s) - j
      /\ f \in 1..(Len(s) + 1) /\ f \in 1..(Len(r) + 1) /\ f <= i
  BY ChangeFacts
<1>2. n \in Nat /\ k \in 1..n /\ l \in 1..n /\ k <= l
  BY ChangeFacts
<1>3. /\ NumLines(map) = n
      /\ \A x \in 1..n : /\ FirstOf(s, x) \in FirstsOf(s)
                         /\ FirstOf(s, x) \in 1..(Len(s) + 1)
                         /\ Start(map, x - 1) = Offset(s, FirstOf(s, x))
                         /\ MaxUnit(map, x - 1) = LineUnits(s, FirstOf(s, x))
      /\ \A x, y \in 1..n : x < y <=> FirstOf(s, x) < FirstOf(s, y)
      /\ \A h \in FirstsOf(s) : \E x \in 1..n : FirstOf(s, x) = h
      /\ map.starts \in Seq(Int) /\ map.units \in Seq(Int)
      /\ Len(map.starts) = n /\ Len(map.units) = n
  BY FullTable
<1>4. \A x \in 1..n : map.starts[x] = Offset(s, FirstOf(s, x))
                      /\ map.units[x] = LineUnits(s, FirstOf(s, x))
  <2> SUFFICES ASSUME NEW x \in 1..n
               PROVE  map.starts[x] = Offset(s, FirstOf(s, x))
                      /\ map.units[x] = LineUnits(s, FirstOf(s, x))
    OBVIOUS
  <2>1. (x - 1) + 1 = x
    BY <1>2
  <2> QED
    BY <1>3, <2>1 DEF Start, MaxUnit
<1>5. /\ t \in Seq(C) /\ f \in FirstsOf(r)
      /\ \A x \in F : /\ x \in 1..(Len(t) + 1)
                      /\ x + (f - 1) \in FirstsOf(r) /\ x + (f - 1) \in 1..(Len(r) + 1)
                      /\ Offset(r, x + (f - 1)) = Offset(r, f) + Offset(t, x)
                      /\ LineUnits(t, x) = LineUnits(r, x + (f - 1))
      /\ \A h \in FirstsOf(r) : f <= h /\ h <= e => h - (f - 1) \in F
      /\ f = 1 => \A x \in F : x <= e
  BY SegmentFirsts
<1>6. /\ \A h \in 1..f : h \in FirstsOf(r) <=> h \in FirstsOf(s)
      /\ \A h \in 1..(f - 1) : h \in FirstsOf(s) => LineUnits(r, h) = LineUnits(s, h)
  BY HeadFirsts
<1>7. \A h \in Int : h > j =>
        /\ h \in FirstsOf(s) <=> h + d \in FirstsOf(r)
        /\ h \in FirstsOf(s) => /\ LineUnits(r, h + d) = LineUnits(s, h)
                                /\ Offset(r, h + d) = Offset(s, h) + shift
  BY RestFirsts
<1>8. \A x \in 1..i : Offset(r, x) = Offset(s, x)
  <2>1. j \in i..(Len(s) + 1)
    BY <1>1
  <2> QED
    BY <1>1, <2>1, SplicedOffsets
<1>9. Offset(s, j) \in Int /\ o \in Int /\ shift \in Int /\ Offset(r, f) \in Int
      /\ \A x \in 1..(Len(r) + 1) : Offset(r, x) \in Nat
  <2>1. \A x \in 1..(Len(r) + 1) : Offset(r, x) \in Nat
    BY <1>1, OffsetsGrow
  <2>2. Offset(s, j) \in Nat
    BY <1>1, OffsetsGrow
  <2>3. o \in Nat /\ Offset(r, f) \in Nat
    BY <1>1, <2>1
  <2> HIDE DEF o
  <2> QED
    BY <2>1, <2>2, <2>3
<1>10. /\ \A x \in 1..n : x > l => FirstOf(s, x) > j
       /\ \A x \in 1..n : x <= l => FirstOf(s, x) <= j
  <2>1. FirstOf(s, l) <= j /\ \A x \in 1..n : x > l => FirstOf(s, x) > j
    BY DEF ChangeOf, InLine
  <2>2. ASSUME NEW x \in 1..n, x <= l PROVE FirstOf(s, x) <= j
    <3>1. x = l \/ FirstOf(s, x) < FirstOf(s, l)
      BY <1>2, <1>3, <2>2
    <3>2. FirstOf(s, x) \in Int /\ FirstOf(s, l) \in Int /\ j \in Int
      BY <1>1, <1>2, <1>3
    <3> QED
      BY <2>1, <3>1, <3>2
  <2> QED
    BY <2>1, <2>2
<1>11. /\ N \in Nat /\ N >= 1 /\ first \in [1..N -> F]
       /\ seg.starts \in Seq(Int) /\ seg.units \in Seq(Int)
       /\ Len(seg.starts) = N /\ Len(seg.units) = N
       /\ \A x \in 1..N : /\ seg.starts[x] = Offset(r, f) + Offset(t, first[x])
                          /\ seg.units[x] = LineUnits(t, first[x])
       /\ \A x, y \in 1..N : x < y <=> first[x] < first[y]
       /\ \A h \in F : \E x \in 1..N : first[x] = h
  <2> DEFINE bias == Offset(r, f)
  <2>1. bias \in Int
    BY <1>9
  <2> HIDE DEF bias, t, o
  <2>2. seg = CreateLineMap(t, bias, o)
    BY DEF bias
  <2>3. t \in Seq(C)
    BY <1>5
  <2>4. Tabulates(CreateLineMap(t, bias, o), Firsts(t, o), t, bias)
    BY <2>1, <2>3, TableOf
  <2> HIDE DEF seg
  <2> QED
    BY <2>2, <2>4 DEF Tabulates, bias
<1>12. /\ table.starts = SubSeq(map.starts, 1, k - 1) \o seg.starts \o moved
       /\ table.units = SubSeq(map.units, 1, k - 1) \o seg.units \o widths
       /\ table = [starts |-> table.starts, units |-> table.units]
  <2>1. Start(map, k - 1) = Offset(r, f)
    BY <1>1, <1>2, <1>3, <1>8
  <2>2. From(r, Offset(r, f)) = t
    BY <1>1, FromAt
  <2>3. CreateLineMap(From(r, Start(map, k - 1)), Start(map, k - 1), o) = seg
    BY <2>1, <2>2
  <2>4. table = [starts |-> SubSeq(map.starts, 1, k - 1) \o seg.starts \o moved,
                 units |-> SubSeq(map.units, 1, k - 1) \o seg.units \o widths]
    <3> HIDE DEF seg, map, n, r, o, shift
    <3> QED
      BY <1>3, <2>3 DEF FromSegment
  <2> HIDE DEF table
  <2> QED
    BY <2>4
<1>13. /\ rest \in Seq(Int) /\ Len(rest) = n - l /\ DOMAIN rest = 1..(n - l)
       /\ \A x \in 1..(n - l) : rest[x] = map.starts[x + l]
       /\ widths \in Seq(Int) /\ Len(widths) = n - l
       /\ \A x \in 1..(n - l) : widths[x] = map.units[x + l]
  <2>1. l \in 0..n
    BY <1>2
  <2>2. /\ SubSeq(map.starts, l + 1, Len(map.starts)) = rest
        /\ SubSeq(map.units, l + 1, Len(map.units)) = widths
    BY <1>3
  <2>3. l \in 0..Len(map.starts) /\ l \in 0..Len(map.units)
    BY <1>3, <2>1
  <2> HIDE DEF map, n, rest, widths
  <2>4. /\ rest \in Seq(Int) /\ Len(rest) = n - l /\ DOMAIN rest = 1..(n - l)
        /\ \A x \in 1..(n - l) : rest[x] = map.starts[x + l]
    <3>1. /\ rest \in Seq(Int) /\ Len(rest) = Len(map.starts) - l
          /\ DOMAIN rest = 1..(Len(map.starts) - l)
          /\ \A x \in 1..(Len(map.starts) - l) : rest[x] = map.starts[x + l]
      BY <1>3, <2>2, <2>3, RestOf
    <3> QED
      BY <1>3, <3>1
  <2>5. /\ widths \in Seq(Int) /\ Len(widths) = n - l
        /\ \A x \in 1..(n - l) : widths[x] = map.units[x + l]
    <3>1. /\ widths \in Seq(Int) /\ Len(widths) = Len(map.units) - l
          /\ \A x \in 1..(Len(map.units) - l) : widths[x] = map.units[x + l]
      BY <1>3, <2>2, <2>3, RestOf
    <3> QED
      BY <1>3, <3>1
  <2> QED
    BY <2>4, <2>5
<1>14. ASSUME NEW x \in 1..(n - l)
       PROVE  /\ x + l \in 1..n /\ FirstOf(s, x + l) > j
              /\ FirstOf(s, x + l) + d \in FirstsOf(r)
              /\ FirstOf(s, x + l) + d > e
              /\ moved[x] = Offset(r, FirstOf(s, x + l) + d) /\ moved[x] \in Int
              /\ widths[x] = LineUnits(r, FirstOf(s, x + l) + d)
  <2> DEFINE y == x + l
             h == FirstOf(s, y)
  <2>1. y \in 1..n /\ y > l
    BY <1>2
  <2>2. h \in Int /\ h > j /\ h \in FirstsOf(s) /\ h \in 1..(Len(s) + 1)
    BY <1>3, <1>10, <2>1
  <2>3. /\ h + d \in FirstsOf(r) /\ LineUnits(r, h + d) = LineUnits(s, h)
        /\ Offset(r, h + d) = Offset(s, h) + shift
    BY <1>7, <2>2
  <2>4. h + d \in 1..(Len(r) + 1) /\ h + d > e
    <3>1. h \in Int /\ h > j /\ h <= Len(s) + 1 /\ j \in Int /\ e \in Int /\ Len(r) \in Int
          /\ Len(s) \in Int /\ e >= 1
      BY <1>1, <2>2
    <3> HIDE DEF h
    <3> QED
      BY <1>1, <3>1
  <2>5. Offset(r, h + d) \in Nat
    BY <1>9, <2>4
  <2>6. rest[x] = Offset(s, h) /\ widths[x] = LineUnits(s, h)
    BY <1>4, <1>13, <2>1
  <2>7. moved[x] = Shifted(rest[x], shift)
    BY <1>13
  <2>8. moved[x] = Offset(s, h) + shift
    <3>1. ~(Offset(s, h) + shift < 0)
      BY <2>3, <2>5
    <3> HIDE DEF moved, h, shift
    <3> QED
      BY <2>6, <2>7, <3>1 DEF Shifted
  <2> HIDE DEF moved, widths
  <2> QED
    BY <2>1, <2>2, <2>3, <2>4, <2>5, <2>6, <2>8
<1>15. moved \in Seq(Int) /\ Len(moved) = n - l
  <2>1. moved \in [1..(n - l) -> Int]
    BY <1>13, <1>14
  <2>2. n - l \in Nat
    BY <1>2
  <2> HIDE DEF moved, n
  <2> QED
    BY <2>1, <2>2
<1> HIDE DEF map, n, r, f, e, o, d, shift, table, t, F, N, first, seg, rest, moved, widths
<1>16. c \in Nat /\ M \in Nat /\ c \in 0..M /\ k - 1 \in 0..c /\ k - 1 \in 0..n /\ c = (k - 1) + N
       /\ M = c + (n - l) /\ k \in Int /\ n \in Int /\ l \in Int /\ N \in Int
  BY <1>2, <1>11
<1>17. /\ table.starts \in Seq(Int) /\ Len(table.starts) = M
       /\ \A x \in 1..(k - 1) : table.starts[x] = map.starts[x]
       /\ Moved(table.starts, seg.starts, 1, N, k - 1)
       /\ Moved(table.starts, moved, 1, n - l, c)
  <2>1. k - 1 \in 0..Len(map.starts)
    BY <1>3, <1>16
  <2> DEFINE a == k - 1
             u == SubSeq(map.starts, 1, a) \o seg.starts \o moved
  <2> HIDE DEF a
  <2>2. /\ u \in Seq(Int) /\ Len(u) = a + Len(seg.starts) + Len(moved)
        /\ \A x \in 1..a : u[x] = map.starts[x]
        /\ Moved(u, seg.starts, 1, Len(seg.starts), a)
        /\ Moved(u, moved, 1, Len(moved), a + Len(seg.starts))
    BY <1>3, <1>11, <1>15, <2>1, JoinedOf DEF a
  <2>3. u = table.starts
    BY <1>12 DEF a
  <2> HIDE DEF u
  <2> QED
    BY <1>11, <1>15, <1>16, <2>2, <2>3 DEF a
<1>18. /\ table.units \in Seq(Int) /\ Len(table.units) = M
       /\ \A x \in 1..(k - 1) : table.units[x] = map.units[x]
       /\ Moved(table.units, seg.units, 1, N, k - 1)
       /\ Moved(table.units, widths, 1, n - l, c)
  <2>1. k - 1 \in 0..Len(map.units)
    BY <1>3, <1>16
  <2> DEFINE a == k - 1
             u == SubSeq(map.units, 1, a) \o seg.units \o widths
  <2> HIDE DEF a
  <2>2. /\ u \in Seq(Int) /\ Len(u) = a + Len(seg.units) + Len(widths)
        /\ \A x \in 1..a : u[x] = map.units[x]
        /\ Moved(u, seg.units, 1, Len(seg.units), a)
        /\ Moved(u, widths, 1, Len(widths), a + Len(seg.units))
    BY <1>3, <1>11, <1>13, <2>1, JoinedOf DEF a
  <2>3. u = table.units
    BY <1>12 DEF a
  <2> HIDE DEF u
  <2> QED
    BY <1>11, <1>13, <1>16, <2>2, <2>3 DEF a
<1>f. f = FirstOf(s, k) /\ f \in Int /\ e \in Int /\ j \in Int /\ d \in Int /\ d = e - j
  BY <1>1 DEF f, d
<1> HIDE DEF c, M
<1>19. ASSUME NEW x \in 1..(k - 1)
       PROVE  /\ x \in 1..M /\ x \in 1..n /\ g[x] = FirstOf(s, x)
              /\ g[x] \in FirstsOf(r) /\ g[x] \in Int /\ g[x] < f
              /\ table.starts[x] = Offset(r, g[x]) /\ table.units[x] = LineUnits(r, g[x])
  <2> DEFINE h == FirstOf(s, x)
  <2>1. x \in 1..M /\ x \in 1..n /\ x < k /\ x \in Int
    BY <1>16
  <2>2. g[x] = h
    BY <2>1
  <2>3. h \in FirstsOf(s) /\ h \in 1..(Len(s) + 1) /\ h < f
    BY <1>2, <1>3, <1>f, <2>1
  <2> HIDE DEF h, g
  <2>4. h \in 1..(f - 1) /\ h \in 1..f /\ h \in 1..i
    BY <1>1, <2>3
  <2>5. h \in FirstsOf(r) /\ LineUnits(r, h) = LineUnits(s, h) /\ Offset(r, h) = Offset(s, h)
    BY <1>6, <1>8, <2>3, <2>4
  <2>6. table.starts[x] = Offset(s, h) /\ table.units[x] = LineUnits(s, h)
    BY <1>4, <1>17, <1>18, <2>1 DEF h
  <2> QED
    BY <2>1, <2>2, <2>3, <2>5, <2>6 DEF h
<1>20. ASSUME NEW y \in 1..N
       PROVE  LET x == y + (k - 1)
              IN  /\ x \in 1..M /\ x \in 1..c /\ g[x] = first[y] + (f - 1)
                  /\ g[x] \in FirstsOf(r) /\ g[x] \in Int /\ g[x] >= f
                  /\ table.starts[x] = Offset(r, g[x]) /\ table.units[x] = LineUnits(r, g[x])
  <2> DEFINE x == y + (k - 1)
             h == first[y]
  <2>1. x \in 1..M /\ x \in 1..c /\ ~(x < k) /\ x <= c /\ x - (k - 1) = y /\ x \in Int
    BY <1>16
  <2>2. g[x] = h + (f - 1)
    BY <2>1
  <2>3. h \in F
    BY <1>11
  <2> HIDE DEF h, g
  <2>4. /\ h \in 1..(Len(t) + 1) /\ h + (f - 1) \in FirstsOf(r) /\ h + (f - 1) \in 1..(Len(r) + 1)
        /\ Offset(r, h + (f - 1)) = Offset(r, f) + Offset(t, h)
        /\ LineUnits(t, h) = LineUnits(r, h + (f - 1))
    BY <1>5, <2>3
  <2>5. h + (f - 1) >= f /\ h + (f - 1) \in Int
    <3>1. h >= 1 /\ h \in Int
      BY <1>5, <2>4
    <3> QED
      BY <1>f, <3>1
  <2>6. table.starts[x] = seg.starts[y] /\ table.units[x] = seg.units[y]
    BY <1>17, <1>18 DEF Moved
  <2>7. seg.starts[y] = Offset(r, f) + Offset(t, h) /\ seg.units[y] = LineUnits(t, h)
    BY <1>11 DEF h
  <2> HIDE DEF x
  <2>8. /\ x \in 1..M /\ x \in 1..c /\ g[x] = first[y] + (f - 1)
        /\ g[x] \in FirstsOf(r) /\ g[x] \in Int /\ g[x] >= f
        /\ table.starts[x] = Offset(r, g[x]) /\ table.units[x] = LineUnits(r, g[x])
    BY <2>1, <2>2, <2>4, <2>5, <2>6, <2>7 DEF h
  <2> QED
    BY <2>8 DEF x
<1>21. ASSUME NEW z \in 1..(n - l)
       PROVE  LET x == z + c
              IN  /\ x \in 1..M /\ x \in (c + 1)..M /\ z + l \in 1..n
                  /\ g[x] = FirstOf(s, z + l) + d
                  /\ g[x] \in FirstsOf(r) /\ g[x] \in Int /\ g[x] > e
                  /\ table.starts[x] = Offset(r, g[x]) /\ table.units[x] = LineUnits(r, g[x])
  <2> DEFINE x == z + c
             h == FirstOf(s, z + l) + d
  <2>1. /\ x \in 1..M /\ x \in (c + 1)..M /\ ~(x < k) /\ ~(x <= c) /\ (x - c) + l = z + l
        /\ x \in Int
    BY <1>16
  <2>2. g[x] = h
    BY <2>1
  <2>3. /\ z + l \in 1..n /\ h \in FirstsOf(r) /\ h > e
        /\ moved[z] = Offset(r, h) /\ widths[z] = LineUnits(r, h)
    BY <1>14
  <2>4. FirstOf(s, z + l) \in Int
    BY <1>3, <2>3
  <2>5. h \in Int
    BY <1>f, <2>4
  <2> HIDE DEF h, g
  <2>6. table.starts[x] = moved[z] /\ table.units[x] = widths[z]
    BY <1>17, <1>18 DEF Moved
  <2> HIDE DEF x
  <2>7. /\ x \in 1..M /\ x \in (c + 1)..M /\ z + l \in 1..n /\ g[x] = h
        /\ g[x] \in FirstsOf(r) /\ g[x] \in Int /\ g[x] > e
        /\ table.starts[x] = Offset(r, g[x]) /\ table.units[x] = LineUnits(r, g[x])
    BY <2>1, <2>2, <2>3, <2>5, <2>6
  <2> QED
    BY <2>7 DEF x, h
<1>g. DOMAIN g = 1..M /\ g = [x \in 1..M |-> g[x]]
  OBVIOUS
<1> HIDE DEF g
<1>h. FirstsOf(r) \in SUBSET (1..(Len(r) + 1)) /\ Len(r) \in Int
  BY <1>1, FirstsTyped DEF FirstsOf
<1>22. ASSUME NEW x \in 1..c
       PROVE  x \in 1..(k - 1) \/ \E y \in 1..N : x = y + (k - 1)
  <2>1. CASE x < k
    BY <1>16, <2>1
  <2>2. CASE x >= k
    <3>1. x - (k - 1) \in 1..N /\ x = (x - (k - 1)) + (k - 1)
      BY <1>16, <2>2
    <3> QED
      BY <3>1
  <2> QED
    BY <1>16, <2>1, <2>2
<1>23. ASSUME NEW x \in (c + 1)..M
       PROVE  \E z \in 1..(n - l) : x = z + c
  <2>1. x - c \in 1..(n - l) /\ x = (x - c) + c
    BY <1>16
  <2> QED
    BY <2>1
<1>24. ASSUME NEW x \in 1..M
       PROVE  /\ g[x] \in FirstsOf(r) /\ g[x] \in Int
              /\ table.starts[x] = Offset(r, g[x]) /\ table.units[x] = LineUnits(r, g[x])
  <2>1. x \in 1..c \/ x \in (c + 1)..M
    BY <1>16
  <2> QED
    BY <1>19, <1>20, <1>21, <1>22, <1>23, <2>1
<1>25. ASSUME NEW x \in 1..c, NEW y \in 1..c, x < y
       PROVE  g[x] < g[y]
  <2>1. CASE x \in 1..(k - 1) /\ y \in 1..(k - 1)
    <3>1. /\ x \in 1..n /\ y \in 1..n
          /\ g[x] = FirstOf(s, x) /\ g[y] = FirstOf(s, y)
      BY <1>19, <2>1
    <3> QED
      BY <1>3, <1>25, <3>1
  <2>2. CASE x \in 1..(k - 1) /\ \E z \in 1..N : y = z + (k - 1)
    <3>1. g[x] \in Int /\ g[x] < f /\ g[y] \in Int /\ g[y] >= f
      BY <1>19, <1>20, <2>2
    <3> QED
      BY <1>f, <3>1
  <2>3. CASE (\E z \in 1..N : x = z + (k - 1)) /\ y \in 1..(k - 1)
    BY <1>16, <1>25, <2>3
  <2>4. CASE (\E z \in 1..N : x = z + (k - 1)) /\ \E z \in 1..N : y = z + (k - 1)
    <3>1. PICK v \in 1..N : x = v + (k - 1)
      BY <2>4
    <3>2. PICK w \in 1..N : y = w + (k - 1)
      BY <2>4
    <3>3. v < w
      BY <1>16, <1>25, <3>1, <3>2
    <3>4. first[v] < first[w]
      BY <1>11, <3>3
    <3>5. g[x] = first[v] + (f - 1) /\ g[y] = first[w] + (f - 1)
      BY <1>20, <3>1, <3>2
    <3>6. first[v] \in Int /\ first[w] \in Int
      <4>1. first[v] \in F /\ first[w] \in F
        BY <1>11
      <4> QED
        BY <1>5, <4>1
    <3> QED
      BY <1>f, <3>4, <3>5, <3>6
  <2> QED
    BY <1>22, <2>1, <2>2, <2>3, <2>4
<1>26. ASSUME NEW x \in (c + 1)..M, NEW y \in (c + 1)..M, x < y
       PROVE  g[x] < g[y]
  <2>1. PICK v \in 1..(n - l) : x = v + c
    BY <1>23
  <2>2. PICK w \in 1..(n - l) : y = w + c
    BY <1>23
  <2>3. v + l < w + l
    BY <1>16, <1>26, <2>1, <2>2
  <2>4. /\ v + l \in 1..n /\ w + l \in 1..n
        /\ g[x] = FirstOf(s, v + l) + d /\ g[y] = FirstOf(s, w + l) + d
    BY <1>21, <2>1, <2>2
  <2>5. FirstOf(s, v + l) < FirstOf(s, w + l) /\ FirstOf(s, v + l) \in Int /\ FirstOf(s, w + l) \in Int
    BY <1>3, <2>3, <2>4
  <2> QED
    BY <1>f, <2>4, <2>5
<1>27. ASSUME NEW x \in (c + 1)..M
       PROVE  g[x] > e
  BY <1>21, <1>23
<1>28. ASSUME NEW h \in FirstsOf(r), h <= e
       PROVE  \E x \in 1..c : g[x] = h
  <2>1. h \in 1..(Len(r) + 1) /\ h \in Int
    BY <1>h
  <2>2. CASE h < f
    <3>1. h \in 1..f
      BY <1>f, <2>1, <2>2
    <3>2. h \in FirstsOf(s)
      BY <1>6, <3>1
    <3>3. PICK x \in 1..n : FirstOf(s, x) = h
      BY <1>3, <3>2
    <3>4. x < k
      BY <1>2, <1>3, <1>f, <2>2, <3>3
    <3>5. x \in 1..(k - 1) /\ x \in 1..c
      BY <1>16, <3>4
    <3> QED
      BY <1>19, <3>3, <3>5
  <2>3. CASE h >= f
    <3>1. h - (f - 1) \in F
      BY <1>5, <1>28, <1>f, <2>1, <2>3
    <3>2. PICK y \in 1..N : first[y] = h - (f - 1)
      BY <1>11, <3>1
    <3>3. g[y + (k - 1)] = first[y] + (f - 1) /\ y + (k - 1) \in 1..c
      BY <1>20
    <3>4. first[y] + (f - 1) = h
      BY <1>f, <2>1, <3>2
    <3> QED
      BY <3>3, <3>4
  <2> QED
    BY <1>f, <2>1, <2>2, <2>3
<1>29. ASSUME NEW h \in FirstsOf(r), h > e
       PROVE  \E x \in (c + 1)..M : g[x] = h
  <2>1. h \in Int
    BY <1>h
  <2> DEFINE q == h - d
  <2>2. q \in Int /\ q > j /\ q + d = h
    BY <1>29, <1>f, <2>1
  <2> HIDE DEF q
  <2>3. q \in FirstsOf(s)
    BY <1>7, <2>2
  <2>4. PICK x \in 1..n : FirstOf(s, x) = q
    BY <1>3, <2>3
  <2>5. x > l
    BY <1>2, <1>10, <1>f, <2>2, <2>4
  <2> DEFINE z == x - l
  <2>6. z \in 1..(n - l) /\ z + l = x
    BY <1>16, <2>5
  <2> HIDE DEF z
  <2>7. g[z + c] = FirstOf(s, z + l) + d /\ z + c \in (c + 1)..M
    BY <1>21, <2>6
  <2> QED
    BY <2>2, <2>4, <2>6, <2>7
<1>30. ASSUME f = 1, NEW x \in 1..c
       PROVE  g[x] <= e
  <2>1. CASE x \in 1..(k - 1)
    <3>1. g[x] < 1 /\ g[x] \in FirstsOf(r)
      BY <1>19, <1>30, <2>1
    <3> QED
      BY <1>h, <3>1
  <2>2. CASE \E y \in 1..N : x = y + (k - 1)
    <3>1. PICK y \in 1..N : x = y + (k - 1)
      BY <2>2
    <3>2. g[x] = first[y] + (f - 1) /\ first[y] \in F
      BY <1>11, <1>20, <3>1
    <3>3. first[y] <= e /\ first[y] \in Int
      BY <1>5, <1>30, <3>2
    <3> QED
      BY <1>30, <3>2, <3>3
  <2> QED
    BY <1>22, <2>1, <2>2
<1>31. l = n => c = M
  BY <1>16
<1>32. g \in [1..M -> FirstsOf(r)]
  BY <1>24, <1>g
<1>33. Lists(table, r, e, g, M, c)
  BY <1>16, <1>17, <1>18, <1>24, <1>25, <1>26, <1>27, <1>28, <1>29, <1>32 DEF Lists
<1>34. table = TableFrom(s, new, i, j, k, l)
  BY DEF table, TableFrom, map, r, e, o, shift
<1>35. Relisted(s, new, i, j, k, l, g, M, c)
  BY <1>12, <1>30, <1>31, <1>33, <1>34 DEF Relisted, f, n, r, e
<1> QED
  BY <1>35

(* After a change the bisection finds the line of the end of the new text, *)
(* whatever stands in the table behind it.                                 *)
LEMMA EndFound ==
  ASSUME NEW C, NEW s \in Seq(C), NEW new \in Seq(C), NEW i, NEW j, NEW k, NEW l,
         ChangeOf(s, new, i, j, k, l)
  PROVE  LET r == Spliced(s, i, j, new)
             e == i + Len(new)
             table == TableFrom(s, new, i, j, k, l)
         IN  \E m : /\ InLine(r, e, m) /\ LineAt(table, Offset(r, e)) = m - 1
                    /\ Start(table, m - 1) = Offset(r, FirstOf(r, m))
<1> DEFINE r == Spliced(s, i, j, new)
           e == i + Len(new)
           o == Offset(r, e)
           table == TableFrom(s, new, i, j, k, l)
           S == FirstsOf(r)
<1>1. r \in Seq(C) /\ e \in 1..(Len(r) + 1)
  BY ChangeFacts
<1>2. \E g, M, c : Lists(table, r, e, g, M, c)
  BY TableAfter DEF Relisted
<1> HIDE DEF r, e, table
<1>3. PICK g, M, c : Lists(table, r, e, g, M, c)
  BY <1>2
<1>4. S \in SUBSET (1..(Len(r) + 1)) /\ 1 \in S /\ IsFiniteSet(S)
  BY <1>1, FirstsTyped DEF FirstsOf
<1>e. e \in Int /\ e >= 1 /\ Len(r) \in Nat
  BY <1>1
<1> HIDE DEF S
<1>5. /\ M \in Nat /\ c \in 0..M /\ g \in [1..M -> S]
      /\ table.starts \in Seq(Int) /\ Len(table.starts) = M
      /\ \A x \in 1..M : table.starts[x] = Offset(r, g[x])
      /\ \A x \in 1..c : \A y \in 1..c : x < y => g[x] < g[y]
      /\ \A x \in (c + 1)..M : g[x] > e
      /\ \A h \in S : h <= e => \E x \in 1..c : g[x] = h
  BY <1>3 DEF Lists, S
<1>6. \A x \in 1..M : g[x] \in S /\ g[x] \in 1..(Len(r) + 1) /\ g[x] \in Nat
  <2> SUFFICES ASSUME NEW x \in 1..M
               PROVE  g[x] \in S /\ g[x] \in 1..(Len(r) + 1) /\ g[x] \in Nat
    OBVIOUS
  <2>1. g[x] \in S
    BY <1>5
  <2>2. g[x] \in 1..(Len(r) + 1)
    BY <1>4, <2>1
  <2> QED
    BY <1>e, <2>1, <2>2
<1>7. \A x \in 1..c : x \in 1..M
  BY <1>5
<1> DEFINE P == {x \in 1..c : g[x] <= e}
<1>8. P \in SUBSET (0..c) /\ P # {} /\ c \in Nat
  <2>1. PICK x \in 1..c : g[x] = 1
    BY <1>4, <1>5, <1>e
  <2>2. x \in P
    BY <1>e, <2>1
  <2>3. c \in Nat
    BY <1>5
  <2> QED
    BY <2>2, <2>3
<1>9. PICK p \in P : \A x \in P : p >= x
  BY <1>8, GreatestOf
<1>10. p \in 1..c /\ p \in 1..M /\ g[p] <= e /\ p \in Nat /\ p \in 0..M
  BY <1>5, <1>8
<1>11. ASSUME NEW x \in 1..M
       PROVE  g[x] <= e <=> x <= p
  <2>1. CASE x \in (c + 1)..M
    <3>1. g[x] > e /\ g[x] \in Nat /\ x > c
      BY <1>5, <1>6, <2>1
    <3> QED
      BY <1>5, <1>10, <1>e, <3>1
  <2>2. CASE x \in 1..c
    <3>1. CASE x <= p
      <4>1. x = p \/ g[x] < g[p]
        BY <1>5, <1>10, <2>2, <3>1
      <4> QED
        BY <1>6, <1>10, <1>e, <3>1, <4>1
    <3>2. CASE x > p
      <4>1. x \notin P
        BY <1>9, <1>10, <3>2
      <4> QED
        BY <1>10, <2>2, <3>2, <4>1
    <3> QED
      BY <1>10, <3>1, <3>2
  <2> QED
    BY <1>5, <2>1, <2>2
<1> HIDE DEF P
<1> DEFINE G == [x \in 1..p |-> g[x]]
<1>12. \A x \in 1..p : x \in 1..M /\ x \in 1..c /\ G[x] = g[x]
  BY <1>5, <1>10
<1>13. /\ p <= Cardinality(S)
       /\ \A x \in 1..p : Ascending(S)[x] = G[x]
       /\ \A x \in 1..Cardinality(S) : x > p => Ascending(S)[x] > e
  <2>1. G \in [1..p -> Nat]
    BY <1>6, <1>12
  <2> HIDE DEF G
  <2>2. S \in SUBSET Nat
    BY <1>4, <1>e
  <2>3. \A x \in 1..p : \A y \in 1..p : x < y => G[x] < G[y]
    BY <1>5, <1>12
  <2>4. \A x \in 1..p : G[x] \in S /\ G[x] <= e
    BY <1>6, <1>10, <1>11, <1>12
  <2>5. \A h \in S : h <= e => \E x \in 1..p : G[x] = h
    <3> SUFFICES ASSUME NEW h \in S, h <= e
                 PROVE  \E x \in 1..p : G[x] = h
      OBVIOUS
    <3>1. PICK x \in 1..c : g[x] = h
      BY <1>5
    <3>2. x <= p
      BY <1>7, <1>11, <3>1
    <3>3. x \in 1..p
      BY <1>10, <3>2
    <3> QED
      BY <1>12, <3>1, <3>3
  <2> QED
    BY <1>4, <1>10, <1>e, <2>1, <2>2, <2>3, <2>4, <2>5, AscendingIs
<1>14. NumFirsts(r) \in Nat /\ NumFirsts(r) = Cardinality(S) /\ \A x : FirstOf(r, x) = Ascending(S)[x]
  BY <1>1, FullTable DEF NumFirsts, FirstOf, S
<1>15. FirstOf(r, p) = g[p] /\ InLine(r, e, p)
  <2>1. p \in 1..p
    BY <1>10
  <2>2. FirstOf(r, p) = g[p]
    BY <1>12, <1>13, <1>14, <2>1
  <2>3. p \in 1..NumFirsts(r) /\ \A x \in 1..NumFirsts(r) : x > p => FirstOf(r, x) > e
    BY <1>10, <1>13, <1>14
  <2> QED
    BY <1>10, <2>2, <2>3 DEF InLine
<1>16. Start(table, p - 1) = Offset(r, FirstOf(r, p))
  <2>1. (p - 1) + 1 = p
    BY <1>10
  <2> QED
    BY <1>5, <1>10, <1>15, <2>1 DEF Start
<1>17. LineAt(table, o) = p - 1
  <2>1. NumLines(table) = M
    BY <1>5 DEF NumLines
  <2>2. ASSUME NEW x \in 0..(M - 1)
        PROVE  Start(table, x) > o <=> x >= p
    <3> DEFINE y == x + 1
    <3>1. y \in 1..M /\ (x >= p <=> ~(y <= p))
      BY <1>5, <1>10
    <3>2. Start(table, x) = Offset(r, g[y])
      BY <1>5, <3>1 DEF Start
    <3> HIDE DEF y
    <3>3. g[y] \in 1..(Len(r) + 1) /\ g[y] \in Nat
      BY <1>6, <3>1
    <3>4. o < Offset(r, g[y]) <=> e < g[y]
      BY <1>1, <3>3, OffsetsGrow
    <3>5. o \in Nat /\ Offset(r, g[y]) \in Nat
      BY <1>1, <3>3, OffsetsGrow
    <3> HIDE DEF o
    <3> QED
      BY <1>11, <1>e, <3>1, <3>2, <3>3, <3>4, <3>5
  <2> HIDE DEF o
  <2> QED
    BY <1>5, <1>10, <2>1, <2>2, LineAtFinds
<1>18. \E m : /\ InLine(r, e, m) /\ LineAt(table, Offset(r, e)) = m - 1
              /\ Start(table, m - 1) = Offset(r, FirstOf(r, m))
  BY <1>15, <1>16, <1>17
<1> QED
  BY <1>18 DEF r, e, table

(* The table of a change in the first or the last line is the one of the   *)
(* text.                                                                   *)
LEMMA TableKept ==
  ASSUME NEW C, NEW s \in Seq(C), NEW new \in Seq(C), NEW i, NEW j, NEW k, NEW l,
         ChangeOf(s, new, i, j, k, l), FirstOf(s, k) = 1 \/ l = NumFirsts(s)
  PROVE  TableFrom(s, new, i, j, k, l) = LineMapOf(Spliced(s, i, j, new))
<1> DEFINE r == Spliced(s, i, j, new)
           e == i + Len(new)
           table == TableFrom(s, new, i, j, k, l)
           map == LineMapOf(r)
           S == FirstsOf(r)
           top == Len(r) + 1
<1>1. r \in Seq(C) /\ e \in 1..(Len(r) + 1)
  BY ChangeFacts
<1>2. \E g, M, c : /\ Lists(table, r, e, g, M, c)
                   /\ FirstOf(s, k) = 1 => \A x \in 1..c : g[x] <= e
                   /\ l = NumFirsts(s) => c = M
                   /\ table = [starts |-> table.starts, units |-> table.units]
  <2>1. PICK g, M, c : Relisted(s, new, i, j, k, l, g, M, c)
    BY TableAfter
  <2>2. /\ Lists(table, r, e, g, M, c)
        /\ FirstOf(s, k) = 1 => \A x \in 1..c : g[x] <= e
        /\ l = NumFirsts(s) => c = M
        /\ table = [starts |-> table.starts, units |-> table.units]
    BY <2>1 DEF Relisted
  <2> HIDE DEF table, r, e
  <2> QED
    BY <2>2
<1> HIDE DEF r, e, table
<1>3. PICK g, M, c : /\ Lists(table, r, e, g, M, c)
                     /\ FirstOf(s, k) = 1 => \A x \in 1..c : g[x] <= e
                     /\ l = NumFirsts(s) => c = M
                     /\ table = [starts |-> table.starts, units |-> table.units]
  BY <1>2
<1>4. S \in SUBSET (1..top) /\ IsFiniteSet(S)
  BY <1>1, FirstsTyped DEF FirstsOf
<1>e. e \in Int /\ e <= top /\ top \in Nat
  BY <1>1
<1> HIDE DEF S, top
<1>5. /\ M \in Nat /\ c \in 0..M /\ g \in [1..M -> S]
      /\ table.starts \in Seq(Int) /\ Len(table.starts) = M
      /\ table.units \in Seq(Int) /\ Len(table.units) = M
      /\ \A x \in 1..M : table.starts[x] = Offset(r, g[x]) /\ table.units[x] = LineUnits(r, g[x])
      /\ \A x \in 1..c : \A y \in 1..c : x < y => g[x] < g[y]
      /\ \A x \in (c + 1)..M : \A y \in (c + 1)..M : x < y => g[x] < g[y]
      /\ \A x \in (c + 1)..M : g[x] > e
      /\ \A h \in S : h <= e => \E x \in 1..c : g[x] = h
      /\ \A h \in S : h > e => \E x \in (c + 1)..M : g[x] = h
  BY <1>3 DEF Lists, S
<1>6. \A x \in 1..M : g[x] \in S /\ g[x] \in 1..top /\ g[x] \in Nat
  <2> SUFFICES ASSUME NEW x \in 1..M
               PROVE  g[x] \in S /\ g[x] \in 1..top /\ g[x] \in Nat
    OBVIOUS
  <2>1. g[x] \in S
    BY <1>5
  <2>2. g[x] \in 1..top
    BY <1>4, <2>1
  <2> QED
    BY <1>e, <2>1, <2>2
<1>7. ASSUME NEW x \in 1..M, NEW y \in 1..M, x < y
      PROVE  g[x] < g[y]
  <2>1. CASE y \in 1..c
    <3>1. x \in 1..c
      BY <1>5, <1>7, <2>1
    <3> QED
      BY <1>5, <1>7, <2>1, <3>1
  <2>2. CASE x \in (c + 1)..M
    <3>1. y \in (c + 1)..M
      BY <1>5, <1>7, <2>2
    <3> QED
      BY <1>5, <1>7, <2>2, <3>1
  <2>3. CASE x \in 1..c /\ y \in (c + 1)..M
    <3>1. c # M
      BY <1>5, <2>3
    <3>2. g[x] <= e /\ g[y] > e
      BY <1>3, <1>5, <2>3, <3>1
    <3> QED
      BY <1>6, <1>e, <3>2
  <2> QED
    BY <1>5, <2>1, <2>2, <2>3
<1>8. \A h \in S : h <= top => \E x \in 1..M : g[x] = h
  <2> SUFFICES ASSUME NEW h \in S
               PROVE  \E x \in 1..M : g[x] = h
    OBVIOUS
  <2>1. h \in Int
    BY <1>4, <1>e
  <2>2. h <= e \/ h > e
    BY <1>e, <2>1
  <2>3. (\A x \in 1..c : x \in 1..M) /\ (\A x \in (c + 1)..M : x \in 1..M)
    BY <1>5
  <2> QED
    BY <1>5, <2>2, <2>3
<1>9. /\ M <= Cardinality(S)
      /\ \A x \in 1..M : Ascending(S)[x] = g[x]
      /\ \A x \in 1..Cardinality(S) : x > M => Ascending(S)[x] > top
  <2>1. g \in [1..M -> Nat]
    BY <1>5, <1>6
  <2>2. S \in SUBSET Nat
    BY <1>4, <1>e
  <2>3. \A x \in 1..M : g[x] \in S /\ g[x] <= top
    BY <1>6, <1>e
  <2>4. top \in Int
    BY <1>e
  <2> QED
    BY <1>4, <1>5, <1>7, <1>8, <2>1, <2>2, <2>3, <2>4, AscendingIs
<1>10. NumFirsts(r) \in Nat /\ NumFirsts(r) = Cardinality(S) /\ \A x : FirstOf(r, x) = Ascending(S)[x]
  BY <1>1, FullTable DEF NumFirsts, FirstOf, S
<1>11. /\ map.starts \in Seq(Int) /\ map.units \in Seq(Int)
       /\ Len(map.starts) = NumFirsts(r) /\ Len(map.units) = NumFirsts(r)
       /\ \A x \in 1..NumFirsts(r) : /\ FirstOf(r, x) \in FirstsOf(r)
                                     /\ Start(map, x - 1) = Offset(r, FirstOf(r, x))
                                     /\ MaxUnit(map, x - 1) = LineUnits(r, FirstOf(r, x))
  BY <1>1, FullTable
<1>12. NumFirsts(r) = M
  <2>1. SUFFICES ASSUME NumFirsts(r) > M PROVE FALSE
    BY <1>5, <1>9, <1>10
  <2>2. NumFirsts(r) \in 1..NumFirsts(r)
    BY <1>5, <1>10, <2>1
  <2>3. FirstOf(r, NumFirsts(r)) \in S /\ FirstOf(r, NumFirsts(r)) > top
    BY <1>9, <1>10, <1>11, <2>1, <2>2 DEF S
  <2>4. FirstOf(r, NumFirsts(r)) \in 1..top
    BY <1>4, <2>3
  <2> QED
    BY <1>e, <2>3, <2>4
<1>13. map = [starts |-> map.starts, units |-> map.units]
  BY DEF LineMapOf, CreateLineMap
<1> HIDE DEF map
<1>14. ASSUME NEW x \in 1..M
       PROVE  table.starts[x] = map.starts[x] /\ table.units[x] = map.units[x]
  <2>1. (x - 1) + 1 = x
    OBVIOUS
  <2>2. map.starts[x] = Offset(r, FirstOf(r, x)) /\ map.units[x] = LineUnits(r, FirstOf(r, x))
    BY <1>11, <1>12, <2>1 DEF Start, MaxUnit
  <2>3. FirstOf(r, x) = g[x]
    BY <1>9, <1>10
  <2> QED
    BY <1>5, <2>2, <2>3
<1>15. table.starts = map.starts /\ table.units = map.units
  BY <1>5, <1>11, <1>12, <1>14
<1>16. table = map
  BY <1>3, <1>13, <1>15
<1> QED
  BY <1>16 DEF table, map, r

-----------------------------------------------------------------------------
(***************************************************************************)
(* Row and column.                                                         *)
(***************************************************************************)

(* Row and column of a character.                                          *)
LEMMA PointIs ==
  ASSUME NEW C, NEW s \in Seq(C), NEW i \in 1..(Len(s) + 1), NEW k, InLine(s, i, k)
  PROVE  PointOf(s, Offset(s, i)) = Point(k - 1, Offset(s, i) - Offset(s, FirstOf(s, k)))
<1> DEFINE map == LineMapOf(s)
           n == NumFirsts(s)
           L == {x \in 0..(n - 1) : Start(map, x) <= Offset(s, i)}
<1>1. /\ n \in Nat /\ NumLines(map) = n
      /\ \A x \in 1..n : /\ FirstOf(s, x) \in 1..(Len(s) + 1)
                         /\ Start(map, x - 1) = Offset(s, FirstOf(s, x))
  BY FullTable
<1>2. k \in 1..n /\ FirstOf(s, k) <= i /\ \A x \in 1..n : x > k => FirstOf(s, x) > i
  BY DEF InLine
<1> HIDE DEF map, n
<1>3. \A x \in 1..n : Offset(s, FirstOf(s, x)) <= Offset(s, i) <=> FirstOf(s, x) <= i
  <2> SUFFICES ASSUME NEW x \in 1..n
               PROVE  Offset(s, FirstOf(s, x)) <= Offset(s, i) <=> FirstOf(s, x) <= i
    OBVIOUS
  <2>1. FirstOf(s, x) \in 1..(Len(s) + 1)
    BY <1>1
  <2>2. i < FirstOf(s, x) <=> Offset(s, i) < Offset(s, FirstOf(s, x))
    BY <2>1, OffsetsGrow
  <2>3. Offset(s, i) \in Nat /\ Offset(s, FirstOf(s, x)) \in Nat
    BY <2>1, OffsetsGrow
  <2> QED
    BY <2>1, <2>2, <2>3
<1>4. L \in SUBSET Int /\ k - 1 \in L
  BY <1>1, <1>2, <1>3
<1>5. \A x \in L : x <= k - 1
  <2> SUFFICES ASSUME NEW x \in 0..(n - 1), Start(map, x) <= Offset(s, i)
               PROVE  x <= k - 1
    OBVIOUS
  <2> DEFINE y == x + 1
  <2>1. y \in 1..n /\ y - 1 = x
    BY <1>1
  <2>2. Start(map, x) = Offset(s, FirstOf(s, y)) /\ FirstOf(s, y) \in Int
    BY <1>1, <2>1
  <2>3. ~(y > k)
    BY <1>2, <1>3, <2>1, <2>2
  <2> QED
    BY <1>1, <1>2, <2>1, <2>3
<1>6. Max(L) = k - 1
  <2> HIDE DEF L
  <2> QED
    BY <1>4, <1>5, MaxIs
<1>7. Start(map, k - 1) = Offset(s, FirstOf(s, k))
  BY <1>1, <1>2
<1> QED
  BY <1>1, <1>6, <1>7 DEF PointOf, map

(* Row and column of a place in a line.                                    *)
LEMMA PlacePoint ==
  ASSUME NEW C, NEW s \in Seq(C), NEW p, NEW i, Place(s, p, i), p.line < NumFirsts(s)
  PROVE  PointOf(s, Offset(s, i)) = Point(p.line, ColumnAt(p, LineMapOf(s), s))
<1> DEFINE map == LineMapOf(s)
           n == NumFirsts(s)
<1>1. n \in Nat /\ NumLines(map) = n
  BY FullTable
<1>2. PICK k : IsSpotOf(s, p, k, i)
  BY <1>1 DEF Place, EndSpot, Position
<1>3. k \in 1..n /\ i \in FirstOf(s, k)..LineEnd(s, FirstOf(s, k)) /\ p = SpotOf(s, k, i)
  BY <1>2 DEF IsSpotOf
<1>4. InLine(s, i, k) /\ i \in 1..(Len(s) + 1)
  BY <1>3, UpToLineEnd
<1> DEFINE f == FirstOf(s, k)
           u == Units(SubSeq(s, f, i - 1))
           t == SubSeq(s, f, Len(s))
<1>5. f \in 1..(Len(s) + 1) /\ Start(map, k - 1) = Offset(s, f)
  BY <1>3, FullTable
<1>6. i \in f..(Len(s) + 1) /\ i - 1 \in (f - 1)..Len(s)
  BY <1>3, <1>4, <1>5
<1>7. p = [line |-> k - 1, character |-> u]
  BY <1>3 DEF SpotOf, Position
<1>8. From(s, Start(map, k - 1)) = t
  BY <1>5, FromAt
<1>9. ScanUnits(t, u) = i - f /\ Prefix(t, i - f) = SubSeq(s, f, i - 1)
  BY <1>5, <1>6, ScanStops
<1>10. /\ u \in Nat /\ u >= (i - 1) - f + 1
       /\ Bytes(SubSeq(s, f, i - 1)) \in Nat
       /\ i - 1 = f - 1 => Bytes(SubSeq(s, f, i - 1)) = 0
  BY <1>5, <1>6, SliceTyped
<1>11. Offset(s, i) = Offset(s, f) + Bytes(SubSeq(s, f, i - 1)) /\ Offset(s, f) \in Nat
  BY <1>5, <1>6, OffsetSplit
<1> HIDE DEF map, n, f, u, t
<1>12. ColumnAt(p, map, s) = Bytes(SubSeq(s, f, i - 1))
  <2>1. CASE u = 0
    <3>1. i - 1 = f - 1
      BY <1>5, <1>6, <1>10, <2>1
    <3> QED
      BY <1>7, <1>10, <2>1, <3>1 DEF ColumnAt
  <2>2. CASE u # 0
    <3>1. ~(k - 1 >= NumLines(map))
      BY <1>1, <1>3
    <3>2. ColumnAt([line |-> k - 1, character |-> u], map, s)
            = Bytes(Prefix(From(s, Start(map, k - 1)), ScanUnits(From(s, Start(map, k - 1)), u)))
      BY <2>2, <3>1 DEF ColumnAt
    <3> QED
      BY <1>7, <1>8, <1>9, <3>2
  <2> QED
    BY <2>1, <2>2
<1>13. Offset(s, i) - Offset(s, f) = ColumnAt(p, map, s)
  BY <1>10, <1>11, <1>12
<1>14. PointOf(s, Offset(s, i)) = Point(k - 1, Offset(s, i) - Offset(s, f))
  BY <1>4, PointIs DEF f
<1>15. p.line = k - 1
  BY <1>7
<1> QED
  BY <1>13, <1>14, <1>15 DEF map

-----------------------------------------------------------------------------
(***************************************************************************)
(* What a change does.                                                     *)
(***************************************************************************)

(* The texts are sequences of characters.                                  *)
Typed == text \in Seq(STRING) /\ editor \in Seq(STRING) /\ edits \in Nat

(* The texts of the editor and of the server are texts.                    *)
THEOREM TextsTyped == Spec => []Typed
<1>1. Init => Typed
  BY TextsAssumption DEF Init, Typed
<1>2. Typed /\ [Next]_vars => Typed'
  <2> SUFFICES ASSUME Typed, [Next]_vars
               PROVE  Typed'
    OBVIOUS
  <2>1. CASE Change
    <3>1. edits' \in Nat
      BY <2>1 DEF Change, Typed
    <3>2. PICK a \in CharSpots(editor), b \in CharSpots(editor), new \in Inserts :
            /\ ~Before(b, a) /\ editor' = Edited(a, b, new)
            /\ IF Applicable(a, b, lines, text) THEN Update(a, b, new)
               ELSE panicked' = TRUE /\ UNCHANGED <<text, lines, edit>>
      BY <2>1 DEF Change
    <3>3. editor \in Seq(STRING) /\ text \in Seq(STRING) /\ new \in Seq(STRING)
      BY TextsAssumption DEF Typed
    <3>4. editor' \in Seq(STRING)
      <4>1. PICK i, j : RangeOf(editor, a, b, i, j)
        BY <3>2, <3>3, RangeFound
      <4>2. /\ i \in 1..(Len(editor) + 1) /\ j \in i..(Len(editor) + 1)
            /\ ByteOffsetAt(a, LineMapOf(editor), editor) = Offset(editor, i)
            /\ ByteOffsetAt(b, LineMapOf(editor), editor) = Offset(editor, j)
        BY <4>1 DEF RangeOf
      <4>3. j \in 1..(Len(editor) + 1)
        BY <3>3, <4>2
      <4>4. editor' = Spliced(editor, i, j, new)
        BY <3>2, <3>3, <4>2, <4>3, ReplaceIs DEF Edited
      <4> QED
        BY <3>3, <4>2, <4>3, <4>4, SplicedOf
    <3>5. text' \in Seq(STRING)
      <4>1. CASE Applicable(a, b, lines, text)
        <5> DEFINE range == WellFormed(a, b, lines, text)
                   start == ByteOffsetAt(range.start, lines, text)
                   oldEnd == ByteOffsetAt(range.end, lines, text)
        <5>1. IsBorder(text, start) /\ IsBorder(text, oldEnd)
          BY <4>1 DEF Applicable
        <5>2. text' = Replace(text, start, oldEnd, new)
          BY <3>2, <4>1 DEF Update
        <5> HIDE DEF start, oldEnd
        <5>3. PICK i \in 1..(Len(text) + 1) : Offset(text, i) = start
          BY <5>1 DEF IsBorder
        <5>4. PICK j \in 1..(Len(text) + 1) : Offset(text, j) = oldEnd
          BY <5>1 DEF IsBorder
        <5>5. text' = Spliced(text, i, j, new)
          BY <3>3, <5>2, <5>3, <5>4, ReplaceIs
        <5> QED
          BY <3>3, <5>5, SplicedOf
      <4>2. CASE ~Applicable(a, b, lines, text)
        BY <3>2, <3>3, <4>2
      <4> QED
        BY <4>1, <4>2
    <3> QED
      BY <3>1, <3>4, <3>5 DEF Typed
  <2>2. CASE Reopen
    BY <2>2 DEF Reopen, Opened, Typed
  <2>3. CASE UNCHANGED vars
    BY <2>3 DEF vars, Typed
  <2> QED
    BY <2>1, <2>2, <2>3 DEF Next
<1> QED
  BY <1>1, <1>2, PTL DEF Spec

(* What a change does to a document whose table is exact.                  *)
Done(new, i, j, k, l, p, q) ==
  LET s == text
      r == Spliced(s, i, j, new)
      o == Offset(r, i + Len(new))
      line == LineAt(lines', o)
  IN  /\ new \in Seq(STRING)
      /\ i \in 1..(Len(s) + 1) /\ j \in i..(Len(s) + 1)
      /\ Place(s, p, i) /\ Place(s, q, j) /\ ~Before(q, p)
      /\ InLine(s, i, k)
      /\ \/ p.line = k - 1
         \/ p.line = NumFirsts(s) /\ k = NumFirsts(s)
      /\ InLine(s, j, l) /\ ~Torn(s, j)
      /\ \A x \in Breaks(s) : x >= FirstOf(s, l) /\ x < j => FALSE
      /\ \/ q.line = l - 1
         \/ q.line = NumFirsts(s) /\ l = NumFirsts(s)
      /\ editor' = r /\ text' = r /\ ~panicked'
      /\ lines' = TableFrom(s, new, i, j, k, l)
      /\ edit' = InputEdit(Offset(s, i), Offset(s, j), o,
                           Point(p.line, ColumnAt(p, LineMapOf(s), s)),
                           Point(q.line, ColumnAt(q, LineMapOf(s), s)),
                           Point(line, o - Start(lines', line)))

(* A change by the editor is done by the server as it is described.        *)
LEMMA ChangeDone ==
  ASSUME Typed, InSync, TableExact, Change
  PROVE  \E new, i, j, k, l, p, q : Done(new, i, j, k, l, p, q)
<1>1. PICK a \in CharSpots(editor), b \in CharSpots(editor), new \in Inserts :
        /\ ~Before(b, a) /\ editor' = Edited(a, b, new)
        /\ IF Applicable(a, b, lines, text) THEN Update(a, b, new)
           ELSE panicked' = TRUE /\ UNCHANGED <<text, lines, edit>>
  BY DEF Change
<1> DEFINE s == text
           map == LineMapOf(s)
           n == NumFirsts(s)
           range == WellFormed(a, b, map, s)
           p == range.start
           q == range.end
<1>2. s \in Seq(STRING) /\ new \in Seq(STRING) /\ editor = s /\ lines = map /\ ~panicked
  BY TextsAssumption DEF Typed, InSync, TableExact
<1>3. PICK i, j : RangeOf(s, a, b, i, j)
  BY <1>1, <1>2, RangeFound
<1>4. /\ i \in 1..(Len(s) + 1) /\ j \in i..(Len(s) + 1)
      /\ Place(s, p, i) /\ Place(s, q, j) /\ ~Before(q, p)
      /\ ByteOffsetAt(a, map, s) = Offset(s, i) /\ ByteOffsetAt(b, map, s) = Offset(s, j)
  BY <1>3 DEF RangeOf
<1>5. /\ ByteOffsetAt(p, map, s) = Offset(s, i) /\ ByteOffsetAt(q, map, s) = Offset(s, j)
      /\ Applicable(a, b, map, s)
  BY <1>2, <1>3, RangeApplies
<1>6. j \in 1..(Len(s) + 1)
  BY <1>2, <1>4
<1> DEFINE r == Spliced(s, i, j, new)
           e == i + Len(new)
           o == Offset(r, e)
<1>7. editor' = r
  BY <1>1, <1>2, <1>4, <1>6, ReplaceIs DEF Edited
<1>8. Replace(s, Offset(s, i), Offset(s, j), new) = r
  BY <1>2, <1>4, <1>6, ReplaceIs
<1>9. PICK k : /\ InLine(s, i, k)
               /\ \/ p.line = k - 1
                  \/ p.line = n /\ k = n
  BY <1>2, <1>4, PlaceOf
<1>10. PICK l : /\ InLine(s, j, l)
                /\ \A x \in Breaks(s) : x >= FirstOf(s, l) /\ x < j => FALSE
                /\ \/ q.line = l - 1
                   \/ q.line = n /\ l = n
  BY <1>2, <1>4, PlaceOf
<1>11. ~Torn(s, j)
  BY <1>2, <1>4, PlaceOf
<1>12. /\ n \in Nat /\ NumLines(map) = n
       /\ \A x \in 1..n : /\ FirstOf(s, x) \in 1..(Len(s) + 1)
                          /\ Start(map, x - 1) = Offset(s, FirstOf(s, x))
  BY <1>2, FullTable
<1>13. k \in 1..n /\ FirstOf(s, k) <= i /\ l \in 1..n
  BY <1>9, <1>10 DEF InLine
<1>14. LineAt(map, Offset(s, i)) = k - 1
  BY <1>2, <1>4, <1>9, LineAtInLine
<1>15. /\ e \in 1..(Len(r) + 1) /\ \A x \in 1..i : Offset(r, x) = Offset(s, x)
       /\ o = Offset(s, i) + Bytes(new)
  BY <1>2, <1>4, SplicedOffsets
<1>16. r \in Seq(STRING) /\ Len(r) = (e - 1) + (Len(s) - j + 1)
  BY <1>2, <1>4, <1>6, SplicedOf
<1>17. IsBorder(r, Start(map, LineAt(map, Offset(s, i))))
  <2> DEFINE f == FirstOf(s, k)
  <2>1. Start(map, k - 1) = Offset(s, f) /\ f \in 1..(Len(s) + 1) /\ f <= i
    BY <1>12, <1>13
  <2>2. f \in 1..i
    BY <1>2, <1>4, <2>1
  <2>3. i <= e
    BY <1>2, <1>4
  <2>4. e <= Len(r) + 1 /\ Len(r) \in Nat /\ e \in Int
    BY <1>15, <1>16
  <2> HIDE DEF f, r, e
  <2>5. f \in 1..(Len(r) + 1)
    BY <1>4, <2>2, <2>3, <2>4
  <2>6. Offset(r, f) = Start(map, k - 1)
    BY <1>15, <2>1, <2>2
  <2> QED
    BY <1>14, <2>5, <2>6 DEF IsBorder
<1>18. LinesUpTo(map, q.line) = l
  <2>1. {q.line + 1, NumLines(map)} \in SUBSET Int /\ l \in {q.line + 1, NumLines(map)}
        /\ \A x \in {q.line + 1, NumLines(map)} : l <= x
    <3>1. CASE q.line = l - 1
      BY <1>12, <1>13, <3>1
    <3>2. CASE q.line = n /\ l = n
      BY <1>12, <1>13, <3>2
    <3> QED
      BY <1>10, <3>1, <3>2
  <2> QED
    BY <2>1, MinIs DEF LinesUpTo
<1>19. Drainable(map, Offset(s, i), q.line)
  <2>1. ~(k > l)
    <3>1. SUFFICES ASSUME k > l PROVE FALSE
      OBVIOUS
    <3>2. FirstOf(s, k) > j
      BY <1>10, <1>13, <3>1 DEF InLine
    <3> QED
      BY <1>2, <1>4, <1>12, <1>13, <3>2
  <2>2. k \in Nat /\ l \in Nat
    BY <1>12, <1>13
  <2> HIDE DEF map, q
  <2> QED
    BY <1>14, <1>18, <2>1, <2>2 DEF Drainable
<1> DEFINE start == Offset(s, i)
           oldEnd == Offset(s, j)
           line == LineAt(lines', o)
<1>20. /\ text' = r /\ ~panicked'
       /\ lines' = UpdateLineMap(map, r, start, oldEnd, q.line, o)
       /\ edit' = InputEdit(start, oldEnd, o,
                            Point(p.line, ColumnAt(p, map, s)), Point(q.line, ColumnAt(q, map, s)),
                            Point(line, o - Start(lines', line)))
  <2>1. Update(a, b, new)
    BY <1>1, <1>2, <1>5
  <2>3. WellFormed(a, b, lines, text) = range
    BY <1>2
  <2>4. /\ ByteOffsetAt(range.start, lines, text) = start
        /\ ByteOffsetAt(range.end, lines, text) = oldEnd
        /\ start + Bytes(new) = o
    BY <1>2, <1>5, <1>15
  <2>5. Replace(text, start, oldEnd, new) = r
    BY <1>8
  <2>6. /\ IsBorder(r, Start(lines, LineAt(lines, start)))
        /\ Drainable(lines, start, range.end.line)
    BY <1>2, <1>17, <1>19
  <2> HIDE DEF r, map, range, o, start, oldEnd, line
  <2>7. /\ text' = r
        /\ lines' = UpdateLineMap(lines, r, start, oldEnd, range.end.line, o)
        /\ LET at == LineAt(lines', o)
           IN  edit' = InputEdit(start, oldEnd, o,
                            Point(range.start.line, ColumnAt(range.start, lines, text)),
                            Point(range.end.line, ColumnAt(range.end, lines, text)),
                            Point(at, o - Start(lines', at)))
        /\ panicked' = panicked
    BY <2>1, <2>3, <2>4, <2>5, <2>6 DEF Update
  <2> QED
    BY <1>2, <2>7 DEF line
<1>21. lines' = TableFrom(s, new, i, j, k, l)
  <2> HIDE DEF r, map, p, q, e
  <2> QED
    BY <1>14, <1>18, <1>20 DEF UpdateLineMap, TableFrom, r, map, e
<1>22. Done(new, i, j, k, l, p, q)
  <2> HIDE DEF p, q
  <2> QED
    BY <1>2, <1>4, <1>7, <1>9, <1>10, <1>11, <1>20, <1>21 DEF Done
<1> QED
  BY <1>22

(* A change without a seam tears no line break at either end of the new    *)
(* text.                                                                   *)
LEMMA SeamlessChange ==
  ASSUME text \in Seq(STRING), NEW new, NEW i, NEW j, NEW k, NEW l, NEW p, NEW q,
         Done(new, i, j, k, l, p, q), Seamless
  PROVE  ChangeOf(text, new, i, j, k, l)
<1> DEFINE s == text
           r == Spliced(s, i, j, new)
           e == i + Len(new)
<1>1. /\ new \in Seq(STRING)
      /\ i \in 1..(Len(s) + 1) /\ j \in i..(Len(s) + 1)
      /\ InLine(s, i, k) /\ InLine(s, j, l) /\ ~Torn(s, j)
      /\ \A x \in Breaks(s) : x >= FirstOf(s, l) /\ x < j => FALSE
      /\ text' = r
  BY DEF Done
<1>2. edit'.start = Offset(s, i) /\ edit'.newEnd = Offset(r, e)
  <2>1. \E x, y, z, u, v : edit' = InputEdit(Offset(s, i), x, Offset(r, e), y, z, Point(u, v))
    BY DEF Done
  <2> HIDE DEF r, e, s
  <2> QED
    BY <2>1 DEF InputEdit
<1>3. Offset(r, i) = Offset(s, i)
  <2>1. \A x \in 1..i : Offset(r, x) = Offset(s, x)
    BY <1>1, SplicedOffsets
  <2>2. i \in 1..i
    BY <1>1
  <2> QED
    BY <2>1, <2>2
<1>4. ~Seam(r, Offset(s, i)) /\ ~Seam(r, Offset(r, e))
  <2> HIDE DEF r, e, s
  <2> QED
    BY <1>1, <1>2 DEF Seamless
<1>5. ~Torn(r, i)
  <2> HIDE DEF r, e, s
  <2> QED
    BY <1>3, <1>4 DEF Seam, Torn
<1>6. ~Torn(r, e)
  <2> HIDE DEF r, e, s
  <2> QED
    BY <1>4 DEF Seam, Torn
<1> QED
  BY <1>1, <1>5, <1>6 DEF ChangeOf

(* The edit of a change without a seam describes it.                       *)
LEMMA DoneDescribed ==
  ASSUME text \in Seq(STRING), NEW new, NEW i, NEW j, NEW k, NEW l, NEW p, NEW q,
         Done(new, i, j, k, l, p, q), Seamless, edit'.oldEndPoint.row < NumFirsts(text)
  PROVE  EditDescribed
<1> DEFINE s == text
           r == Spliced(s, i, j, new)
           e == i + Len(new)
           o == Offset(r, e)
           map == LineMapOf(s)
           table == TableFrom(s, new, i, j, k, l)
           line == LineAt(lines', o)
<1>1. ChangeOf(s, new, i, j, k, l)
  BY SeamlessChange
<1>2. /\ new \in Seq(STRING)
      /\ i \in 1..(Len(s) + 1) /\ j \in i..(Len(s) + 1)
      /\ Place(s, p, i) /\ Place(s, q, j) /\ ~Before(q, p)
      /\ text' = r /\ lines' = table
      /\ edit' = InputEdit(Offset(s, i), Offset(s, j), o,
                           Point(p.line, ColumnAt(p, map, s)), Point(q.line, ColumnAt(q, map, s)),
                           Point(line, o - Start(lines', line)))
  BY DEF Done
<1>3. r \in Seq(STRING) /\ e \in 1..(Len(r) + 1)
  BY <1>1, <1>2, ChangeFacts
<1>4. PICK m : /\ InLine(r, e, m) /\ LineAt(table, Offset(r, e)) = m - 1
               /\ Start(table, m - 1) = Offset(r, FirstOf(r, m))
  BY <1>1, <1>2, EndFound
<1>5. PointOf(r, o) = Point(m - 1, o - Offset(r, FirstOf(r, m)))
  BY <1>3, <1>4, PointIs
<1>6. edit'.oldEndPoint.row = q.line
  <2> HIDE DEF o, map, s, line
  <2> QED
    BY <1>2 DEF InputEdit, Point
<1>7. q.line < NumFirsts(s)
  BY <1>6
<1>8. /\ NumFirsts(s) \in Nat
      /\ p.line \in Int /\ q.line \in Int
  <2>1. NumFirsts(s) \in Nat
    BY FullTable
  <2>2. \E x \in 1..NumFirsts(s) : p.line = x - 1 \/ p.line = NumFirsts(s)
    BY <1>2, PlaceOf DEF InLine
  <2>3. \E x \in 1..NumFirsts(s) : q.line = x - 1 \/ q.line = NumFirsts(s)
    BY <1>2, PlaceOf DEF InLine
  <2> QED
    BY <2>1, <2>2, <2>3
<1>9. p.line < NumFirsts(s)
  BY <1>2, <1>7, <1>8 DEF Before
<1>10. PointOf(s, Offset(s, i)) = Point(p.line, ColumnAt(p, map, s))
  BY <1>2, <1>9, PlacePoint
<1>11. PointOf(s, Offset(s, j)) = Point(q.line, ColumnAt(q, map, s))
  BY <1>2, <1>7, PlacePoint
<1>12. line = m - 1 /\ Start(lines', line) = Offset(r, FirstOf(r, m))
  BY <1>2, <1>4
<1> HIDE DEF s, r, e, o, map, table, line
<1>13. /\ edit'.start = Offset(s, i) /\ edit'.oldEnd = Offset(s, j) /\ edit'.newEnd = o
       /\ edit'.startPoint = Point(p.line, ColumnAt(p, map, s))
       /\ edit'.oldEndPoint = Point(q.line, ColumnAt(q, map, s))
       /\ edit'.newEndPoint = Point(line, o - Start(lines', line))
  BY <1>2 DEF InputEdit
<1>14. PointOf(text', edit'.newEnd) = edit'.newEndPoint
  BY <1>2, <1>5, <1>12, <1>13
<1>15. /\ PointOf(s, edit'.start) = edit'.startPoint
       /\ PointOf(s, edit'.oldEnd) = edit'.oldEndPoint
  BY <1>10, <1>11, <1>13
<1> QED
  BY <1>14, <1>15 DEF EditDescribed, s

-----------------------------------------------------------------------------
(***************************************************************************)
(* The theorems.                                                           *)
(***************************************************************************)

(* Offsets survive the way through a position and back, in every text the  *)
(* server can get to have.                                                 *)
THEOREM OffsetsRoundTrip == Spec => []RoundTrip
<1>1. Typed => RoundTrip
  <2> SUFFICES ASSUME Typed, lines = LineMapOf(text), NEW i \in 1..(Len(text) + 1),
                      ~Seam(text, Offset(text, i))
               PROVE  ToByteOffset(ToPosition(Offset(text, i), lines, text), lines, text)
                        = Offset(text, i)
    BY DEF RoundTrip, TableExact
  <2>1. text \in Seq(STRING)
    BY DEF Typed
  <2>2. ~(i \in 2..Len(text) /\ text[i - 1] = "CR" /\ text[i] = "LF")
    BY DEF Seam
  <2> QED
    BY <2>1, <2>2, PositionsRoundTrip
<1> QED
  BY <1>1, TextsTyped, PTL

(* A change reaches the text of the server as it was made, and the edit    *)
(* given to Tree-sitter describes it.                                      *)
THEOREM ChangesReachServer == Spec => ChangesLand
<1>1. ASSUME Typed, [Next]_vars, InSync, TableExact
      PROVE  /\ InSync'
             /\ Changed /\ Seamless /\ edit'.oldEndPoint.row < NumLines(lines) => EditDescribed
  <2>1. text \in Seq(STRING) /\ edits \in Nat
    BY <1>1 DEF Typed
  <2>2. NumLines(lines) = NumFirsts(text)
    <3>1. NumLines(LineMapOf(text)) = NumFirsts(text)
      BY <2>1, FullTable
    <3> QED
      BY <1>1, <3>1 DEF TableExact
  <2>3. CASE Change
    <3>1. PICK new, i, j, k, l, p, q : Done(new, i, j, k, l, p, q)
      BY <1>1, <2>3, ChangeDone
    <3>2. InSync'
      BY <3>1 DEF Done, InSync
    <3> QED
      BY <2>1, <2>2, <3>1, <3>2, DoneDescribed
  <2>4. CASE Reopen
    <3>1. InSync' /\ edits' = 0
      BY <2>4 DEF Reopen, Opened, InSync
    <3>2. ~Changed
      BY <2>1, <3>1 DEF Changed
    <3> QED
      BY <3>1, <3>2
  <2>5. CASE UNCHANGED vars
    <3>1. InSync' /\ edits' = edits
      BY <1>1, <2>5 DEF vars, InSync
    <3>2. ~Changed
      BY <2>1, <3>1 DEF Changed
    <3> QED
      BY <3>1, <3>2
  <2> QED
    BY <1>1, <2>3, <2>4, <2>5 DEF Next
<1>2. Typed /\ [Next]_vars =>
        (InSync /\ TableExact =>
           /\ InSync'
           /\ Changed /\ Seamless /\ edit'.oldEndPoint.row < NumLines(lines) => EditDescribed)
  BY <1>1
<1>3. Typed /\ [Next]_vars =>
        [InSync /\ TableExact =>
           /\ InSync'
           /\ Changed /\ Seamless /\ edit'.oldEndPoint.row < NumLines(lines) => EditDescribed]_vars
  BY <1>2
<1>4. Spec => []Typed
  BY TextsTyped
<1> QED
  BY <1>3, <1>4, PTL DEF Spec, ChangesLand

(* The line table stays exact under changes at either end of the text.     *)
THEOREM TableStaysExactAtEnds == Spec => TableKeptAtEnds
<1>1. ASSUME Typed, [Next]_vars, InSync, TableExact, Changed, Seamless,
             edit'.startPoint.row = 0 \/ edit'.oldEndPoint.row >= NumLines(lines) - 1
      PROVE  TableExact'
  <2>1. text \in Seq(STRING) /\ edits \in Nat
    BY <1>1 DEF Typed
  <2> DEFINE n == NumFirsts(text)
  <2>2. n \in Nat /\ n >= 1 /\ FirstOf(text, 1) = 1 /\ NumLines(lines) = n
    <3>1. /\ n \in Nat /\ n >= 1 /\ FirstOf(text, 1) = 1
          /\ NumLines(LineMapOf(text)) = n
      BY <2>1, FullTable
    <3> QED
      BY <1>1, <3>1 DEF TableExact
  <2>3. CASE Change
    <3>1. PICK new, i, j, k, l, p, q : Done(new, i, j, k, l, p, q)
      BY <1>1, <2>3, ChangeDone
    <3>2. ChangeOf(text, new, i, j, k, l)
      BY <1>1, <2>1, <3>1, SeamlessChange
    <3>3. new \in Seq(STRING) /\ k \in 1..n /\ l \in 1..n
      BY <3>1 DEF Done, InLine
    <3>4. /\ \/ p.line = k - 1
             \/ p.line = n /\ k = n
          /\ \/ q.line = l - 1
             \/ q.line = n /\ l = n
      BY <3>1 DEF Done
    <3>5. edit'.startPoint.row = p.line /\ edit'.oldEndPoint.row = q.line
      <4>1. \E u, v, w, x, y, z : edit' = InputEdit(u, v, w, Point(p.line, x), Point(q.line, y), z)
        BY <3>1 DEF Done
      <4> QED
        BY <4>1 DEF InputEdit, Point
    <3> HIDE DEF n
    <3>6. k = 1 \/ l = n
      BY <1>1, <2>2, <3>3, <3>4, <3>5
    <3>7. TableFrom(text, new, i, j, k, l) = LineMapOf(Spliced(text, i, j, new))
      <4>1. FirstOf(text, k) = 1 \/ l = NumFirsts(text)
        BY <2>2, <3>6 DEF n
      <4> QED
        BY <2>1, <3>2, <3>3, <4>1, TableKept
    <3>8. lines' = TableFrom(text, new, i, j, k, l) /\ text' = Spliced(text, i, j, new)
      BY <3>1 DEF Done
    <3>9. lines' = LineMapOf(text')
      BY <3>7, <3>8
    <3> QED
      BY <3>9 DEF TableExact
  <2>4. CASE Reopen
    <3>1. edits' = 0
      BY <2>4 DEF Reopen, Opened
    <3> QED
      BY <1>1, <2>1, <3>1 DEF Changed
  <2>5. CASE UNCHANGED vars
    <3>1. edits' = edits
      BY <2>5 DEF vars
    <3> QED
      BY <1>1, <2>1, <3>1 DEF Changed
  <2> QED
    BY <1>1, <2>3, <2>4, <2>5 DEF Next
<1>2. Typed /\ [Next]_vars =>
        [InSync /\ TableExact /\ Changed /\ Seamless
           /\ (edit'.startPoint.row = 0 \/ edit'.oldEndPoint.row >= NumLines(lines) - 1)
         => TableExact']_vars
  BY <1>1
<1>3. Spec => []Typed
  BY TextsTyped
<1> QED
  BY <1>2, <1>3, PTL DEF Spec, TableKeptAtEnds
=============================================================================
