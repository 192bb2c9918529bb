--------------------------- MODULE TextDocsProofs ---------------------------
(***************************************************************************)
(* Theorems about the document store, for every set of files and texts and *)
(* any number of renames.  The first part tells what each operation does   *)
(* to the slots, the second draws the properties of the store from that,   *)
(* the third those of its indexes, from what is proved of their folds.     *)
(***************************************************************************)
EXTENDS TextDocs, FiniteSetTheorems, SequenceTheorems, TLAPS

(* A vacated slot is empty, the others are as they were.                   *)
LEMMA VacateEffect ==
  ASSUME NEW sl, SlotsOK(sl), NEW s \in Status, NEW i
  PROVE  /\ SlotsOK(Vacate(sl, s, i))
         /\ DOMAIN Vacate(sl, s, i)[s] = DOMAIN sl[s] \ {i}
         /\ \A r \in Status : \A j \in DOMAIN Vacate(sl, s, i)[r] :
              j \in DOMAIN sl[r] /\ Vacate(sl, s, i)[r][j] = sl[r][j]
         /\ \A r \in Status \ {s} : Vacate(sl, s, i)[r] = sl[r]
BY DEF Vacate, SlotsOK

(* A document that is placed is in its slot, the others are as they were.  *)
LEMMA PlaceEffect ==
  ASSUME NEW sl, SlotsOK(sl), NEW s \in Status, NEW i, NEW d \in Doc
  PROVE  /\ SlotsOK(Place(sl, s, i, d))
         /\ DOMAIN Place(sl, s, i, d)[s] = DOMAIN sl[s] \union {i}
         /\ Place(sl, s, i, d)[s][i] = d
         /\ \A j \in DOMAIN sl[s] \ {i} : Place(sl, s, i, d)[s][j] = sl[s][j]
         /\ \A r \in Status \ {s} : Place(sl, s, i, d)[r] = sl[r]
BY DEF Place, SlotsOK

(* Listing more callers keeps a document what it is.                       *)
LEMMA ListingEffect ==
  ASSUME NEW d \in Doc, NEW S
  PROVE  /\ Listing(d, S) \in Doc
         /\ Listing(d, S).uri = d.uri
         /\ Listing(d, S).text = d.text
         /\ Listing(d, S).calls = d.calls
         /\ \A u \in Uri : Listing(d, S).callers[u] > 0 <=>
                             d.callers[u] > 0 \/ u \in S
<1> DEFINE more == [u \in Uri |->
                      IF u \in S /\ d.callers[u] = 0 THEN 1 ELSE d.callers[u]]
           some == d.listed \/ S # {}
<1>1. more \in [Uri -> Nat] /\ \A u \in Uri : more[u] > 0 <=>
                                   d.callers[u] > 0 \/ u \in S
  BY DEF Doc
<1>2. some \in BOOLEAN
  OBVIOUS
<1>3. Listing(d, S) = [d EXCEPT !.listed = some, !.callers = more]
  BY DEF Listing
<1> HIDE DEF more, some
<1> QED
  BY <1>1, <1>2, <1>3 DEF Doc

(* Occurrences in a sequence can be counted.                               *)
LEMMA Counted ==
  ASSUME NEW T, NEW q \in Seq(T), NEW e
  PROVE  Cardinality(At(q, e)) \in Nat
<1>1. DOMAIN q = 1..Len(q) /\ Len(q) \in Nat
  OBVIOUS
<1>2. IsFiniteSet(1..Len(q))
  BY <1>1, FS_Interval
<1>3. IsFiniteSet(At(q, e))
  BY <1>1, <1>2, FS_Subset DEF At
<1> QED
  BY <1>3, FS_CardinalityType

(* Removing a caller touches nothing but lists of callers, and adds no     *)
(* caller.                                                                 *)
LEMMA RemoveCallerEffect ==
  ASSUME StoreOK, SlotsExact, NEW u \in Uri
  PROVE  LET sl == RemoveCaller(slots, u) IN
         /\ SlotsOK(sl)
         /\ \A s \in Status :
              /\ DOMAIN sl[s] = DOMAIN slots[s]
              /\ \A i \in DOMAIN sl[s] :
                   /\ sl[s][i].uri = slots[s][i].uri
                   /\ sl[s][i].text = slots[s][i].text
                   /\ sl[s][i].calls = slots[s][i].calls
                   /\ \A v \in Uri : sl[s][i].callers[v] > 0 =>
                                       slots[s][i].callers[v] > 0
<1>1. CASE u \notin Known
  BY <1>1 DEF RemoveCaller, StoreOK, SlotsOK
<1>2. CASE u \in Known
  <2>1. Data(u).calls \in Seq(Uri)
    BY <1>2 DEF StoreOK, SlotsOK, SlotsExact, Data, Doc
  <2> DEFINE n(d) == Cardinality(At(Data(u).calls, d.uri))
             Less(d) == [d EXCEPT !.callers[u] = Monus(d.callers[u], n(d))]
  <2>2. ASSUME NEW d \in Doc
        PROVE  /\ Less(d) \in Doc
               /\ Less(d).uri = d.uri
               /\ Less(d).text = d.text
               /\ Less(d).calls = d.calls
               /\ \A v \in Uri : Less(d).callers[v] > 0 => d.callers[v] > 0
    <3>1. n(d) \in Nat
      BY <2>1, Counted
    <3> HIDE DEF n
    <3>2. Monus(d.callers[u], n(d)) \in Nat
          /\ (Monus(d.callers[u], n(d)) > 0 => d.callers[u] > 0)
      BY <3>1 DEF Monus, Doc
    <3> QED
      BY <3>2 DEF Doc
  <2>3. RemoveCaller(slots, u) =
          [s \in Status |-> [i \in DOMAIN slots[s] |-> Less(slots[s][i])]]
    BY <1>2 DEF RemoveCaller, MapDocs
  <2> HIDE DEF Less
  <2> QED
    BY <2>2, <2>3 DEF StoreOK, SlotsOK
<1> QED
  BY <1>1, <1>2

(* A new document is a document.                                           *)
LEMMA NewDocTyped ==
  ASSUME NEW u \in Uri, NEW t \in Text
  PROVE  /\ NewDoc(u, t) \in Doc /\ NewDoc(u, t).uri = u
         /\ NewDoc(u, t).text = t /\ NewDoc(u, t).calls = t.calls
<1>1. t.calls \in Seq(Uri)
  BY StoreAssumption
<1>2. NoCallers \in [Uri -> Nat]
  BY DEF NoCallers
<1> HIDE DEF NoCallers
<1> QED
  BY <1>1, <1>2 DEF NewDoc, Doc

(* A slot that is to be taken is not occupied.                             *)
LEMMA FreeSlotsFree ==
  ASSUME StoreOK, SlotsExact, NEW s \in Status, NEW i \in FreeSlots(s)
  PROVE  i \in Nat \ {0} /\ i \notin DOMAIN slots[s]
BY DEF StoreOK, SlotsExact, FreeSlots

(* Two files do not share a place.                                         *)
LEMMA PlacesDiffer ==
  ASSUME StoreOK, SlotsExact, NEW u \in Known, NEW v \in Known, u # v,
         registry[u][1] = registry[v][1]
  PROVE  registry[u][2] # registry[v][2]
BY DEF StoreOK, SlotsExact

(* TextDocs::add puts the document in one slot and leaves every other      *)
(* where it is.                                                            *)
LEMMA AddEffect ==
  ASSUME StoreOK, SlotsExact,
         NEW u \in Uri, NEW t \in Text, NEW s \in Status, Add(u, t, s)
  PROVE  /\ StoreOK' /\ SlotsExact'
         /\ Known' = Known \union {u}
         /\ registry'[u][1] = s /\ Data(u)'.text = t /\ Data(u)'.calls = t.calls
         /\ \A v \in Known \ {u} :
              /\ registry'[v] = registry[v]
              /\ Data(v)'.text = Data(v).text
              /\ Data(v)'.calls = Data(v).calls
              /\ \A w \in Uri : Data(v)'.callers[w] > 0 =>
                                  Data(v).callers[w] > 0
         /\ \A w \in Uri : Data(u)'.callers[w] > 0 => w \in Known'
<1> DEFINE stays == u \in Known /\ registry[u][1] = s
           base  == RemoveCaller(slots, u)
           left  == IF u \in Known
                    THEN Vacate(base, registry[u][1], registry[u][2]) ELSE slots
           freed == IF u \in Known /\ ~stays
                    THEN [free EXCEPT ![registry[u][1]] = @ \union {registry[u][2]}]
                    ELSE free
<1>1. PICK i \in IF stays THEN {registry[u][2]} ELSE FreeSlots(s) :
        LET added == Place(left, s, i, NewDoc(u, t)) IN
        /\ registry' = [v \in Known \union {u} |->
                          IF v = u THEN <<s, i>> ELSE registry[v]]
        /\ Take(s, i, freed)
        /\ slots' = Place(added, s, i, Listing(added[s][i], CallersOf(added, u)))
  BY DEF Add
<1> DEFINE added == Place(left, s, i, NewDoc(u, t))
           doc   == Listing(NewDoc(u, t), CallersOf(added, u))
<1>2. /\ SlotsOK(base)
      /\ \A r \in Status :
           /\ DOMAIN base[r] = DOMAIN slots[r]
           /\ \A j \in DOMAIN base[r] :
                /\ base[r][j].uri = slots[r][j].uri
                /\ base[r][j].text = slots[r][j].text
                /\ base[r][j].calls = slots[r][j].calls
                /\ \A w \in Uri : base[r][j].callers[w] > 0 =>
                                    slots[r][j].callers[w] > 0
  BY RemoveCallerEffect
<1>3. u \in Known => registry[u] \in Status \X Nat
  BY DEF StoreOK
<1> HIDE DEF base
<1>4. /\ SlotsOK(left)
      /\ \A r \in Status :
           /\ DOMAIN left[r] \subseteq DOMAIN slots[r]
           /\ u \in Known /\ r = registry[u][1] =>
                DOMAIN left[r] = DOMAIN slots[r] \ {registry[u][2]}
           /\ ~(u \in Known /\ r = registry[u][1]) =>
                DOMAIN left[r] = DOMAIN slots[r]
           /\ \A j \in DOMAIN left[r] :
                /\ left[r][j].uri = slots[r][j].uri
                /\ left[r][j].text = slots[r][j].text
                /\ left[r][j].calls = slots[r][j].calls
                /\ \A w \in Uri : left[r][j].callers[w] > 0 =>
                                    slots[r][j].callers[w] > 0
  <2>1. CASE u \notin Known
    BY <2>1 DEF StoreOK
  <2>2. CASE u \in Known
    <3>1. registry[u][1] \in Status
      BY <2>2, <1>3
    <3>2. left = Vacate(base, registry[u][1], registry[u][2])
      BY <2>2
    <3>3. /\ SlotsOK(left)
          /\ DOMAIN left[registry[u][1]] =
               DOMAIN base[registry[u][1]] \ {registry[u][2]}
          /\ \A r \in Status : \A j \in DOMAIN left[r] :
               j \in DOMAIN base[r] /\ left[r][j] = base[r][j]
          /\ \A r \in Status \ {registry[u][1]} : left[r] = base[r]
      BY <3>1, <3>2, <1>2, VacateEffect
    <3> HIDE DEF left
    <3>4. ASSUME NEW r \in Status
          PROVE  /\ DOMAIN left[r] \subseteq DOMAIN slots[r]
                 /\ r = registry[u][1] =>
                      DOMAIN left[r] = DOMAIN slots[r] \ {registry[u][2]}
                 /\ r # registry[u][1] => DOMAIN left[r] = DOMAIN slots[r]
      BY <3>3, <1>2
    <3>5. ASSUME NEW r \in Status, NEW j \in DOMAIN left[r]
          PROVE  /\ left[r][j].uri = slots[r][j].uri
                 /\ left[r][j].text = slots[r][j].text
                 /\ left[r][j].calls = slots[r][j].calls
                 /\ \A w \in Uri : left[r][j].callers[w] > 0 =>
                                     slots[r][j].callers[w] > 0
      BY <3>3, <1>2
    <3> QED
      BY <2>2, <3>3, <3>4, <3>5
  <2> HIDE DEF left
  <2> QED
    BY <2>1, <2>2
<1>5. i \in Nat \ {0} /\ i \notin DOMAIN left[s]
  <2>1. CASE stays
    <3>1. i = registry[u][2]
      BY <2>1, <1>1
    <3>2. i \in DOMAIN slots[s]
      BY <2>1, <3>1 DEF SlotsExact
    <3>3. i \in Nat \ {0}
      BY <3>2 DEF StoreOK
    <3> QED
      BY <2>1, <3>1, <3>3, <1>4
  <2>2. CASE ~stays
    <3>1. i \in FreeSlots(s)
      BY <2>2, <1>1
    <3> QED
      BY <3>1, <1>4, FreeSlotsFree
  <2> QED
    BY <2>1, <2>2
<1> HIDE DEF left
<1>6. /\ SlotsOK(added)
      /\ DOMAIN added[s] = DOMAIN left[s] \union {i}
      /\ added[s][i] = NewDoc(u, t)
      /\ \A j \in DOMAIN left[s] \ {i} : added[s][j] = left[s][j]
      /\ \A r \in Status \ {s} : added[r] = left[r]
  BY <1>4, NewDocTyped, PlaceEffect
<1> HIDE DEF added
<1>7. doc \in Doc /\ doc.uri = u /\ doc.text = t /\ doc.calls = t.calls
  BY NewDocTyped, ListingEffect
<1>8. slots' = Place(added, s, i, doc)
  BY <1>1, <1>6 DEF added
<1>9. /\ SlotsOK(slots')
      /\ DOMAIN slots'[s] = DOMAIN left[s] \union {i}
      /\ slots'[s][i] = doc
      /\ \A j \in DOMAIN left[s] : slots'[s][j] = left[s][j]
      /\ \A r \in Status \ {s} : slots'[r] = left[r]
  <2> HIDE DEF doc
  <2> QED
    BY <1>5, <1>6, <1>7, <1>8, PlaceEffect
<1>10. /\ registry' = [v \in Known \union {u} |->
                         IF v = u THEN <<s, i>> ELSE registry[v]]
       /\ len' = [len EXCEPT ![s] = IF i > len[s] THEN i ELSE len[s]]
       /\ free' = [freed EXCEPT ![s] = freed[s] \ {i}]
  BY <1>1 DEF Take
<1>11. StoreOK'
  <2>1. freed \in [Status -> SUBSET Nat]
    BY <1>3 DEF StoreOK
  <2> HIDE DEF freed
  <2>2. /\ registry' \in [Known' -> Status \X Nat]
        /\ Known' \subseteq Uri
    BY <1>5, <1>10 DEF StoreOK, Known
  <2>3. len' \in [Status -> Nat] /\ free' \in [Status -> SUBSET Nat]
    BY <2>1, <1>5, <1>10 DEF StoreOK
  <2>4. ASSUME NEW r \in Status
        PROVE  DOMAIN slots'[r] \subseteq 1..len'[r]
    <3>1. DOMAIN left[r] \subseteq 1..len[r]
      BY <1>4 DEF StoreOK
    <3>2. CASE r = s
      BY <3>1, <3>2, <1>5, <1>9, <1>10 DEF StoreOK
    <3>3. CASE r # s
      BY <3>1, <3>3, <1>9, <1>10 DEF StoreOK
    <3> QED
      BY <3>2, <3>3
  <2> QED
    BY <2>2, <2>3, <2>4, <1>9 DEF StoreOK
<1>12. /\ Known' = Known \union {u}
       /\ registry'[u] = <<s, i>>
       /\ \A v \in Known \ {u} : registry'[v] = registry[v]
  BY <1>10 DEF Known
<1>13. ASSUME NEW v \in Known \ {u}
       PROVE  LET r == registry[v][1]
                  j == registry[v][2]
              IN /\ r \in Status /\ j \in DOMAIN slots'[r]
                 /\ <<r, j>> # <<s, i>>
                 /\ slots'[r][j] = left[r][j]
  <2>1. registry[v] \in Status \X Nat
    BY DEF StoreOK
  <2>2. registry[v][2] \in DOMAIN slots[registry[v][1]]
    BY DEF SlotsExact
  <2>3. u \in Known /\ registry[u][1] = registry[v][1]
          => registry[v][2] # registry[u][2]
    BY PlacesDiffer
  <2>4. registry[v][2] \in DOMAIN left[registry[v][1]]
    BY <2>1, <2>2, <2>3, <1>4
  <2> QED
    BY <2>1, <2>4, <1>5, <1>9
<1>14. Data(u)' = doc
  BY <1>9, <1>12 DEF Data
<1>15. ASSUME NEW v \in Known \ {u}
       PROVE  Data(v)' = left[registry[v][1]][registry[v][2]]
  BY <1>12, <1>13 DEF Data
<1>16. SlotsExact'
  <2>1. ASSUME NEW v \in Known', NEW w \in Known', registry'[v] = registry'[w]
        PROVE  v = w
    BY <2>1, <1>12, <1>13 DEF SlotsExact, StoreOK
  <2>2. ASSUME NEW v \in Known'
        PROVE  /\ registry'[v][2] \in DOMAIN slots'[registry'[v][1]]
               /\ Data(v)'.uri = v
    <3>1. CASE v = u
      BY <3>1, <1>7, <1>9, <1>12, <1>14
    <3>2. CASE v # u
      <4>1. v \in Known \ {u}
        BY <3>2, <1>12
      <4>2. registry[v][1] \in Status /\ registry[v][2] \in DOMAIN left[registry[v][1]]
        BY <4>1, <1>5, <1>9, <1>13
      <4>3. left[registry[v][1]][registry[v][2]].uri = Data(v).uri
        BY <4>2, <1>4 DEF Data
      <4> QED
        BY <4>1, <4>3, <1>12, <1>13, <1>15 DEF SlotsExact
    <3> QED
      BY <3>1, <3>2
  <2>3. ASSUME NEW r \in Status, NEW j \in DOMAIN slots'[r]
        PROVE  \E v \in Known' : registry'[v] = <<r, j>>
    <3>1. CASE r = s /\ j = i
      BY <3>1, <1>12
    <3>2. CASE ~(r = s /\ j = i)
      <4>1. j \in DOMAIN left[r]
        BY <3>2, <1>9
      <4>2. PICK v \in Known : registry[v] = <<r, j>>
        <5>1. j \in DOMAIN slots[r]
          BY <4>1, <1>4
        <5> QED
          BY <5>1 DEF SlotsExact
      <4>3. ASSUME v = u PROVE FALSE
        <5>1. registry[u][1] = r /\ registry[u][2] = j
          BY <4>2, <4>3
        <5> QED
          BY <4>1, <4>2, <4>3, <5>1, <1>4
      <4> QED
        BY <4>2, <4>3, <1>12
    <3> QED
      BY <3>1, <3>2
  <2>4. ASSUME NEW r \in Status
        PROVE  free'[r] = 1..len'[r] \ DOMAIN slots'[r]
    <3>1. /\ free[r] = 1..len[r] \ DOMAIN slots[r]
          /\ free[r] \subseteq Nat /\ len[r] \in Nat
          /\ DOMAIN slots[r] \subseteq 1..len[r]
      BY DEF SlotsExact, StoreOK
    <3>2. freed \in [Status -> SUBSET Nat]
      BY <1>3 DEF StoreOK
    <3>3. CASE r = s /\ stays
      <4>1. i = registry[u][2] /\ i \in DOMAIN slots[s]
        BY <3>3, <1>1 DEF SlotsExact
      <4>2. freed[s] = free[s]
        BY <3>3
      <4>3. DOMAIN slots'[s] = DOMAIN slots[s]
        BY <3>3, <4>1, <1>4, <1>9
      <4> QED
        BY <3>1, <3>3, <4>1, <4>2, <4>3, <1>10 DEF StoreOK
    <3>4. CASE r = s /\ ~stays
      <4>1. i \in FreeSlots(s)
        BY <3>4, <1>1
      <4>2. freed[s] = free[s]
        BY <3>4, <1>3 DEF StoreOK
      <4>3. DOMAIN slots'[s] = DOMAIN slots[s] \union {i}
        BY <3>4, <1>4, <1>9
      <4>4. free'[s] = free[s] \ {i}
        BY <4>2, <1>10, <3>2
      <4>5. len'[s] = IF i > len[s] THEN i ELSE len[s]
        BY <1>10 DEF StoreOK
      <4>6. CASE free[s] = {}
        BY <3>1, <3>4, <4>1, <4>3, <4>4, <4>5, <4>6 DEF FreeSlots
      <4>7. CASE free[s] # {}
        BY <3>1, <3>4, <4>1, <4>3, <4>4, <4>5, <4>7 DEF FreeSlots
      <4> QED
        BY <4>6, <4>7
    <3>5. CASE r # s
      <4>1. free'[r] = freed[r] /\ len'[r] = len[r]
        BY <3>2, <3>5, <1>10 DEF StoreOK
      <4>2. DOMAIN slots'[r] = DOMAIN left[r]
        BY <3>5, <1>9
      <4>3. CASE u \in Known /\ r = registry[u][1]
        <5>1. registry[u][2] \in 1..len[r]
          BY <4>3 DEF SlotsExact, StoreOK
        <5>2. freed[r] = free[r] \union {registry[u][2]}
          BY <4>3, <3>5 DEF StoreOK
        <5>3. DOMAIN left[r] = DOMAIN slots[r] \ {registry[u][2]}
          BY <4>3, <1>4
        <5> QED
          BY <3>1, <4>1, <4>2, <5>1, <5>2, <5>3
      <4>4. CASE ~(u \in Known /\ r = registry[u][1])
        <5>1. freed[r] = free[r]
          BY <4>4, <1>3 DEF StoreOK
        <5> QED
          BY <3>1, <4>1, <4>2, <4>4, <5>1, <1>4
      <4> QED
        BY <4>3, <4>4
    <3> QED
      BY <3>3, <3>4, <3>5
  <2> QED
    BY <2>1, <2>2, <2>3, <2>4 DEF SlotsExact
<1>17. ASSUME NEW v \in Known \ {u}
       PROVE  /\ Data(v)'.text = Data(v).text
              /\ Data(v)'.calls = Data(v).calls
              /\ \A w \in Uri : Data(v)'.callers[w] > 0 => Data(v).callers[w] > 0
  <2>1. registry[v][1] \in Status /\ registry[v][2] \in DOMAIN left[registry[v][1]]
    BY <1>5, <1>9, <1>13
  <2>2. /\ left[registry[v][1]][registry[v][2]].text = Data(v).text
        /\ left[registry[v][1]][registry[v][2]].calls = Data(v).calls
        /\ \A w \in Uri :
             left[registry[v][1]][registry[v][2]].callers[w] > 0 =>
               Data(v).callers[w] > 0
    BY <2>1, <1>4 DEF Data
  <2> QED
    BY <2>2, <1>15
<1>18. ASSUME NEW w \in Uri, Data(u)'.callers[w] > 0
       PROVE  w \in Known'
  <2>1. w \in CallersOf(added, u)
    <3>1. NewDoc(u, t).callers[w] = 0
      BY DEF NewDoc, NoCallers
    <3> QED
      BY <3>1, <1>14, <1>18, NewDocTyped, ListingEffect
  <2>2. PICK r \in Status : \E j \in DOMAIN added[r] : added[r][j].uri = w
    BY <2>1 DEF CallersOf, DocsOf
  <2>3. PICK j \in DOMAIN added[r] : added[r][j].uri = w
    BY <2>2
  <2>4. CASE r = s /\ j = i
    BY <2>3, <2>4, <1>6, <1>12, NewDocTyped
  <2>5. CASE ~(r = s /\ j = i)
    <3>1. j \in DOMAIN left[r] /\ added[r][j] = left[r][j]
      BY <2>5, <1>6
    <3>2. j \in DOMAIN slots[r] /\ slots[r][j].uri = w
      BY <3>1, <2>3, <1>4
    <3>3. PICK v \in Known : registry[v] = <<r, j>>
      BY <3>2 DEF SlotsExact
    <3>4. v = w
      BY <3>2, <3>3 DEF SlotsExact, Data
    <3> QED
      BY <3>4, <1>12
  <2> QED
    BY <2>4, <2>5
<1> QED
  BY <1>7, <1>11, <1>12, <1>14, <1>16, <1>17, <1>18

(* A step that moves no document and renames none keeps the slots exact.   *)
LEMMA SlotsUnmoved ==
  ASSUME StoreOK, SlotsExact, registry' = registry, len' = len, free' = free,
         \A s \in Status : DOMAIN slots'[s] = DOMAIN slots[s],
         \A v \in Known : Data(v)'.uri = v
  PROVE  SlotsExact'
<1>1. Known' = Known
  BY DEF Known
<1>2. \A v \in Known : registry[v][1] \in Status
  BY DEF StoreOK
<1>3. \A v, w \in Known' : registry'[v] = registry'[w] => v = w
  BY <1>1 DEF SlotsExact
<1>4. \A v \in Known' : registry'[v][2] \in DOMAIN slots'[registry'[v][1]]
  BY <1>1, <1>2 DEF SlotsExact
<1>5. ASSUME NEW s \in Status
      PROVE  /\ \A i \in DOMAIN slots'[s] : \E v \in Known' : registry'[v] = <<s, i>>
             /\ free'[s] = 1..len'[s] \ DOMAIN slots'[s]
  BY <1>1 DEF SlotsExact
<1> QED
  BY <1>1, <1>3, <1>4, <1>5 DEF SlotsExact

(* TextDocs::update changes one document where it is.                      *)
LEMMA EditEffect ==
  ASSUME StoreOK, SlotsExact, NEW u \in Uri, NEW t \in Text, Edit(u, t)
  PROVE  /\ StoreOK' /\ SlotsExact'
         /\ u \in Known /\ registry' = registry
         /\ Data(u)'.text = t /\ Data(u)'.calls = t.calls
         /\ Data(u)'.callers = Data(u).callers
         /\ \A v \in Known \ {u} : Data(v)' = Data(v)
<1>1. /\ u \in Known /\ registry' = registry /\ len' = len /\ free' = free
      /\ slots' = [slots EXCEPT ![registry[u][1]][registry[u][2]] =
                     [@ EXCEPT !.text = t, !.calls = t.calls]]
  BY DEF Edit
<1>2. registry[u] \in Status \X Nat
  BY <1>1 DEF StoreOK
<1> DEFINE r == registry[u][1]
           j == registry[u][2]
           doc == [slots[r][j] EXCEPT !.text = t, !.calls = t.calls]
<1>3. r \in Status /\ j \in DOMAIN slots[r] /\ slots[r][j] = Data(u)
      /\ Data(u) \in Doc /\ Data(u).uri = u
  BY <1>1, <1>2 DEF SlotsExact, StoreOK, SlotsOK, Data
<1>4. /\ doc \in Doc /\ doc.uri = u /\ doc.text = t /\ doc.calls = t.calls
      /\ doc.callers = Data(u).callers
  <2>1. t.calls \in Seq(Uri)
    BY StoreAssumption
  <2> QED
    BY <2>1, <1>3 DEF Doc
<1>5. slots' = [slots EXCEPT ![r] = [slots[r] EXCEPT ![j] = doc]]
  BY <1>1, <1>3
<1>6. DOMAIN slots = Status /\ \A s \in Status : slots[s] \in [DOMAIN slots[s] -> Doc]
  BY DEF StoreOK, SlotsOK
<1> HIDE DEF doc, r, j
<1>7. /\ SlotsOK(slots')
      /\ \A s \in Status : DOMAIN slots'[s] = DOMAIN slots[s]
      /\ slots'[r][j] = doc
      /\ \A s \in Status : \A i \in DOMAIN slots[s] :
           <<s, i>> # <<r, j>> => slots'[s][i] = slots[s][i]
  BY <1>3, <1>4, <1>5, <1>6 DEF SlotsOK
<1>8. Data(u)' = doc
  BY <1>1, <1>7 DEF Data, r, j
<1>9. ASSUME NEW v \in Known \ {u}
      PROVE  Data(v)' = Data(v)
  <2>1. registry[v] \in Status \X Nat /\ registry[v] # registry[u]
    BY <1>1 DEF StoreOK, SlotsExact
  <2>2. <<registry[v][1], registry[v][2]>> # <<r, j>>
    BY <2>1, <1>2 DEF r, j
  <2>3. registry[v][1] \in Status /\ registry[v][2] \in DOMAIN slots[registry[v][1]]
    BY <2>1 DEF SlotsExact
  <2> QED
    BY <2>2, <2>3, <1>1, <1>7 DEF Data
<1>10. Known' = Known
  BY <1>1 DEF Known
<1>11. StoreOK'
  BY <1>1, <1>7, <1>10 DEF StoreOK
<1>12. SlotsExact'
  <2>1. \A v \in Known : Data(v)'.uri = v
    BY <1>4, <1>8, <1>9 DEF SlotsExact
  <2> QED
    BY <2>1, <1>1, <1>7, SlotsUnmoved
<1> QED
  BY <1>1, <1>4, <1>8, <1>9, <1>11, <1>12

(* sync() leaves every document where it is and lists only callers that    *)
(* are in the store.                                                       *)
LEMMA SyncEffect ==
  ASSUME StoreOK, SlotsExact, Sync
  PROVE  /\ StoreOK' /\ SlotsExact'
         /\ registry' = registry
         /\ \A v \in Known :
              /\ Data(v)'.text = Data(v).text
              /\ Data(v)'.calls = Data(v).calls
              /\ \A w \in Uri : Data(v)'.callers[w] > 0 =>
                                  Data(v).callers[w] > 0 \/ w \in Known
<1>1. /\ registry' = registry /\ len' = len /\ free' = free
      /\ slots' = RegisterAllCallers(slots)
  BY DEF Sync
<1>2. Known' = Known
  BY <1>1 DEF Known
<1> DEFINE More(d) == Listing(d, CallersOf(slots, d.uri))
<1>3. ASSUME NEW d
      PROVE  CallersOf(slots, d.uri) \subseteq Known
  <2> SUFFICES ASSUME NEW w \in CallersOf(slots, d.uri)
               PROVE  w \in Known
    OBVIOUS
  <2>1. PICK s \in Status : \E i \in DOMAIN slots[s] : slots[s][i].uri = w
    BY DEF CallersOf, DocsOf
  <2>2. PICK i \in DOMAIN slots[s] : slots[s][i].uri = w
    BY <2>1
  <2>3. PICK v \in Known : registry[v] = <<s, i>>
    BY <2>2 DEF SlotsExact
  <2> QED
    BY <2>2, <2>3 DEF SlotsExact, Data
<1>4. ASSUME NEW d \in Doc
      PROVE  /\ More(d) \in Doc /\ More(d).uri = d.uri /\ More(d).text = d.text
             /\ More(d).calls = d.calls
             /\ \A w \in Uri : More(d).callers[w] > 0 =>
                                 d.callers[w] > 0 \/ w \in Known
  BY <1>3, ListingEffect
<1>5. slots' = [s \in Status |-> [i \in DOMAIN slots[s] |-> More(slots[s][i])]]
  BY <1>1 DEF RegisterAllCallers, MapDocs
<1> HIDE DEF More
<1>6. /\ SlotsOK(slots')
      /\ \A s \in Status :
           /\ DOMAIN slots'[s] = DOMAIN slots[s]
           /\ \A i \in DOMAIN slots[s] : slots'[s][i] = More(slots[s][i])
  BY <1>4, <1>5 DEF StoreOK, SlotsOK
<1>7. ASSUME NEW v \in Known
      PROVE  /\ registry[v][1] \in Status
             /\ registry[v][2] \in DOMAIN slots[registry[v][1]]
             /\ Data(v) \in Doc /\ Data(v).uri = v
             /\ Data(v)' = More(Data(v))
  <2>1. /\ registry[v][1] \in Status
        /\ registry[v][2] \in DOMAIN slots[registry[v][1]]
        /\ Data(v).uri = v
    BY DEF StoreOK, SlotsExact
  <2> QED
    BY <2>1, <1>1, <1>6 DEF Data, StoreOK, SlotsOK
<1>8. StoreOK'
  BY <1>1, <1>2, <1>6 DEF StoreOK
<1>9. SlotsExact'
  <2>1. \A v \in Known : Data(v)'.uri = v
    BY <1>4, <1>7
  <2> QED
    BY <2>1, <1>1, <1>6, SlotsUnmoved
<1> QED
  BY <1>1, <1>4, <1>7, <1>8, <1>9

(* TextDocs::close moves one document to another slot.                     *)
LEMMA CloseEffect ==
  ASSUME StoreOK, SlotsExact, NEW u \in Uri, Close(u)
  PROVE  /\ StoreOK' /\ SlotsExact'
         /\ u \in Known /\ registry[u][1] = "open"
         /\ Known' = Known
         /\ registry'[u][1] = "closed"
         /\ \A v \in Known \ {u} : registry'[v] = registry[v]
         /\ \A v \in Known : Data(v)' = Data(v)
<1> DEFINE k == registry[u][2]
<1>1. PICK i \in FreeSlots("closed") :
        /\ registry' = [registry EXCEPT ![u] = <<"closed", i>>]
        /\ slots' = Place(Vacate(slots, "open", k), "closed", i, Data(u))
        /\ Take("closed", i, [free EXCEPT !["open"] = @ \union {k}])
  BY DEF Close
<1>2. u \in Known /\ registry[u] = <<"open", k>>
  BY DEF Close, StoreOK
<1>3. "open" \in Status /\ "closed" \in Status
  BY DEF Status
<1>4. k \in DOMAIN slots["open"] /\ Data(u) = slots["open"][k] /\ Data(u).uri = u
      /\ Data(u) \in Doc
  BY <1>2, <1>3 DEF SlotsExact, Data, StoreOK, SlotsOK
<1>5. i \in Nat \ {0} /\ i \notin DOMAIN slots["closed"]
  BY <1>3, FreeSlotsFree
<1> DEFINE left == Vacate(slots, "open", k)
<1>6. /\ SlotsOK(left)
      /\ DOMAIN left["open"] = DOMAIN slots["open"] \ {k}
      /\ \A j \in DOMAIN left["open"] : left["open"][j] = slots["open"][j]
      /\ left["closed"] = slots["closed"]
  BY <1>3, VacateEffect DEF StoreOK
<1> HIDE DEF left
<1>7. /\ SlotsOK(slots')
      /\ DOMAIN slots'["closed"] = DOMAIN slots["closed"] \union {i}
      /\ slots'["closed"][i] = Data(u)
      /\ \A j \in DOMAIN slots["closed"] : slots'["closed"][j] = slots["closed"][j]
      /\ slots'["open"] = left["open"]
  <2>1. slots' = Place(left, "closed", i, Data(u))
    BY <1>1 DEF left
  <2> QED
    BY <2>1, <1>3, <1>4, <1>5, <1>6, PlaceEffect
<1>8. /\ Known' = Known
      /\ registry'[u] = <<"closed", i>>
      /\ \A v \in Known \ {u} : registry'[v] = registry[v]
  BY <1>1, <1>2 DEF Known, StoreOK
<1>9. /\ len' = [len EXCEPT !["closed"] = IF i > len["closed"] THEN i ELSE len["closed"]]
      /\ free'["open"] = free["open"] \union {k}
      /\ free'["closed"] = free["closed"] \ {i}
      /\ free' \in [Status -> SUBSET Nat]
  BY <1>1, <1>2, <1>3 DEF Take, StoreOK, Status
<1>10. ASSUME NEW v \in Known \ {u}
       PROVE  /\ registry[v][1] \in Status
              /\ registry[v][2] \in DOMAIN slots'[registry[v][1]]
              /\ slots'[registry[v][1]][registry[v][2]] = Data(v)
              /\ registry[v] # <<"closed", i>>
  <2>1. registry[v] \in Status \X Nat /\ registry[v] # <<"open", k>>
    BY <1>2 DEF StoreOK, SlotsExact
  <2>2. registry[v][2] \in DOMAIN slots[registry[v][1]]
    BY DEF SlotsExact
  <2>3. CASE registry[v][1] = "open"
    BY <2>1, <2>2, <2>3, <1>3, <1>6, <1>7 DEF Data
  <2>4. CASE registry[v][1] = "closed"
    BY <2>1, <2>2, <2>4, <1>3, <1>5, <1>7 DEF Data
  <2> QED
    BY <2>1, <2>3, <2>4 DEF Status
<1>11. ASSUME NEW v \in Known
       PROVE  Data(v)' = Data(v)
  BY <1>7, <1>8, <1>10 DEF Data
<1>12. StoreOK'
  <2>1. registry' \in [Known' -> Status \X Nat]
    BY <1>1, <1>3, <1>5, <1>8 DEF StoreOK
  <2>2. len' \in [Status -> Nat]
    BY <1>5, <1>9 DEF StoreOK
  <2>3. DOMAIN slots'["open"] \subseteq 1..len'["open"]
    BY <1>3, <1>6, <1>7, <1>9 DEF StoreOK
  <2>4. DOMAIN slots'["closed"] \subseteq 1..len'["closed"]
    BY <1>3, <1>5, <1>7, <1>9 DEF StoreOK
  <2> QED
    BY <2>1, <2>2, <2>3, <2>4, <1>7, <1>8, <1>9 DEF StoreOK, Status
<1>13. SlotsExact'
  <2>1. ASSUME NEW v \in Known', NEW w \in Known', registry'[v] = registry'[w]
        PROVE  v = w
    BY <2>1, <1>8, <1>10 DEF SlotsExact
  <2>2. ASSUME NEW v \in Known'
        PROVE  /\ registry'[v][2] \in DOMAIN slots'[registry'[v][1]]
               /\ Data(v)'.uri = v
    BY <1>4, <1>7, <1>8, <1>10, <1>11 DEF SlotsExact
  <2>3. ASSUME NEW j \in DOMAIN slots'["open"]
        PROVE  \E v \in Known' : registry'[v] = <<"open", j>>
    <3>1. j \in DOMAIN slots["open"] /\ j # k
      BY <1>6, <1>7
    <3>2. PICK v \in Known : registry[v] = <<"open", j>>
      BY <3>1, <1>3 DEF SlotsExact
    <3> QED
      BY <3>1, <3>2, <1>2, <1>8
  <2>4. ASSUME NEW j \in DOMAIN slots'["closed"]
        PROVE  \E v \in Known' : registry'[v] = <<"closed", j>>
    <3>1. CASE j = i
      BY <3>1, <1>2, <1>8
    <3>2. CASE j # i
      <4>1. PICK v \in Known : registry[v] = <<"closed", j>>
        BY <3>2, <1>3, <1>7 DEF SlotsExact
      <4> QED
        BY <4>1, <1>2, <1>8
    <3> QED
      BY <3>1, <3>2
  <2>5. free'["open"] = 1..len'["open"] \ DOMAIN slots'["open"]
    BY <1>3, <1>4, <1>6, <1>7, <1>9 DEF SlotsExact, StoreOK
  <2>6. free'["closed"] = 1..len'["closed"] \ DOMAIN slots'["closed"]
    <3>1. /\ free["closed"] = 1..len["closed"] \ DOMAIN slots["closed"]
          /\ len["closed"] \in Nat
          /\ DOMAIN slots["closed"] \subseteq 1..len["closed"]
          /\ len'["closed"] = IF i > len["closed"] THEN i ELSE len["closed"]
      BY <1>3, <1>9 DEF SlotsExact, StoreOK
    <3>2. CASE free["closed"] = {}
      BY <3>1, <3>2, <1>1, <1>7, <1>9 DEF FreeSlots
    <3>3. CASE free["closed"] # {}
      BY <3>1, <3>3, <1>1, <1>7, <1>9 DEF FreeSlots
    <3> QED
      BY <3>2, <3>3
  <2> QED
    BY <2>1, <2>2, <2>3, <2>4, <2>5, <2>6 DEF SlotsExact, Status
<1> QED
  BY <1>2, <1>8, <1>11, <1>12, <1>13

(* Elementwise images of a sequence are sequences.                         *)
LEMMA MappedSeq ==
  ASSUME NEW q \in Seq(Uri), NEW F(_), \A e \in Uri : F(e) \in Uri
  PROVE  [k \in DOMAIN q |-> F(q[k])] \in Seq(Uri)
<1>1. DOMAIN q = 1..Len(q) /\ Len(q) \in Nat /\ \A k \in DOMAIN q : q[k] \in Uri
  OBVIOUS
<1>2. [k \in DOMAIN q |-> F(q[k])] \in [1..Len(q) -> Uri]
  BY <1>1
<1> QED
  BY <1>1, <1>2, SeqDef

(* A renamed document has its new name and text, and names as callers only *)
(* what it named before, under the new names.                              *)
LEMMA RenamedDocEffect ==
  ASSUME NEW ops \in Renames, NEW d \in Doc
  PROVE  /\ RenamedDoc(ops, d) \in Doc
         /\ RenamedDoc(ops, d).uri = New(ops, d.uri)
         /\ RenamedDoc(ops, d).text = d.text
         /\ \A u \in Uri : RenamedDoc(ops, d).callers[u] > 0 =>
              /\ u \notin DOMAIN ops
              /\ \/ d.callers[u] > 0
                 \/ \E o \in DOMAIN ops : ops[o] = u /\ d.callers[o] > 0
<1>1. /\ DOMAIN ops \subseteq Uri
      /\ \A o \in DOMAIN ops : ops[o] \in Uri
  BY StoreAssumption
<1>2. \A u \in Uri : New(ops, u) \in Uri
  BY <1>1 DEF New
<1> DEFINE calls == [k \in DOMAIN d.calls |-> New(ops, d.calls[k])]
           old(u) == CHOOSE o \in DOMAIN ops : ops[o] = u
           moved(u) == IF \E o \in DOMAIN ops : ops[o] = u
                       THEN d.callers[old(u)] ELSE 0
           callers == [u \in Uri |-> IF u \in DOMAIN ops THEN 0
                                     ELSE d.callers[u] + moved(u)]
<1>3. calls \in Seq(Uri)
  <2>1. d.calls \in Seq(Uri)
    BY DEF Doc
  <2> QED
    BY <2>1, <1>2, MappedSeq
<1>4. ASSUME NEW u \in Uri
      PROVE  /\ moved(u) \in Nat
             /\ moved(u) > 0 => \E o \in DOMAIN ops : ops[o] = u /\ d.callers[o] > 0
  BY <1>1 DEF Doc
<1> HIDE DEF moved
<1>5. /\ callers \in [Uri -> Nat]
      /\ \A u \in Uri : callers[u] > 0 =>
           /\ u \notin DOMAIN ops
           /\ \/ d.callers[u] > 0
              \/ \E o \in DOMAIN ops : ops[o] = u /\ d.callers[o] > 0
  BY <1>4 DEF Doc
<1>6. RenamedDoc(ops, d) =
        [d EXCEPT !.uri = New(ops, d.uri), !.calls = calls, !.callers = callers]
  BY DEF RenamedDoc, moved, Doc
<1> HIDE DEF calls, callers
<1> QED
  BY <1>2, <1>3, <1>5, <1>6 DEF Doc

(* The calls of a renamed document follow the new names.                   *)
LEMMA RenamedCalls ==
  ASSUME NEW ops \in Renames, NEW d \in Doc
  PROVE  RenamedDoc(ops, d).calls = [k \in DOMAIN d.calls |-> New(ops, d.calls[k])]
BY DEF RenamedDoc, Doc

(* Where a file that is known after a rename was before.                   *)
Source(ops, v) == IF \E o \in DOMAIN ops : ops[o] = v
                  THEN CHOOSE o \in DOMAIN ops : ops[o] = v ELSE v

(* TextDocs::rename_files leaves every remaining document in its slot.     *)
LEMMA RenameEffect ==
  ASSUME StoreOK, SlotsExact, NEW ops \in Renames, RenameFiles(ops)
  PROVE  /\ StoreOK' /\ SlotsExact'
         /\ DOMAIN ops \subseteq Known
         /\ Known' = (Known \ DOMAIN ops) \union {ops[o] : o \in DOMAIN ops}
         /\ \A v \in Known' :
              /\ Source(ops, v) \in Known
              /\ New(ops, Source(ops, v)) = v
              /\ registry'[v] = registry[Source(ops, v)]
              /\ Data(v)' = RenamedDoc(ops, Data(Source(ops, v)))
<1> DEFINE new == {ops[o] : o \in DOMAIN ops}
           dropped == {registry[u] : u \in new \intersect Known}
           rest == [s \in Status |->
                      [i \in {j \in DOMAIN slots[s] : <<s, j>> \notin dropped} |->
                         slots[s][i]]]
           src(v) == Source(ops, v)
<1>1. /\ DOMAIN ops \subseteq Known
      /\ registry' = [u \in (Known \ DOMAIN ops) \union new |->
                        IF u \in new
                        THEN registry[CHOOSE o \in DOMAIN ops : ops[o] = u]
                        ELSE registry[u]]
      /\ slots' = MapDocs(rest, LAMBDA d : RenamedDoc(ops, d))
      /\ free' = [s \in Status |->
                    free[s] \union {i \in 1..len[s] : <<s, i>> \in dropped}]
      /\ len' = len
  BY DEF RenameFiles
<1>2. /\ new \subseteq Uri /\ new \intersect DOMAIN ops = {}
      /\ \A o, p \in DOMAIN ops : ops[o] = ops[p] => o = p
  <2>1. PICK S \in SUBSET Uri : /\ ops \in [S -> Uri \ S]
                               /\ \A o, p \in S : ops[o] = ops[p] => o = p
    BY StoreAssumption
  <2> QED
    BY <2>1
<1>3. Known' = (Known \ DOMAIN ops) \union new
  BY <1>1 DEF Known
<1>4. ASSUME NEW v \in Known'
      PROVE  /\ src(v) \in Known /\ src(v) \notin new
             /\ New(ops, src(v)) = v
             /\ registry'[v] = registry[src(v)]
  <2>1. CASE v \in new
    <3>1. src(v) \in DOMAIN ops /\ ops[src(v)] = v
      BY <2>1 DEF Source
    <3>2. registry'[v] = registry[src(v)]
      BY <2>1, <1>1, <1>3 DEF Source
    <3> QED
      BY <3>1, <3>2, <1>1, <1>2 DEF New
  <2>2. CASE v \notin new
    BY <2>2, <1>1, <1>3 DEF Source, New
  <2> QED
    BY <2>1, <2>2
<1> HIDE DEF src, new
<1>5. \A v, w \in Known' : src(v) = src(w) => v = w
  BY <1>4
<1>6. slots' = [s \in Status |-> [i \in DOMAIN rest[s] |-> RenamedDoc(ops, rest[s][i])]]
  BY <1>1 DEF MapDocs
<1>7. \A s \in Status :
        /\ DOMAIN rest[s] = {j \in DOMAIN slots[s] : <<s, j>> \notin dropped}
        /\ \A i \in DOMAIN rest[s] : rest[s][i] = slots[s][i] /\ rest[s][i] \in Doc
  BY DEF StoreOK, SlotsOK
<1> HIDE DEF rest
<1>8. /\ SlotsOK(slots')
      /\ \A s \in Status :
           /\ DOMAIN slots'[s] = {j \in DOMAIN slots[s] : <<s, j>> \notin dropped}
           /\ \A i \in DOMAIN slots'[s] :
                slots'[s][i] = RenamedDoc(ops, slots[s][i])
  <2>1. /\ DOMAIN slots' = Status
        /\ \A s \in Status :
             slots'[s] = [i \in DOMAIN rest[s] |-> RenamedDoc(ops, rest[s][i])]
    BY <1>6
  <2>2. \A s \in Status : \A i \in DOMAIN rest[s] : RenamedDoc(ops, rest[s][i]) \in Doc
    BY <1>7, RenamedDocEffect
  <2>3. \A s \in Status : slots'[s] \in [DOMAIN rest[s] -> Doc]
    BY <2>1, <2>2
  <2>4. \A s \in Status : DOMAIN slots'[s] = DOMAIN rest[s]
    BY <2>1
  <2>5. \A s \in Status : \A i \in DOMAIN slots'[s] :
          slots'[s][i] = RenamedDoc(ops, slots[s][i])
    BY <1>7, <2>1, <2>4
  <2> QED
    BY <1>7, <2>1, <2>3, <2>4, <2>5 DEF SlotsOK
<1>9. ASSUME NEW u \in Known \ new
      PROVE  registry[u] \notin dropped
  BY DEF SlotsExact
<1> HIDE DEF dropped
<1>10. ASSUME NEW v \in Known'
       PROVE  /\ registry'[v][1] \in Status
              /\ registry'[v][2] \in DOMAIN slots'[registry'[v][1]]
              /\ Data(v)' = RenamedDoc(ops, Data(src(v)))
              /\ Data(v)'.uri = v
  <2>1. src(v) \in Known \ new /\ registry'[v] = registry[src(v)]
    BY <1>4
  <2>2. /\ registry[src(v)] \in Status \X Nat
        /\ registry[src(v)] \notin dropped
        /\ registry[src(v)][2] \in DOMAIN slots[registry[src(v)][1]]
        /\ Data(src(v)).uri = src(v)
    BY <2>1, <1>9 DEF StoreOK, SlotsExact
  <2>3. registry'[v][2] \in DOMAIN slots'[registry'[v][1]]
    BY <2>1, <2>2, <1>8
  <2>4. Data(v)' = RenamedDoc(ops, Data(src(v)))
    BY <2>1, <2>2, <2>3, <1>8 DEF Data
  <2>5. Data(src(v)) \in Doc
    BY <2>2 DEF Data, StoreOK, SlotsOK
  <2> QED
    BY <2>1, <2>2, <2>3, <2>4, <2>5, <1>4, RenamedDocEffect
<1>11. StoreOK'
  <2>1. registry' \in [Known' -> Status \X Nat]
    <3>1. \A v \in Known' : registry'[v] \in Status \X Nat
      BY <1>4 DEF StoreOK
    <3> QED
      BY <3>1, <1>1, <1>3 DEF Known
  <2>2. Known' \subseteq Uri
    BY <1>2, <1>3 DEF StoreOK
  <2>3. free' \in [Status -> SUBSET Nat]
    BY <1>1 DEF StoreOK
  <2> QED
    BY <2>1, <2>2, <2>3, <1>1, <1>8 DEF StoreOK
<1>12. SlotsExact'
  <2>1. ASSUME NEW v \in Known', NEW w \in Known', registry'[v] = registry'[w]
        PROVE  v = w
    BY <2>1, <1>4, <1>5 DEF SlotsExact
  <2>2. ASSUME NEW s \in Status, NEW j \in DOMAIN slots'[s]
        PROVE  \E v \in Known' : registry'[v] = <<s, j>>
    <3>1. j \in DOMAIN slots[s] /\ <<s, j>> \notin dropped
      BY <1>8
    <3>2. PICK u \in Known : registry[u] = <<s, j>>
      BY <3>1 DEF SlotsExact
    <3>3. u \notin new
      BY <3>1, <3>2 DEF dropped
    <3>4. CASE u \in DOMAIN ops
      <4>1. ops[u] \in Known' /\ ops[u] \in new
        BY <3>4, <1>3 DEF new
      <4>2. src(ops[u]) = u
        BY <3>4, <4>1, <1>2 DEF src, Source
      <4> QED
        BY <4>1, <4>2, <3>2, <1>4
    <3>5. CASE u \notin DOMAIN ops
      <4>1. u \in Known' /\ src(u) = u
        BY <3>3, <3>5, <1>3 DEF src, Source, new
      <4> QED
        BY <4>1, <3>2, <1>4
    <3> QED
      BY <3>4, <3>5
  <2>3. ASSUME NEW s \in Status
        PROVE  free'[s] = 1..len'[s] \ DOMAIN slots'[s]
    <3>1. free'[s] = free[s] \union {i \in 1..len[s] : <<s, i>> \in dropped}
      BY <1>1 DEF dropped, new
    <3>2. /\ free[s] = 1..len[s] \ DOMAIN slots[s]
          /\ DOMAIN slots[s] \subseteq 1..len[s]
      BY DEF SlotsExact, StoreOK
    <3>3. \A i : <<s, i>> \in dropped => i \in DOMAIN slots[s]
      BY DEF dropped, SlotsExact
    <3> QED
      BY <3>1, <3>2, <3>3, <1>1, <1>8
  <2> QED
    BY <2>1, <2>2, <2>3, <1>10 DEF SlotsExact
<1> QED
  BY <1>1, <1>3, <1>4, <1>10, <1>11, <1>12 DEF new, src

---------------------------------------------------------------------------

(* The inductive invariant all theorems rest on: where the documents are.  *)
StoreInv == StoreOK /\ SlotsExact

(* The documents of the slots are those of the known files.                *)
LEMMA DocsAreData ==
  ASSUME StoreInv
  PROVE  /\ \A d \in DocsOf(slots) : \E v \in Known : d = Data(v)
         /\ \A v \in Known : Data(v) \in DocsOf(slots) /\ Data(v).uri = v
                             /\ Data(v) \in Doc
<1>1. ASSUME NEW d \in DocsOf(slots)
      PROVE  \E v \in Known : d = Data(v)
  <2>1. PICK s \in Status : \E i \in DOMAIN slots[s] : d = slots[s][i]
    BY DEF DocsOf
  <2>2. PICK i \in DOMAIN slots[s] : d = slots[s][i]
    BY <2>1
  <2>3. PICK v \in Known : registry[v] = <<s, i>>
    BY <2>2 DEF StoreInv, SlotsExact
  <2> QED
    BY <2>2, <2>3 DEF Data
<1>2. ASSUME NEW v \in Known
      PROVE  Data(v) \in DocsOf(slots) /\ Data(v).uri = v /\ Data(v) \in Doc
  <2>1. registry[v][1] \in Status /\ registry[v][2] \in DOMAIN slots[registry[v][1]]
        /\ Data(v).uri = v
    BY DEF StoreInv, StoreOK, SlotsExact
  <2> QED
    BY <2>1 DEF StoreInv, StoreOK, SlotsOK, DocsOf, Data
<1> QED
  BY <1>1, <1>2

(* Nothing is stored at first.                                             *)
LEMMA InitStore == Init => StoreInv
BY DEF Init, StoreInv, StoreOK, SlotsOK, SlotsExact, Known, Status

(* A step is one of the operations.                                        *)
LEMMA Steps ==
  ASSUME Next
  PROVE  \/ \E u \in Uri, t \in Text, s \in Status : Add(u, t, s)
         \/ \E u \in Uri, t \in Text : Edit(u, t)
         \/ \E u \in Uri : Close(u)
         \/ \E ops \in Renames : RenameFiles(ops)
         \/ Sync
BY StoreAssumption DEF Next, Open, Scan, Status

(* Every operation keeps the registry, the slots and the free lists        *)
(* consistent.                                                             *)
LEMMA StepStore ==
  ASSUME StoreInv, [Next]_vars
  PROVE  StoreInv'
<1>1. ASSUME NEW u \in Uri, NEW t \in Text, NEW s \in Status, Add(u, t, s)
      PROVE  StoreInv'
  BY <1>1, AddEffect DEF StoreInv
<1>2. ASSUME NEW u \in Uri, NEW t \in Text, Edit(u, t)
      PROVE  StoreInv'
  BY <1>2, EditEffect DEF StoreInv
<1>3. ASSUME NEW u \in Uri, Close(u)
      PROVE  StoreInv'
  BY <1>3, CloseEffect DEF StoreInv
<1>4. ASSUME NEW ops \in Renames, RenameFiles(ops)
      PROVE  StoreInv'
  BY <1>4, RenameEffect DEF StoreInv
<1>5. CASE Sync
  BY <1>5, SyncEffect DEF StoreInv
<1>6. CASE UNCHANGED vars
  BY <1>6 DEF vars, store, StoreInv, StoreOK, SlotsOK, SlotsExact, Known, Data
<1> QED
  BY <1>1, <1>2, <1>3, <1>4, <1>5, <1>6, Steps

(* A file is registered at exactly the slot of its document, and exactly   *)
(* the slots without a document are free, after any sequence of scans,     *)
(* client messages and renames (doc/store.rs).                             *)
THEOREM SlotsStayExact == Spec => []SlotsExact
<1>1. Spec => []StoreInv
  BY InitStore, StepStore, PTL DEF Spec
<1>2. StoreInv => SlotsExact
  BY DEF StoreInv
<1> QED
  BY <1>1, <1>2, PTL

----------------------------------------------------------------------------
(* The end of the discovery.                                               *)

LEMMA SyncListsCallers ==
  ASSUME StoreInv, Sync
  PROVE  CallersComplete'
<1> DEFINE More(d) == Listing(d, CallersOf(slots, d.uri))
<1>1. slots' = [s \in Status |-> [i \in DOMAIN slots[s] |-> More(slots[s][i])]]
  BY DEF Sync, RegisterAllCallers, MapDocs
<1>2. ASSUME NEW d \in Doc
      PROVE  /\ More(d).uri = d.uri /\ More(d).calls = d.calls
             /\ \A u \in Uri : u \in CallersOf(slots, d.uri) => More(d).callers[u] > 0
  BY ListingEffect
<1> HIDE DEF More
<1>3. ASSUME NEW e \in DocsOf(slots')
      PROVE  \E d \in DocsOf(slots) : d \in Doc /\ e = More(d)
  <2>1. PICK s \in Status : \E i \in DOMAIN slots'[s] : e = slots'[s][i]
    BY DEF DocsOf
  <2>2. PICK i \in DOMAIN slots[s] : e = More(slots[s][i])
    BY <1>1, <2>1
  <2>3. slots[s][i] \in DocsOf(slots) /\ slots[s][i] \in Doc
    BY DEF DocsOf, StoreInv, StoreOK, SlotsOK
  <2> QED
    BY <2>2, <2>3
<1>4. ASSUME NEW e \in DocsOf(slots'), NEW u \in CallersOf(slots', e.uri)
      PROVE  e.callers[u] > 0
  <2>1. PICK d \in DocsOf(slots) : d \in Doc /\ e = More(d)
    BY <1>3
  <2>2. PICK c \in DocsOf(slots') : c.uri = u /\ Contains(c.calls, e.uri)
    BY <1>4 DEF CallersOf
  <2>3. PICK b \in DocsOf(slots) : b \in Doc /\ c = More(b)
    BY <1>3
  <2>4. b.uri = u /\ Contains(b.calls, d.uri) /\ u \in Uri
    BY <1>2, <2>1, <2>2, <2>3 DEF Doc
  <2>5. u \in CallersOf(slots, d.uri)
    BY <2>4 DEF CallersOf
  <2> QED
    BY <1>2, <2>1, <2>4, <2>5
<1> QED
  BY <1>4 DEF CallersComplete

(* When all files have been read, every script lists all of its callers,   *)
(* whichever files the client opened, edited and renamed before (sync,     *)
(* register_all_callers).                                                  *)
THEOREM SyncStaysComplete == Spec => SyncCompletes
<1>1. StoreInv /\ [Next]_vars => [Sync => CallersComplete']_vars
  BY SyncListsCallers
<1>2. Spec => []StoreInv
  BY InitStore, StepStore, PTL DEF Spec
<1> QED
  BY <1>1, <1>2, PTL DEF Spec, SyncCompletes

----------------------------------------------------------------------------
(* CallersKnown and MacrosFound, told by file instead of by slot.          *)
CallersListed ==
  \A v \in Known : \A u \in Uri : Data(v).callers[u] > 0 => u \in Known

MacrosListed ==
  \A v \in Known : \A x \in Data(v).text.macros : v \in macroIndex[x]

LEMMA CallersByFile == StoreInv /\ CallersListed => CallersKnown
BY DocsAreData DEF CallersListed, CallersKnown

LEMMA MacrosByFile == StoreInv /\ MacrosListed => MacrosFound
<1> SUFFICES ASSUME StoreInv, MacrosListed,
                    NEW d \in DocsOf(slots), NEW x \in d.text.macros
             PROVE  d.uri \in macroIndex[x]
  BY DEF MacrosFound
<1>1. PICK v \in Known : d = Data(v)
  BY DocsAreData
<1> QED
  BY <1>1, DocsAreData DEF MacrosListed

(* A step lists as callers only what is in the store after it.             *)
LEMMA StepCallers ==
  ASSUME StoreInv, CallersListed, [Next]_vars
  PROVE  CallersListed'
<1> USE DEF StoreInv
<1>1. ASSUME NEW u \in Uri, NEW t \in Text, NEW s \in Status, Add(u, t, s)
      PROVE  CallersListed'
  <2>1. Known' = Known \union {u}
    BY <1>1, AddEffect
  <2>2. ASSUME NEW v \in Known', NEW w \in Uri, Data(v)'.callers[w] > 0
        PROVE  w \in Known'
    <3>1. CASE v = u
      BY <3>1, <2>2, <1>1, AddEffect
    <3>2. CASE v # u
      <4>1. v \in Known /\ Data(v).callers[w] > 0
        BY <3>2, <2>1, <2>2, <1>1, AddEffect
      <4> QED
        BY <4>1, <2>1 DEF CallersListed
    <3> QED
      BY <3>1, <3>2
  <2> QED
    BY <2>2 DEF CallersListed
<1>2. ASSUME NEW u \in Uri, NEW t \in Text, Edit(u, t)
      PROVE  CallersListed'
  <2>1. Known' = Known /\ \A v \in Known : Data(v)'.callers = Data(v).callers
    BY <1>2, EditEffect DEF Known
  <2> QED
    BY <2>1 DEF CallersListed
<1>3. ASSUME NEW u \in Uri, Close(u)
      PROVE  CallersListed'
  <2>1. Known' = Known /\ \A v \in Known : Data(v)' = Data(v)
    BY <1>3, CloseEffect
  <2> QED
    BY <2>1 DEF CallersListed
<1>4. ASSUME NEW ops \in Renames, RenameFiles(ops)
      PROVE  CallersListed'
  <2>1. DOMAIN ops \subseteq Uri
    BY StoreAssumption
  <2>2. ASSUME NEW v \in Known', NEW w \in Uri, Data(v)'.callers[w] > 0
        PROVE  w \in Known'
    <3>1. /\ Known' = (Known \ DOMAIN ops) \union {ops[o] : o \in DOMAIN ops}
          /\ Source(ops, v) \in Known
          /\ Data(v)' = RenamedDoc(ops, Data(Source(ops, v)))
      BY <1>4, RenameEffect
    <3>2. Data(Source(ops, v)) \in Doc
      BY <3>1, DocsAreData
    <3>3. /\ w \notin DOMAIN ops
          /\ \/ Data(Source(ops, v)).callers[w] > 0
             \/ \E o \in DOMAIN ops : ops[o] = w
      BY <2>2, <3>1, <3>2, RenamedDocEffect
    <3> QED
      BY <3>1, <3>3 DEF CallersListed
  <2> QED
    BY <2>2 DEF CallersListed
<1>5. CASE Sync
  <2>1. registry' = registry /\ Known' = Known
    BY <1>5, SyncEffect DEF Known
  <2> QED
    BY <2>1, <1>5, SyncEffect DEF CallersListed
<1>6. CASE UNCHANGED vars
  BY <1>6 DEF vars, store, CallersListed, Known, Data
<1> QED
  BY <1>1, <1>2, <1>3, <1>4, <1>5, <1>6, Steps

(* Every script that a document lists as caller is in the store, so that   *)
(* the lookups may unwrap the documents of callers (definitions.rs,        *)
(* references.rs).                                                         *)
THEOREM CallersStayKnown == Spec => []CallersKnown
<1>1. Init => StoreInv /\ CallersListed
  BY InitStore DEF Init, CallersListed, Known
<1>2. StoreInv /\ CallersListed /\ [Next]_vars => (StoreInv /\ CallersListed)'
  BY StepStore, StepCallers
<1> QED
  BY <1>1, <1>2, CallersByFile, PTL DEF Spec

----------------------------------------------------------------------------
(* A file that is given a text is listed under each of its macros, and no  *)
(* other file loses its place in the macro index.                          *)
LEMMA MacroIndexUpdated ==
  ASSUME MacrosListed, NEW u \in Uri, NEW t \in Text,
         macroIndex' = UpdateMacroIndex(u, t)
  PROVE  /\ \A x \in t.macros : u \in macroIndex'[x]
         /\ \A x \in Macro : macroIndex[x] \ {u} \subseteq macroIndex'[x]
<1>1. t.macros \subseteq Macro
  BY StoreAssumption
<1>2. u \in Known => \A x \in OldMacros(u) : u \in macroIndex[x]
  BY DEF MacrosListed, OldMacros
<1>3. u \notin Known => OldMacros(u) = {}
  BY DEF OldMacros
<1>4. \A x \in Macro : macroIndex'[x] =
        IF x \in OldMacros(u) \ t.macros THEN macroIndex[x] \ {u}
        ELSE IF x \in t.macros \ OldMacros(u) THEN macroIndex[x] \union {u}
        ELSE macroIndex[x]
  BY DEF UpdateMacroIndex
<1> QED
  BY <1>1, <1>2, <1>3, <1>4

(* The texts of the store are texts.                                       *)
LEMMA MacrosTyped ==
  ASSUME StoreInv, NEW v \in Known
  PROVE  Data(v).text.macros \subseteq Macro
<1>1. Data(v).text \in Text
  BY DocsAreData DEF Doc
<1> QED
  BY <1>1, StoreAssumption

(* The macro index keeps up with a step.                                   *)
LEMMA StepMacros ==
  ASSUME StoreInv, MacrosListed, [Next]_vars
  PROVE  MacrosListed'
<1> USE DEF StoreInv
<1>1. ASSUME NEW u \in Uri, NEW t \in Text,
             macroIndex' = UpdateMacroIndex(u, t),
             Known' = Known \union {u}, Data(u)'.text = t,
             \A v \in Known \ {u} : Data(v)'.text = Data(v).text
      PROVE  MacrosListed'
  <2>1. ASSUME NEW v \in Known', NEW x \in Data(v)'.text.macros
        PROVE  v \in macroIndex'[x]
    <3>1. CASE v = u
      BY <3>1, <1>1, MacroIndexUpdated
    <3>2. CASE v # u
      <4>1. v \in Known /\ x \in Data(v).text.macros
        BY <3>2, <1>1
      <4>2. x \in Macro /\ v \in macroIndex[x]
        BY <4>1, MacrosTyped DEF MacrosListed
      <4> QED
        BY <4>2, <3>2, <1>1, MacroIndexUpdated
    <3> QED
      BY <3>1, <3>2
  <2> QED
    BY <2>1 DEF MacrosListed
<1>2. ASSUME NEW u \in Uri, NEW t \in Text, NEW s \in Status, Add(u, t, s)
      PROVE  MacrosListed'
  <2>1. macroIndex' = UpdateMacroIndex(u, t)
    BY <1>2 DEF Add, UpdateIndexes
  <2> QED
    BY <2>1, <1>1, <1>2, AddEffect
<1>3. ASSUME NEW u \in Uri, NEW t \in Text, Edit(u, t)
      PROVE  MacrosListed'
  <2>1. macroIndex' = UpdateMacroIndex(u, t)
    BY <1>3 DEF Edit, UpdateIndexes
  <2>2. /\ Known' = Known \union {u}
        /\ Data(u)'.text = t
        /\ \A v \in Known \ {u} : Data(v)'.text = Data(v).text
    BY <1>3, EditEffect DEF Known
  <2> QED
    BY <2>1, <2>2, <1>1
<1>4. ASSUME macroIndex' = macroIndex, Known' = Known,
             \A v \in Known : Data(v)'.text = Data(v).text
      PROVE  MacrosListed'
  BY <1>4 DEF MacrosListed
<1>5. ASSUME NEW u \in Uri, Close(u)
      PROVE  MacrosListed'
  BY <1>4, <1>5, CloseEffect DEF Close, indexes
<1>6. ASSUME NEW ops \in Renames, RenameFiles(ops)
      PROVE  MacrosListed'
  <2>1. macroIndex' = RenameMacroIndex(ops)
    BY <1>6 DEF RenameFiles
  <2>2. ASSUME NEW v \in Known', NEW x \in Data(v)'.text.macros
        PROVE  v \in macroIndex'[x]
    <3> DEFINE w == Source(ops, v)
    <3>1. w \in Known /\ New(ops, w) = v /\ Data(v)' = RenamedDoc(ops, Data(w))
      BY <1>6, RenameEffect
    <3> HIDE DEF w
    <3>2. Data(v)'.text = Data(w).text
      BY <3>1, DocsAreData, RenamedDocEffect
    <3>3. x \in Macro /\ w \in macroIndex[x] /\ x \in OldMacros(w)
      BY <3>1, <3>2, <2>2, MacrosTyped DEF MacrosListed, OldMacros
    <3> DEFINE moved == {o \in DOMAIN ops : x \in OldMacros(o)}
    <3>4. macroIndex'[x] = {IF f \in moved THEN ops[f] ELSE f : f \in macroIndex[x]}
      BY <2>1, <3>3 DEF RenameMacroIndex
    <3>5. (IF w \in moved THEN ops[w] ELSE w) = v
      BY <3>1, <3>3 DEF New
    <3> QED
      BY <3>3, <3>4, <3>5
  <2> QED
    BY <2>2 DEF MacrosListed
<1>7. CASE Sync
  <2>1. macroIndex' = macroIndex /\ Known' = Known
    BY <1>7, SyncEffect DEF Sync, indexes, Known
  <2> QED
    BY <2>1, <1>4, <1>7, SyncEffect
<1>8. CASE UNCHANGED vars
  BY <1>8 DEF vars, store, indexes, MacrosListed, Known, Data
<1> QED
  BY <1>2, <1>3, <1>5, <1>6, <1>7, <1>8, Steps

(* The search for global macros looks at every document that has the       *)
(* macro, whatever edits and renames came before (update_macro_index,      *)
(* rename_macro_index_refs).                                               *)
THEOREM MacrosStayFound == Spec => []MacrosFound
<1>1. Init => StoreInv /\ MacrosListed
  BY InitStore DEF Init, MacrosListed, Known
<1>2. StoreInv /\ MacrosListed /\ [Next]_vars => (StoreInv /\ MacrosListed)'
  BY StepStore, StepMacros
<1> QED
  BY <1>1, <1>2, MacrosByFile, PTL DEF Spec

----------------------------------------------------------------------------
(* The value of texts at a file.                                           *)
Entry(u) == IF u \in Known
            THEN [status |-> registry[u][1], text |-> Data(u).text]
            ELSE [status |-> "absent"]

LEMMA EntryFacts ==
  ASSUME StoreInv
  PROVE  /\ texts = [u \in Uri |-> Entry(u)]
         /\ \A u \in Uri : u \in Known <=> texts[u] # Abstract!Absent
         /\ \A u \in Known : /\ u \in Uri
                             /\ texts[u].status = registry[u][1]
                             /\ texts[u].text = Data(u).text
<1>1. texts = [u \in Uri |-> Entry(u)]
  BY DEF texts, Entry
<1>2. \A u \in Known : u \in Uri /\ registry[u][1] \in {"open", "closed"}
  BY DEF StoreInv, StoreOK, Status
<1> QED
  BY <1>1, <1>2 DEF Entry, Abstract!Absent

(* Operations of the store are operations of the map, for one file each.   *)
LEMMA StepImplements ==
  ASSUME StoreInv, [Next]_vars
  PROVE  [Abstract!Next]_texts
<1> USE DEF StoreInv
<1>0. texts' = [v \in Uri |-> Entry(v)']
  BY DEF texts, Entry
<1>1. ASSUME NEW u \in Uri, NEW t \in Text, NEW s \in Status, Add(u, t, s)
      PROVE  texts' = [texts EXCEPT ![u] = [status |-> s, text |-> t]]
  <2>1. Entry(u)' = [status |-> s, text |-> t]
    BY <1>1, AddEffect DEF Entry
  <2>2. ASSUME NEW v \in Uri, v # u
        PROVE  Entry(v)' = Entry(v)
    <3>1. CASE v \in Known
      BY <1>1, <2>2, <3>1, AddEffect DEF Entry
    <3>2. CASE v \notin Known
      BY <1>1, <2>2, <3>2, AddEffect DEF Entry
    <3> QED
      BY <3>1, <3>2
  <2> QED
    BY <1>0, <2>1, <2>2, EntryFacts
<1>2. ASSUME NEW u \in Uri, NEW t \in Text, Open(u, t)
      PROVE  Abstract!Open(u, t)
  <2>1. Add(u, t, "open")
    BY <1>2 DEF Open
  <2> QED
    BY <2>1, <1>1 DEF Status, Abstract!Open
<1>3. ASSUME NEW u \in Uri, NEW t \in Text, Scan(u, t)
      PROVE  Abstract!Scan(u, t)
  <2>1. Add(u, t, "closed") /\ u \notin Known
    BY <1>3 DEF Scan
  <2>2. texts[u] = Abstract!Absent
    BY <2>1, EntryFacts
  <2> QED
    BY <2>1, <2>2, <1>1 DEF Status, Abstract!Scan
<1>4. ASSUME NEW u \in Uri, NEW t \in Text, Edit(u, t)
      PROVE  Abstract!Edit(u, t)
  <2>1. u \in Known /\ Known' = Known /\ registry' = registry
    BY <1>4, EditEffect DEF Known
  <2>2. Entry(u)' = [Entry(u) EXCEPT !.text = t]
    BY <1>4, <2>1, EditEffect DEF Entry
  <2>3. ASSUME NEW v \in Uri, v # u
        PROVE  Entry(v)' = Entry(v)
    BY <1>4, <2>1, <2>3, EditEffect DEF Entry
  <2>4. texts[u] # Abstract!Absent
    BY <2>1, EntryFacts
  <2> QED
    BY <1>0, <2>2, <2>3, <2>4, EntryFacts DEF Abstract!Edit
<1>5. ASSUME NEW u \in Uri, Close(u)
      PROVE  Abstract!Close(u)
  <2>1. u \in Known /\ registry[u][1] = "open" /\ Known' = Known
    BY <1>5, CloseEffect
  <2>2. Entry(u)' = [Entry(u) EXCEPT !.status = "closed"]
    BY <1>5, <2>1, CloseEffect DEF Entry
  <2>3. ASSUME NEW v \in Uri, v # u
        PROVE  Entry(v)' = Entry(v)
    BY <1>5, <2>1, <2>3, CloseEffect DEF Entry
  <2>4. texts[u].status = "open"
    BY <2>1, EntryFacts
  <2> QED
    BY <1>0, <2>2, <2>3, <2>4, EntryFacts DEF Abstract!Close
<1>6. ASSUME NEW ops \in Renames, RenameFiles(ops)
      PROVE  Abstract!Rename(ops)
  <2>1. /\ DOMAIN ops \subseteq Known
        /\ Known' = (Known \ DOMAIN ops) \union {ops[o] : o \in DOMAIN ops}
    BY <1>6, RenameEffect
  <2>2. \A o \in DOMAIN ops : o \in Uri /\ texts[o] # Abstract!Absent
    BY <2>1, EntryFacts
  <2>3. ASSUME NEW v \in Known'
        PROVE  Entry(v)' = Entry(Source(ops, v)) /\ Source(ops, v) \in Uri
    <3>1. /\ Source(ops, v) \in Known
          /\ registry'[v] = registry[Source(ops, v)]
          /\ Data(v)' = RenamedDoc(ops, Data(Source(ops, v)))
      BY <1>6, RenameEffect
    <3>2. Data(v)'.text = Data(Source(ops, v)).text
      BY <3>1, DocsAreData, RenamedDocEffect
    <3> QED
      BY <3>1, <3>2, EntryFacts DEF Entry
  <2>4. ASSUME NEW v \in Uri
        PROVE  Entry(v)' = IF \E o \in DOMAIN ops : ops[o] = v
                           THEN texts[CHOOSE o \in DOMAIN ops : ops[o] = v]
                           ELSE IF v \in DOMAIN ops THEN Abstract!Absent
                           ELSE texts[v]
    <3>1. \A w \in Uri : texts[w] = Entry(w)
      BY EntryFacts
    <3>2. CASE \E o \in DOMAIN ops : ops[o] = v
      <4>1. v \in Known'
        BY <3>2, <2>1
      <4> QED
        BY <3>1, <3>2, <4>1, <2>3 DEF Source
    <3>3. CASE ~(\E o \in DOMAIN ops : ops[o] = v) /\ v \in DOMAIN ops
      <4>1. v \notin Known'
        BY <3>3, <2>1
      <4> QED
        BY <3>3, <4>1 DEF Entry, Abstract!Absent
    <3>4. CASE ~(\E o \in DOMAIN ops : ops[o] = v) /\ v \notin DOMAIN ops
      <4>1. v \in Known' <=> v \in Known
        BY <3>4, <2>1
      <4>2. CASE v \in Known
        BY <3>1, <3>4, <4>1, <4>2, <2>3 DEF Source
      <4>3. CASE v \notin Known
        BY <3>1, <3>4, <4>1, <4>3 DEF Entry
      <4> QED
        BY <4>2, <4>3
    <3> QED
      BY <3>2, <3>3, <3>4
  <2> QED
    BY <1>0, <2>2, <2>4 DEF Abstract!Rename
<1>7. ASSUME registry' = registry, \A v \in Known : Data(v)'.text = Data(v).text
      PROVE  texts' = texts
  <2>1. Known' = Known
    BY <1>7 DEF Known
  <2>2. \A v \in Uri : Entry(v)' = Entry(v)
    BY <1>7, <2>1 DEF Entry
  <2> QED
    BY <1>0, <2>2, EntryFacts
<1>8. CASE Sync
  BY <1>7, <1>8, SyncEffect
<1>9. CASE UNCHANGED vars
  BY <1>7, <1>9 DEF vars, store, Data
<1>10. CASE Next
  <2>1. \A u \in Uri : TextOf[u] \subseteq Text
    BY StoreAssumption
  <2>2. CASE \E u \in Uri : \E t \in TextOf[u] : Open(u, t) \/ Scan(u, t) \/ Edit(u, t)
    BY <2>1, <2>2, <1>2, <1>3, <1>4 DEF Abstract!Next
  <2>3. CASE \E u \in Uri : Close(u)
    BY <2>3, <1>5 DEF Abstract!Next
  <2>4. CASE \E ops \in Renames : RenameFiles(ops)
    BY <2>4, <1>6 DEF Abstract!Next
  <2> QED
    BY <1>8, <1>10, <2>2, <2>3, <2>4 DEF Next
<1> QED
  BY <1>9, <1>10

(* With all its slots and free lists, the store is a map from files to a   *)
(* status and a text (doc/store.rs): scans do not overwrite, closing and   *)
(* renaming keep the text.                                                 *)
THEOREM StoreIsMap == Spec => ImplementsTextStore
<1>1. Init => Abstract!Init
  BY DEF Init, Abstract!Init, Abstract!Absent, texts, Known
<1>2. StoreInv /\ [Next]_vars => [Abstract!Next]_texts
  BY StepImplements
<1>3. StoreInv /\ [Next]_vars => StoreInv'
  BY StepStore
<1> QED
  BY <1>1, <1>2, <1>3, InitStore, PTL DEF Spec, ImplementsTextStore, Abstract!Spec

----------------------------------------------------------------------------
(* Folds over numbers: what AllNumbers gives instead of the induction of   *)
(* the library, whose theorems take an operator.                           *)

(* A set of numbers that holds 0, and n + 1 with n, holds all numbers.     *)
LEMMA AllNumbers ==
  ASSUME NEW T, 0 \in T, \A n \in T : n \in Nat => n + 1 \in T
  PROVE  Nat \subseteq T
<1> DEFINE S == Nat \ T
<1>1. SUFFICES ASSUME S # {} PROVE FALSE
  OBVIOUS
<1>2. PICK n \in S : \A m \in S : <<m, n>> \notin OpToRel(<, Nat)
  BY <1>1, WFMin, NatLessThanWellFounded
<1>3. n # 0 /\ n - 1 \in Nat
  OBVIOUS
<1>4. n - 1 \in S
  <2>1. n = (n - 1) + 1
    BY <1>3
  <2> QED
    BY <1>3, <2>1
<1>5. <<n - 1, n>> \in OpToRel(<, Nat)
  BY <1>3 DEF OpToRel
<1> QED
  BY <1>2, <1>4, <1>5

(* The greatest number of a set of numbers up to n.                        *)
LEMMA MaxUpTo ==
  ASSUME NEW n \in Nat, NEW s \in SUBSET (1..n), s # {}
  PROVE  Max(s) \in s /\ \A m \in s : m <= Max(s)
<1> DEFINE T == {k \in Nat : \A r \in SUBSET (1..k) :
                    r # {} => \E x \in r : \A y \in r : x >= y}
<1>1. 0 \in T
  <2>1. \A r \in SUBSET (1..0) : r = {}
    OBVIOUS
  <2> QED
    BY <2>1
<1>2. ASSUME NEW k \in T, k \in Nat
      PROVE  k + 1 \in T
  <2>1. ASSUME NEW r \in SUBSET (1..(k + 1)), r # {}
        PROVE  \E x \in r : \A y \in r : x >= y
    <3>1. CASE k + 1 \in r
      BY <3>1, <1>2
    <3>2. CASE k + 1 \notin r
      <4>1. r \in SUBSET (1..k)
        BY <3>2, <1>2
      <4> QED
        BY <4>1, <2>1, <1>2
    <3> QED
      BY <3>1, <3>2
  <2> QED
    BY <2>1, <1>2
<1>3. n \in T
  BY <1>1, <1>2, AllNumbers
<1>4. \E x \in s : \A y \in s : x >= y
  BY <1>3
<1> QED
  BY <1>4 DEF Max

(* f folds h over sets of numbers up to N, the greatest number last.       *)
FoldsBy(X, N, base, h, f) ==
  /\ f \in [SUBSET (1..N) -> X]
  /\ f = [s \in SUBSET (1..N) |->
            IF s = {} THEN base ELSE h[<<f[s \ {Max(s)}], Max(s)>>]]

(* Such a fold is well defined.                                            *)
LEMMA FoldExists ==
  ASSUME NEW X, NEW N \in Nat, NEW base \in X, NEW h \in [X \X (1..N) -> X]
  PROVE  \E f : FoldsBy(X, N, base, h, f)
<1> DEFINE Value(f, s) == IF s = {} THEN base ELSE h[<<f[s \ {Max(s)}], Max(s)>>]
           Good(n) == \E f \in [SUBSET (1..n) -> X] :
                        f = [s \in SUBSET (1..n) |-> Value(f, s)]
           T == {n \in Nat : n <= N => Good(n)}
<1>1. Good(0)
  <2> DEFINE f == [s \in SUBSET (1..0) |-> base]
  <2>1. \A s \in SUBSET (1..0) : s = {}
    OBVIOUS
  <2>2. f \in [SUBSET (1..0) -> X]
    OBVIOUS
  <2>3. f = [s \in SUBSET (1..0) |-> Value(f, s)]
    BY <2>1
  <2> QED
    BY <2>2, <2>3
<1>2. ASSUME NEW n \in Nat, n + 1 <= N, Good(n)
      PROVE  Good(n + 1)
  <2>1. PICK f \in [SUBSET (1..n) -> X] : f = [s \in SUBSET (1..n) |-> Value(f, s)]
    BY <1>2
  <2> DEFINE g == [s \in SUBSET (1..(n + 1)) |-> Value(f, s)]
  <2>2. ASSUME NEW s \in SUBSET (1..(n + 1)), s # {}
        PROVE  Max(s) \in 1..N /\ s \ {Max(s)} \in SUBSET (1..n)
    <3>1. n + 1 \in Nat
      BY <1>2
    <3>2. Max(s) \in s /\ \A m \in s : m <= Max(s)
      BY <2>2, <3>1, MaxUpTo
    <3>3. Max(s) \in 1..N
      <4>1. Max(s) \in 1..(n + 1)
        BY <3>2
      <4> QED
        BY <4>1, <1>2
    <3>4. ASSUME NEW m \in s \ {Max(s)}
          PROVE  m \in 1..n
      <4>1. m \in 1..(n + 1) /\ Max(s) \in 1..(n + 1) /\ m <= Max(s) /\ m # Max(s)
        BY <3>2
      <4> QED
        BY <4>1, <1>2
    <3> QED
      BY <3>3, <3>4
  <2>3. g \in [SUBSET (1..(n + 1)) -> X]
    <3>1. ASSUME NEW s \in SUBSET (1..(n + 1))
          PROVE  Value(f, s) \in X
      BY <2>2
    <3> QED
      BY <3>1
  <2>4. ASSUME NEW s \in SUBSET (1..n)
        PROVE  g[s] = f[s]
    <3>1. s \in SUBSET (1..(n + 1))
      BY <1>2
    <3> QED
      BY <2>1, <3>1
  <2>5. ASSUME NEW s \in SUBSET (1..(n + 1))
        PROVE  Value(f, s) = Value(g, s)
    <3>1. CASE s = {}
      BY <3>1
    <3>2. CASE s # {}
      <4>1. g[s \ {Max(s)}] = f[s \ {Max(s)}]
        BY <2>2, <2>4, <3>2
      <4> HIDE DEF g
      <4> QED
        BY <4>1, <3>2
    <3> QED
      BY <3>1, <3>2
  <2>6. g = [s \in SUBSET (1..(n + 1)) |-> Value(g, s)]
    BY <2>5
  <2> HIDE DEF g
  <2> QED
    BY <2>3, <2>6
<1> HIDE DEF Good
<1>3. 0 \in T
  BY <1>1
<1>4. ASSUME NEW n \in T, n \in Nat
      PROVE  n + 1 \in T
  BY <1>2, <1>4
<1> HIDE DEF T
<1>5. N \in T
  BY <1>3, <1>4, AllNumbers
<1>6. Good(N)
  BY <1>5 DEF T
<1> QED
  BY <1>6 DEF Good, FoldsBy

----------------------------------------------------------------------------
(* Location maps of the indexes.                                           *)

(* Location maps: what is known of the files of one that is sorted.        *)
Lists(map, S) == map.sorted => IsInjective(map.files) /\ ToSet(map.files) = S

(* A sequence with a new element put between two others.                   *)
LEMMA InsertedSeq ==
  ASSUME NEW T, NEW q \in Seq(T), NEW e \in T, NEW i \in 1..(Len(q) + 1)
  PROVE  /\ InsertAt(q, i, e) \in Seq(T)
         /\ Len(InsertAt(q, i, e)) = Len(q) + 1
         /\ \A j \in 1..(Len(q) + 1) :
              InsertAt(q, i, e)[j] = IF j < i THEN q[j]
                                     ELSE IF j = i THEN e ELSE q[j - 1]
<1> DEFINE a == SubSeq(q, 1, i - 1)
           b == SubSeq(q, i, Len(q))
<1>1. a \in Seq(T) /\ Len(a) = i - 1 /\ \A j \in 1..(i - 1) : a[j] = q[j]
  OBVIOUS
<1>2. b \in Seq(T) /\ Len(b) = Len(q) - i + 1
      /\ \A j \in 1..(Len(q) - i + 1) : b[j] = q[i + j - 1]
  OBVIOUS
<1>3. InsertAt(q, i, e) = (a \o <<e>>) \o b
  BY DEF InsertAt
<1> HIDE DEF a, b
<1> DEFINE c == a \o <<e>>
<1>4. c \in Seq(T) /\ Len(c) = i /\ c[i] = e /\ \A j \in 1..(i - 1) : c[j] = q[j]
  BY <1>1
<1> HIDE DEF c
<1>8. Len(q) \in Nat /\ i \in Nat /\ 1 <= i /\ i <= Len(q) + 1
  OBVIOUS
<1>9. /\ c \o b \in Seq(T) /\ Len(c \o b) = Len(c) + Len(b)
      /\ \A j \in 1..(Len(c) + Len(b)) :
           (c \o b)[j] = IF j <= Len(c) THEN c[j] ELSE b[j - Len(c)]
  BY <1>2, <1>4, ConcatProperties
<1> DEFINE m == Len(q)
           s == c \o b
<1> HIDE DEF m, s
<1>10. Len(c) + Len(b) = m + 1 /\ m \in Nat
  BY <1>2, <1>4, <1>8 DEF m
<1>5. s \in Seq(T) /\ Len(s) = m + 1
      /\ \A j \in 1..(m + 1) : s[j] = IF j <= i THEN c[j] ELSE b[j - i]
  BY <1>4, <1>9, <1>10 DEF s
<1>6. ASSUME NEW j \in 1..(m + 1)
      PROVE  s[j] = IF j < i THEN q[j] ELSE IF j = i THEN e ELSE q[j - 1]
  <2>1. CASE j <= i
    BY <1>4, <1>5, <1>8, <1>10, <2>1
  <2>2. CASE j > i
    <3>1. j - i \in 1..(m - i + 1) /\ i + (j - i) - 1 = j - 1
      BY <1>8, <1>10, <2>2
    <3>2. s[j] = b[j - i]
      BY <1>5, <1>8, <1>10, <2>2
    <3>3. b[j - i] = q[j - 1]
      BY <1>2, <3>1 DEF m
    <3> QED
      BY <1>8, <1>10, <2>2, <3>2, <3>3
  <2> QED
    BY <2>1, <2>2, <1>8, <1>10
<1>7. InsertAt(q, i, e) = s
  BY <1>3 DEF c, s
<1> QED
  BY <1>5, <1>6, <1>7 DEF m

(* A sequence with one element taken out.                                  *)
LEMMA RemovedSeq ==
  ASSUME NEW T, NEW q \in Seq(T), NEW i \in 1..Len(q)
  PROVE  /\ RemoveAt(q, i) \in Seq(T)
         /\ Len(RemoveAt(q, i)) = Len(q) - 1
         /\ \A j \in 1..(Len(q) - 1) :
              RemoveAt(q, i)[j] = IF j < i THEN q[j] ELSE q[j + 1]
<1> DEFINE a == SubSeq(q, 1, i - 1)
           b == SubSeq(q, i + 1, Len(q))
<1>1. a \in Seq(T) /\ Len(a) = i - 1 /\ \A j \in 1..(i - 1) : a[j] = q[j]
  OBVIOUS
<1>2. b \in Seq(T) /\ Len(b) = Len(q) - i
      /\ \A j \in 1..(Len(q) - i) : b[j] = q[i + j]
  OBVIOUS
<1>3. RemoveAt(q, i) = a \o b
  BY DEF RemoveAt
<1> HIDE DEF a, b
<1>6. Len(q) \in Nat /\ i \in Nat /\ 1 <= i /\ i <= Len(q)
  OBVIOUS
<1>7. /\ a \o b \in Seq(T) /\ Len(a \o b) = Len(a) + Len(b)
      /\ \A j \in 1..(Len(a) + Len(b)) :
           (a \o b)[j] = IF j <= Len(a) THEN a[j] ELSE b[j - Len(a)]
  BY <1>1, <1>2, ConcatProperties
<1> DEFINE m == Len(q)
           s == a \o b
<1> HIDE DEF m, s
<1>8. Len(a) + Len(b) = m - 1 /\ m \in Nat
  BY <1>1, <1>2, <1>6 DEF m
<1>4. s \in Seq(T) /\ Len(s) = m - 1
      /\ \A j \in 1..(m - 1) : s[j] = IF j <= i - 1 THEN a[j] ELSE b[j - (i - 1)]
  BY <1>1, <1>7, <1>8 DEF s
<1>5. ASSUME NEW j \in 1..(m - 1)
      PROVE  s[j] = IF j < i THEN q[j] ELSE q[j + 1]
  <2>1. CASE j < i
    BY <1>1, <1>4, <1>6, <1>8, <2>1
  <2>2. CASE j >= i
    <3>1. j - (i - 1) \in 1..(m - i) /\ i + (j - (i - 1)) = j + 1
      BY <1>6, <1>8, <2>2
    <3>2. s[j] = b[j - (i - 1)]
      BY <1>4, <1>6, <1>8, <2>2
    <3>3. b[j - (i - 1)] = q[j + 1]
      BY <1>2, <3>1 DEF m
    <3> QED
      BY <1>6, <1>8, <2>2, <3>2, <3>3
  <2> QED
    BY <2>1, <2>2, <1>6, <1>8
<1> QED
  BY <1>3, <1>4, <1>5 DEF m, s

(* FileLocationMap::insert adds the file unless it is there.               *)
LEMMA MapInsertLists ==
  ASSUME NEW map \in LocationMap, NEW u \in Uri
  PROVE  /\ MapInsert(map, u) \in LocationMap
         /\ \A S : Lists(map, S) => Lists(MapInsert(map, u), S \union {u})
<1> DEFINE q == map.files
           less == {i \in DOMAIN q : q[i] < u}
           k == 1 + Cardinality(less)
<1>1. q \in Seq(Uri) /\ map.sorted \in BOOLEAN /\ DOMAIN q = 1..Len(q) /\ Len(q) \in Nat
  BY DEF LocationMap
<1>4. PICK m \in Nat : m = Len(q)
  BY <1>1
<1>2. CASE ~map.sorted \/ At(q, u) # {}
  <2>1. MapInsert(map, u) = map
    BY <1>2 DEF MapInsert
  <2>2. ASSUME NEW S, Lists(map, S)
        PROVE  Lists(map, S \union {u})
    BY <1>2, <2>2 DEF Lists, At, ToSet
  <2> QED
    BY <2>1, <2>2
<1>3. CASE map.sorted /\ At(q, u) = {}
  <2>1. k \in 1..(Len(q) + 1)
    <3>1. IsFiniteSet(1..Len(q)) /\ Cardinality(1..Len(q)) = Len(q)
      BY <1>1, FS_Interval
    <3>2. less \in SUBSET (1..Len(q))
      BY <1>1
    <3> HIDE DEF less
    <3>3. IsFiniteSet(less) /\ Cardinality(less) <= Cardinality(1..Len(q))
      BY <3>1, <3>2, FS_Subset
    <3>4. Cardinality(less) \in Nat
      BY <3>3, FS_CardinalityType
    <3> QED
      BY <1>1, <3>1, <3>3, <3>4
  <2>2. MapInsert(map, u) = [sorted |-> TRUE, files |-> InsertAt(q, k, u)]
    BY <1>3 DEF MapInsert, Map
  <2>0. k \in 1..(m + 1) /\ k \in Nat
    BY <2>1, <1>4
  <2> HIDE DEF k
  <2> DEFINE r == InsertAt(q, k, u)
  <2>3. /\ r \in Seq(Uri) /\ Len(r) = m + 1
        /\ \A j \in 1..(m + 1) :
             r[j] = IF j < k THEN q[j] ELSE IF j = k THEN u ELSE q[j - 1]
    <3> HIDE DEF q
    <3> QED
      BY <1>1, <1>4, <2>1, InsertedSeq
  <2> HIDE DEF r
  <2>4. DOMAIN r = 1..(m + 1)
    BY <1>1, <1>4, <2>3
  <2>5. \A j \in 1..m : q[j] # u
    BY <1>1, <1>4, <1>3 DEF At
  <2>6. ASSUME IsInjective(q)
        PROVE  IsInjective(r)
    <3>1. \A i, j \in 1..m : q[i] = q[j] => i = j
      BY <1>1, <1>4, <2>6 DEF IsInjective
    <3>2. ASSUME NEW i \in 1..(m + 1), NEW j \in 1..(m + 1), r[i] = r[j]
          PROVE  i = j
      <4> DEFINE from(x) == IF x < k THEN x ELSE x - 1
      <4>1. ASSUME NEW x \in 1..(m + 1), x # k
            PROVE  from(x) \in 1..m /\ r[x] = q[from(x)]
        BY <1>1, <1>4, <2>0, <2>3, <4>1
      <4>2. CASE i = k
        BY <4>1, <4>2, <3>2, <2>3, <2>5
      <4>3. CASE j = k
        BY <4>1, <4>3, <3>2, <2>3, <2>5
      <4>4. CASE i # k /\ j # k
        <5>1. from(i) = from(j)
          BY <3>1, <3>2, <4>1, <4>4
        <5>2. i \in Nat /\ j \in Nat /\ k \in Nat
          BY <2>0, <1>1, <1>4
        <5> QED
          BY <5>1, <5>2, <4>4
      <4> QED
        BY <4>2, <4>3, <4>4
    <3> QED
      BY <2>4, <3>2 DEF IsInjective
  <2>7. ToSet(r) = ToSet(q) \union {u}
    <3>1. ASSUME NEW x \in ToSet(r)
          PROVE  x \in ToSet(q) \union {u}
      <4>1. PICK j \in 1..(m + 1) : x = r[j]
        BY <2>4 DEF ToSet
      <4>2. CASE j = k
        BY <4>1, <4>2, <2>3
      <4>3. CASE j < k
        <5>1. j \in DOMAIN q
          BY <1>1, <1>4, <4>3, <2>0
        <5>2. x = q[j]
          BY <4>1, <4>3, <2>3
        <5> QED
          BY <5>1, <5>2 DEF ToSet
      <4>4. CASE j > k
        <5>1. j - 1 \in DOMAIN q
          BY <1>1, <1>4, <4>4, <2>0
        <5>2. x = q[j - 1]
          BY <4>1, <4>4, <2>0, <2>3
        <5> QED
          BY <5>1, <5>2 DEF ToSet
      <4>5. j \in Nat /\ k \in Nat
        BY <2>0, <1>1, <1>4
      <4> QED
        BY <4>2, <4>3, <4>4, <4>5
    <3>2. u \in ToSet(r)
      <4>1. k \in DOMAIN r /\ r[k] = u
        BY <2>0, <2>3, <2>4
      <4> QED
        BY <4>1 DEF ToSet
    <3>3. ASSUME NEW x \in ToSet(q)
          PROVE  x \in ToSet(r)
      <4>1. PICK j \in 1..m : x = q[j]
        BY <1>1, <1>4 DEF ToSet
      <4>2. CASE j < k
        <5>1. j \in DOMAIN r /\ r[j] = x
          BY <1>1, <1>4, <4>1, <4>2, <2>3, <2>4
        <5> QED
          BY <5>1 DEF ToSet
      <4>3. CASE j >= k
        <5>1. j + 1 \in DOMAIN r /\ r[j + 1] = x
          BY <1>1, <1>4, <4>1, <4>3, <2>0, <2>3, <2>4
        <5> QED
          BY <5>1 DEF ToSet
      <4> QED
        BY <4>2, <4>3, <2>0, <1>1, <1>4
    <3> QED
      BY <3>1, <3>2, <3>3
  <2>8. MapInsert(map, u) \in LocationMap
    BY <2>2, <2>3 DEF LocationMap, r
  <2> QED
    BY <1>3, <2>2, <2>6, <2>7, <2>8 DEF Lists, r
<1> QED
  BY <1>1, <1>4, <1>2, <1>3

(* FileLocationMap::remove takes the file out.                             *)
LEMMA MapRemoveLists ==
  ASSUME NEW map \in LocationMap, NEW u \in Uri
  PROVE  /\ MapRemove(map, u) \in LocationMap
         /\ \A S : Lists(map, S) => Lists(MapRemove(map, u), S \ {u})
<1> DEFINE q == map.files
           k == CHOOSE i \in At(q, u) : TRUE
<1>1. q \in Seq(Uri) /\ map.sorted \in BOOLEAN /\ DOMAIN q = 1..Len(q) /\ Len(q) \in Nat
  BY DEF LocationMap
<1>2. CASE ~map.sorted \/ At(q, u) = {}
  <2>1. MapRemove(map, u) = map
    BY <1>2 DEF MapRemove
  <2>2. ASSUME NEW S, Lists(map, S)
        PROVE  Lists(map, S \ {u})
    BY <1>2, <2>2 DEF Lists, At, ToSet
  <2> QED
    BY <2>1, <2>2
<1>3. CASE map.sorted /\ At(q, u) # {}
  <2>1. k \in 1..Len(q) /\ q[k] = u
    BY <1>1, <1>3 DEF At
  <2>2. MapRemove(map, u) = [sorted |-> TRUE, files |-> RemoveAt(q, k)]
    BY <1>3 DEF MapRemove, Map
  <2> HIDE DEF k
  <2> DEFINE r == RemoveAt(q, k)
             from(x) == IF x < k THEN x ELSE x + 1
  <2>3. /\ r \in Seq(Uri) /\ Len(r) = Len(q) - 1
        /\ \A j \in 1..(Len(q) - 1) : r[j] = IF j < k THEN q[j] ELSE q[j + 1]
    BY <1>1, <2>1, RemovedSeq
  <2> HIDE DEF r
  <2>4. DOMAIN r = 1..(Len(q) - 1)
    BY <1>1, <2>3
  <2>5. ASSUME NEW x \in 1..(Len(q) - 1)
        PROVE  from(x) \in 1..Len(q) /\ from(x) # k /\ r[x] = q[from(x)]
    BY <1>1, <2>1, <2>3
  <2>6. ASSUME NEW S, Lists(map, S)
        PROVE  IsInjective(r) /\ ToSet(r) = S \ {u}
    <3>1. \A i, j \in 1..Len(q) : q[i] = q[j] => i = j
      BY <1>1, <1>3, <2>6 DEF IsInjective, Lists
    <3>2. S = {q[i] : i \in 1..Len(q)}
      BY <1>1, <1>3, <2>6 DEF ToSet, Lists
    <3>3. ASSUME NEW i \in 1..(Len(q) - 1), NEW j \in 1..(Len(q) - 1), r[i] = r[j]
          PROVE  i = j
      <4>1. from(i) = from(j)
        BY <3>1, <3>3, <2>5
      <4> QED
        BY <4>1, <2>1, <1>1
    <3>4. ASSUME NEW x \in ToSet(r)
          PROVE  x \in S \ {u}
      <4>1. PICK j \in 1..(Len(q) - 1) : x = r[j]
        BY <2>4 DEF ToSet
      <4> QED
        BY <4>1, <2>1, <2>5, <3>1, <3>2
    <3>5. ASSUME NEW x \in S, x # u
          PROVE  x \in ToSet(r)
      <4>1. PICK j \in 1..Len(q) : x = q[j]
        BY <3>2
      <4>2. CASE j < k
        <5>1. j \in DOMAIN r /\ r[j] = x
          BY <1>1, <4>1, <4>2, <2>1, <2>3, <2>4
        <5> QED
          BY <5>1 DEF ToSet
      <4>3. CASE j > k
        <5>1. j - 1 \in DOMAIN r /\ r[j - 1] = x
          BY <1>1, <4>1, <4>3, <2>1, <2>3, <2>4
        <5> QED
          BY <5>1 DEF ToSet
      <4> QED
        BY <4>1, <4>2, <4>3, <2>1, <3>5, <1>1
    <3> QED
      BY <2>4, <3>3, <3>4, <3>5 DEF IsInjective
  <2>7. MapRemove(map, u) \in LocationMap
    BY <2>2, <2>3 DEF LocationMap, r
  <2> QED
    BY <1>3, <2>2, <2>6, <2>7 DEF Lists, r
<1> QED
  BY <1>1, <1>2, <1>3

(* FileLocationMap::rename gives a file a name no other file of the map    *)
(* has, or nothing is said of the map any more.                            *)
LEMMA MapRenameLists ==
  ASSUME NEW map \in LocationMap, NEW o \in Uri, NEW n \in Uri
  PROVE  /\ MapRename(map, o, n) \in LocationMap
         /\ \A S : Lists(map, S) /\ n \notin S =>
              Lists(MapRename(map, o, n), {IF f = o THEN n ELSE f : f \in S})
<1> DEFINE q == map.files
           k == CHOOSE i \in At(q, o) : TRUE
<1>1. q \in Seq(Uri) /\ map.sorted \in BOOLEAN /\ DOMAIN q = 1..Len(q) /\ Len(q) \in Nat
  BY DEF LocationMap
<1>2. CASE ~map.sorted \/ At(q, o) = {}
  <2>1. MapRename(map, o, n) = map
    BY <1>2 DEF MapRename
  <2>2. ASSUME NEW S, Lists(map, S)
        PROVE  Lists(map, {IF f = o THEN n ELSE f : f \in S})
    <3>1. CASE ~map.sorted
      BY <3>1 DEF Lists
    <3>2. CASE map.sorted
      <4>1. o \notin S /\ ToSet(q) = S
        BY <1>2, <2>2, <3>2 DEF Lists, At, ToSet
      <4>2. S = {IF f = o THEN n ELSE f : f \in S}
        BY <4>1
      <4> QED
        BY <2>2, <4>2
    <3> QED
      BY <1>1, <3>1, <3>2
  <2> QED
    BY <2>1, <2>2
<1>3. CASE map.sorted /\ At(q, o) # {}
  <2>1. k \in 1..Len(q) /\ q[k] = o
    BY <1>1, <1>3 DEF At
  <2> DEFINE r == [q EXCEPT ![k] = n]
  <2>2. MapRename(map, o, n) = IF Ascending(r) THEN [sorted |-> TRUE, files |-> r]
                               ELSE [sorted |-> FALSE, files |-> <<>>]
    BY <1>3 DEF MapRename, Map, Spoiled
  <2> HIDE DEF k
  <2>3. r \in Seq(Uri) /\ DOMAIN r = 1..Len(q)
        /\ \A j \in 1..Len(q) : r[j] = IF j = k THEN n ELSE q[j]
    BY <1>1, <2>1
  <2> HIDE DEF r
  <2>4. ASSUME NEW S, Lists(map, S), n \notin S
        PROVE  IsInjective(r) /\ ToSet(r) = {IF f = o THEN n ELSE f : f \in S}
    <3>1. \A i, j \in 1..Len(q) : q[i] = q[j] => i = j
      BY <1>1, <1>3, <2>4 DEF IsInjective, Lists
    <3>2. S = {q[i] : i \in 1..Len(q)}
      BY <1>1, <1>3, <2>4 DEF ToSet, Lists
    <3>3. \A i \in 1..Len(q) : q[i] # n
      BY <3>2, <2>4
    <3>4. IsInjective(r)
      BY <2>3, <3>1, <3>3 DEF IsInjective
    <3>5. \A j \in 1..Len(q) : r[j] = IF q[j] = o THEN n ELSE q[j]
      BY <2>1, <2>3, <3>1
    <3> QED
      BY <2>3, <3>2, <3>4, <3>5 DEF ToSet
  <2>5. MapRename(map, o, n) \in LocationMap
    <3>1. <<>> \in Seq(Uri)
      OBVIOUS
    <3> QED
      BY <2>2, <2>3, <3>1 DEF LocationMap
  <2>6. ASSUME NEW S, Lists(map, S), n \notin S
        PROVE  Lists(MapRename(map, o, n), {IF f = o THEN n ELSE f : f \in S})
    <3>1. CASE Ascending(r)
      BY <2>2, <2>4, <2>6, <3>1 DEF Lists
    <3>2. CASE ~Ascending(r)
      BY <2>2, <3>2 DEF Lists
    <3> QED
      BY <3>1, <3>2
  <2> QED
    BY <2>5, <2>6
<1> QED
  BY <1>1, <1>2, <1>3

----------------------------------------------------------------------------
(* Indexes: a document under new keys.                                     *)

(* Indexes whose keys are in K.                                            *)
IndexesOver(K) == UNION {[D -> LocationMap] : D \in SUBSET K}

(* The maps of an index are location maps, the empty one for other keys.   *)
LEMMA IndexFacts ==
  ASSUME NEW K, NEW x \in IndexesOver(K)
  PROVE  /\ DOMAIN x \subseteq K
         /\ x \in [DOMAIN x -> LocationMap]
         /\ \A k : Lookup(x, k) \in LocationMap
<1>1. PICK D \in SUBSET K : x \in [D -> LocationMap]
  BY DEF IndexesOver
<1>2. Map(<<>>) \in LocationMap
  BY DEF Map, LocationMap
<1>3. \A k : k \in DOMAIN x => x[k] \in LocationMap
  BY <1>1
<1> QED
  BY <1>1, <1>2, <1>3 DEF Lookup

(* An index is a function from its keys to location maps.                  *)
LEMMA IndexTyped ==
  ASSUME NEW K, NEW x, DOMAIN x \subseteq K, x \in [DOMAIN x -> LocationMap]
  PROVE  x \in IndexesOver(K)
BY DEF IndexesOver

(* FileLocationIndex::insert changes the map of one key.                   *)
LEMMA InsertLooked ==
  ASSUME NEW K, NEW x \in IndexesOver(K), NEW k \in K, NEW u \in Uri
  PROVE  /\ IndexInsert(x, k, u) \in IndexesOver(K)
         /\ \A j : Lookup(IndexInsert(x, k, u), j) =
                     IF j = k THEN MapInsert(Lookup(x, k), u) ELSE Lookup(x, j)
<1> DEFINE y == IndexInsert(x, k, u)
           m == MapInsert(Lookup(x, k), u)
<1>1. y = [j \in DOMAIN x \union {k} |-> IF j = k THEN m ELSE x[j]]
  BY DEF IndexInsert
<1>2. m \in LocationMap
  BY IndexFacts, MapInsertLists
<1> HIDE DEF y, m
<1>3. DOMAIN y = DOMAIN x \union {k} /\ \A j \in DOMAIN y : y[j] = IF j = k THEN m ELSE x[j]
  BY <1>1
<1>4. y \in [DOMAIN y -> LocationMap]
  BY <1>1, <1>2, <1>3, IndexFacts
<1>5. y \in IndexesOver(K)
  BY <1>3, <1>4, IndexFacts, IndexTyped
<1>6. \A j : Lookup(y, j) = IF j = k THEN m ELSE Lookup(x, j)
  BY <1>3 DEF Lookup
<1> QED
  BY <1>5, <1>6 DEF y, m

(* remove_key_locs changes the map of one key.                             *)
LEMMA RemoveLooked ==
  ASSUME NEW K, NEW x \in IndexesOver(K), NEW k \in K, NEW u \in Uri
  PROVE  /\ IndexRemove(x, k, u) \in IndexesOver(K)
         /\ \A j : Lookup(IndexRemove(x, k, u), j) =
                     IF j = k THEN MapRemove(Lookup(x, k), u) ELSE Lookup(x, j)
<1> DEFINE y == IndexRemove(x, k, u)
<1>1. /\ DOMAIN y = DOMAIN x
      /\ \A j \in DOMAIN x : y[j] = IF j = k THEN MapRemove(x[k], u) ELSE x[j]
      /\ y = [j \in DOMAIN x |-> y[j]]
  BY DEF IndexRemove
<1>2. DOMAIN x \subseteq K /\ \A j \in DOMAIN x : x[j] \in LocationMap
  BY IndexFacts
<1>3. \A j \in DOMAIN x : y[j] \in LocationMap
  BY <1>1, <1>2, MapRemoveLists
<1> HIDE DEF y
<1>4. y \in IndexesOver(K)
  BY <1>1, <1>2, <1>3, IndexTyped
<1>5. MapRemove(Map(<<>>), u) = Map(<<>>)
  BY DEF MapRemove, Map, At
<1>6. ASSUME NEW j
      PROVE  Lookup(y, j) = IF j = k THEN MapRemove(Lookup(x, k), u) ELSE Lookup(x, j)
  <2>1. CASE j \in DOMAIN x
    BY <1>1, <2>1 DEF Lookup
  <2>2. CASE j \notin DOMAIN x
    BY <1>1, <1>5, <2>2 DEF Lookup
  <2> QED
    BY <2>1, <2>2
<1> QED
  BY <1>4, <1>6 DEF y

(* The greatest number up to i.                                            *)
LEMMA MaxInterval ==
  ASSUME NEW i \in Nat, i > 0
  PROVE  Max(1..i) = i /\ (1..i) \ {i} = 1..(i - 1)
<1>1. 1..i \in SUBSET (1..i) /\ 1..i # {} /\ i \in 1..i
  OBVIOUS
<1>2. Max(1..i) \in 1..i /\ \A m \in 1..i : m <= Max(1..i)
  BY <1>1, MaxUpTo
<1> QED
  BY <1>1, <1>2

(* g goes through the numbers up to N by h, from base to end.              *)
GoesBy(X, N, base, h, end, g) ==
  /\ g \in [0..N -> X]
  /\ g[0] = base
  /\ \A i \in 1..N : g[i] = h[<<g[i - 1], i>>]
  /\ g[N] = end

(* A fold that takes the greatest number last goes through the numbers one *)
(* by one.                                                                 *)
LEMMA FoldChain ==
  ASSUME NEW X, NEW N \in Nat, NEW base \in X, NEW h \in [X \X (1..N) -> X], NEW iter,
         iter[{}] = base,
         \A s \in SUBSET (1..N) : s # {} /\ iter[s \ {Max(s)}] \in X =>
           iter[s] = h[<<iter[s \ {Max(s)}], Max(s)>>]
  PROVE  \E g : GoesBy(X, N, base, h, iter[1..N], g)
<1>1. ASSUME NEW i \in 1..N, iter[1..(i - 1)] \in X
      PROVE  iter[1..i] = h[<<iter[1..(i - 1)], i>>]
  <2>1. i \in Nat /\ i > 0 /\ i <= N
    OBVIOUS
  <2>2. 1..i \in SUBSET (1..N) /\ i \in 1..i
    BY <2>1
  <2>3. Max(1..i) = i /\ (1..i) \ {i} = 1..(i - 1)
    BY <2>1, MaxInterval
  <2> QED
    BY <1>1, <2>2, <2>3
<1> DEFINE T == {i \in Nat : i <= N => iter[1..i] \in X}
<1>2. 1..0 = {}
  OBVIOUS
<1>3. 0 \in T
  BY <1>2
<1>4. ASSUME NEW i \in T, i \in Nat
      PROVE  i + 1 \in T
  <2>1. CASE i + 1 <= N
    <3>1. i + 1 \in 1..N /\ (i + 1) - 1 = i /\ iter[1..i] \in X
      BY <1>4, <2>1
    <3>2. iter[1..(i + 1)] = h[<<iter[1..i], i + 1>>]
      BY <1>1, <3>1
    <3> QED
      BY <1>4, <3>1, <3>2
  <2>2. CASE ~(i + 1 <= N)
    BY <1>4, <2>2
  <2> QED
    BY <2>1, <2>2
<1> HIDE DEF T
<1>5. Nat \subseteq T
  BY <1>3, <1>4, AllNumbers
<1>6. \A i \in 0..N : iter[1..i] \in X
  BY <1>5 DEF T
<1> DEFINE g == [i \in 0..N |-> iter[1..i]]
<1>7. g \in [0..N -> X] /\ g[0] = base /\ g[N] = iter[1..N]
  BY <1>2, <1>6
<1>8. ASSUME NEW i \in 1..N
      PROVE  g[i] = h[<<g[i - 1], i>>]
  <2>1. i \in 0..N /\ i - 1 \in 0..N
    OBVIOUS
  <2> QED
    BY <1>1, <1>6, <2>1
<1> HIDE DEF g
<1> QED
  BY <1>7, <1>8 DEF GoesBy

(* g goes through the keys of a sequence one by one.                       *)
InsertsBy(K, x, q, u, g) ==
  /\ g \in [0..Len(q) -> IndexesOver(K)]
  /\ g[0] = x
  /\ \A i \in 1..Len(q) : g[i] = IndexInsert(g[i - 1], q[i], u)
  /\ g[Len(q)] = FoldLeft(LAMBDA y, k : IndexInsert(y, k, u), x, q)

(* A document is listed under the keys of a sequence one after the other.  *)
LEMMA InsertChain ==
  ASSUME NEW K, NEW x \in IndexesOver(K), NEW q \in Seq(K), NEW u \in Uri
  PROVE  \E g : InsertsBy(K, x, q, u, g)
<1> DEFINE X == IndexesOver(K)
           N == Len(q)
           Op(y, i) == IndexInsert(y, q[i], u)
           Folds(f) == f = [s \in SUBSET (1..N) |->
                              IF s = {} THEN x ELSE Op(f[s \ {Max(s)}], Max(s))]
           iter == CHOOSE f : Folds(f)
           h == [p \in X \X (1..N) |-> Op(p[1], p[2])]
<1>1. N \in Nat /\ DOMAIN q = 1..N /\ x \in X /\ \A i \in 1..N : q[i] \in K
  OBVIOUS
<1>2. FoldLeft(LAMBDA y, k : IndexInsert(y, k, u), x, q) = iter[1..N]
  BY <1>1 DEF FoldLeft, MapThenFoldSet
<1>3. \A y \in X, i \in 1..N : Op(y, i) \in X
  BY <1>1, InsertLooked
<1> HIDE DEF N, X, Op
<1>4. h \in [X \X (1..N) -> X] /\ \A y \in X, i \in 1..N : h[<<y, i>>] = Op(y, i)
  BY <1>3
<1> HIDE DEF h
<1>5. ASSUME NEW f, NEW s \in SUBSET (1..N), s # {}, f[s \ {Max(s)}] \in X
      PROVE  h[<<f[s \ {Max(s)}], Max(s)>>] = Op(f[s \ {Max(s)}], Max(s))
  <2>1. Max(s) \in 1..N
    BY <1>1, <1>5, MaxUpTo
  <2> QED
    BY <1>4, <1>5, <2>1
<1>6. \E f : Folds(f)
  <2>1. PICK f : FoldsBy(X, N, x, h, f)
    BY <1>1, <1>4, FoldExists
  <2>2. /\ f \in [SUBSET (1..N) -> X]
        /\ f = [s \in SUBSET (1..N) |->
                  IF s = {} THEN x ELSE h[<<f[s \ {Max(s)}], Max(s)>>]]
    BY <2>1 DEF FoldsBy
  <2>3. ASSUME NEW s \in SUBSET (1..N), s # {}
        PROVE  h[<<f[s \ {Max(s)}], Max(s)>>] = Op(f[s \ {Max(s)}], Max(s))
    <3>1. f[s \ {Max(s)}] \in X
      BY <2>2
    <3> QED
      BY <1>5, <2>3, <3>1
  <2>4. Folds(f)
    BY <2>2, <2>3
  <2> QED
    BY <2>4
<1>7. Folds(iter)
  BY <1>6
<1> HIDE DEF iter
<1>8. iter[{}] = x
  BY <1>7
<1>9. \A s \in SUBSET (1..N) : s # {} /\ iter[s \ {Max(s)}] \in X =>
        iter[s] = h[<<iter[s \ {Max(s)}], Max(s)>>]
  BY <1>5, <1>7
<1> HIDE DEF Folds
<1>12. PICK g : GoesBy(X, N, x, h, iter[1..N], g)
  BY <1>1, <1>4, <1>8, <1>9, FoldChain
<1>10. /\ g \in [0..N -> X]
       /\ g[0] = x
       /\ \A i \in 1..N : g[i] = h[<<g[i - 1], i>>]
       /\ g[N] = iter[1..N]
  BY <1>12 DEF GoesBy
<1>11. ASSUME NEW i \in 1..N
       PROVE  g[i] = Op(g[i - 1], i)
  <2>1. g[i - 1] \in X
    BY <1>1, <1>10
  <2> QED
    BY <1>4, <1>10, <2>1
<1> QED
  BY <1>2, <1>10, <1>11 DEF N, X, Op, InsertsBy

(* g goes through the keys of a sequence one by one.                       *)
RemovesBy(K, x, q, u, g) ==
  /\ g \in [0..Len(q) -> IndexesOver(K)]
  /\ g[0] = x
  /\ \A i \in 1..Len(q) : g[i] = IndexRemove(g[i - 1], q[i], u)
  /\ g[Len(q)] = FoldLeft(LAMBDA y, k : IndexRemove(y, k, u), x, q)

(* It is taken from under the keys of a sequence one after the other.      *)
LEMMA RemoveChain ==
  ASSUME NEW K, NEW x \in IndexesOver(K), NEW q \in Seq(K), NEW u \in Uri
  PROVE  \E g : RemovesBy(K, x, q, u, g)
<1> DEFINE X == IndexesOver(K)
           N == Len(q)
           Op(y, i) == IndexRemove(y, q[i], u)
           Folds(f) == f = [s \in SUBSET (1..N) |->
                              IF s = {} THEN x ELSE Op(f[s \ {Max(s)}], Max(s))]
           iter == CHOOSE f : Folds(f)
           h == [p \in X \X (1..N) |-> Op(p[1], p[2])]
<1>1. N \in Nat /\ DOMAIN q = 1..N /\ x \in X /\ \A i \in 1..N : q[i] \in K
  OBVIOUS
<1>2. FoldLeft(LAMBDA y, k : IndexRemove(y, k, u), x, q) = iter[1..N]
  BY <1>1 DEF FoldLeft, MapThenFoldSet
<1>3. \A y \in X, i \in 1..N : Op(y, i) \in X
  BY <1>1, RemoveLooked
<1> HIDE DEF N, X, Op
<1>4. h \in [X \X (1..N) -> X] /\ \A y \in X, i \in 1..N : h[<<y, i>>] = Op(y, i)
  BY <1>3
<1> HIDE DEF h
<1>5. ASSUME NEW f, NEW s \in SUBSET (1..N), s # {}, f[s \ {Max(s)}] \in X
      PROVE  h[<<f[s \ {Max(s)}], Max(s)>>] = Op(f[s \ {Max(s)}], Max(s))
  <2>1. Max(s) \in 1..N
    BY <1>1, <1>5, MaxUpTo
  <2> QED
    BY <1>4, <1>5, <2>1
<1>6. \E f : Folds(f)
  <2>1. PICK f : FoldsBy(X, N, x, h, f)
    BY <1>1, <1>4, FoldExists
  <2>2. /\ f \in [SUBSET (1..N) -> X]
        /\ f = [s \in SUBSET (1..N) |->
                  IF s = {} THEN x ELSE h[<<f[s \ {Max(s)}], Max(s)>>]]
    BY <2>1 DEF FoldsBy
  <2>3. ASSUME NEW s \in SUBSET (1..N), s # {}
        PROVE  h[<<f[s \ {Max(s)}], Max(s)>>] = Op(f[s \ {Max(s)}], Max(s))
    <3>1. f[s \ {Max(s)}] \in X
      BY <2>2
    <3> QED
      BY <1>5, <2>3, <3>1
  <2>4. Folds(f)
    BY <2>2, <2>3
  <2> QED
    BY <2>4
<1>7. Folds(iter)
  BY <1>6
<1> HIDE DEF iter
<1>8. iter[{}] = x
  BY <1>7
<1>9. \A s \in SUBSET (1..N) : s # {} /\ iter[s \ {Max(s)}] \in X =>
        iter[s] = h[<<iter[s \ {Max(s)}], Max(s)>>]
  BY <1>5, <1>7
<1> HIDE DEF Folds
<1>12. PICK g : GoesBy(X, N, x, h, iter[1..N], g)
  BY <1>1, <1>4, <1>8, <1>9, FoldChain
<1>10. /\ g \in [0..N -> X]
       /\ g[0] = x
       /\ \A i \in 1..N : g[i] = h[<<g[i - 1], i>>]
       /\ g[N] = iter[1..N]
  BY <1>12 DEF GoesBy
<1>11. ASSUME NEW i \in 1..N
       PROVE  g[i] = Op(g[i - 1], i)
  <2>1. g[i - 1] \in X
    BY <1>1, <1>10
  <2> QED
    BY <1>4, <1>10, <2>1
<1> QED
  BY <1>2, <1>10, <1>11 DEF N, X, Op, RemovesBy

(* Each of them lists it then, the others are as they were.                *)
LEMMA InsertAll ==
  ASSUME NEW K, NEW x \in IndexesOver(K), NEW q \in Seq(K), NEW u \in Uri
  PROVE  LET y == FoldLeft(LAMBDA z, k : IndexInsert(z, k, u), x, q) IN
         /\ y \in IndexesOver(K)
         /\ \A k, S : Lists(Lookup(x, k), S) =>
              Lists(Lookup(y, k), IF k \in ToSet(q) THEN S \union {u} ELSE S)
<1> DEFINE N == Len(q)
           y == FoldLeft(LAMBDA z, k : IndexInsert(z, k, u), x, q)
<1>1. N \in Nat /\ DOMAIN q = 1..N /\ \A i \in 1..N : q[i] \in K
  OBVIOUS
<1>5. PICK g : InsertsBy(K, x, q, u, g)
  BY InsertChain
<1>2. /\ g \in [0..N -> IndexesOver(K)]
      /\ g[0] = x
      /\ \A i \in 1..N : g[i] = IndexInsert(g[i - 1], q[i], u)
      /\ g[N] = y
  BY <1>5 DEF InsertsBy
<1> HIDE DEF N, y
<1>3. y \in IndexesOver(K)
  BY <1>1, <1>2
<1>4. ASSUME NEW k, NEW S, Lists(Lookup(x, k), S)
      PROVE  Lists(Lookup(y, k), IF k \in ToSet(q) THEN S \union {u} ELSE S)
  <2> DEFINE Done(i) == IF \E j \in 1..i : q[j] = k THEN S \union {u} ELSE S
             T == {i \in Nat : i <= N => Lists(Lookup(g[i], k), Done(i))}
  <2>1. Done(0) = S
    OBVIOUS
  <2>2. 0 \in T
    BY <1>2, <1>4, <2>1
  <2>3. ASSUME NEW i \in Nat, i + 1 <= N, Lists(Lookup(g[i], k), Done(i))
        PROVE  Lists(Lookup(g[i + 1], k), Done(i + 1))
    <3>1. i + 1 \in 1..N /\ (i + 1) - 1 = i /\ g[i] \in IndexesOver(K)
      BY <1>1, <1>2, <2>3
    <3>2. g[i + 1] = IndexInsert(g[i], q[i + 1], u) /\ q[i + 1] \in K
      BY <1>1, <1>2, <3>1
    <3>3. Lookup(g[i + 1], k) = IF k = q[i + 1] THEN MapInsert(Lookup(g[i], q[i + 1]), u)
                               ELSE Lookup(g[i], k)
      BY <3>1, <3>2, InsertLooked
    <3>4. Lookup(g[i], k) \in LocationMap
      BY <3>1, IndexFacts
    <3>5. \A j \in 1..(i + 1) : j \in 1..i \/ j = i + 1
      BY <2>3
    <3>6. 1..i \subseteq 1..(i + 1) /\ i + 1 \in 1..(i + 1)
      BY <2>3
    <3>7. CASE k = q[i + 1]
      <4>1. Done(i + 1) = Done(i) \union {u}
        BY <3>6, <3>7
      <4> HIDE DEF Done
      <4>2. Lists(MapInsert(Lookup(g[i], k), u), Done(i) \union {u})
        BY <2>3, <3>4, MapInsertLists
      <4> QED
        BY <3>3, <3>7, <4>1, <4>2
    <3>8. CASE k # q[i + 1]
      <4>1. Done(i + 1) = Done(i)
        BY <3>5, <3>6, <3>8
      <4> HIDE DEF Done
      <4> QED
        BY <2>3, <3>3, <3>8, <4>1
    <3> QED
      BY <3>7, <3>8
  <2> HIDE DEF Done
  <2>4. ASSUME NEW i \in T, i \in Nat
        PROVE  i + 1 \in T
    BY <1>1, <2>3, <2>4
  <2> HIDE DEF T
  <2>5. N \in T
    BY <1>1, <2>2, <2>4, AllNumbers
  <2>6. Lists(Lookup(y, k), Done(N))
    BY <1>1, <1>2, <2>5 DEF T
  <2>7. Done(N) = IF k \in ToSet(q) THEN S \union {u} ELSE S
    BY <1>1 DEF Done, ToSet
  <2> QED
    BY <2>6, <2>7
<1> QED
  BY <1>3, <1>4 DEF y

(* None of them lists it any more.                                         *)
LEMMA RemoveAll ==
  ASSUME NEW K, NEW x \in IndexesOver(K), NEW q \in Seq(K), NEW u \in Uri
  PROVE  LET y == FoldLeft(LAMBDA z, k : IndexRemove(z, k, u), x, q) IN
         /\ y \in IndexesOver(K)
         /\ \A k, S : Lists(Lookup(x, k), S) =>
              Lists(Lookup(y, k), IF k \in ToSet(q) THEN S \ {u} ELSE S)
<1> DEFINE N == Len(q)
           y == FoldLeft(LAMBDA z, k : IndexRemove(z, k, u), x, q)
<1>1. N \in Nat /\ DOMAIN q = 1..N /\ \A i \in 1..N : q[i] \in K
  OBVIOUS
<1>5. PICK g : RemovesBy(K, x, q, u, g)
  BY RemoveChain
<1>2. /\ g \in [0..N -> IndexesOver(K)]
      /\ g[0] = x
      /\ \A i \in 1..N : g[i] = IndexRemove(g[i - 1], q[i], u)
      /\ g[N] = y
  BY <1>5 DEF RemovesBy
<1> HIDE DEF N, y
<1>3. y \in IndexesOver(K)
  BY <1>1, <1>2
<1>4. ASSUME NEW k, NEW S, Lists(Lookup(x, k), S)
      PROVE  Lists(Lookup(y, k), IF k \in ToSet(q) THEN S \ {u} ELSE S)
  <2> DEFINE Done(i) == IF \E j \in 1..i : q[j] = k THEN S \ {u} ELSE S
             T == {i \in Nat : i <= N => Lists(Lookup(g[i], k), Done(i))}
  <2>1. Done(0) = S
    OBVIOUS
  <2>2. 0 \in T
    BY <1>2, <1>4, <2>1
  <2>3. ASSUME NEW i \in Nat, i + 1 <= N, Lists(Lookup(g[i], k), Done(i))
        PROVE  Lists(Lookup(g[i + 1], k), Done(i + 1))
    <3>1. i + 1 \in 1..N /\ (i + 1) - 1 = i /\ g[i] \in IndexesOver(K)
      BY <1>1, <1>2, <2>3
    <3>2. g[i + 1] = IndexRemove(g[i], q[i + 1], u) /\ q[i + 1] \in K
      BY <1>1, <1>2, <3>1
    <3>3. Lookup(g[i + 1], k) = IF k = q[i + 1] THEN MapRemove(Lookup(g[i], q[i + 1]), u)
                               ELSE Lookup(g[i], k)
      BY <3>1, <3>2, RemoveLooked
    <3>4. Lookup(g[i], k) \in LocationMap
      BY <3>1, IndexFacts
    <3>5. \A j \in 1..(i + 1) : j \in 1..i \/ j = i + 1
      BY <2>3
    <3>6. 1..i \subseteq 1..(i + 1) /\ i + 1 \in 1..(i + 1)
      BY <2>3
    <3>7. CASE k = q[i + 1]
      <4>1. Done(i + 1) = Done(i) \ {u}
        BY <3>6, <3>7
      <4> HIDE DEF Done
      <4>2. Lists(MapRemove(Lookup(g[i], k), u), Done(i) \ {u})
        BY <2>3, <3>4, MapRemoveLists
      <4> QED
        BY <3>3, <3>7, <4>1, <4>2
    <3>8. CASE k # q[i + 1]
      <4>1. Done(i + 1) = Done(i)
        BY <3>5, <3>6, <3>8
      <4> HIDE DEF Done
      <4> QED
        BY <2>3, <3>3, <3>8, <4>1
    <3> QED
      BY <3>7, <3>8
  <2> HIDE DEF Done
  <2>4. ASSUME NEW i \in T, i \in Nat
        PROVE  i + 1 \in T
    BY <1>1, <2>3, <2>4
  <2> HIDE DEF T
  <2>5. N \in T
    BY <1>1, <2>2, <2>4, AllNumbers
  <2>6. Lists(Lookup(y, k), Done(N))
    BY <1>1, <1>2, <2>5 DEF T
  <2>7. Done(N) = IF k \in ToSet(q) THEN S \ {u} ELSE S
    BY <1>1 DEF Done, ToSet
  <2> QED
    BY <2>6, <2>7
<1> QED
  BY <1>3, <1>4 DEF y

(* A document with new keys is listed under these and no others, if it was *)
(* under its old ones only.                                                *)
LEMMA UpdateLists ==
  ASSUME NEW K, NEW x \in IndexesOver(K), NEW u \in Uri,
         NEW old \in Seq(K), NEW new \in Seq(K)
  PROVE  /\ IndexUpdate(x, u, old, new) \in IndexesOver(K)
         /\ \A k, S : Lists(Lookup(x, k), S) =>
              Lists(Lookup(IndexUpdate(x, u, old, new), k),
                    (IF k \in ToSet(old) THEN S \ {u} ELSE S)
                      \union IF k \in ToSet(new) THEN {u} ELSE {})
<1> DEFINE y == FoldLeft(LAMBDA z, k : IndexRemove(z, k, u), x, old)
           z == FoldLeft(LAMBDA v, k : IndexInsert(v, k, u), y, new)
<1>1. IndexUpdate(x, u, old, new) = z
  BY DEF IndexUpdate
<1>2. /\ y \in IndexesOver(K)
      /\ \A k, S : Lists(Lookup(x, k), S) =>
           Lists(Lookup(y, k), IF k \in ToSet(old) THEN S \ {u} ELSE S)
  BY RemoveAll
<1> HIDE DEF y
<1>3. /\ z \in IndexesOver(K)
      /\ \A k, S : Lists(Lookup(y, k), S) =>
           Lists(Lookup(z, k), IF k \in ToSet(new) THEN S \union {u} ELSE S)
  BY <1>2, InsertAll
<1> HIDE DEF z
<1>4. ASSUME NEW k, NEW S, Lists(Lookup(x, k), S)
      PROVE  Lists(Lookup(z, k), (IF k \in ToSet(old) THEN S \ {u} ELSE S)
                                   \union IF k \in ToSet(new) THEN {u} ELSE {})
  <2> DEFINE R == IF k \in ToSet(old) THEN S \ {u} ELSE S
  <2>1. Lists(Lookup(y, k), R)
    BY <1>2, <1>4
  <2> HIDE DEF R
  <2>2. Lists(Lookup(z, k), IF k \in ToSet(new) THEN R \union {u} ELSE R)
    BY <1>3, <2>1
  <2>3. (IF k \in ToSet(new) THEN R \union {u} ELSE R)
          = R \union IF k \in ToSet(new) THEN {u} ELSE {}
    OBVIOUS
  <2>4. Lists(Lookup(z, k), R \union IF k \in ToSet(new) THEN {u} ELSE {})
    BY <2>2, <2>3
  <2> QED
    BY <2>4 DEF R
<1> QED
  BY <1>1, <1>3, <1>4

----------------------------------------------------------------------------
(* Indexes: a file under a new name.                                       *)

(* What a relation of files and keys lists under a key.                    *)
Row(R, k) == {u \in Uri : <<u, k>> \in R}

(* An index lists what a relation says.                                    *)
Represents(x, R) == \A k : Lists(Lookup(x, k), Row(R, k))

(* One file, the pairs of a relation and an index under a new name.        *)
Renamed(o, n, u) == IF u = o THEN n ELSE u
RenamedPairs(R, o, n) == {<<Renamed(o, n, p[1]), Renamed(o, n, p[2])>> : p \in R}

RenameStep(x, o, n) == RenameLocs(RenameKey(x, o, n), o, n)

(* The keys an index may have after a rename.                              *)
Renamable(K) == \A o, n \in Uri : o \in K => n \in K

(* FileLocationIndex::rename_key keeps an index an index.                  *)
LEMMA RenameKeyTyped ==
  ASSUME NEW K, Renamable(K), NEW x \in IndexesOver(K), NEW o \in Uri, NEW n \in Uri
  PROVE  RenameKey(x, o, n) \in IndexesOver(K)
<1>1. CASE o \notin DOMAIN x
  BY <1>1 DEF RenameKey
<1>2. CASE o \in DOMAIN x
  <2> DEFINE y == RenameKey(x, o, n)
  <2>1. y = [j \in (DOMAIN x \ {o}) \union {n} |-> IF j = n THEN x[o] ELSE x[j]]
    BY <1>2 DEF RenameKey
  <2> HIDE DEF y
  <2>2. DOMAIN x \subseteq K /\ \A j \in DOMAIN x : x[j] \in LocationMap
    BY IndexFacts
  <2>3. n \in K
    BY <1>2, <2>2 DEF Renamable
  <2>4. DOMAIN y = (DOMAIN x \ {o}) \union {n}
    BY <2>1
  <2>5. DOMAIN y \subseteq K
    BY <2>2, <2>3, <2>4
  <2>6. y \in [DOMAIN y -> LocationMap]
    BY <1>2, <2>1, <2>2, <2>4
  <2>7. y \in IndexesOver(K)
    BY <2>5, <2>6, IndexTyped
  <2> QED
    BY <2>7 DEF y
<1> QED
  BY <1>1, <1>2

(* FileLocationIndex::rename_locs renames the file in every map.           *)
LEMMA RenameLocsLooked ==
  ASSUME NEW K, NEW x \in IndexesOver(K), NEW o \in Uri, NEW n \in Uri
  PROVE  /\ RenameLocs(x, o, n) \in IndexesOver(K)
         /\ \A k : Lookup(RenameLocs(x, o, n), k) = MapRename(Lookup(x, k), o, n)
<1> DEFINE y == RenameLocs(x, o, n)
<1>1. y = [k \in DOMAIN x |-> MapRename(x[k], o, n)]
  BY DEF RenameLocs
<1> HIDE DEF y
<1>2. DOMAIN x \subseteq K /\ \A j \in DOMAIN x : x[j] \in LocationMap
  BY IndexFacts
<1>3. \A j \in DOMAIN x : MapRename(x[j], o, n) \in LocationMap
  BY <1>2, MapRenameLists
<1>4. DOMAIN y = DOMAIN x /\ y \in [DOMAIN y -> LocationMap]
  BY <1>1, <1>3
<1>5. y \in IndexesOver(K)
  BY <1>2, <1>4, IndexTyped
<1>6. MapRename(Map(<<>>), o, n) = Map(<<>>)
  BY DEF MapRename, Map, At
<1>7. \A k : Lookup(y, k) = MapRename(Lookup(x, k), o, n)
  BY <1>1, <1>6 DEF Lookup
<1> QED
  BY <1>5, <1>7 DEF y

(* So does the rename of one file as a whole.                              *)
LEMMA RenameStepTyped ==
  ASSUME NEW K, Renamable(K), NEW x \in IndexesOver(K), NEW o \in Uri, NEW n \in Uri
  PROVE  RenameStep(x, o, n) \in IndexesOver(K)
BY RenameKeyTyped, RenameLocsLooked DEF RenameStep

(* A rename to a name that occurs nowhere in the index.                    *)
LEMMA RenameStepRepresents ==
  ASSUME NEW K, Renamable(K), NEW x \in IndexesOver(K),
         NEW o \in Uri, NEW n \in Uri, o # n,
         NEW R \in SUBSET (Uri \X K), \A p \in R : p[1] # n /\ p[2] # n,
         Represents(x, R)
  PROVE  Represents(RenameStep(x, o, n), RenamedPairs(R, o, n))
<1> DEFINE y == RenameKey(x, o, n)
           Mid(k) == IF k = n THEN Row(R, o) ELSE IF k = o THEN {} ELSE Row(R, k)
<1>1. y \in IndexesOver(K)
  BY RenameKeyTyped
<1>2. \A k : <<n, k>> \notin R
  <2>1. \A k : <<n, k>>[1] = n
    OBVIOUS
  <2> QED
    BY <2>1
<1>3. \A u : <<u, n>> \notin R
  <2>1. \A u : <<u, n>>[2] = n
    OBVIOUS
  <2> QED
    BY <2>1
<1>4. ASSUME NEW k PROVE Lists(Lookup(y, k), Mid(k))
  <2>0. Lists(Map(<<>>), {})
    BY DEF Lists, Map, ToSet, IsInjective
  <2>1. CASE o \notin DOMAIN x
    <3>1. y = x
      BY <2>1 DEF RenameKey
    <3>2. Row(R, o) = {}
      <4>1. Lists(Map(<<>>), Row(R, o))
        BY <2>1 DEF Represents, Lookup
      <4> QED
        BY <4>1 DEF Lists, Map, ToSet
    <3>3. Row(R, n) = {}
      BY <1>3 DEF Row
    <3>4. Mid(k) = Row(R, k)
      BY <3>2, <3>3
    <3> QED
      BY <3>1, <3>4 DEF Represents
  <2>2. CASE o \in DOMAIN x
    <3>1. /\ DOMAIN y = (DOMAIN x \ {o}) \union {n}
          /\ \A j \in DOMAIN y : y[j] = IF j = n THEN x[o] ELSE x[j]
      BY <2>2 DEF RenameKey
    <3> HIDE DEF y
    <3>2. CASE k = n
      <4>1. Lookup(y, k) = Lookup(x, o)
        BY <2>2, <3>1, <3>2 DEF Lookup
      <4> QED
        BY <3>2, <4>1 DEF Represents
    <3>3. CASE k = o
      <4>1. Lookup(y, k) = Map(<<>>)
        BY <3>1, <3>3 DEF Lookup
      <4> QED
        BY <2>0, <3>3, <4>1
    <3>4. CASE k # n /\ k # o
      <4>1. Lookup(y, k) = Lookup(x, k)
        BY <3>1, <3>4 DEF Lookup
      <4> QED
        BY <3>4, <4>1 DEF Represents
    <3> QED
      BY <3>2, <3>3, <3>4
  <2> QED
    BY <2>1, <2>2
<1>5. \A k : n \notin Mid(k)
  BY <1>2 DEF Row
<1>6. ASSUME NEW k
      PROVE  {IF f = o THEN n ELSE f : f \in Mid(k)} = Row(RenamedPairs(R, o, n), k)
  <2>1. ASSUME NEW f \in Mid(k)
        PROVE  Renamed(o, n, f) \in Row(RenamedPairs(R, o, n), k)
    <3>1. f \in Uri
      BY <2>1 DEF Row
    <3> DEFINE j == IF k = n THEN o ELSE k
    <3>2. <<f, j>> \in R /\ Renamed(o, n, j) = k
      BY <2>1 DEF Row, Renamed
    <3> HIDE DEF j
    <3>3. <<Renamed(o, n, f), Renamed(o, n, j)>> \in RenamedPairs(R, o, n)
      <4>1. <<f, j>>[1] = f /\ <<f, j>>[2] = j
        OBVIOUS
      <4> QED
        BY <3>2, <4>1 DEF RenamedPairs
    <3>4. Renamed(o, n, f) \in Uri
      BY <3>1 DEF Renamed
    <3> QED
      BY <3>2, <3>3, <3>4 DEF Row
  <2>2. ASSUME NEW v \in Row(RenamedPairs(R, o, n), k)
        PROVE  \E f \in Mid(k) : v = Renamed(o, n, f)
    <3>1. PICK p \in R : <<v, k>> = <<Renamed(o, n, p[1]), Renamed(o, n, p[2])>>
      BY <2>2 DEF Row, RenamedPairs
    <3>2. v = Renamed(o, n, p[1]) /\ k = Renamed(o, n, p[2])
      BY <3>1
    <3>3. p[1] \in Uri /\ p[2] # n /\ <<p[1], p[2]>> \in R
      BY <3>1
    <3>4. p[1] \in Mid(k)
      BY <3>2, <3>3 DEF Row, Renamed
    <3> QED
      BY <3>2, <3>4
  <2>3. {IF f = o THEN n ELSE f : f \in Mid(k)} = {Renamed(o, n, f) : f \in Mid(k)}
    BY DEF Renamed
  <2> HIDE DEF Mid
  <2> QED
    BY <2>1, <2>2, <2>3
<1> HIDE DEF Mid, y
<1>7. ASSUME NEW k
      PROVE  Lists(Lookup(RenameStep(x, o, n), k), Row(RenamedPairs(R, o, n), k))
  <2>1. Lookup(RenameStep(x, o, n), k) = MapRename(Lookup(y, k), o, n)
    BY <1>1, RenameLocsLooked DEF RenameStep, y
  <2>2. Lookup(y, k) \in LocationMap
    BY <1>1, IndexFacts
  <2>3. Lists(MapRename(Lookup(y, k), o, n), {IF f = o THEN n ELSE f : f \in Mid(k)})
    BY <1>4, <1>5, <2>2, MapRenameLists
  <2> QED
    BY <1>6, <2>1, <2>3
<1> QED
  BY <1>7 DEF Represents

(* A finite set as a sequence: each element once.                          *)
LEMMA Ordered ==
  ASSUME NEW S, IsFiniteSet(S)
  PROVE  /\ SetToSeq(S) \in Seq(S)
         /\ \A i, j \in 1..Len(SetToSeq(S)) : SetToSeq(S)[i] = SetToSeq(S)[j] => i = j
         /\ \A e \in S : \E i \in 1..Len(SetToSeq(S)) : SetToSeq(S)[i] = e
<1> DEFINE n == Cardinality(S)
           q == SetToSeq(S)
<1>1. n \in Nat /\ ExistsBijection(1..n, S)
  BY FS_CardinalityType
<1>2. \E f \in [1..n -> S] : IsInjective(f)
  BY <1>1 DEF ExistsBijection, Bijection, Injection
<1>3. q \in [1..n -> S] /\ IsInjective(q)
  BY <1>2 DEF SetToSeq
<1>4. IsFiniteSet(1..n) /\ Cardinality(1..n) = n
  BY <1>1, FS_Interval
<1>5. q \in Injection(1..n, S)
  BY <1>3 DEF Injection
<1> HIDE DEF n, q
<1>6. Cardinality(1..n) = Cardinality(S) <=> q \in Surjection(1..n, S)
  BY <1>5, FS_Injection
<1>7. q \in Surjection(1..n, S)
  BY <1>4, <1>6 DEF n
<1>8. q \in Seq(S) /\ Len(q) = n
  BY <1>1, <1>3
<1>9. \A e \in S : \E i \in 1..n : q[i] = e
  BY <1>7 DEF Surjection
<1> QED
  BY <1>3, <1>8, <1>9 DEF q, IsInjective

(* g goes through the files of q, which are renamed one by one.            *)
RenamesBy(K, x, ops, q, g) ==
  /\ g \in [0..Len(q) -> IndexesOver(K)]
  /\ g[0] = x
  /\ \A i \in 1..Len(q) : g[i] = RenameStep(g[i - 1], q[i], ops[q[i]])
  /\ g[Len(q)] = FoldLeft(LAMBDA y, o : RenameLocs(RenameKey(y, o, ops[o]), o, ops[o]),
                          x, q)

(* The files of a rename are renamed one after the other.                  *)
LEMMA RenameChain ==
  ASSUME NEW K, Renamable(K), NEW x \in IndexesOver(K),
         NEW ops, DOMAIN ops \subseteq Uri, \A o \in DOMAIN ops : ops[o] \in Uri,
         NEW q \in Seq(DOMAIN ops)
  PROVE  \E g : RenamesBy(K, x, ops, q, g)
<1> DEFINE X == IndexesOver(K)
           N == Len(q)
           Op(y, i) == RenameLocs(RenameKey(y, q[i], ops[q[i]]), q[i], ops[q[i]])
           Folds(f) == f = [s \in SUBSET (1..N) |->
                              IF s = {} THEN x ELSE Op(f[s \ {Max(s)}], Max(s))]
           iter == CHOOSE f : Folds(f)
           h == [p \in X \X (1..N) |-> Op(p[1], p[2])]
<1>1. N \in Nat /\ DOMAIN q = 1..N /\ x \in X /\ \A i \in 1..N : q[i] \in DOMAIN ops
  OBVIOUS
<1>2. FoldLeft(LAMBDA y, o : RenameLocs(RenameKey(y, o, ops[o]), o, ops[o]), x, q)
        = iter[1..N]
  BY <1>1 DEF FoldLeft, MapThenFoldSet
<1>13. \A y, i : Op(y, i) = RenameStep(y, q[i], ops[q[i]])
  BY DEF RenameStep
<1> HIDE DEF N, Op
<1>3. \A y \in X, i \in 1..N : Op(y, i) \in X
  <2>1. \A i \in 1..N : q[i] \in Uri /\ ops[q[i]] \in Uri
    BY <1>1
  <2> QED
    BY <2>1, <1>13, RenameStepTyped
<1> HIDE DEF X
<1>4. h \in [X \X (1..N) -> X] /\ \A y \in X, i \in 1..N : h[<<y, i>>] = Op(y, i)
  BY <1>3
<1> HIDE DEF h
<1>5. ASSUME NEW f, NEW s \in SUBSET (1..N), s # {}, f[s \ {Max(s)}] \in X
      PROVE  h[<<f[s \ {Max(s)}], Max(s)>>] = Op(f[s \ {Max(s)}], Max(s))
  <2>1. Max(s) \in 1..N
    BY <1>1, <1>5, MaxUpTo
  <2> QED
    BY <1>4, <1>5, <2>1
<1>6. \E f : Folds(f)
  <2>1. PICK f : FoldsBy(X, N, x, h, f)
    BY <1>1, <1>4, FoldExists
  <2>2. /\ f \in [SUBSET (1..N) -> X]
        /\ f = [s \in SUBSET (1..N) |->
                  IF s = {} THEN x ELSE h[<<f[s \ {Max(s)}], Max(s)>>]]
    BY <2>1 DEF FoldsBy
  <2>3. ASSUME NEW s \in SUBSET (1..N), s # {}
        PROVE  h[<<f[s \ {Max(s)}], Max(s)>>] = Op(f[s \ {Max(s)}], Max(s))
    <3>1. f[s \ {Max(s)}] \in X
      BY <2>2
    <3> QED
      BY <1>5, <2>3, <3>1
  <2>4. Folds(f)
    BY <2>2, <2>3
  <2> QED
    BY <2>4
<1>7. Folds(iter)
  BY <1>6
<1> HIDE DEF iter
<1>8. iter[{}] = x
  BY <1>7
<1>9. \A s \in SUBSET (1..N) : s # {} /\ iter[s \ {Max(s)}] \in X =>
        iter[s] = h[<<iter[s \ {Max(s)}], Max(s)>>]
  BY <1>5, <1>7
<1> HIDE DEF Folds
<1>12. PICK g : GoesBy(X, N, x, h, iter[1..N], g)
  BY <1>1, <1>4, <1>8, <1>9, FoldChain
<1>10. /\ g \in [0..N -> X]
       /\ g[0] = x
       /\ \A i \in 1..N : g[i] = h[<<g[i - 1], i>>]
       /\ g[N] = iter[1..N]
  BY <1>12 DEF GoesBy
<1>11. ASSUME NEW i \in 1..N
       PROVE  g[i] = RenameStep(g[i - 1], q[i], ops[q[i]])
  <2>1. g[i - 1] \in X
    BY <1>1, <1>10
  <2> QED
    BY <1>4, <1>10, <1>13, <2>1
<1> QED
  BY <1>2, <1>10, <1>11 DEF N, X, RenamesBy

(* The pairs of a relation under the new names of a rename.                *)
NewPairs(R, ops) == {<<New(ops, p[1]), New(ops, p[2])>> : p \in R}

(* A rename to names that occur nowhere keeps an index what it was, under  *)
(* the new names.                                                          *)
LEMMA RenameRepresents ==
  ASSUME NEW K, Renamable(K), NEW x \in IndexesOver(K),
         NEW ops, IsFiniteSet(DOMAIN ops), DOMAIN ops \subseteq Uri,
         \A o \in DOMAIN ops : ops[o] \in Uri \ DOMAIN ops,
         \A o, p \in DOMAIN ops : ops[o] = ops[p] => o = p
  PROVE  /\ IndexRename(x, ops) \in IndexesOver(K)
         /\ \A R \in SUBSET (Uri \X K) :
              /\ Represents(x, R)
              /\ \A p \in R, o \in DOMAIN ops : p[1] # ops[o] /\ p[2] # ops[o]
              => Represents(IndexRename(x, ops), NewPairs(R, ops))
<1> DEFINE q == SetToSeq(DOMAIN ops)
           N == Len(q)
           y == IndexRename(x, ops)
<1>1. /\ q \in Seq(DOMAIN ops)
      /\ \A i, j \in 1..N : q[i] = q[j] => i = j
      /\ \A e \in DOMAIN ops : \E i \in 1..N : q[i] = e
  BY Ordered
<1>2. N \in Nat /\ \A i \in 1..N : q[i] \in DOMAIN ops
  BY <1>1
<1>3. PICK g : RenamesBy(K, x, ops, q, g)
  BY <1>1, RenameChain
<1>4. /\ g \in [0..N -> IndexesOver(K)]
      /\ g[0] = x
      /\ \A i \in 1..N : g[i] = RenameStep(g[i - 1], q[i], ops[q[i]])
      /\ g[N] = y
  BY <1>3 DEF RenamesBy, IndexRename
<1> HIDE DEF q, N, y
<1>5. y \in IndexesOver(K)
  BY <1>2, <1>4
<1>6. ASSUME NEW R \in SUBSET (Uri \X K), Represents(x, R),
             \A p \in R, o \in DOMAIN ops : p[1] # ops[o] /\ p[2] # ops[o]
      PROVE  Represents(y, NewPairs(R, ops))
  <2> DEFINE Done(i) == {q[j] : j \in 1..i}
             Now(i, u) == IF u \in Done(i) THEN ops[u] ELSE u
             Pairs(i) == {<<Now(i, p[1]), Now(i, p[2])>> : p \in R}
             T == {i \in Nat : i <= N => Represents(g[i], Pairs(i))}
  <2>1. Pairs(0) = R
    <3>1. \A u : Now(0, u) = u
      OBVIOUS
    <3>2. \A p \in R : <<p[1], p[2]>> = p
      OBVIOUS
    <3> HIDE DEF Now
    <3> QED
      BY <3>1, <3>2
  <2>2. 0 \in T
    BY <1>4, <1>6, <2>1
  <2>3. ASSUME NEW i \in Nat, i + 1 <= N, Represents(g[i], Pairs(i))
        PROVE  Represents(g[i + 1], Pairs(i + 1))
    <3> DEFINE o == q[i + 1]
               n == ops[o]
    <3>1. i + 1 \in 1..N /\ (i + 1) - 1 = i /\ g[i] \in IndexesOver(K)
      BY <1>2, <1>4, <2>3
    <3>2. o \in DOMAIN ops /\ o \in Uri /\ n \in Uri /\ o # n
      BY <1>2, <3>1
    <3>3. g[i + 1] = RenameStep(g[i], o, n)
      BY <1>4, <3>1
    <3>4. Done(i) \subseteq DOMAIN ops /\ o \notin Done(i) /\ Done(i + 1) = Done(i) \union {o}
      <4>1. \A j \in 1..i : j \in 1..N /\ j # i + 1
        BY <1>2, <2>3
      <4>2. 1..(i + 1) = (1..i) \union {i + 1}
        BY <2>3
      <4> QED
        BY <1>1, <1>2, <3>1, <4>1, <4>2
    <3> HIDE DEF Done, o
    <3>5. ASSUME NEW u, u # n
          PROVE  Now(i, u) # n
      BY <3>2, <3>4, <3>5
    <3>6. \A u : Now(i + 1, u) = Renamed(o, n, Now(i, u))
      BY <3>2, <3>4 DEF Renamed
    <3>7. \A u : /\ u \in Uri => Now(i, u) \in Uri
                 /\ u \in K => Now(i, u) \in K
      BY <3>4 DEF Renamable
    <3> HIDE DEF Now
    <3>8. Pairs(i) \in SUBSET (Uri \X K) /\ \A p \in Pairs(i) : p[1] # n /\ p[2] # n
      <4>1. ASSUME NEW p \in Pairs(i)
            PROVE  p \in Uri \X K /\ p[1] # n /\ p[2] # n
        <5>1. PICK r \in R : p = <<Now(i, r[1]), Now(i, r[2])>>
          BY <4>1
        <5>2. r[1] \in Uri /\ r[2] \in K /\ r[1] # n /\ r[2] # n
          BY <1>6, <3>2
        <5> QED
          BY <5>1, <5>2, <3>5, <3>7
      <4> QED
        BY <4>1
    <3>9. RenamedPairs(Pairs(i), o, n) = Pairs(i + 1)
      <4>1. ASSUME NEW p \in R
            PROVE  <<Now(i + 1, p[1]), Now(i + 1, p[2])>>
                     = <<Renamed(o, n, Now(i, p[1])), Renamed(o, n, Now(i, p[2]))>>
        BY <3>6
      <4>2. Pairs(i + 1) = {<<Renamed(o, n, Now(i, p[1])), Renamed(o, n, Now(i, p[2]))>> : p \in R}
        BY <4>1
      <4>3. ASSUME NEW p \in R
            PROVE  /\ <<Now(i, p[1]), Now(i, p[2])>>[1] = Now(i, p[1])
                   /\ <<Now(i, p[1]), Now(i, p[2])>>[2] = Now(i, p[2])
        OBVIOUS
      <4>4. ASSUME NEW e \in RenamedPairs(Pairs(i), o, n)
            PROVE  e \in Pairs(i + 1)
        <5>1. PICK r \in Pairs(i) : e = <<Renamed(o, n, r[1]), Renamed(o, n, r[2])>>
          BY <4>4 DEF RenamedPairs
        <5>2. PICK p \in R : r = <<Now(i, p[1]), Now(i, p[2])>>
          BY <5>1
        <5> QED
          BY <4>2, <4>3, <5>1, <5>2
      <4>5. ASSUME NEW p \in R
            PROVE  <<Renamed(o, n, Now(i, p[1])), Renamed(o, n, Now(i, p[2]))>>
                     \in RenamedPairs(Pairs(i), o, n)
        <5>1. <<Now(i, p[1]), Now(i, p[2])>> \in Pairs(i)
          OBVIOUS
        <5> HIDE DEF Pairs
        <5> QED
          BY <4>3, <5>1 DEF RenamedPairs
      <4> HIDE DEF n
      <4> QED
        BY <4>2, <4>4, <4>5
    <3> HIDE DEF Pairs
    <3> QED
      BY <2>3, <3>1, <3>2, <3>3, <3>8, <3>9, RenameStepRepresents
  <2> HIDE DEF Pairs
  <2>4. ASSUME NEW i \in T, i \in Nat
        PROVE  i + 1 \in T
    BY <1>2, <2>3, <2>4
  <2> HIDE DEF T
  <2>5. N \in T
    BY <1>2, <2>2, <2>4, AllNumbers
  <2>6. Represents(y, Pairs(N))
    BY <1>2, <1>4, <2>5 DEF T
  <2>7. Pairs(N) = NewPairs(R, ops)
    <3>1. Done(N) = DOMAIN ops
      <4>1. Done(N) \subseteq DOMAIN ops
        BY <1>2
      <4>2. ASSUME NEW e \in DOMAIN ops
            PROVE  e \in Done(N)
        BY <1>1
      <4> QED
        BY <4>1, <4>2
    <3>2. \A u : Now(N, u) = New(ops, u)
      BY <3>1 DEF New
    <3> QED
      BY <3>2 DEF Pairs, NewPairs
  <2> QED
    BY <2>6, <2>7
<1> QED
  BY <1>5, <1>6 DEF y

----------------------------------------------------------------------------
(* The references in the documents and those in the indexes.               *)

(* What the documents call, and the commands in them.                      *)
CallPairs ==
  {p \in Known \X Uri : Contains(Data(p[1]).calls, p[2])}
CommandPairs ==
  {p \in Known \X Command : Contains(Data(p[1]).text.commands, p[2])}

(* The indexes list just that, unless a rename went to a name in use.      *)
RefInv ==
  /\ StoreInv
  /\ TypeOK
  /\ IsFiniteSet(Known)
  /\ clean => Represents(targets, CallPairs) /\ Represents(commands, CommandPairs)

(* When a pair is in these relations, and after a step.                    *)
LEMMA PairFacts ==
  /\ \A u, t : <<u, t>> \in CallPairs <=>
       u \in Known /\ t \in Uri /\ Contains(Data(u).calls, t)
  /\ \A u, c : <<u, c>> \in CommandPairs <=>
       u \in Known /\ c \in Command /\ Contains(Data(u).text.commands, c)
<1>1. \A u, t : <<u, t>>[1] = u /\ <<u, t>>[2] = t
  OBVIOUS
<1> QED
  BY <1>1 DEF CallPairs, CommandPairs

LEMMA NewPairFacts ==
  /\ \A u, t : <<u, t>> \in CallPairs' <=>
       u \in Known' /\ t \in Uri /\ Contains(Data(u)'.calls, t)
  /\ \A u, c : <<u, c>> \in CommandPairs' <=>
       u \in Known' /\ c \in Command /\ Contains(Data(u)'.text.commands, c)
<1>1. \A u, t : <<u, t>>[1] = u /\ <<u, t>>[2] = t
  OBVIOUS
<1> QED
  BY <1>1 DEF CallPairs, CommandPairs, Known, Data

(* What a sequence contains is an element of it.                           *)
LEMMA ContainsElement ==
  ASSUME NEW T, NEW q \in Seq(T), NEW e
  PROVE  /\ Contains(q, e) <=> e \in ToSet(q)
         /\ Contains(q, e) => e \in T
<1>1. DOMAIN q = 1..Len(q) /\ \A i \in DOMAIN q : q[i] \in T
  OBVIOUS
<1> QED
  BY <1>1 DEF Contains, ToSet

(* What the stored documents are made of.                                  *)
LEMMA DataTyped ==
  ASSUME StoreInv, NEW u \in Known
  PROVE  /\ u \in Uri /\ Data(u).calls \in Seq(Uri)
         /\ Data(u).text \in Text /\ Data(u).text.commands \in Seq(Command)
<1>1. Data(u) \in Doc /\ u \in Uri
  BY DocsAreData DEF StoreInv, StoreOK
<1>2. Data(u).text \in Text
  BY <1>1 DEF Doc
<1> QED
  BY <1>1, <1>2, StoreAssumption DEF Doc

(* The references by file are the references by document.                  *)
LEMMA ReferencesByFile == RefInv => ReferencesExact
<1> SUFFICES ASSUME RefInv PROVE ReferencesExact
  OBVIOUS
<1>1. StoreInv /\ TypeOK
  BY DEF RefInv
<1>2. ASSUME NEW t \in Uri
      PROVE  CallersOf(slots, t) = Row(CallPairs, t)
  <2>1. ASSUME NEW u \in CallersOf(slots, t)
        PROVE  u \in Row(CallPairs, t)
    <3>1. PICK d \in DocsOf(slots) : u = d.uri /\ Contains(d.calls, t)
      BY <2>1 DEF CallersOf
    <3>2. PICK v \in Known : d = Data(v)
      BY <1>1, DocsAreData
    <3>3. v = u /\ v \in Uri
      BY <1>1, <3>1, <3>2, DocsAreData, DataTyped
    <3> QED
      BY <3>1, <3>2, <3>3, PairFacts DEF Row
  <2>2. ASSUME NEW u \in Row(CallPairs, t)
        PROVE  u \in CallersOf(slots, t)
    <3>1. u \in Known /\ Contains(Data(u).calls, t)
      BY <2>2, PairFacts DEF Row
    <3>2. Data(u) \in DocsOf(slots) /\ Data(u).uri = u
      BY <1>1, <3>1, DocsAreData
    <3> QED
      BY <3>1, <3>2 DEF CallersOf
  <2> QED
    BY <2>1, <2>2
<1>3. ASSUME NEW c \in Command
      PROVE  {d.uri : d \in {e \in DocsOf(slots) : Contains(e.text.commands, c)}}
               = Row(CommandPairs, c)
  <2> DEFINE Users == {d.uri : d \in {e \in DocsOf(slots) : Contains(e.text.commands, c)}}
  <2>1. ASSUME NEW u \in Users
        PROVE  u \in Row(CommandPairs, c)
    <3>1. PICK d \in DocsOf(slots) : u = d.uri /\ Contains(d.text.commands, c)
      BY <2>1
    <3>2. PICK v \in Known : d = Data(v)
      BY <1>1, DocsAreData
    <3>3. v = u /\ v \in Uri
      BY <1>1, <3>1, <3>2, DocsAreData, DataTyped
    <3> QED
      BY <3>1, <3>2, <3>3, PairFacts DEF Row
  <2>2. ASSUME NEW u \in Row(CommandPairs, c)
        PROVE  u \in Users
    <3>1. u \in Known /\ Contains(Data(u).text.commands, c)
      BY <2>2, PairFacts DEF Row
    <3>2. Data(u) \in DocsOf(slots) /\ Data(u).uri = u
      BY <1>1, <3>1, DocsAreData
    <3> QED
      BY <3>1, <3>2
  <2> QED
    BY <2>1, <2>2
<1>4. \A map, S : Lists(map, S) => Exactly(map, S)
  BY DEF Lists, Exactly
<1>5. ASSUME clean
      PROVE  /\ \A t \in Uri : Exactly(Lookup(targets, t), CallersOf(slots, t))
             /\ \A c \in Command : Exactly(Lookup(commands, c),
                  {d.uri : d \in {e \in DocsOf(slots) : Contains(e.text.commands, c)}})
  <2>1. Represents(targets, CallPairs) /\ Represents(commands, CommandPairs)
    BY <1>5 DEF RefInv
  <2>2. ASSUME NEW t \in Uri
        PROVE  Exactly(Lookup(targets, t), CallersOf(slots, t))
    <3>1. Lists(Lookup(targets, t), Row(CallPairs, t))
      BY <2>1 DEF Represents
    <3> QED
      BY <1>2, <1>4, <3>1
  <2>3. ASSUME NEW c \in Command
        PROVE  Exactly(Lookup(commands, c),
                  {d.uri : d \in {e \in DocsOf(slots) : Contains(e.text.commands, c)}})
    <3>1. Lists(Lookup(commands, c), Row(CommandPairs, c))
      BY <2>1 DEF Represents
    <3> QED
      BY <1>3, <1>4, <3>1
  <2> QED
    BY <2>2, <2>3
<1> QED
  BY <1>1, <1>5 DEF ReferencesExact

(* An update of one document takes an index from one relation to another   *)
(* that differs at this document only.                                     *)
LEMMA UpdateRepresents ==
  ASSUME NEW K, NEW x \in IndexesOver(K), NEW u \in Uri,
         NEW old \in Seq(K), NEW new \in Seq(K), NEW R, NEW Q,
         Represents(x, R),
         \A v, k : v # u => (<<v, k>> \in Q <=> <<v, k>> \in R),
         \A k : <<u, k>> \in R => k \in ToSet(old),
         \A k : <<u, k>> \in Q <=> k \in ToSet(new)
  PROVE  Represents(IndexUpdate(x, u, old, new), Q)
<1> DEFINE y == IndexUpdate(x, u, old, new)
<1>1. ASSUME NEW k
      PROVE  Lists(Lookup(y, k), Row(Q, k))
  <2> DEFINE S == (IF k \in ToSet(old) THEN Row(R, k) \ {u} ELSE Row(R, k))
                    \union IF k \in ToSet(new) THEN {u} ELSE {}
  <2>1. Lists(Lookup(y, k), S)
    BY UpdateLists DEF Represents
  <2>2. S = Row(Q, k)
    BY DEF Row
  <2> QED
    BY <2>1, <2>2
<1> QED
  BY <1>1 DEF Represents

(* A document with a new text.                                             *)
LEMMA TextReplaced ==
  ASSUME RefInv, NEW u \in Uri, NEW t \in Text, UpdateIndexes(u, t),
         Known' = Known \union {u},
         Data(u)'.text = t, Data(u)'.calls = t.calls,
         \A v \in Known \ {u} :
           Data(v)'.text = Data(v).text /\ Data(v)'.calls = Data(v).calls,
         StoreInv', synced' \in BOOLEAN, UNCHANGED history
  PROVE  RefInv'
<1>1. StoreInv /\ TypeOK
  BY DEF RefInv
<1>2. t.calls \in Seq(Uri) /\ t.commands \in Seq(Command) /\ t.macros \subseteq Macro
  BY StoreAssumption
<1>3. OldCalls(u) \in Seq(Uri) /\ OldCommands(u) \in Seq(Command)
  BY <1>1, DataTyped DEF OldCalls, OldCommands
<1>4. targets \in IndexesOver(Uri) /\ commands \in IndexesOver(Command)
  BY <1>1, IndexTyped DEF TypeOK
<1>5. /\ macroIndex' = UpdateMacroIndex(u, t)
      /\ targets' = IndexUpdate(targets, u, OldCalls(u), t.calls)
      /\ commands' = IndexUpdate(commands, u, OldCommands(u), t.commands)
  BY DEF UpdateIndexes
<1>6. targets' \in IndexesOver(Uri) /\ commands' \in IndexesOver(Command)
  <2>1. targets' \in IndexesOver(Uri)
    BY <1>2, <1>3, <1>4, <1>5, UpdateLists
  <2>2. commands' \in IndexesOver(Command)
    BY <1>2, <1>3, <1>4, <1>5, UpdateLists
  <2> QED
    BY <2>1, <2>2
<1>7. TypeOK'
  <2>1. macroIndex' \in [Macro -> SUBSET Uri]
    BY <1>1, <1>5 DEF TypeOK, UpdateMacroIndex
  <2>2. /\ DOMAIN targets' \subseteq Uri /\ targets' \in [DOMAIN targets' -> LocationMap]
        /\ DOMAIN commands' \subseteq Command
        /\ commands' \in [DOMAIN commands' -> LocationMap]
    BY <1>6, IndexFacts
  <2>3. StoreOK'
    BY DEF StoreInv
  <2>4. renames' \in 0..MaxRenames /\ clean' \in BOOLEAN
    BY <1>1 DEF TypeOK, history
  <2> QED
    BY <2>1, <2>2, <2>3, <2>4 DEF TypeOK
<1>8. IsFiniteSet(Known')
  BY FS_AddElement DEF RefInv
<1>9. ASSUME clean
      PROVE  Represents(targets', CallPairs') /\ Represents(commands', CommandPairs')
  <2>1. Represents(targets, CallPairs) /\ Represents(commands, CommandPairs)
    BY <1>9 DEF RefInv
  <2>2. Represents(targets', CallPairs')
    <3>1. ASSUME NEW v, NEW k, v # u
          PROVE  <<v, k>> \in CallPairs' <=> <<v, k>> \in CallPairs
      BY <3>1, PairFacts, NewPairFacts
    <3>2. ASSUME NEW k, <<u, k>> \in CallPairs
          PROVE  k \in ToSet(OldCalls(u))
      BY <1>3, <3>2, PairFacts, ContainsElement DEF OldCalls
    <3>3. ASSUME NEW k
          PROVE  <<u, k>> \in CallPairs' <=> k \in ToSet(t.calls)
      BY <1>2, NewPairFacts, ContainsElement
    <3> QED
      BY <1>2, <1>3, <1>4, <1>5, <2>1, <3>1, <3>2, <3>3, UpdateRepresents
  <2>3. Represents(commands', CommandPairs')
    <3>1. ASSUME NEW v, NEW k, v # u
          PROVE  <<v, k>> \in CommandPairs' <=> <<v, k>> \in CommandPairs
      BY <3>1, PairFacts, NewPairFacts
    <3>2. ASSUME NEW k, <<u, k>> \in CommandPairs
          PROVE  k \in ToSet(OldCommands(u))
      BY <1>3, <3>2, PairFacts, ContainsElement DEF OldCommands
    <3>3. ASSUME NEW k
          PROVE  <<u, k>> \in CommandPairs' <=> k \in ToSet(t.commands)
      BY <1>2, NewPairFacts, ContainsElement
    <3> QED
      BY <1>2, <1>3, <1>4, <1>5, <2>1, <3>1, <3>2, <3>3, UpdateRepresents
  <2> QED
    BY <2>2, <2>3
<1> QED
  BY <1>7, <1>8, <1>9 DEF RefInv, history

(* A step that leaves the texts and the indexes alone.                     *)
LEMMA TextsKept ==
  ASSUME RefInv, UNCHANGED <<indexes, history>>, Known' = Known,
         \A v \in Known : Data(v)'.text = Data(v).text /\ Data(v)'.calls = Data(v).calls,
         StoreInv', synced' \in BOOLEAN
  PROVE  RefInv'
<1>1. CallPairs' = CallPairs /\ CommandPairs' = CommandPairs
  BY DEF CallPairs, CommandPairs, Known, Data
<1>2. TypeOK'
  BY DEF RefInv, StoreInv, TypeOK, indexes, history
<1> QED
  BY <1>1, <1>2 DEF RefInv, indexes, history

(* A rename gives different files different new names.                     *)
LEMMA RenamesShape ==
  ASSUME NEW ops \in Renames
  PROVE  /\ DOMAIN ops \subseteq Uri
         /\ \A o \in DOMAIN ops : ops[o] \in Uri \ DOMAIN ops
         /\ \A o, p \in DOMAIN ops : ops[o] = ops[p] => o = p
<1>1. PICK S \in SUBSET Uri : /\ ops \in [S -> Uri \ S]
                             /\ \A o, p \in S : ops[o] = ops[p] => o = p
  BY StoreAssumption
<1> QED
  BY <1>1

(* A finite number of files is known, renamed or not.                      *)
LEMMA RenamedFinite ==
  ASSUME IsFiniteSet(Known), NEW ops, DOMAIN ops \subseteq Known,
         Known' = (Known \ DOMAIN ops) \union {ops[o] : o \in DOMAIN ops}
  PROVE  IsFiniteSet(Known') /\ IsFiniteSet(DOMAIN ops)
<1> DEFINE new == {ops[o] : o \in DOMAIN ops}
           f == [o \in DOMAIN ops |-> ops[o]]
<1>1. IsFiniteSet(DOMAIN ops) /\ IsFiniteSet(Known \ DOMAIN ops)
  BY FS_Subset
<1>2. f \in Surjection(DOMAIN ops, new)
  BY DEF Surjection
<1>3. IsFiniteSet(new)
  <2> HIDE DEF f, new
  <2> QED
    BY <1>1, <1>2, FS_Surjection
<1> QED
  BY <1>1, <1>3, FS_Union

(* A rename to names that are not in use moves documents, none is dropped. *)
LEMMA CleanSource ==
  ASSUME StoreInv, NEW ops \in Renames, RenameFiles(ops),
         \A o \in DOMAIN ops : ops[o] \notin Known
  PROVE  \A w \in Known : New(ops, w) \in Known' /\ Source(ops, New(ops, w)) = w
<1>1. /\ DOMAIN ops \subseteq Known
      /\ Known' = (Known \ DOMAIN ops) \union {ops[o] : o \in DOMAIN ops}
  BY RenameEffect DEF StoreInv
<1>2. ASSUME NEW w \in Known
      PROVE  New(ops, w) \in Known' /\ Source(ops, New(ops, w)) = w
  <2>1. CASE w \in DOMAIN ops
    <3>1. New(ops, w) = ops[w]
      BY <2>1 DEF New
    <3>2. \A o \in DOMAIN ops : ops[o] = ops[w] => o = w
      BY <2>1, RenamesShape
    <3>3. (CHOOSE o \in DOMAIN ops : ops[o] = ops[w]) = w
      BY <2>1, <3>2
    <3> QED
      BY <1>1, <2>1, <3>1, <3>3 DEF Source
  <2>2. CASE w \notin DOMAIN ops
    BY <1>1, <2>2 DEF New, Source
  <2> QED
    BY <2>1, <2>2
<1> QED
  BY <1>2

(* What the documents call after a clean rename is what they called, under *)
(* the new names.                                                          *)
LEMMA CallsRenamed ==
  ASSUME StoreInv, NEW ops \in Renames, RenameFiles(ops),
         \A o \in DOMAIN ops : ops[o] \notin Known
  PROVE  CallPairs' = NewPairs(CallPairs, ops)
<1>1. \A v \in Known' : /\ Source(ops, v) \in Known
                        /\ New(ops, Source(ops, v)) = v
                        /\ Data(v)' = RenamedDoc(ops, Data(Source(ops, v)))
  BY RenameEffect DEF StoreInv
<1>2. \A w \in Known : New(ops, w) \in Known' /\ Source(ops, New(ops, w)) = w
  BY CleanSource
<1>3. ASSUME NEW w \in Known
      PROVE  RenamedDoc(ops, Data(w)).calls =
               [k \in 1..Len(Data(w).calls) |-> New(ops, Data(w).calls[k])]
  <2>1. Data(w) \in Doc /\ Data(w).calls \in Seq(Uri)
    BY DocsAreData, DataTyped
  <2>2. DOMAIN Data(w).calls = 1..Len(Data(w).calls)
    BY <2>1
  <2> QED
    BY <2>1, <2>2, RenamedCalls
<1>4. ASSUME NEW w \in Known, NEW t
      PROVE  Contains(RenamedDoc(ops, Data(w)).calls, t) <=>
               \E s \in Uri : Contains(Data(w).calls, s) /\ t = New(ops, s)
  <2> DEFINE q == Data(w).calls
             r == RenamedDoc(ops, Data(w)).calls
  <2>1. q \in Seq(Uri)
    BY DataTyped
  <2>2. r = [k \in 1..Len(q) |-> New(ops, q[k])]
    BY <1>3
  <2> HIDE DEF q, r
  <2>3. Len(q) \in Nat /\ \A k \in 1..Len(q) : q[k] \in Uri
    BY <2>1
  <2>4. Len(r) = Len(q)
    BY <2>2, <2>3
  <2>5. Contains(r, t) <=> \E s \in Uri : Contains(q, s) /\ t = New(ops, s)
    BY <2>2, <2>3, <2>4 DEF Contains
  <2> QED
    BY <2>5 DEF q, r
<1>5. \A s \in Uri : New(ops, s) \in Uri
  BY RenamesShape DEF New
<1>6. ASSUME NEW v, NEW t, <<v, t>> \in CallPairs'
      PROVE  <<v, t>> \in NewPairs(CallPairs, ops)
  <2>1. v \in Known' /\ Contains(Data(v)'.calls, t)
    BY <1>6, NewPairFacts
  <2> DEFINE w == Source(ops, v)
  <2>2. w \in Known /\ New(ops, w) = v /\ Contains(RenamedDoc(ops, Data(w)).calls, t)
    BY <1>1, <2>1
  <2> HIDE DEF w
  <2>3. PICK s \in Uri : Contains(Data(w).calls, s) /\ t = New(ops, s)
    BY <1>4, <2>2
  <2>4. <<w, s>> \in CallPairs
    BY <2>2, <2>3, PairFacts
  <2>5. <<w, s>>[1] = w /\ <<w, s>>[2] = s
    OBVIOUS
  <2> QED
    BY <2>2, <2>3, <2>4, <2>5 DEF NewPairs
<1>7. ASSUME NEW p \in CallPairs
      PROVE  <<New(ops, p[1]), New(ops, p[2])>> \in CallPairs'
  <2>1. p[1] \in Known /\ p[2] \in Uri /\ Contains(Data(p[1]).calls, p[2])
    BY DEF CallPairs
  <2>2. Contains(RenamedDoc(ops, Data(p[1])).calls, New(ops, p[2]))
    BY <1>4, <2>1
  <2>3. New(ops, p[1]) \in Known' /\ Source(ops, New(ops, p[1])) = p[1]
    BY <1>2, <2>1
  <2>4. Data(New(ops, p[1]))' = RenamedDoc(ops, Data(p[1]))
    BY <1>1, <2>3
  <2> QED
    BY <1>5, <2>1, <2>2, <2>3, <2>4, NewPairFacts
<1>8. \A e \in CallPairs' : \E v, t : e = <<v, t>>
  BY DEF CallPairs
<1> QED
  BY <1>6, <1>7, <1>8 DEF NewPairs

(* The commands of a document stay with it when it is renamed.             *)
LEMMA CommandsRenamed ==
  ASSUME StoreInv, NEW ops \in Renames, RenameFiles(ops),
         \A o \in DOMAIN ops : ops[o] \notin Known
  PROVE  CommandPairs' = NewPairs(CommandPairs, ops)
<1>1. \A v \in Known' : /\ Source(ops, v) \in Known
                        /\ New(ops, Source(ops, v)) = v
                        /\ Data(v)' = RenamedDoc(ops, Data(Source(ops, v)))
  BY RenameEffect DEF StoreInv
<1>2. \A w \in Known : New(ops, w) \in Known' /\ Source(ops, New(ops, w)) = w
  BY CleanSource
<1>3. \A w \in Known : RenamedDoc(ops, Data(w)).text = Data(w).text
  BY DocsAreData, RenamedDocEffect
<1>4. \A c \in Command : New(ops, c) = c
  BY StoreAssumption, RenamesShape DEF New
<1>5. ASSUME NEW v, NEW c, <<v, c>> \in CommandPairs'
      PROVE  <<v, c>> \in NewPairs(CommandPairs, ops)
  <2>1. v \in Known' /\ c \in Command /\ Contains(Data(v)'.text.commands, c)
    BY <1>5, NewPairFacts
  <2> DEFINE w == Source(ops, v)
  <2>2. w \in Known /\ New(ops, w) = v /\ Contains(Data(w).text.commands, c)
    BY <1>1, <1>3, <2>1
  <2> HIDE DEF w
  <2>3. <<w, c>> \in CommandPairs
    BY <2>1, <2>2, PairFacts
  <2>4. <<w, c>>[1] = w /\ <<w, c>>[2] = c
    OBVIOUS
  <2> QED
    BY <1>4, <2>1, <2>2, <2>3, <2>4 DEF NewPairs
<1>6. ASSUME NEW p \in CommandPairs
      PROVE  <<New(ops, p[1]), New(ops, p[2])>> \in CommandPairs'
  <2>1. p[1] \in Known /\ p[2] \in Command /\ Contains(Data(p[1]).text.commands, p[2])
    BY DEF CommandPairs
  <2>2. New(ops, p[1]) \in Known' /\ Source(ops, New(ops, p[1])) = p[1]
    BY <1>2, <2>1
  <2>3. Data(New(ops, p[1]))'.text = Data(p[1]).text
    BY <1>1, <1>3, <2>1, <2>2
  <2> QED
    BY <1>4, <2>1, <2>2, <2>3, NewPairFacts
<1>7. \A e \in CommandPairs' : \E v, c : e = <<v, c>>
  BY DEF CommandPairs
<1> QED
  BY <1>5, <1>6, <1>7 DEF NewPairs

(* Renamed files are listed under their new names.                         *)
LEMMA RenamesListed ==
  ASSUME RefInv, NEW ops \in Renames, RenameFiles(ops)
  PROVE  RefInv'
<1> DEFINE new == {ops[o] : o \in DOMAIN ops}
<1>1. StoreInv /\ TypeOK /\ StoreInv'
  BY RenameEffect DEF RefInv, StoreInv
<1>2. /\ DOMAIN ops \subseteq Known
      /\ Known' = (Known \ DOMAIN ops) \union {ops[o] : o \in DOMAIN ops}
  BY <1>1, RenameEffect DEF StoreInv
<1>3. IsFiniteSet(Known') /\ IsFiniteSet(DOMAIN ops)
  BY <1>2, RenamedFinite DEF RefInv
<1>4. /\ renames < MaxRenames /\ renames' = renames + 1
      /\ clean' = (clean /\ \A u \in new : u \notin Known /\ CallersOf(slots, u) = {})
      /\ macroIndex' = RenameMacroIndex(ops)
      /\ targets' = IndexRename(targets, ops)
      /\ commands' = IndexRename(commands, ops)
      /\ synced' = synced
  BY DEF RenameFiles
<1>5. targets \in IndexesOver(Uri) /\ commands \in IndexesOver(Command)
  BY <1>1, IndexTyped DEF TypeOK
<1>6. Renamable(Uri) /\ Renamable(Command)
  BY StoreAssumption DEF Renamable
<1>7. targets' \in IndexesOver(Uri)
  BY <1>3, <1>4, <1>5, <1>6, RenamesShape, RenameRepresents
<1>8. commands' \in IndexesOver(Command)
  BY <1>3, <1>4, <1>5, <1>6, RenamesShape, RenameRepresents
<1>9. TypeOK'
  <2>1. macroIndex' \in [Macro -> SUBSET Uri]
    <3>1. macroIndex \in [Macro -> SUBSET Uri]
      BY <1>1 DEF TypeOK
    <3>2. ASSUME NEW m \in Macro
          PROVE  macroIndex'[m] \in SUBSET Uri
      <4>1. macroIndex'[m] = {IF f \in {o \in DOMAIN ops : m \in OldMacros(o)}
                              THEN ops[f] ELSE f : f \in macroIndex[m]}
        BY <1>4 DEF RenameMacroIndex
      <4> QED
        BY <3>1, <4>1, RenamesShape
    <3>3. macroIndex' = [m \in Macro |-> macroIndex'[m]]
      BY <1>4 DEF RenameMacroIndex
    <3> QED
      BY <3>2, <3>3
  <2>2. /\ DOMAIN targets' \subseteq Uri /\ targets' \in [DOMAIN targets' -> LocationMap]
        /\ DOMAIN commands' \subseteq Command
        /\ commands' \in [DOMAIN commands' -> LocationMap]
    BY <1>7, <1>8, IndexFacts
  <2>3. renames' \in 0..MaxRenames
    BY <1>1, <1>4, StoreAssumption DEF TypeOK
  <2>4. clean' \in BOOLEAN /\ synced' \in BOOLEAN
    BY <1>1, <1>4 DEF TypeOK
  <2> QED
    BY <1>1, <2>1, <2>2, <2>3, <2>4 DEF StoreInv, TypeOK
<1>10. ASSUME clean'
       PROVE  Represents(targets', CallPairs') /\ Represents(commands', CommandPairs')
  <2>1. /\ clean
        /\ \A o \in DOMAIN ops : ops[o] \notin Known /\ CallersOf(slots, ops[o]) = {}
    BY <1>4, <1>10
  <2>2. Represents(targets, CallPairs) /\ Represents(commands, CommandPairs)
    BY <2>1 DEF RefInv
  <2>3. CallPairs \in SUBSET (Uri \X Uri) /\ CommandPairs \in SUBSET (Uri \X Command)
    BY <1>1 DEF CallPairs, CommandPairs, StoreInv, StoreOK
  <2>4. ASSUME NEW p \in CallPairs, NEW o \in DOMAIN ops
        PROVE  p[1] # ops[o] /\ p[2] # ops[o]
    <3>1. p[1] \in Known /\ Contains(Data(p[1]).calls, p[2])
      BY DEF CallPairs
    <3>2. Data(p[1]) \in DocsOf(slots)
      BY <1>1, <3>1, DocsAreData
    <3>3. Data(p[1]).uri \in CallersOf(slots, p[2])
      BY <3>1, <3>2 DEF CallersOf
    <3> QED
      BY <2>1, <3>1, <3>3
  <2>5. ASSUME NEW p \in CommandPairs, NEW o \in DOMAIN ops
        PROVE  p[1] # ops[o] /\ p[2] # ops[o]
    <3>1. p[1] \in Known /\ p[2] \in Command
      BY DEF CommandPairs
    <3> QED
      BY <2>1, <3>1, StoreAssumption, RenamesShape
  <2>6. Represents(targets', NewPairs(CallPairs, ops))
    BY <1>3, <1>4, <1>5, <1>6, <2>2, <2>3, <2>4, RenamesShape, RenameRepresents
  <2>7. Represents(commands', NewPairs(CommandPairs, ops))
    BY <1>3, <1>4, <1>5, <1>6, <2>2, <2>3, <2>5, RenamesShape, RenameRepresents
  <2> QED
    BY <1>1, <2>1, <2>6, <2>7, CallsRenamed, CommandsRenamed
<1> QED
  BY <1>1, <1>3, <1>9, <1>10 DEF RefInv

(* At first there are no references.                                       *)
LEMMA InitReferences == Init => RefInv
<1> SUFFICES ASSUME Init PROVE RefInv
  OBVIOUS
<1>1. StoreInv /\ Known = {} /\ targets = EmptyIndex /\ commands = EmptyIndex
  BY InitStore DEF Init, Known
<1>2. DOMAIN EmptyIndex = {} /\ EmptyIndex \in [DOMAIN EmptyIndex -> LocationMap]
  BY DEF EmptyIndex
<1>3. TypeOK
  <2>1. /\ macroIndex \in [Macro -> SUBSET Uri]
        /\ synced \in BOOLEAN /\ clean \in BOOLEAN /\ renames = 0
    BY DEF Init
  <2>2. renames \in 0..MaxRenames
    BY <2>1, StoreAssumption
  <2> QED
    BY <1>1, <1>2, <2>1, <2>2 DEF TypeOK, StoreInv
<1>4. CallPairs = {} /\ CommandPairs = {}
  BY <1>1 DEF CallPairs, CommandPairs
<1>5. Represents(EmptyIndex, {})
  BY <1>2 DEF Represents, Row, Lookup, Lists, Map, IsInjective, ToSet
<1> QED
  BY <1>1, <1>3, <1>4, <1>5, FS_EmptySet DEF RefInv

(* The indexes keep up with a step.                                        *)
LEMMA StepReferences ==
  ASSUME RefInv, [Next]_vars
  PROVE  RefInv'
<1>0. StoreInv /\ StoreInv' /\ synced \in BOOLEAN
  BY StepStore DEF RefInv, TypeOK
<1>1. ASSUME NEW u \in Uri, NEW t \in Text, NEW s \in Status, Add(u, t, s),
             synced' = synced, UNCHANGED history
      PROVE  RefInv'
  <2>1. UpdateIndexes(u, t)
    BY <1>1 DEF Add
  <2> QED
    BY <1>0, <1>1, <2>1, AddEffect, TextReplaced DEF StoreInv
<1>2. ASSUME NEW u \in Uri, NEW t \in Text, Edit(u, t)
      PROVE  RefInv'
  <2>1. UpdateIndexes(u, t) /\ UNCHANGED history /\ synced' = synced
    BY <1>2 DEF Edit
  <2>2. /\ Known' = Known \union {u}
        /\ Data(u)'.text = t /\ Data(u)'.calls = t.calls
        /\ \A v \in Known \ {u} :
             Data(v)'.text = Data(v).text /\ Data(v)'.calls = Data(v).calls
    BY <1>0, <1>2, EditEffect DEF Known, StoreInv
  <2> QED
    BY <1>0, <2>1, <2>2, TextReplaced
<1>3. ASSUME NEW u \in Uri, Close(u)
      PROVE  RefInv'
  <2>1. UNCHANGED <<indexes, history>> /\ synced' = synced
    BY <1>3 DEF Close
  <2>2. Known' = Known /\ \A v \in Known : Data(v)' = Data(v)
    BY <1>0, <1>3, CloseEffect DEF StoreInv
  <2> QED
    BY <1>0, <2>1, <2>2, TextsKept
<1>4. ASSUME NEW ops \in Renames, RenameFiles(ops)
      PROVE  RefInv'
  BY <1>4, RenamesListed
<1>5. CASE Sync
  <2>1. UNCHANGED <<indexes, history>> /\ synced' \in BOOLEAN
    BY <1>5 DEF Sync
  <2>2. /\ Known' = Known
        /\ \A v \in Known : /\ Data(v)'.text = Data(v).text
                            /\ Data(v)'.calls = Data(v).calls
    BY <1>0, <1>5, SyncEffect DEF StoreInv, Known
  <2> QED
    BY <1>0, <2>1, <2>2, TextsKept
<1>6. CASE UNCHANGED vars
  <2>1. UNCHANGED <<indexes, history>> /\ synced' = synced
    BY <1>6 DEF vars
  <2>2. Known' = Known /\ \A v \in Known : Data(v)' = Data(v)
    BY <1>6 DEF vars, store, Known, Data
  <2> QED
    BY <1>0, <2>1, <2>2, TextsKept
<1>7. CASE Next
  <2>1. \A u \in Uri : TextOf[u] \subseteq Text
    BY StoreAssumption
  <2>2. ASSUME NEW u \in Uri, NEW t \in TextOf[u], Open(u, t) \/ Scan(u, t) \/ Edit(u, t)
        PROVE  RefInv'
    <3>1. t \in Text /\ "open" \in Status /\ "closed" \in Status
      BY <2>1 DEF Status
    <3>2. CASE Open(u, t)
      <4>1. Add(u, t, "open") /\ synced' = synced /\ UNCHANGED history
        BY <3>2 DEF Open
      <4> QED
        BY <1>1, <3>1, <4>1
    <3>3. CASE Scan(u, t)
      <4>1. Add(u, t, "closed") /\ synced' = synced /\ UNCHANGED history
        BY <3>3 DEF Scan
      <4> QED
        BY <1>1, <3>1, <4>1
    <3>4. CASE Edit(u, t)
      BY <1>2, <3>1, <3>4
    <3> QED
      BY <2>2, <3>2, <3>3, <3>4
  <2> QED
    BY <1>3, <1>4, <1>5, <1>7, <2>2 DEF Next
<1> QED
  BY <1>6, <1>7

(* Unless a rename went to a name in use, the references to a script and   *)
(* to a command are those in the documents, no more and no fewer, after    *)
(* any sequence of scans, client messages and renames (FileTargetIndex,    *)
(* CommandIndex).                                                          *)
THEOREM ReferencesStayExact == Spec => []ReferencesExact
BY InitReferences, StepReferences, ReferencesByFile, PTL DEF Spec
=============================================================================
