-------------------------- MODULE MacroLookupProofs --------------------------
(***************************************************************************)
(* Theorems about the lookups of macros, for every finite set of files,    *)
(* every set of texts and renames that meets LookupAssumption, and any     *)
(* number of messages.                                                     *)
(***************************************************************************)
EXTENDS MacroLookup, FiniteSetTheorems, SequenceTheorems, WellFoundedInduction, TLAPS

(* The inductive invariant.  Entries and tasks are of two sorts: those     *)
(* with the id of a message, and updates, which are found by their file.   *)
HasId(x) == x.kind \in {"goto", "refs", "rename"}
IsRoundTask(t) == IsLookup(t) /\ t.phase # "origin"
Work == pool \union blocked

Distinct(list) ==
  \A i, j \in DOMAIN list :
    HasId(list[i]) /\ HasId(list[j]) /\ list[i].id = list[j].id => i = j

(* An id belongs to one entry and one task that has an entry of its own.   *)
IdsApart ==
  /\ Distinct(ongoing)
  /\ \A t, s \in Work : /\ HasId(t) /\ HasId(s) /\ t.id = s.id
                        /\ ~IsRoundTask(t) /\ ~IsRoundTask(s)
                        => t = s
  /\ \A t \in blocked, e \in Entries :
       HasId(t) /\ ~IsRoundTask(t) /\ HasId(e) => e.id # t.id

IdsUsed ==
  /\ \A e \in Entries : HasId(e) => e.id < next
  /\ \A t \in Work : HasId(t) => t.id < next
  /\ \A m \in asked : m < next

(* A task in the pool has its entry; a task of a round belongs to a lookup *)
(* that is in this phase and waits for results.                            *)
Asks(e, t) == /\ IsRounds(e) /\ ~e.ready
              /\ e.kind = t.kind /\ e.id = t.id /\ e.phase = t.phase

Tracking ==
  /\ \A t \in pool : ~IsRoundTask(t) => Track(t) \in Entries
  /\ \A t \in Work : IsRoundTask(t) => \E e \in Entries : Asks(e, t)
  /\ \A t \in pool \intersect blocked : ~IsRoundTask(t)
  /\ \A t, s \in pool : t.kind = "update" /\ s.kind = "update" /\ t.uri = s.uri => t = s

Counting ==
  \A e \in Entries : IsRounds(e) =>
    /\ IsFiniteSet(RoundsOf(e))
    /\ Cardinality(RoundsOf(e)) = IF e.ready THEN 0 ELSE e.total - e.counted

(* What is still looked up has been asked for and not been answered.       *)
Requests ==
  /\ \A m \in 1..MaxMsgs : replies[m] <= 1 /\ (m \notin asked => replies[m] = 0)
  /\ \A x \in Entries \union Work : IsLookup(x) => x.id \in asked /\ replies[x.id] = 0
  /\ \A d \in completed : d.id \in asked /\ replies[d.id] = 0

(* Results that are handed over are those of a lookup without tasks, whose *)
(* entry is there, or has been emptied.                                    *)
Concluding ==
  /\ pc \in {"blocked", "process", "progress"} => completed = {}
  /\ \A d, c \in completed : d.id = c.id => d = c
  /\ \A d \in completed :
       /\ \A t \in Work : HasId(t) => t.id # d.id
       /\ Empty \in Entries \/ \E e \in Entries : HasId(e) /\ e.id = d.id

Ledger == IdsApart /\ IdsUsed /\ Tracking /\ Counting /\ Requests /\ Concluding

LookupInv == TypeOK /\ Ledger

----------------------------------------------------------------------------
(* The list of ongoing tasks.                                              *)

(* A set of positions that is not empty has a first one.                   *)
LEMMA FirstPosition ==
  ASSUME NEW T \in SUBSET Nat, T # {}
  PROVE  \E i \in T : \A j \in T : i <= j
<1> DEFINE R == OpToRel(<, Nat)
<1>1. PICK i \in T : \A j \in T : <<j, i>> \notin R
  BY WFMin, NatLessThanWellFounded
<1>2. \A j \in T : <<j, i>> \in Nat \X Nat
  OBVIOUS
<1>3. \A j \in T : j < i => <<j, i>> \in R
  BY <1>2 DEF OpToRel
<1>4. \A j \in T : ~(j < i)
  BY <1>1, <1>3
<1> QED
  BY <1>4

(* The search through the list finds an entry that fits, if there is one.  *)
LEMMA IndexFits ==
  ASSUME ongoing \in Seq(Entry), NEW F, NEW k \in DOMAIN ongoing, ongoing[k] \in F
  PROVE  Index(F) \in DOMAIN ongoing /\ ongoing[Index(F)] \in F
<1> DEFINE T == {i \in DOMAIN ongoing : ongoing[i] \in F}
<1>1. DOMAIN ongoing = 1..Len(ongoing) /\ Len(ongoing) \in Nat
  OBVIOUS
<1>2. T \in SUBSET Nat /\ T # {}
  BY <1>1
<1>3. PICK i \in T : \A j \in T : i <= j
  BY <1>2, FirstPosition
<1>4. \A j \in 1..(i - 1) : ongoing[j] \notin F
  BY <1>1, <1>3
<1>5. \E n \in DOMAIN ongoing : ongoing[n] \in F /\ \A j \in 1..(n - 1) : ongoing[j] \notin F
  BY <1>3, <1>4
<1> QED
  BY <1>5 DEF Index

(* An entry with an id is the only one with that id.                       *)
LEMMA SameEntry ==
  ASSUME NEW list, Distinct(list), NEW e \in EntriesIn(list), NEW f \in EntriesIn(list),
         HasId(e), HasId(f), e.id = f.id
  PROVE  e = f
BY DEF Distinct, EntriesIn

LEMMA RemoveKeeps ==
  ASSUME ongoing \in Seq(Entry), Distinct(ongoing), NEW i \in DOMAIN ongoing
  PROVE  /\ Remove(i) \in Seq(Entry) /\ Distinct(Remove(i))
         /\ EntriesIn(Remove(i)) \subseteq Entries
         /\ \A e \in Entries : e # ongoing[i] => e \in EntriesIn(Remove(i))
         /\ \A e \in EntriesIn(Remove(i)) :
              HasId(e) /\ HasId(ongoing[i]) => e.id # ongoing[i].id
<1> DEFINE Old(k) == IF k < i THEN k ELSE k + 1
           list == Remove(i)
<1>1. DOMAIN ongoing = 1..Len(ongoing) /\ Len(ongoing) \in Nat /\ i \in 1..Len(ongoing)
  OBVIOUS
<1>2. list = [j \in 1..(Len(ongoing) - 1) |->
                IF j < i THEN ongoing[j] ELSE ongoing[j + 1]]
  BY DEF Remove
<1>3. Len(ongoing) - 1 \in Nat /\ DOMAIN list = 1..(Len(ongoing) - 1)
  BY <1>1, <1>2
<1>4. \A k \in DOMAIN list : Old(k) \in DOMAIN ongoing /\ Old(k) # i /\ list[k] = ongoing[Old(k)]
  BY <1>1, <1>2, <1>3
<1>5. \A k, l \in DOMAIN list : Old(k) = Old(l) => k = l
  BY <1>1, <1>3
<1>6. \A j \in DOMAIN ongoing : j # i => \E k \in DOMAIN list : list[k] = ongoing[j]
  <2> SUFFICES ASSUME NEW j \in DOMAIN ongoing, j # i
               PROVE  \E k \in DOMAIN list : list[k] = ongoing[j]
    OBVIOUS
  <2>1. CASE j < i
    <3>1. j \in DOMAIN list /\ list[j] = ongoing[j]
      BY <1>1, <1>2, <1>3, <2>1
    <3> QED
      BY <3>1
  <2>2. CASE ~(j < i)
    <3>1. j - 1 \in DOMAIN list /\ list[j - 1] = ongoing[j]
      BY <1>1, <1>2, <1>3, <2>2
    <3> QED
      BY <3>1
  <2> QED
    BY <2>1, <2>2
<1>7. list \in Seq(Entry)
  <2>1. \A k \in 1..(Len(ongoing) - 1) : list[k] \in Entry
    BY <1>1, <1>3, <1>4
  <2> QED
    BY <1>2, <1>3, <2>1
<1> HIDE DEF Old, list
<1>8. Distinct(list)
  BY <1>4, <1>5 DEF Distinct
<1>9. \A e \in EntriesIn(list) : \E j \in DOMAIN ongoing : j # i /\ e = ongoing[j]
  BY <1>4 DEF EntriesIn
<1>10. EntriesIn(list) \subseteq Entries
  BY <1>9 DEF Entries, EntriesIn
<1>11. \A e \in Entries : e # ongoing[i] => e \in EntriesIn(list)
  BY <1>6 DEF Entries, EntriesIn
<1>12. \A e \in EntriesIn(list) : HasId(e) /\ HasId(ongoing[i]) => e.id # ongoing[i].id
  BY <1>9 DEF Distinct
<1> QED
  BY <1>7, <1>8, <1>10, <1>11, <1>12 DEF list

LEMMA ReplaceKeeps ==
  ASSUME ongoing \in Seq(Entry), Distinct(ongoing), NEW i \in DOMAIN ongoing,
         HasId(ongoing[i]), NEW x \in Entry, HasId(x), x.id = ongoing[i].id,
         NEW list, list = [ongoing EXCEPT ![i] = x]
  PROVE  /\ list \in Seq(Entry) /\ Distinct(list)
         /\ x \in EntriesIn(list)
         /\ \A e \in Entries : e # ongoing[i] => e \in EntriesIn(list)
         /\ \A e \in EntriesIn(list) : e = x \/ (e \in Entries /\ (HasId(e) => e.id # x.id))
<1>1. DOMAIN list = DOMAIN ongoing /\ list[i] = x
      /\ \A j \in DOMAIN list : j # i => list[j] = ongoing[j]
  OBVIOUS
<1>2. list \in Seq(Entry)
  OBVIOUS
<1>3. Distinct(list)
  BY <1>1 DEF Distinct
<1>4. x \in EntriesIn(list) /\ \A e \in Entries : e # ongoing[i] => e \in EntriesIn(list)
  BY <1>1 DEF Entries, EntriesIn
<1>5. \A e \in EntriesIn(list) : e = x \/ (e \in Entries /\ (HasId(e) => e.id # x.id))
  BY <1>1 DEF Entries, EntriesIn, Distinct
<1> QED
  BY <1>2, <1>3, <1>4, <1>5

LEMMA AppendKeeps ==
  ASSUME ongoing \in Seq(Entry), Distinct(ongoing), NEW x \in Entry,
         \A e \in Entries : HasId(x) /\ HasId(e) => e.id # x.id
  PROVE  /\ Append(ongoing, x) \in Seq(Entry) /\ Distinct(Append(ongoing, x))
         /\ EntriesIn(Append(ongoing, x)) = Entries \union {x}
<1> DEFINE list == Append(ongoing, x)
<1>1. /\ DOMAIN ongoing = 1..Len(ongoing) /\ Len(ongoing) \in Nat
      /\ DOMAIN list = 1..(Len(ongoing) + 1)
      /\ list[Len(ongoing) + 1] = x /\ \A j \in DOMAIN ongoing : list[j] = ongoing[j]
  OBVIOUS
<1>2. list \in Seq(Entry)
  OBVIOUS
<1> HIDE DEF list
<1>3. DOMAIN list = DOMAIN ongoing \union {Len(ongoing) + 1}
  BY <1>1
<1>4. Distinct(list)
  BY <1>1, <1>3 DEF Distinct, Entries, EntriesIn
<1>5. EntriesIn(list) = Entries \union {x}
  BY <1>1, <1>3 DEF Entries, EntriesIn
<1> QED
  BY <1>2, <1>4, <1>5 DEF list

----------------------------------------------------------------------------
(* The entry of a task.                                                    *)

LEMMA TaskKinds ==
  ASSUME NEW t \in Task
  PROVE  /\ t.kind \in {"goto", "refs", "update", "rename"}
         /\ IsLookup(t) => t \in LookupTask
         /\ t.kind = "update" => t \in UpdateTask
         /\ t.kind = "rename" => t \in RenameTask
         /\ HasId(t) => t.id \in Nat
BY DEF Task, LookupTask, UpdateTask, RenameTask, IsLookup, HasId

LEMMA EntryKinds ==
  ASSUME NEW e \in Entry
  PROVE  /\ e.kind \in {"goto", "refs", "update", "rename", "empty"}
         /\ IsLookup(e) => e \in Lookup
         /\ e.kind = "update" => e = [kind |-> "update", uri |-> e.uri]
         /\ e.kind = "rename" => e = [kind |-> "rename", id |-> e.id]
         /\ e.kind = "empty" => e = Empty
         /\ HasId(e) => e.id \in Nat
BY DEF Entry, Lookup, Empty, IsLookup, HasId

LEMMA TrackKinds ==
  ASSUME NEW t \in Task, ~IsRoundTask(t)
  PROVE  /\ Track(t) \in Entry /\ Track(t).kind = t.kind /\ Track(t) # Empty
         /\ HasId(t) => Track(t).id = t.id
         /\ t.kind = "update" => Track(t).uri = t.uri
         /\ ~IsRounds(Track(t))
<1>1. CASE t.kind = "update"
  BY <1>1, TaskKinds DEF Track, Entry, Empty, UpdateTask, IsRounds, HasId
<1>2. CASE t.kind = "rename"
  BY <1>2, TaskKinds DEF Track, Entry, Empty, RenameTask, IsRounds, HasId
<1>3. CASE IsLookup(t)
  <2>1. t \in LookupTask
    BY <1>3, TaskKinds
  <2>2. Track(t) = NewEntry(t.kind, t.id, t.uri)
    BY <1>3 DEF Track, IsLookup
  <2>3. Track(t) \in Lookup /\ Track(t).phase = "origin"
    BY <2>1, <2>2 DEF LookupTask, NewEntry, Lookup
  <2>4. Track(t).kind = t.kind /\ Track(t).id = t.id
    BY <2>2 DEF NewEntry
  <2> QED
    BY <1>3, <2>3, <2>4 DEF Entry, Empty, IsRounds, Phase, IsLookup
<1> QED
  BY <1>1, <1>2, <1>3, TaskKinds DEF IsLookup

(* The entry that is found for a task is the one that was made for it, or  *)
(* the lookup it is a part of.                                             *)
LEMMA TaskAt ==
  ASSUME TypeOK, IdsApart, Tracking, NEW t \in pool
  PROVE  /\ At(t) \in DOMAIN ongoing /\ ongoing[At(t)] \in Entries
         /\ ~IsRoundTask(t) => ongoing[At(t)] = Track(t)
         /\ IsRoundTask(t) => Asks(ongoing[At(t)], t)
<1>1. t \in Task /\ t \in Work /\ ongoing \in Seq(Entry)
  BY DEF TypeOK, Work
<1>2. \A i \in DOMAIN ongoing : ongoing[i] \in Entries /\ ongoing[i] \in Entry
  BY <1>1 DEF Entries, EntriesIn
<1>3. CASE t.kind = "update"
  <2>1. Track(t) \in Entries /\ Track(t) = [kind |-> "update", uri |-> t.uri]
    BY <1>3 DEF Tracking, IsRoundTask, IsLookup, Track
  <2>2. PICK k \in DOMAIN ongoing : ongoing[k] = Track(t)
    BY <2>1 DEF Entries, EntriesIn
  <2>3. ongoing[k] \in EntriesFor(t)
    BY <1>3, <2>1, <2>2 DEF EntriesFor
  <2>4. At(t) \in DOMAIN ongoing /\ ongoing[At(t)] \in EntriesFor(t)
    BY <1>1, <2>3, IndexFits DEF At
  <2>5. ongoing[At(t)].kind = "update" /\ ongoing[At(t)].uri = t.uri
    BY <1>3, <2>4 DEF EntriesFor
  <2> QED
    BY <1>2, <1>3, <2>1, <2>4, <2>5, EntryKinds DEF IsRoundTask, IsLookup
<1>4. CASE t.kind # "update"
  <2>1. HasId(t)
    BY <1>1, <1>4, TaskKinds DEF HasId
  <2>2. PICK e \in Entries : /\ HasId(e) /\ e.id = t.id
                             /\ IF IsRoundTask(t) THEN Asks(e, t) ELSE e = Track(t)
    <3>1. CASE IsRoundTask(t)
      BY <1>1, <3>1 DEF Tracking, Asks, IsRounds, HasId
    <3>2. CASE ~IsRoundTask(t)
      <4>1. Track(t) \in Entries /\ HasId(Track(t)) /\ Track(t).id = t.id
        BY <1>1, <2>1, <3>2, TrackKinds DEF Tracking, HasId
      <4> QED
        BY <3>2, <4>1
    <3> QED
      BY <3>1, <3>2
  <2>3. PICK k \in DOMAIN ongoing : ongoing[k] = e
    BY DEF Entries, EntriesIn
  <2>4. ongoing[k] \in EntriesFor(t)
    BY <1>4, <2>2, <2>3 DEF EntriesFor, WithId, HasId
  <2>5. At(t) \in DOMAIN ongoing /\ ongoing[At(t)] \in EntriesFor(t)
    BY <1>1, <2>4, IndexFits DEF At
  <2>6. ongoing[At(t)] \in Entries /\ HasId(ongoing[At(t)]) /\ ongoing[At(t)].id = t.id
    BY <1>4, <2>5 DEF EntriesFor, WithId, HasId
  <2>7. ongoing[At(t)] = e
    BY <2>2, <2>6, SameEntry DEF IdsApart, Entries
  <2> QED
    BY <2>2, <2>5, <2>7
<1> QED
  BY <1>3, <1>4

----------------------------------------------------------------------------
(* Steps that leave tasks, entries and requests alone.                     *)

LEMMA QuietKeeps ==
  ASSUME Ledger, UNCHANGED <<tasks, asked, replies, next>>,
         pc' \in {"blocked", "process", "progress"} => completed = {}
  PROVE  Ledger'
<1>1. /\ Work' = Work /\ Entries' = Entries
      /\ \A e \in Entries : RoundsOf(e)' = RoundsOf(e)
  BY DEF tasks, Work, Entries, EntriesIn, RoundsOf
<1>2. IdsApart' /\ IdsUsed' /\ Requests'
  BY <1>1 DEF Ledger, IdsApart, IdsUsed, Requests, tasks
<1>3. Tracking' /\ Concluding'
  BY <1>1 DEF Ledger, Tracking, Concluding, tasks
<1>4. Counting'
  BY <1>1 DEF Ledger, Counting
<1> QED
  BY <1>2, <1>3, <1>4 DEF Ledger

----------------------------------------------------------------------------
(* A task with an entry of its own ends, and its entry with it.            *)

LEMMA EntryEnds ==
  ASSUME LookupInv, NEW t \in pool, ~IsRoundTask(t),
         pool' = pool \ {t}, ongoing' = Remove(At(t)),
         UNCHANGED <<pc, blocked, completed, next, asked>>
  PROVE  /\ IdsApart' /\ IdsUsed' /\ Tracking' /\ Counting' /\ Concluding'
         /\ Entries' \subseteq Entries /\ Work' \subseteq Work
         /\ HasId(t) => \A x \in Entries' \union Work' : HasId(x) => x.id # t.id
<1> DEFINE i == At(t)
<1>1. /\ TypeOK /\ IdsApart /\ IdsUsed /\ Tracking /\ Counting /\ Requests /\ Concluding
      /\ Distinct(ongoing)
  BY DEF LookupInv, Ledger, IdsApart
<1>2. t \in Task /\ t \in Work /\ pool \subseteq Task /\ ongoing \in Seq(Entry)
  BY <1>1 DEF TypeOK, Work
<1>3. i \in DOMAIN ongoing /\ ongoing[i] = Track(t) /\ Track(t) \in Entries
  BY <1>1, TaskAt
<1> HIDE DEF i
<1>4. Entries' = EntriesIn(Remove(i)) /\ Work' \subseteq Work
  BY DEF Entries, EntriesIn, Work, i
<1>5. /\ Distinct(ongoing') /\ Entries' \subseteq Entries
      /\ \A e \in Entries : e # Track(t) => e \in Entries'
      /\ \A e \in Entries' : HasId(e) /\ HasId(Track(t)) => e.id # Track(t).id
  BY <1>1, <1>2, <1>3, <1>4, RemoveKeeps DEF i
<1>6. /\ Track(t).kind = t.kind /\ Track(t) # Empty /\ ~IsRounds(Track(t))
      /\ HasId(t) => HasId(Track(t)) /\ Track(t).id = t.id
  BY <1>2, TrackKinds DEF HasId
<1>7. IdsApart' /\ IdsUsed'
  BY <1>1, <1>4, <1>5 DEF IdsApart, IdsUsed
<1>8. ASSUME NEW s \in pool', ~IsRoundTask(s)
      PROVE  Track(s) \in Entries'
  <2>1. s \in pool /\ s # t /\ s \in Work /\ s \in Task /\ Track(s) \in Entries
    BY <1>1, <1>2, <1>8 DEF Work, Tracking
  <2>2. /\ Track(s).kind = s.kind
        /\ HasId(s) => Track(s).id = s.id
        /\ s.kind = "update" => Track(s).uri = s.uri
    BY <1>8, <2>1, TrackKinds
  <2>3. t.kind = "update" => Track(t).uri = t.uri
    BY <1>2, TrackKinds
  <2>4. Track(s) # Track(t)
    <3> SUFFICES ASSUME Track(s) = Track(t)
                 PROVE  FALSE
      OBVIOUS
    <3>1. s.kind = t.kind
      BY <1>6, <2>2
    <3>2. CASE t.kind = "update"
      BY <1>1, <2>1, <2>2, <2>3, <3>1, <3>2 DEF Tracking
    <3>3. CASE t.kind # "update"
      <4>1. HasId(t) /\ HasId(s)
        BY <1>2, <3>1, <3>3, TaskKinds DEF HasId
      <4> QED
        BY <1>1, <1>2, <1>6, <1>8, <2>1, <2>2, <4>1 DEF IdsApart
    <3> QED
      BY <3>2, <3>3
  <2> QED
    BY <1>5, <2>1, <2>4
<1>9. ASSUME NEW s \in Work', IsRoundTask(s)
      PROVE  \E e \in Entries' : Asks(e, s)
  <2>1. PICK e \in Entries : Asks(e, s)
    BY <1>1, <1>4, <1>9 DEF Tracking
  <2>2. e # Track(t)
    BY <1>6, <2>1 DEF Asks
  <2> QED
    BY <1>5, <2>1, <2>2
<1>10. Tracking'
  BY <1>1, <1>8, <1>9 DEF Tracking
<1>11. \A e \in Entries' : RoundsOf(e)' = RoundsOf(e)
  BY DEF RoundsOf, IsRoundTask
<1>12. Counting'
  BY <1>1, <1>5, <1>11 DEF Counting
<1>13. Concluding'
  <2>1. ASSUME NEW d \in completed
        PROVE  Empty \in Entries' \/ \E e \in Entries' : HasId(e) /\ e.id = d.id
    <3>1. CASE Empty \in Entries
      BY <1>5, <1>6, <3>1
    <3>2. CASE \E e \in Entries : HasId(e) /\ e.id = d.id
      <4>1. PICK e \in Entries : HasId(e) /\ e.id = d.id
        BY <3>2
      <4>2. HasId(t) => t.id # d.id
        BY <1>1, <1>2 DEF Concluding
      <4>3. e # Track(t)
        BY <1>6, <4>1, <4>2 DEF HasId
      <4> QED
        BY <1>5, <4>1, <4>3
    <3> QED
      BY <1>1, <3>1, <3>2 DEF Concluding
  <2> QED
    BY <1>1, <1>4, <2>1 DEF Concluding
<1>14. ASSUME HasId(t), NEW s \in Work', HasId(s)
       PROVE  s.id # t.id
  <2>1. CASE IsRoundTask(s)
    <3>1. PICK e \in Entries : Asks(e, s)
      BY <1>1, <1>4, <1>14, <2>1 DEF Tracking
    <3>2. e.id = s.id /\ HasId(e) /\ e # Track(t)
      BY <1>6, <1>14, <3>1 DEF Asks, HasId, IsRounds
    <3> QED
      BY <1>1, <1>3, <1>6, <1>14, <3>2, SameEntry DEF Entries
  <2>2. CASE ~IsRoundTask(s)
    <3>1. s # t
      <4>1. t \notin blocked
        BY <1>1, <1>3, <1>6, <1>14 DEF IdsApart
      <4> QED
        BY <4>1 DEF Work
    <3> QED
      BY <1>1, <1>2, <1>4, <1>14, <2>2, <3>1 DEF IdsApart
  <2> QED
    BY <2>1, <2>2
<1>15. HasId(t) => \A x \in Entries' \union Work' : HasId(x) => x.id # t.id
  BY <1>5, <1>6, <1>14
<1> QED
  BY <1>4, <1>5, <1>7, <1>10, <1>12, <1>13, <1>15

(* The end of an update or a rename.                                       *)
LEMMA ChangeEnds ==
  ASSUME LookupInv, NEW t \in pool, ~IsLookup(t),
         pool' = pool \ {t}, ongoing' = Remove(At(t)),
         UNCHANGED <<pc, blocked, completed, next, asked, replies>>
  PROVE  Ledger'
<1>1. ~IsRoundTask(t)
  BY DEF IsRoundTask
<1>2. /\ IdsApart' /\ IdsUsed' /\ Tracking' /\ Counting' /\ Concluding'
      /\ Entries' \subseteq Entries /\ Work' \subseteq Work
  BY <1>1, EntryEnds
<1>3. Requests'
  BY <1>2 DEF LookupInv, Ledger, Requests
<1> QED
  BY <1>2, <1>3 DEF Ledger

(* The response to a request.                                              *)
LEMMA ResponseKeeps ==
  ASSUME LookupInv, NEW t \in pool, IsLookup(t), ~IsRoundTask(t),
         pool' = pool \ {t}, ongoing' = Remove(At(t)),
         replies' = [replies EXCEPT ![t.id] = @ + 1],
         UNCHANGED <<pc, blocked, completed, next, asked>>
  PROVE  Ledger' /\ t.id \in asked /\ t.id \in 1..MaxMsgs /\ replies[t.id] = 0
<1>1. /\ IdsApart' /\ IdsUsed' /\ Tracking' /\ Counting' /\ Concluding'
      /\ Entries' \subseteq Entries /\ Work' \subseteq Work
      /\ HasId(t) => \A x \in Entries' \union Work' : HasId(x) => x.id # t.id
  BY EntryEnds
<1>2. Requests /\ Concluding /\ t \in Work /\ HasId(t) /\ t.id \in asked /\ replies[t.id] = 0
  BY DEF LookupInv, Ledger, Requests, Work, HasId, IsLookup
<1>3. /\ asked \subseteq 1..MaxMsgs /\ t.id \in 1..MaxMsgs
      /\ replies \in [1..MaxMsgs -> Nat]
  BY <1>2 DEF LookupInv, TypeOK
<1>4. /\ replies'[t.id] = 1
      /\ \A m \in 1..MaxMsgs : m # t.id => replies'[m] = replies[m]
  BY <1>2, <1>3
<1>5. ASSUME NEW x \in Entries' \union Work', IsLookup(x)
      PROVE  x.id \in asked /\ replies'[x.id] = 0
  <2>1. x.id \in asked /\ replies[x.id] = 0 /\ x.id # t.id
    BY <1>1, <1>2, <1>5 DEF Requests, HasId, IsLookup
  <2> QED
    BY <1>3, <1>4, <2>1
<1>6. ASSUME NEW d \in completed
      PROVE  d.id \in asked /\ replies'[d.id] = 0
  <2>1. d.id \in asked /\ replies[d.id] = 0 /\ d.id # t.id
    BY <1>2 DEF Requests, Concluding
  <2> QED
    BY <1>3, <1>4, <2>1
<1>7. \A m \in 1..MaxMsgs : replies'[m] <= 1 /\ (m \notin asked => replies'[m] = 0)
  BY <1>2, <1>3, <1>4 DEF Requests
<1>8. Requests'
  BY <1>5, <1>6, <1>7 DEF Requests
<1> QED
  BY <1>1, <1>2, <1>3, <1>8 DEF Ledger

----------------------------------------------------------------------------
(* A result is received and the lookup goes on.  The last result of a      *)
(* round makes it ready for the next, so that no task is left over then.   *)

Counts(e, x) == /\ x.phase = e.phase
                /\ IF e.counted + 1 >= e.total THEN x.ready
                   ELSE ~x.ready /\ x.total = e.total /\ x.counted = e.counted + 1

LEMMA ConvertKeeps ==
  ASSUME LookupInv, NEW t \in pool, IsLookup(t),
         NEW x \in Lookup, IsRounds(x), x.id = t.id, x.kind = t.kind,
         ~IsRoundTask(t) => x.ready,
         IsRoundTask(t) => Counts(ongoing[At(t)], x),
         pool' = pool \ {t}, ongoing' = [ongoing EXCEPT ![At(t)] = x],
         UNCHANGED <<pc, blocked, completed, next, asked, replies>>
  PROVE  Ledger'
<1> DEFINE i == At(t)
           e == ongoing[i]
<1>1. /\ TypeOK /\ IdsApart /\ IdsUsed /\ Tracking /\ Counting /\ Requests /\ Concluding
      /\ Distinct(ongoing)
  BY DEF LookupInv, Ledger, IdsApart
<1>2. /\ t \in Task /\ t \in Work /\ pool \subseteq Task /\ blocked \subseteq Task
      /\ ongoing \in Seq(Entry) /\ HasId(t) /\ HasId(x)
  BY <1>1 DEF TypeOK, Work, HasId, IsLookup
<1>3. /\ i \in DOMAIN ongoing /\ e \in Entries
      /\ ~IsRoundTask(t) => e = Track(t)
      /\ IsRoundTask(t) => Asks(e, t)
  BY <1>1, TaskAt
<1>4. e.id = t.id /\ HasId(e)
  BY <1>2, <1>3, TrackKinds DEF Asks, IsRounds, HasId
<1>5. ongoing' = [ongoing EXCEPT ![i] = x]
  OBVIOUS
<1>6. IsRoundTask(t) => Counts(e, x)
  OBVIOUS
<1> HIDE DEF i, e
<1>7. x \in Entry
  BY DEF Entry
<1>8. e = ongoing[i]
  BY DEF e
<1>9. Entries' = EntriesIn(ongoing') /\ Work' \subseteq Work
  BY DEF Entries, EntriesIn, Work
<1>10. /\ Distinct(ongoing') /\ x \in Entries'
       /\ \A f \in Entries : f # e => f \in Entries'
       /\ \A f \in Entries' : f = x \/ (f \in Entries /\ (HasId(f) => f.id # x.id))
  <2>1. HasId(ongoing[i]) /\ x.id = ongoing[i].id
    BY <1>4, <1>8
  <2>2. /\ Distinct(ongoing') /\ x \in EntriesIn(ongoing')
        /\ \A f \in Entries : f # ongoing[i] => f \in EntriesIn(ongoing')
        /\ \A f \in EntriesIn(ongoing') :
             f = x \/ (f \in Entries /\ (HasId(f) => f.id # x.id))
    BY <1>1, <1>2, <1>3, <1>5, <1>7, <2>1, ReplaceKeeps
  <2> QED
    BY <1>8, <1>9, <2>2
<1>11. IdsApart'
  <2>1. ASSUME NEW s \in blocked, NEW f \in Entries', HasId(s), ~IsRoundTask(s), HasId(f)
        PROVE  f.id # s.id
    BY <1>1, <1>3, <1>4, <1>10, <2>1 DEF IdsApart
  <2> QED
    BY <1>1, <1>9, <1>10, <2>1 DEF IdsApart
<1>12. IdsUsed'
  BY <1>1, <1>2, <1>9, <1>10 DEF IdsUsed
<1>13. ASSUME NEW s \in Work', IsRoundTask(s), s.id = t.id
       PROVE  IsRoundTask(t) /\ Asks(e, s) /\ s # t /\ s \in RoundsOf(e)
  <2>1. PICK f \in Entries : Asks(f, s)
    BY <1>1, <1>9, <1>13 DEF Tracking
  <2>2. HasId(f) /\ f.id = e.id
    BY <1>4, <1>13, <2>1 DEF Asks, IsRounds, HasId
  <2>3. f = e
    BY <1>1, <1>3, <1>4, <2>2, SameEntry DEF Entries
  <2>4. IsRoundTask(t)
    BY <1>2, <1>3, <2>1, <2>3, TrackKinds DEF Asks
  <2>5. s # t
    BY <1>1, <2>4 DEF Tracking, Work
  <2>6. s \in RoundsOf(e)
    BY <1>4, <1>9, <1>13 DEF RoundsOf, Work, IsRoundTask
  <2> QED
    BY <2>1, <2>3, <2>4, <2>5, <2>6
<1>14. IsRoundTask(t) => /\ IsFiniteSet(RoundsOf(e)) /\ t \in RoundsOf(e)
                         /\ Cardinality(RoundsOf(e)) = e.total - e.counted
                         /\ e.total \in Nat /\ e.counted \in Nat
  <2> SUFFICES ASSUME IsRoundTask(t)
               PROVE  /\ IsFiniteSet(RoundsOf(e)) /\ t \in RoundsOf(e)
                      /\ Cardinality(RoundsOf(e)) = e.total - e.counted
                      /\ e.total \in Nat /\ e.counted \in Nat
    OBVIOUS
  <2>1. IsRounds(e) /\ ~e.ready
    BY <1>3 DEF Asks
  <2>2. e \in Lookup
    BY <1>2, <1>3, <1>8, <2>1, EntryKinds DEF IsRounds, IsLookup
  <2>3. t \in RoundsOf(e)
    BY <1>2, <1>4 DEF RoundsOf, Work, IsRoundTask
  <2> QED
    BY <1>1, <1>3, <2>1, <2>2, <2>3 DEF Counting, Lookup
<1>15. RoundsOf(x)' = IF IsRoundTask(t) THEN RoundsOf(e) \ {t} ELSE {}
  <2>1. \A s : s \in RoundsOf(x)' <=> s \in Work' /\ IsRoundTask(s) /\ s.id = t.id
    BY DEF RoundsOf, Work, IsRoundTask
  <2>2. \A s : s \in RoundsOf(e) <=> s \in Work /\ IsRoundTask(s) /\ s.id = t.id
    BY <1>4 DEF RoundsOf, Work, IsRoundTask
  <2>3. \A s \in Work : s # t => s \in Work'
    BY DEF Work
  <2> QED
    BY <1>9, <1>13, <2>1, <2>2, <2>3
<1>16. /\ IsFiniteSet(RoundsOf(x)')
       /\ Cardinality(RoundsOf(x)') = IF x.ready THEN 0 ELSE x.total - x.counted
  <2>1. CASE ~IsRoundTask(t)
    BY <1>15, <2>1, FS_EmptySet
  <2>2. CASE IsRoundTask(t)
    <3>1. /\ IsFiniteSet(RoundsOf(x)')
          /\ Cardinality(RoundsOf(x)') = (e.total - e.counted) - 1
      BY <1>14, <1>15, <2>2, FS_RemoveElement
    <3>2. Cardinality(RoundsOf(x)') \in Nat
      BY <3>1, FS_CardinalityType
    <3> QED
      BY <1>6, <1>14, <2>2, <3>1, <3>2 DEF Counts
  <2> QED
    BY <2>1, <2>2
<1>17. Counting'
  <2>1. ASSUME NEW f \in Entries', IsRounds(f)
        PROVE  /\ IsFiniteSet(RoundsOf(f)')
               /\ Cardinality(RoundsOf(f)') = IF f.ready THEN 0 ELSE f.total - f.counted
    <3>1. CASE f = x
      BY <1>16, <3>1
    <3>2. CASE f \in Entries /\ (HasId(f) => f.id # x.id)
      <4>1. f.id # t.id
        BY <2>1, <3>2 DEF IsRounds, HasId
      <4>2. RoundsOf(f)' = RoundsOf(f)
        BY <4>1 DEF RoundsOf
      <4> QED
        BY <1>1, <2>1, <3>2, <4>2 DEF Counting
    <3> QED
      BY <1>10, <3>1, <3>2
  <2> QED
    BY <2>1 DEF Counting
<1>18. ASSUME NEW s \in pool', ~IsRoundTask(s)
       PROVE  Track(s) \in Entries'
  <2>1. s \in pool /\ s # t /\ s \in Work /\ s \in Task /\ Track(s) \in Entries
    BY <1>1, <1>2, <1>18 DEF Work, Tracking
  <2>2. ~IsRounds(Track(s)) /\ Track(s).kind = s.kind
    BY <1>18, <2>1, TrackKinds
  <2>3. HasId(s) => Track(s).id = s.id
    BY <1>18, <2>1, TrackKinds
  <2>4. Track(s) # e
    <3>1. CASE IsRoundTask(t)
      BY <1>3, <2>2, <3>1 DEF Asks
    <3>2. CASE ~IsRoundTask(t)
      <4> SUFFICES ASSUME Track(s) = e
                   PROVE  FALSE
        OBVIOUS
      <4>1. HasId(s) /\ s.id = t.id
        BY <1>4, <2>2, <2>3 DEF HasId
      <4> QED
        BY <1>1, <1>2, <1>18, <2>1, <3>2, <4>1 DEF IdsApart
    <3> QED
      BY <3>1, <3>2
  <2> QED
    BY <1>10, <2>1, <2>4
<1>19. ASSUME NEW s \in Work', IsRoundTask(s)
       PROVE  \E f \in Entries' : Asks(f, s)
  <2>1. PICK f \in Entries : Asks(f, s)
    BY <1>1, <1>9, <1>19 DEF Tracking
  <2>2. CASE f # e
    BY <1>10, <2>1, <2>2
  <2>3. CASE f = e
    <3>1. s.id = t.id
      BY <1>4, <2>1, <2>3 DEF Asks
    <3>2. IsRoundTask(t) /\ s # t /\ s \in RoundsOf(e) /\ s \in RoundsOf(x)'
      BY <1>13, <1>15, <1>19, <3>1
    <3>3. IsFiniteSet(RoundsOf(x)') /\ Cardinality(RoundsOf(x)') # 0
      BY <1>16, <3>2, FS_EmptySet
    <3>4. ~x.ready
      BY <1>16, <3>3
    <3>5. Asks(x, s)
      BY <1>3, <1>6, <1>19, <2>1, <2>3, <3>1, <3>2, <3>4 DEF Asks, Counts
    <3> QED
      BY <1>10, <3>5
  <2> QED
    BY <2>2, <2>3
<1>20. Tracking'
  BY <1>1, <1>18, <1>19 DEF Tracking
<1>21. Requests'
  <2>1. ASSUME NEW y \in Entries' \union Work', IsLookup(y)
        PROVE  y.id \in asked /\ replies[y.id] = 0
    <3>1. CASE y = x
      BY <1>1, <1>2, <3>1 DEF Requests
    <3>2. CASE y \in Entries \union Work
      BY <1>1, <2>1, <3>2 DEF Requests
    <3> QED
      BY <1>9, <1>10, <3>1, <3>2
  <2> QED
    BY <1>1, <2>1 DEF Requests
<1>22. Concluding'
  <2>1. ASSUME NEW d \in completed
        PROVE  Empty \in Entries' \/ \E f \in Entries' : HasId(f) /\ f.id = d.id
    <3>1. CASE Empty \in Entries
      BY <1>4, <1>10, <3>1 DEF Empty, HasId
    <3>2. CASE \E f \in Entries : HasId(f) /\ f.id = d.id
      <4>1. PICK f \in Entries : HasId(f) /\ f.id = d.id
        BY <3>2
      <4>2. f # e
        BY <1>1, <1>2, <1>4, <4>1 DEF Concluding
      <4> QED
        BY <1>10, <4>1, <4>2
    <3> QED
      BY <1>1, <3>1, <3>2 DEF Concluding
  <2> QED
    BY <1>1, <1>9, <2>1 DEF Concluding
<1> QED
  BY <1>11, <1>12, <1>17, <1>20, <1>21, <1>22 DEF Ledger

----------------------------------------------------------------------------
(* The results of a lookup are handed over: its entry goes, unless it was  *)
(* emptied, which ends the loop.                                           *)

LEMMA EmptyMet ==
  ASSUME ongoing \in Seq(Entry), Empty \in Entries, NEW F, ~MeetsEmpty(ongoing, F)
  PROVE  \E j \in DOMAIN ongoing : ongoing[j] \in F
<1>1. PICK k \in DOMAIN ongoing : ongoing[k] = Empty
  BY DEF Entries, EntriesIn
<1>2. PICK j \in 1..(k - 1) : ongoing[j] \in F
  BY <1>1 DEF MeetsEmpty
<1>3. DOMAIN ongoing = 1..Len(ongoing) /\ Len(ongoing) \in Nat
  OBVIOUS
<1> QED
  BY <1>1, <1>2, <1>3

LEMMA CompletedKeeps ==
  ASSUME LookupInv, NEW d \in completed, ~MeetsEmpty(ongoing, WithId(d.id)),
         completed' = completed \ {d}, ongoing' = Remove(Index(WithId(d.id))),
         replies' = [replies EXCEPT ![d.id] = @ + 1],
         UNCHANGED <<pc, blocked, pool, next, asked>>
  PROVE  Ledger' /\ d.id \in asked /\ d.id \in 1..MaxMsgs /\ replies[d.id] = 0
<1> DEFINE F == WithId(d.id)
           i == Index(F)
           e == ongoing[i]
<1>1. /\ TypeOK /\ IdsApart /\ IdsUsed /\ Tracking /\ Counting /\ Requests /\ Concluding
      /\ Distinct(ongoing)
  BY DEF LookupInv, Ledger, IdsApart
<1>2. ongoing \in Seq(Entry) /\ pool \subseteq Task /\ blocked \subseteq Task
  BY <1>1 DEF TypeOK
<1>3. \E f \in Entries : f \in F
  <2>1. CASE Empty \in Entries
    BY <1>2, <2>1, EmptyMet DEF Entries, EntriesIn
  <2>2. CASE \E f \in Entries : HasId(f) /\ f.id = d.id
    BY <2>2 DEF WithId, HasId
  <2>3. Empty \in Entries \/ \E f \in Entries : HasId(f) /\ f.id = d.id
    BY <1>1 DEF Concluding
  <2> HIDE DEF F
  <2> QED
    BY <2>1, <2>2, <2>3
<1>4. i \in DOMAIN ongoing /\ e \in F
  <2>1. PICK k \in DOMAIN ongoing : ongoing[k] \in F
    BY <1>3 DEF Entries, EntriesIn
  <2> HIDE DEF F
  <2> QED
    BY <1>2, <2>1, IndexFits
<1>5. e \in Entries /\ HasId(e) /\ e.id = d.id
  BY <1>4 DEF WithId, HasId
<1>6. ongoing' = Remove(i) /\ e = ongoing[i]
  OBVIOUS
<1> HIDE DEF F, i, e
<1>7. Entries' = EntriesIn(Remove(i)) /\ Work' = Work
  BY <1>6 DEF Entries, EntriesIn, Work
<1>8. /\ Distinct(ongoing') /\ Entries' \subseteq Entries
      /\ \A f \in Entries : f # e => f \in Entries'
      /\ \A f \in Entries' : HasId(f) => f.id # d.id
  BY <1>1, <1>2, <1>4, <1>5, <1>6, <1>7, RemoveKeeps
<1>9. IdsApart' /\ IdsUsed'
  BY <1>1, <1>7, <1>8 DEF IdsApart, IdsUsed
<1>10. \A s \in Work : HasId(s) => s.id # d.id
  BY <1>1 DEF Concluding
<1>11. ASSUME NEW s \in pool, ~IsRoundTask(s)
       PROVE  Track(s) \in Entries'
  <2>1. Track(s) \in Entries /\ Track(s).kind = s.kind /\ s \in Work
    BY <1>1, <1>2, <1>11, TrackKinds DEF Tracking, Work
  <2>2. HasId(s) => Track(s).id = s.id
    BY <1>2, <1>11, TrackKinds
  <2>3. Track(s) # e
    BY <1>5, <1>10, <2>1, <2>2 DEF HasId
  <2> QED
    BY <1>8, <2>1, <2>3
<1>12. ASSUME NEW s \in Work, IsRoundTask(s)
       PROVE  \E f \in Entries' : Asks(f, s)
  <2>1. PICK f \in Entries : Asks(f, s)
    BY <1>1, <1>12 DEF Tracking
  <2>2. f # e
    BY <1>5, <1>10, <1>12, <2>1 DEF Asks, IsRoundTask, IsLookup, HasId
  <2> QED
    BY <1>8, <2>1, <2>2
<1>13. Tracking'
  BY <1>1, <1>7, <1>11, <1>12 DEF Tracking
<1>14. \A f \in Entries' : RoundsOf(f)' = RoundsOf(f)
  BY DEF RoundsOf
<1>15. Counting'
  BY <1>1, <1>8, <1>14 DEF Counting
<1>16. /\ d.id \in asked /\ replies[d.id] = 0 /\ asked \subseteq 1..MaxMsgs
       /\ d.id \in 1..MaxMsgs /\ replies \in [1..MaxMsgs -> Nat]
  BY <1>1 DEF Requests, TypeOK
<1>17. /\ replies'[d.id] = 1
       /\ \A m \in 1..MaxMsgs : m # d.id => replies'[m] = replies[m]
  BY <1>16
<1>18. Requests'
  <2>1. ASSUME NEW x \in Entries' \union Work', IsLookup(x)
        PROVE  x.id \in asked /\ replies'[x.id] = 0
    <3>1. x.id \in asked /\ replies[x.id] = 0 /\ x.id # d.id
      BY <1>1, <1>7, <1>8, <1>10, <2>1 DEF Requests, IsLookup, HasId
    <3> QED
      BY <1>16, <1>17, <3>1
  <2>2. ASSUME NEW c \in completed'
        PROVE  c.id \in asked /\ replies'[c.id] = 0
    <3>1. c.id \in asked /\ replies[c.id] = 0 /\ c.id # d.id
      BY <1>1 DEF Requests, Concluding
    <3> QED
      BY <1>16, <1>17, <3>1
  <2>3. \A m \in 1..MaxMsgs : replies'[m] <= 1 /\ (m \notin asked => replies'[m] = 0)
    BY <1>1, <1>16, <1>17 DEF Requests
  <2> QED
    BY <2>1, <2>2, <2>3 DEF Requests
<1>19. Concluding'
  <2>1. ASSUME NEW c \in completed'
        PROVE  Empty \in Entries' \/ \E f \in Entries' : HasId(f) /\ f.id = c.id
    <3>1. CASE Empty \in Entries
      BY <1>5, <1>8, <3>1 DEF Empty, HasId
    <3>2. CASE \E f \in Entries : HasId(f) /\ f.id = c.id
      <4>1. PICK f \in Entries : HasId(f) /\ f.id = c.id
        BY <3>2
      <4>2. c.id # d.id
        BY <1>1 DEF Concluding
      <4> QED
        BY <1>5, <1>8, <4>1, <4>2
    <3> QED
      BY <1>1, <3>1, <3>2 DEF Concluding
  <2> QED
    BY <1>1, <1>7, <2>1 DEF Concluding
<1> QED
  BY <1>9, <1>13, <1>15, <1>16, <1>18, <1>19 DEF Ledger

----------------------------------------------------------------------------
(* A task that nothing blocks gets its entry, or waits.                    *)

LEMMA EntersKeeps ==
  ASSUME LookupInv, NEW t \in Task, ~IsRoundTask(t), ~TaskBlocked(t, ongoing),
         \A e \in Entries : HasId(t) /\ HasId(e) => e.id # t.id,
         \A s \in Work : HasId(t) /\ HasId(s) /\ ~IsRoundTask(s) /\ s.id = t.id => s = t,
         \A d \in completed : HasId(t) => t.id # d.id,
         HasId(t) => t.id < next' /\ t \notin blocked',
         IsLookup(t) => t.id \in asked' /\ replies[t.id] = 0,
         next' \in Nat, next <= next', \A m \in asked' : m < next', asked \subseteq asked',
         pool' = pool \union {t}, blocked' \subseteq blocked, Work' = Work \union {t},
         ongoing' = Append(ongoing, Track(t)),
         UNCHANGED <<pc, completed, replies>>
  PROVE  Ledger'
<1>1. /\ TypeOK /\ IdsApart /\ IdsUsed /\ Tracking /\ Counting /\ Requests /\ Concluding
      /\ Distinct(ongoing)
  BY DEF LookupInv, Ledger, IdsApart
<1>2. /\ ongoing \in Seq(Entry) /\ Work \subseteq Task /\ next \in Nat /\ pool \subseteq Work
      /\ \A e \in Entries : e \in Entry
  BY <1>1 DEF TypeOK, Work, Entries, EntriesIn
<1>3. /\ Track(t) \in Entry /\ ~IsRounds(Track(t)) /\ Track(t) # Empty
      /\ Track(t).kind = t.kind
      /\ HasId(t) => Track(t).id = t.id
      /\ t.kind = "update" => Track(t).uri = t.uri
  BY TrackKinds
<1>4. /\ Distinct(ongoing') /\ Entries' = Entries \union {Track(t)}
  BY <1>1, <1>2, <1>3, AppendKeeps DEF Entries, HasId
<1>5. IdsApart'
  <2>1. ASSUME NEW s \in blocked', NEW e \in Entries', HasId(s), ~IsRoundTask(s), HasId(e)
        PROVE  e.id # s.id
    <3>1. s \in blocked /\ s \in Work
      BY DEF Work
    <3>2. CASE e \in Entries
      BY <1>1, <2>1, <3>1, <3>2 DEF IdsApart
    <3>3. CASE e = Track(t)
      BY <1>3, <2>1, <3>1, <3>3 DEF HasId
    <3> QED
      BY <1>4, <3>2, <3>3
  <2>2. ASSUME NEW r \in Work', NEW s \in Work', HasId(r), HasId(s), r.id = s.id,
               ~IsRoundTask(r), ~IsRoundTask(s)
        PROVE  r = s
    BY <1>1, <2>2 DEF IdsApart
  <2> QED
    BY <1>4, <2>1, <2>2 DEF IdsApart
<1>6. IdsUsed'
  <2>1. ASSUME NEW x \in Entries' \union Work', HasId(x)
        PROVE  x.id < next'
    <3>1. CASE x \in Entries \union Work
      <4>1. x.id \in Nat /\ x.id < next
        BY <1>1, <1>2, <2>1, <3>1, EntryKinds, TaskKinds DEF IdsUsed
      <4> QED
        BY <1>2, <4>1
    <3>2. CASE x \in {t, Track(t)}
      BY <1>3, <2>1, <3>2 DEF HasId
    <3> QED
      BY <1>4, <3>1, <3>2
  <2> QED
    BY <2>1 DEF IdsUsed
<1>7. ASSUME NEW r \in pool', NEW s \in pool', r.kind = "update", s.kind = "update",
             r.uri = s.uri
      PROVE  r = s
  <2>1. ASSUME NEW q \in pool, q.kind = "update", t.kind = "update", q.uri = t.uri
        PROVE  FALSE
    <3>1. Track(q) \in Entries /\ Track(q).kind = "update" /\ Track(q).uri = t.uri
      BY <1>1, <1>2, <2>1, TrackKinds DEF Tracking, IsRoundTask, IsLookup
    <3>2. Track(q) \in Blockers(t, ongoing)
      BY <2>1, <3>1 DEF Blockers, Blocks, Entries
    <3> QED
      BY <3>2 DEF TaskBlocked
  <2> QED
    BY <1>1, <1>7, <2>1 DEF Tracking
<1>8. Tracking'
  BY <1>1, <1>4, <1>7 DEF Tracking, Work
<1>9. \A e : RoundsOf(e)' = RoundsOf(e)
  <2> SUFFICES ASSUME NEW e
               PROVE  RoundsOf(e)' = RoundsOf(e)
    OBVIOUS
  <2>1. RoundsOf(e) = {s \in Work : IsRoundTask(s) /\ s.id = e.id}
    BY DEF RoundsOf, Work, IsRoundTask
  <2>2. RoundsOf(e)' = {s \in Work' : IsRoundTask(s) /\ s.id = e.id}
    BY DEF RoundsOf, Work, IsRoundTask
  <2> QED
    BY <2>1, <2>2
<1>10. Counting'
  BY <1>1, <1>3, <1>4, <1>9 DEF Counting
<1>11. Requests'
  <2>1. ASSUME NEW x \in Entries' \union Work', IsLookup(x)
        PROVE  x.id \in asked' /\ replies[x.id] = 0
    <3>1. CASE x \in Entries \union Work
      BY <1>1, <2>1, <3>1 DEF Requests
    <3>2. CASE x \in {t, Track(t)}
      BY <1>3, <2>1, <3>2 DEF IsLookup, HasId
    <3> QED
      BY <1>4, <3>1, <3>2
  <2> QED
    BY <1>1, <2>1 DEF Requests
<1>12. Concluding'
  BY <1>1, <1>4 DEF Concluding
<1> QED
  BY <1>5, <1>6, <1>8, <1>10, <1>11, <1>12 DEF Ledger

LEMMA BlockedKeeps ==
  ASSUME LookupInv, NEW t \in blocked, ~TaskBlocked(t, ongoing), Schedule(t),
         blocked' = blocked \ {t}, UNCHANGED <<pc, completed, next, asked, replies>>
  PROVE  Ledger'
<1>1. /\ TypeOK /\ IdsApart /\ IdsUsed /\ Tracking /\ Counting /\ Requests /\ Concluding
  BY DEF LookupInv, Ledger
<1>2. t \in Task /\ t \in Work /\ next \in Nat
  BY <1>1 DEF TypeOK, Work
<1>3. pool' = pool \union {t} /\ Work' = Work
  BY DEF Schedule, Work
<1>4. CASE IsRoundTask(t)
  <2>1. ongoing' = ongoing /\ Entries' = Entries
    BY <1>4 DEF Schedule, IsRoundTask, Entries, EntriesIn
  <2>2. IdsApart' /\ IdsUsed'
    BY <1>1, <1>3, <2>1 DEF IdsApart, IdsUsed
  <2>3. Tracking'
    BY <1>1, <1>3, <1>4, <2>1 DEF Tracking, IsRoundTask, IsLookup
  <2>4. \A e \in Entries : RoundsOf(e)' = RoundsOf(e)
    BY <1>3 DEF RoundsOf, Work
  <2>5. Counting'
    BY <1>1, <2>1, <2>4 DEF Counting
  <2>6. Requests' /\ Concluding'
    BY <1>1, <1>3, <2>1 DEF Requests, Concluding
  <2> QED
    BY <2>2, <2>3, <2>5, <2>6 DEF Ledger
<1>5. CASE ~IsRoundTask(t)
  <2>1. ongoing' = Append(ongoing, Track(t))
    BY <1>5 DEF Schedule, IsRoundTask
  <2>2. \A e \in Entries : HasId(t) /\ HasId(e) => e.id # t.id
    BY <1>1, <1>5 DEF IdsApart
  <2>3. \A s \in Work : HasId(t) /\ HasId(s) /\ ~IsRoundTask(s) /\ s.id = t.id => s = t
    BY <1>1, <1>2, <1>5 DEF IdsApart
  <2>4. \A d \in completed : HasId(t) => t.id # d.id
    BY <1>1, <1>2 DEF Concluding
  <2>5. /\ HasId(t) => t.id < next
        /\ \A m \in asked : m < next
    BY <1>1, <1>2 DEF IdsUsed
  <2>6. IsLookup(t) => t.id \in asked /\ replies[t.id] = 0
    BY <1>1, <1>2 DEF Requests
  <2> QED
    BY <1>2, <1>3, <1>5, <2>1, <2>2, <2>3, <2>4, <2>5, <2>6, EntersKeeps
<1> QED
  BY <1>4, <1>5

LEMMA FreshKeeps ==
  ASSUME LookupInv, pc = "process", NEW t \in Task, ~IsRoundTask(t),
         HasId(t) => t.id = next, TrySchedule(t), next <= MaxMsgs, next' = next + 1,
         asked' \in {asked, asked \union {next}}, IsLookup(t) => next \in asked',
         UNCHANGED <<pc, completed, replies>>
  PROVE  Ledger' /\ next \notin asked /\ next \in 1..MaxMsgs
<1>1. /\ TypeOK /\ IdsApart /\ IdsUsed /\ Tracking /\ Counting /\ Requests /\ Concluding
  BY DEF LookupInv, Ledger
<1>2. /\ Work \subseteq Task /\ next \in Nat /\ next \in 1..MaxMsgs /\ asked \subseteq 1..MaxMsgs
      /\ \A e \in Entries : e \in Entry
  BY <1>1, LookupAssumption DEF TypeOK, Work, Entries, EntriesIn
<1>3. completed = {}
  BY <1>1 DEF Concluding
<1>4. \A x \in Entries \union Work : HasId(x) => x.id \in Nat /\ x.id < next /\ x.id # next
  BY <1>1, <1>2, EntryKinds, TaskKinds DEF IdsUsed
<1>5. /\ next \notin asked /\ replies[next] = 0 /\ asked \subseteq asked'
      /\ \A m \in asked' : m < next'
  BY <1>1, <1>2 DEF IdsUsed, Requests
<1>6. HasId(t) => t \notin Work
  BY <1>4
<1>7. CASE TaskBlocked(t, ongoing)
  <2>1. Work' = Work \union {t} /\ Entries' = Entries
    BY <1>7 DEF TrySchedule, Work, Entries, EntriesIn
  <2>2. blocked' = blocked \union {t} /\ pool' = pool /\ ongoing' = ongoing
    BY <1>7 DEF TrySchedule
  <2>3. IdsApart'
    <3>1. \A s \in Work : HasId(t) /\ HasId(s) => s.id # t.id
      BY <1>4
    <3>2. \A e \in Entries : HasId(t) /\ HasId(e) => e.id # t.id
      BY <1>4
    <3> QED
      BY <1>1, <2>1, <2>2, <3>1, <3>2 DEF IdsApart
  <2>4. IdsUsed'
    BY <1>2, <1>4, <1>5, <2>1 DEF IdsUsed
  <2>5. Tracking'
    BY <1>1, <2>1, <2>2 DEF Tracking
  <2>6. \A e \in Entries : RoundsOf(e)' = RoundsOf(e)
    BY <2>2 DEF RoundsOf, IsRoundTask
  <2>7. Counting'
    BY <1>1, <2>1, <2>6 DEF Counting
  <2>8. Requests'
    <3>1. IsLookup(t) => t.id \in asked' /\ replies[t.id] = 0
      BY <1>5 DEF IsLookup, HasId
    <3> QED
      BY <1>1, <1>3, <1>5, <2>1, <3>1 DEF Requests
  <2>9. Concluding'
    BY <1>3 DEF Concluding
  <2> QED
    BY <1>2, <1>5, <2>3, <2>4, <2>5, <2>7, <2>8, <2>9 DEF Ledger
<1>8. CASE ~TaskBlocked(t, ongoing)
  <2>1. /\ pool' = pool \union {t} /\ blocked' = blocked /\ Work' = Work \union {t}
        /\ ongoing' = Append(ongoing, Track(t))
    BY <1>8 DEF TrySchedule, Schedule, Work, IsRoundTask
  <2>2. \A e \in Entries : HasId(t) /\ HasId(e) => e.id # t.id
    BY <1>4
  <2>3. \A s \in Work : HasId(t) /\ HasId(s) /\ ~IsRoundTask(s) /\ s.id = t.id => s = t
    BY <1>4
  <2>4. HasId(t) => t.id < next' /\ t \notin blocked'
    BY <1>2, <1>6, <2>1 DEF Work
  <2>5. IsLookup(t) => t.id \in asked' /\ replies[t.id] = 0
    BY <1>5 DEF IsLookup, HasId
  <2>6. Ledger'
    BY <1>2, <1>3, <1>5, <1>8, <2>1, <2>2, <2>3, <2>4, <2>5, EntersKeeps
  <2> QED
    BY <1>2, <1>5, <2>6
<1> QED
  BY <1>7, <1>8

----------------------------------------------------------------------------
(* The pass over the lookups: progress_multi_part_tasks.                   *)

LEMMA PairsFinite ==
  ASSUME NEW S \in SUBSET (Uri \X Uri)
  PROVE  IsFiniteSet(S) /\ Cardinality(S) \in Nat
<1>1. IsFiniteSet(Uri \X Uri)
  BY LookupAssumption, FS_Product
<1> QED
  BY <1>1, FS_Subset, FS_CardinalityType

LEMMA FilesFinite ==
  ASSUME NEW S \in SUBSET Uri
  PROVE  IsFiniteSet(S) /\ Cardinality(S) \in Nat
BY LookupAssumption, FS_Subset, FS_CardinalityType

LEMMA StartEffect ==
  ASSUME NEW e \in Lookup, NEW phase \in Phase, NEW pairs \in SUBSET (Uri \X Uri),
         NEW total \in Nat
  PROVE  /\ Start(e, phase, pairs, total) \in Lookup
         /\ IsRounds(Start(e, phase, pairs, total)) /\ Start(e, phase, pairs, total).ready
         /\ Start(e, phase, pairs, total).kind = e.kind
         /\ Start(e, phase, pairs, total).id = e.id
BY DEF Start, Lookup, IsRounds

(* What becomes of an entry.                                               *)
Moves(e, x) ==
  \/ x = Empty
  \/ /\ x \in Lookup /\ IsRounds(x) /\ x.kind = e.kind /\ x.id = e.id
     /\ \/ x.ready
        \/ x.ready = e.ready /\ x.total = e.total /\ x.counted = e.counted

LEMMA ConcludeEffect ==
  ASSUME NEW e \in Lookup, IsRounds(e)
  PROVE  Moves(e, Conclude(e))
<1>1. e.found \in SUBSET Uri /\ e.subs \in SUBSET Uri
  BY DEF Lookup
<1>2. /\ Cardinality(e.found) \in Nat /\ Alone(e.found) \in SUBSET (Uri \X Uri)
      /\ Cardinality(e.subs) \in Nat /\ Alone(e.subs) \in SUBSET (Uri \X Uri)
  BY <1>1, FilesFinite DEF Alone
<1>3. CASE e.kind = "goto" \/ (e.kind # "goto" /\ e.phase = "subscripts")
  <2>1. Conclude(e) \in {[e EXCEPT !.found = {}], [e EXCEPT !.refs = {}]}
    BY <1>3 DEF Conclude, IsRounds
  <2>2. [e EXCEPT !.found = {}] \in Lookup /\ [e EXCEPT !.refs = {}] \in Lookup
    BY DEF Lookup
  <2> QED
    BY <2>1, <2>2 DEF Moves, Lookup, IsRounds
<1>4. CASE e.kind # "goto" /\ e.phase = "callers"
  <2>1. Conclude(e) = Empty \/ Conclude(e) = Start(e, "definitions", Alone(e.found), Cardinality(e.found))
    BY <1>4 DEF Conclude
  <2>2. "definitions" \in Phase
    BY DEF Phase
  <2> QED
    BY <1>2, <2>1, <2>2, StartEffect DEF Moves
<1>5. CASE e.kind # "goto" /\ e.phase = "definitions"
  <2>1. Conclude(e) = Start(e, "subscripts", Alone(e.subs), Cardinality(e.subs))
    BY <1>5 DEF Conclude
  <2>2. "subscripts" \in Phase
    BY DEF Phase
  <2> QED
    BY <1>2, <2>1, <2>2, StartEffect DEF Moves
<1> QED
  BY <1>3, <1>4, <1>5 DEF IsRounds, Phase

LEMMA QueueEffect ==
  ASSUME NEW e \in Lookup, IsRounds(e), e.undone # {}
  PROVE  /\ Queue(e) \in Lookup /\ IsRounds(Queue(e))
         /\ Queue(e).kind = e.kind /\ Queue(e).id = e.id /\ Queue(e).phase = e.phase
         /\ Queue(e).total = Cardinality(New(e)) /\ Queue(e).counted = 0 /\ ~Queue(e).ready
<1>1. New(e) \in SUBSET (Uri \X Uri) /\ Cardinality(New(e)) \in Nat
  BY PairsFinite DEF New, Lookup
<1>2. Queue(e) = [e EXCEPT !.total = Cardinality(New(e)), !.ready = FALSE, !.counted = 0,
                           !.visited = e.visited \union New(e), !.undone = {}]
  BY DEF Queue
<1>3. e.visited \union New(e) \in SUBSET (Uri \X Uri)
  BY <1>1 DEF Lookup
<1>4. /\ Queue(e) \in Lookup
      /\ Queue(e).kind = e.kind /\ Queue(e).id = e.id /\ Queue(e).phase = e.phase
      /\ Queue(e).total = Cardinality(New(e)) /\ Queue(e).counted = 0
      /\ Queue(e).ready = FALSE
  <2> DEFINE n == Cardinality(New(e))
             v == e.visited \union New(e)
             x == Queue(e)
  <2>1. n \in Nat /\ v \in SUBSET (Uri \X Uri)
    BY <1>1, <1>3
  <2>2. x = [e EXCEPT !.total = n, !.ready = FALSE, !.counted = 0,
                      !.visited = v, !.undone = {}]
    BY <1>2
  <2> HIDE DEF n, v, x
  <2>3. /\ x \in Lookup /\ x.kind = e.kind /\ x.id = e.id /\ x.phase = e.phase
        /\ x.total = n /\ x.counted = 0 /\ x.ready = FALSE
    BY <2>1, <2>2 DEF Lookup
  <2> QED
    BY <2>3 DEF n, x
<1> QED
  BY <1>4 DEF IsRounds

LEMMA ProgressedEffect ==
  ASSUME NEW e \in Entry
  PROVE  /\ Progressed(e) \in Entry
         /\ ~IsRounds(e) => Progressed(e) = e
         /\ Progressed(e) = Empty \/ (Progressed(e).kind = e.kind /\ (HasId(e) => Progressed(e).id = e.id))
         /\ Finished(e) => Moves(e, Progressed(e))
         /\ Ready(e) => Progressed(e) = Queue(e)
         /\ ~Finished(e) /\ ~Ready(e) => Progressed(e) = e
<1>1. CASE ~IsRounds(e)
  BY <1>1 DEF Progressed, Finished, Ready
<1>2. CASE IsRounds(e)
  <2>1. e \in Lookup
    BY <1>2, EntryKinds DEF IsRounds, IsLookup
  <2>2. CASE Finished(e)
    BY <1>2, <2>1, <2>2, ConcludeEffect DEF Progressed, Moves, Entry, Ready, Finished
  <2>3. CASE ~Finished(e) /\ Ready(e)
    <3>1. Progressed(e) = Queue(e)
      BY <2>3 DEF Progressed
    <3>2. CASE e.undone = {}
      BY <1>2, <2>3, <3>1, <3>2 DEF Queue
    <3>3. CASE e.undone # {}
      BY <1>2, <2>1, <2>3, <3>1, <3>3, QueueEffect DEF Entry
    <3> QED
      BY <3>2, <3>3
  <2>4. CASE ~Finished(e) /\ ~Ready(e)
    BY <1>2, <2>4 DEF Progressed
  <2> QED
    BY <2>2, <2>3, <2>4
<1> QED
  BY <1>1, <1>2

LEMMA PassKeeps ==
  ASSUME TypeOK, Distinct(ongoing)
  PROVE  /\ Progressing \in Seq(Entry) /\ Distinct(Progressing)
         /\ EntriesIn(Progressing) = {Progressed(e) : e \in Entries}
         /\ \A e \in Entries : e \in Entry
<1>1. /\ ongoing \in Seq(Entry) /\ \A i \in DOMAIN ongoing : ongoing[i] \in Entry
      /\ DOMAIN ongoing = 1..Len(ongoing) /\ Len(ongoing) \in Nat
  BY DEF TypeOK
<1>2. /\ DOMAIN Progressing = DOMAIN ongoing
      /\ \A i \in DOMAIN ongoing : Progressing[i] = Progressed(ongoing[i])
  BY DEF Progressing
<1>3. \A i \in DOMAIN ongoing : Progressing[i] \in Entry
  BY <1>1, <1>2, ProgressedEffect
<1>4. Progressing \in Seq(Entry)
  BY <1>1, <1>3 DEF Progressing
<1>5. \A i \in DOMAIN ongoing : HasId(Progressing[i]) =>
        HasId(ongoing[i]) /\ Progressing[i].id = ongoing[i].id
  BY <1>1, <1>2, ProgressedEffect DEF Empty, HasId
<1>6. Distinct(Progressing)
  BY <1>2, <1>5 DEF Distinct
<1>7. EntriesIn(Progressing) = {Progressed(e) : e \in Entries}
  BY <1>2 DEF Entries, EntriesIn
<1> QED
  BY <1>1, <1>4, <1>6, <1>7 DEF Entries, EntriesIn

(* A round has one task for every new pair.                                *)
LEMMA TasksOfRound ==
  ASSUME NEW e \in Lookup
  PROVE  /\ IsFiniteSet({TaskFor(e, p) : p \in New(e)})
         /\ Cardinality({TaskFor(e, p) : p \in New(e)}) = Cardinality(New(e))
<1> DEFINE S == New(e)
           T == {TaskFor(e, p) : p \in S}
           f == [p \in S |-> TaskFor(e, p)]
<1>1. S \in SUBSET (Uri \X Uri) /\ IsFiniteSet(S)
  BY PairsFinite DEF New, Lookup
<1>2. \A p \in S : TaskFor(e, p).uri = p[1] /\ TaskFor(e, p).callee = p[2]
  BY DEF TaskFor
<1>3. \A p, q \in S : TaskFor(e, p) = TaskFor(e, q) => p = q
  BY <1>1, <1>2
<1> HIDE DEF S
<1>4. f \in Bijection(S, T)
  BY <1>3 DEF Bijection, Injection, Surjection, IsInjective
<1>5. ExistsBijection(S, T)
  BY <1>4 DEF ExistsBijection
<1>6. IsFiniteSet(T) /\ Cardinality(T) = Cardinality(S)
  BY <1>1, <1>5, FS_Bijection
<1> QED
  BY <1>6 DEF S

LEMMA ProgressKeeps ==
  ASSUME LookupInv, Progress
  PROVE  /\ Ledger'
         /\ \A e \in Entries : Ready(e) \/ Finished(e) => RoundsOf(e) = {}
         /\ \A e \in Entries : HasId(e) => \A x : x.id = e.id =>
              RoundsOf(x)' = RoundsOf(e) \union {TaskFor(e, p) : p \in QueuedBy(e)}
<1> DEFINE new == {TaskFor(q[1], q[2]) : q \in Queued}
           held == {t \in new : TaskBlocked(t, Progressing)}
<1>1. /\ TypeOK /\ IdsApart /\ IdsUsed /\ Tracking /\ Counting /\ Requests /\ Concluding
      /\ Distinct(ongoing)
  BY DEF LookupInv, Ledger, IdsApart
<1>2. /\ pc = "progress" /\ completed = {} /\ pc' = "recv"
      /\ UNCHANGED <<next, asked, replies>>
  BY <1>1 DEF Progress, Concluding, client
<1>3. /\ pool' = pool \union (new \ held) /\ blocked' = blocked \union held
      /\ ongoing' = Progressing
      /\ completed' = UNION {DoneBy(e) : e \in Entries}
  BY <1>2 DEF Progress
<1>4. \A q \in Queued : q[2][1] \in Known
  BY DEF Progress
<1>5. /\ Distinct(ongoing')
      /\ Entries' = {Progressed(e) : e \in Entries}
      /\ \A e \in Entries : e \in Entry
  BY <1>1, <1>3, PassKeeps DEF Entries
<1>6. \A n : n \in new <=> \E e \in Entries : \E p \in QueuedBy(e) : n = TaskFor(e, p)
  <2>1. \A q : q \in Queued <=> \E e \in Entries : \E p \in QueuedBy(e) : q = <<e, p>>
    BY DEF Queued
  <2>2. \A n : n \in new <=> \E q \in Queued : n = TaskFor(q[1], q[2])
    OBVIOUS
  <2>3. ASSUME NEW e \in Entries, NEW p \in QueuedBy(e)
        PROVE  /\ <<e, p>> \in Queued /\ <<e, p>>[1] = e /\ <<e, p>>[2] = p
    BY <2>1
  <2>4. ASSUME NEW q \in Queued
        PROVE  \E e \in Entries : \E p \in QueuedBy(e) : q[1] = e /\ q[2] = p
    BY <2>1
  <2> HIDE DEF new
  <2>5. ASSUME NEW e \in Entries, NEW p \in QueuedBy(e)
        PROVE  TaskFor(e, p) \in new
    BY <2>2, <2>3
  <2>6. ASSUME NEW n \in new
        PROVE  \E e \in Entries : \E p \in QueuedBy(e) : n = TaskFor(e, p)
    BY <2>2, <2>4
  <2> QED
    BY <2>5, <2>6
<1>7. held \subseteq new
  OBVIOUS
<1> HIDE DEF new, held
<1>8. Work' = Work \union new
  BY <1>3, <1>7 DEF Work
<1>9. ASSUME NEW n \in new
      PROVE  \E e \in Entries : /\ Ready(e) /\ e \in Lookup /\ IsRoundTask(n) /\ HasId(n)
                                /\ n.kind = e.kind /\ n.id = e.id /\ n.phase = e.phase
                                /\ \E p \in New(e) : n = TaskFor(e, p)
  <2>1. PICK e \in Entries : \E p \in QueuedBy(e) : n = TaskFor(e, p)
    BY <1>6
  <2>2. Ready(e) /\ \E p \in New(e) : n = TaskFor(e, p)
    BY <2>1 DEF QueuedBy
  <2>3. IsRounds(e) /\ e \in Lookup
    BY <1>5, <2>2, EntryKinds DEF Ready, IsRounds, IsLookup
  <2>4. n.kind = e.kind /\ n.id = e.id /\ n.phase = e.phase
    BY <2>2 DEF TaskFor
  <2> QED
    BY <2>2, <2>3, <2>4 DEF IsRoundTask, IsRounds, IsLookup, HasId, Phase
<1>10. \A t : t \in Work /\ IsRoundTask(t) =>
         \A e \in Entries : HasId(e) /\ e.id = t.id => t \in RoundsOf(e)
  BY DEF Work, RoundsOf, IsRoundTask
<1>11. ASSUME NEW e \in Entries, Ready(e) \/ Finished(e)
       PROVE  /\ RoundsOf(e) = {} /\ IsRounds(e) /\ e \in Lookup /\ HasId(e)
              /\ e.total \in Nat /\ e.counted \in Nat
              /\ ~e.ready => e.total = 0 /\ e.counted = 0
  <2>1. IsRounds(e) /\ HasId(e)
    BY <1>11 DEF Ready, Finished, IsRounds, HasId
  <2>2. e \in Lookup /\ e.total \in Nat /\ e.counted \in Nat /\ e.ready \in BOOLEAN
    BY <1>5, <2>1, EntryKinds DEF IsRounds, IsLookup, Lookup
  <2>3. /\ IsFiniteSet(RoundsOf(e))
        /\ Cardinality(RoundsOf(e)) = IF e.ready THEN 0 ELSE e.total - e.counted
    BY <1>1, <2>1 DEF Counting
  <2>4. Cardinality(RoundsOf(e)) \in Nat
    BY <2>3, FS_CardinalityType
  <2>5. ~e.ready => e.total = 0 /\ e.counted = 0
    BY <1>11, <2>2, <2>3, <2>4 DEF Ready, Finished
  <2>6. Cardinality(RoundsOf(e)) = 0
    BY <2>2, <2>3, <2>5
  <2> QED
    BY <2>1, <2>2, <2>3, <2>5, <2>6, FS_EmptySet
<1>12. \A n \in new : n \notin Work
  BY <1>9, <1>10, <1>11
<1>13. \A e \in Entries : Progressed(e) \in Entries'
  BY <1>5
<1>14. ASSUME NEW x \in Entries', HasId(x) \/ IsRounds(x)
       PROVE  \E e \in Entries : x = Progressed(e) /\ HasId(e) /\ x.id = e.id /\ x.kind = e.kind
  <2>1. PICK e \in Entries : x = Progressed(e)
    BY <1>5
  <2> QED
    BY <1>5, <1>14, <2>1, ProgressedEffect DEF Empty, HasId, IsRounds
<1>15. IdsApart'
  <2>1. ASSUME NEW r \in Work', NEW s \in Work', HasId(r), HasId(s), r.id = s.id,
               ~IsRoundTask(r), ~IsRoundTask(s)
        PROVE  r = s
    <3>1. r \in Work /\ s \in Work
      BY <1>8, <1>9, <2>1
    <3> QED
      BY <1>1, <2>1, <3>1 DEF IdsApart
  <2>2. ASSUME NEW s \in blocked', NEW x \in Entries', HasId(s), ~IsRoundTask(s), HasId(x)
        PROVE  x.id # s.id
    <3>1. s \in blocked
      BY <1>3, <1>7, <1>9, <2>2
    <3>2. PICK e \in Entries : HasId(e) /\ x.id = e.id
      BY <1>14, <2>2
    <3> QED
      BY <1>1, <2>2, <3>1, <3>2 DEF IdsApart
  <2> QED
    BY <1>5, <2>1, <2>2 DEF IdsApart
<1>16. IdsUsed'
  <2>1. ASSUME NEW x \in Entries' \union Work', HasId(x)
        PROVE  x.id < next
    <3>1. CASE x \in Entries'
      BY <1>1, <1>14, <2>1, <3>1 DEF IdsUsed
    <3>2. CASE x \in Work
      BY <1>1, <2>1, <3>2 DEF IdsUsed
    <3>3. CASE x \in new
      <4>1. PICK e \in Entries : Ready(e) /\ x.id = e.id
        BY <1>9, <3>3
      <4> QED
        BY <1>1, <1>11, <4>1 DEF IdsUsed
    <3> QED
      BY <1>8, <3>1, <3>2, <3>3
  <2> QED
    BY <1>1, <1>2, <2>1 DEF IdsUsed
<1>17. ASSUME NEW t \in pool', ~IsRoundTask(t)
       PROVE  Track(t) \in Entries'
  <2>1. t \in pool /\ t \in Task
    BY <1>1, <1>3, <1>9, <1>17 DEF TypeOK
  <2>2. Track(t) \in Entries /\ Track(t) \in Entry /\ ~IsRounds(Track(t))
    BY <1>1, <1>17, <2>1, TrackKinds DEF Tracking
  <2>3. Progressed(Track(t)) = Track(t)
    BY <2>2, ProgressedEffect
  <2> QED
    BY <1>13, <2>2, <2>3
<1>18. ASSUME NEW t \in Work', IsRoundTask(t)
       PROVE  \E x \in Entries' : Asks(x, t)
  <2>1. CASE t \in Work
    <3>1. PICK e \in Entries : Asks(e, t)
      BY <1>1, <1>18, <2>1 DEF Tracking
    <3>2. t \in RoundsOf(e)
      BY <1>10, <1>18, <2>1, <3>1 DEF Asks, IsRounds, HasId
    <3>3. ~Finished(e) /\ ~Ready(e)
      BY <1>11, <3>2
    <3>4. Progressed(e) = e
      BY <1>5, <3>3, ProgressedEffect
    <3> QED
      BY <1>13, <3>1, <3>4
  <2>2. CASE t \in new
    <3>1. PICK e \in Entries : /\ Ready(e) /\ e \in Lookup
                               /\ t.kind = e.kind /\ t.id = e.id /\ t.phase = e.phase
                               /\ \E p \in New(e) : t = TaskFor(e, p)
      BY <1>9, <2>2
    <3>2. e.undone # {} /\ IsRounds(e) /\ Progressed(e) = Queue(e)
      BY <1>5, <1>11, <3>1, ProgressedEffect DEF New
    <3>3. Asks(Queue(e), t)
      BY <3>1, <3>2, QueueEffect DEF Asks
    <3> QED
      BY <1>13, <3>2, <3>3
  <2> QED
    BY <1>8, <2>1, <2>2
<1>19. ASSUME NEW t \in pool' \intersect blocked'
       PROVE  ~IsRoundTask(t)
  <2>1. pool \subseteq Work /\ blocked \subseteq Work
    BY DEF Work
  <2>2. t \in pool \intersect blocked
    BY <1>3, <1>7, <1>12, <2>1
  <2> QED
    BY <1>1, <2>2 DEF Tracking
<1>20. ASSUME NEW r \in pool', NEW s \in pool', r.kind = "update", s.kind = "update",
              r.uri = s.uri
       PROVE  r = s
  <2>1. r \in pool /\ s \in pool
    BY <1>3, <1>9, <1>20 DEF HasId
  <2> QED
    BY <1>1, <1>20, <2>1 DEF Tracking
<1>21. Tracking'
  BY <1>17, <1>18, <1>19, <1>20 DEF Tracking
<1>22. ASSUME NEW e \in Entries, HasId(e), NEW x, x.id = e.id
       PROVE  RoundsOf(x)' = RoundsOf(e) \union {TaskFor(e, p) : p \in QueuedBy(e)}
  <2>1. \A t : t \in RoundsOf(x)' <=> t \in Work' /\ IsRoundTask(t) /\ t.id = e.id
    BY <1>22 DEF RoundsOf, Work, IsRoundTask
  <2>2. \A t : t \in RoundsOf(e) <=> t \in Work /\ IsRoundTask(t) /\ t.id = e.id
    BY DEF RoundsOf, Work, IsRoundTask
  <2>3. ASSUME NEW t \in new, t.id = e.id
        PROVE  t \in {TaskFor(e, p) : p \in QueuedBy(e)}
    <3>1. PICK f \in Entries : Ready(f) /\ t.id = f.id /\ \E p \in New(f) : t = TaskFor(f, p)
      BY <1>9
    <3>2. f = e
      BY <1>1, <1>11, <1>22, <2>3, <3>1, SameEntry DEF Entries
    <3> QED
      BY <3>1, <3>2 DEF QueuedBy
  <2>4. ASSUME NEW p \in QueuedBy(e)
        PROVE  /\ TaskFor(e, p) \in new /\ IsRoundTask(TaskFor(e, p))
               /\ TaskFor(e, p).id = e.id
    <3>1. TaskFor(e, p) \in new /\ TaskFor(e, p).id = e.id
      BY <1>6 DEF TaskFor
    <3> QED
      BY <1>9, <3>1
  <2> QED
    BY <1>8, <2>1, <2>2, <2>3, <2>4
<1>23. Counting'
  <2>1. ASSUME NEW x \in Entries', IsRounds(x)
        PROVE  /\ IsFiniteSet(RoundsOf(x)')
               /\ Cardinality(RoundsOf(x)') = IF x.ready THEN 0 ELSE x.total - x.counted
    <3>1. PICK e \in Entries : x = Progressed(e) /\ HasId(e) /\ x.id = e.id
      BY <1>14, <2>1
    <3>2. RoundsOf(x)' = RoundsOf(e) \union {TaskFor(e, p) : p \in QueuedBy(e)}
      BY <1>22, <3>1
    <3>3. e \in Entry
      BY <1>5
    <3>4. CASE Finished(e)
      <4>1. QueuedBy(e) = {}
        BY <1>11, <3>4 DEF QueuedBy, Ready, Finished
      <4>2. RoundsOf(x)' = {}
        BY <1>11, <3>2, <3>4, <4>1
      <4>3. Moves(e, x)
        BY <3>1, <3>3, <3>4, ProgressedEffect
      <4>4. x # Empty
        BY <2>1 DEF IsRounds, Empty
      <4>5. x.ready \/ (~x.ready /\ x.total - x.counted = 0)
        BY <1>11, <3>4, <4>3, <4>4 DEF Moves, Lookup
      <4> QED
        BY <4>2, <4>5, FS_EmptySet
    <3>5. CASE Ready(e)
      <4>1. x = Queue(e) /\ RoundsOf(e) = {} /\ QueuedBy(e) = New(e) /\ e \in Lookup
        BY <1>11, <3>1, <3>3, <3>5, ProgressedEffect DEF QueuedBy
      <4>2. CASE e.undone = {}
        <5>1. x = e /\ New(e) = {} /\ e.ready
          BY <3>5, <4>1, <4>2 DEF Queue, New, Ready
        <5>2. RoundsOf(x)' = {}
          BY <3>2, <4>1, <5>1
        <5> QED
          BY <5>1, <5>2, FS_EmptySet
      <4>3. CASE e.undone # {}
        <5>1. ~x.ready /\ x.total = Cardinality(New(e)) /\ x.counted = 0
          BY <1>11, <3>5, <4>1, <4>3, QueueEffect
        <5>2. RoundsOf(x)' = {TaskFor(e, p) : p \in New(e)}
          BY <3>2, <4>1
        <5>3. /\ IsFiniteSet(RoundsOf(x)')
              /\ Cardinality(RoundsOf(x)') = Cardinality(New(e))
          BY <4>1, <5>2, TasksOfRound
        <5>4. Cardinality(RoundsOf(x)') \in Nat
          BY <5>3, FS_CardinalityType
        <5> QED
          BY <5>1, <5>3, <5>4
      <4> QED
        BY <4>2, <4>3
    <3>6. CASE ~Finished(e) /\ ~Ready(e)
      <4>1. x = e /\ RoundsOf(x)' = RoundsOf(e)
        BY <3>1, <3>2, <3>3, <3>6, ProgressedEffect DEF QueuedBy
      <4> QED
        BY <1>1, <2>1, <4>1 DEF Counting
    <3> QED
      BY <3>4, <3>5, <3>6
  <2> QED
    BY <2>1 DEF Counting
<1>24. \A d \in completed' : \E e \in Entries :
         Finished(e) /\ d.id = e.id /\ DoneBy(e) = {d}
  <2>1. ASSUME NEW e \in Entries, NEW d \in DoneBy(e)
        PROVE  Finished(e) /\ d.id = e.id /\ DoneBy(e) = {d}
    BY <2>1 DEF DoneBy
  <2> QED
    BY <1>3, <2>1
<1>25. Requests'
  <2>1. ASSUME NEW x \in Entries' \union Work', IsLookup(x)
        PROVE  x.id \in asked /\ replies[x.id] = 0
    <3>1. CASE x \in Entries'
      <4>1. PICK e \in Entries : x.id = e.id /\ x.kind = e.kind
        BY <1>14, <2>1, <3>1 DEF IsLookup, HasId
      <4> QED
        BY <1>1, <2>1, <4>1 DEF Requests, IsLookup
    <3>2. CASE x \in Work
      BY <1>1, <2>1, <3>2 DEF Requests
    <3>3. CASE x \in new
      <4>1. PICK e \in Entries : x.id = e.id /\ x.kind = e.kind
        BY <1>9, <3>3
      <4> QED
        BY <1>1, <2>1, <4>1 DEF Requests, IsLookup
    <3> QED
      BY <1>8, <3>1, <3>2, <3>3
  <2>2. ASSUME NEW d \in completed'
        PROVE  d.id \in asked /\ replies[d.id] = 0
    <3>1. PICK e \in Entries : Finished(e) /\ d.id = e.id
      BY <1>24
    <3> QED
      BY <1>1, <3>1 DEF Requests, Finished, IsRounds, IsLookup
  <2> QED
    BY <1>1, <1>2, <2>1, <2>2 DEF Requests
<1>26. Concluding'
  <2>1. ASSUME NEW d \in completed', NEW c \in completed', d.id = c.id
        PROVE  d = c
    <3>1. PICK e \in Entries : Finished(e) /\ d.id = e.id /\ DoneBy(e) = {d}
      BY <1>24
    <3>2. PICK f \in Entries : Finished(f) /\ c.id = f.id /\ DoneBy(f) = {c}
      BY <1>24
    <3>3. e = f
      BY <1>1, <1>11, <2>1, <3>1, <3>2, SameEntry DEF Entries
    <3> QED
      BY <3>1, <3>2, <3>3
  <2>2. ASSUME NEW d \in completed', NEW t \in Work', HasId(t), t.id = d.id
        PROVE  FALSE
    <3>1. PICK e \in Entries : Finished(e) /\ d.id = e.id
      BY <1>24
    <3>2. HasId(e) /\ IsRounds(e) /\ RoundsOf(e) = {} /\ e.id = t.id
      BY <1>11, <2>2, <3>1
    <3>3. CASE t \in new
      <4>1. PICK f \in Entries : Ready(f) /\ t.id = f.id
        BY <1>9, <3>3
      <4>2. f = e
        BY <1>1, <1>11, <3>2, <4>1, SameEntry DEF Entries
      <4> QED
        BY <1>11, <3>1, <4>1, <4>2 DEF Finished, Ready
    <3>4. CASE t \in Work /\ IsRoundTask(t)
      BY <1>10, <3>2, <3>4
    <3>5. CASE t \in pool /\ ~IsRoundTask(t)
      <4>1. /\ Track(t) \in Entries /\ HasId(Track(t)) /\ Track(t).id = t.id
            /\ ~IsRounds(Track(t))
        BY <1>1, <2>2, <3>5, TrackKinds DEF Tracking, TypeOK, HasId
      <4>2. Track(t) = e
        BY <1>1, <3>2, <4>1, SameEntry DEF Entries
      <4> QED
        BY <3>2, <4>1, <4>2
    <3>6. CASE t \in blocked /\ ~IsRoundTask(t)
      BY <1>1, <2>2, <3>2, <3>6 DEF IdsApart
    <3> QED
      BY <1>8, <3>3, <3>4, <3>5, <3>6 DEF Work
  <2>3. ASSUME NEW d \in completed'
        PROVE  Empty \in Entries' \/ \E x \in Entries' : HasId(x) /\ x.id = d.id
    <3>1. PICK e \in Entries : Finished(e) /\ d.id = e.id
      BY <1>24
    <3>2. Progressed(e) = Empty \/ (HasId(Progressed(e)) /\ Progressed(e).id = d.id)
      BY <1>5, <1>11, <3>1, ProgressedEffect DEF HasId
    <3> QED
      BY <1>13, <3>2
  <2> QED
    BY <1>2, <2>1, <2>2, <2>3 DEF Concluding
<1>27. Ledger'
  BY <1>15, <1>16, <1>21, <1>23, <1>25, <1>26 DEF Ledger
<1> QED
  BY <1>11, <1>22, <1>27

----------------------------------------------------------------------------
(* Types.                                                                  *)

StoreTyped == /\ Known \subseteq Uri /\ docs \in [Known -> Doc]
              /\ DOMAIN unscanned \subseteq Workspace
              /\ unscanned \in [DOMAIN unscanned -> Text]
              /\ discovery \in {"parsing", "finished", "gone"}

TasksTyped == /\ ongoing \in Seq(Entry)
              /\ blocked \subseteq Task /\ pool \subseteq Task
              /\ completed \subseteq [id : Nat, files : SUBSET Uri]

ClientTyped == /\ next \in 1..(MaxMsgs + 1)
               /\ asked \subseteq 1..MaxMsgs
               /\ replies \in [1..MaxMsgs -> Nat]
               /\ answers \in [1..MaxMsgs -> SUBSET Uri]

HistoryTyped == /\ expected \in [1..MaxMsgs -> SUBSET Uri]
                /\ steady \subseteq asked

Places == {"recv", "completed", "blocked", "process", "progress"} \union Crash

LEMMA TypeParts ==
  TypeOK <=> pc \in Places /\ StoreTyped /\ TasksTyped /\ ClientTyped /\ HistoryTyped
BY DEF TypeOK, Places, StoreTyped, TasksTyped, ClientTyped, HistoryTyped

LEMMA TextFiles ==
  ASSUME NEW t \in Text
  PROVE  t.calls \subseteq Uri /\ t.after \subseteq Uri /\ t.inherits \subseteq Uri
BY LookupAssumption

LEMMA AskedEffect ==
  ASSUME NEW e \in Lookup, IsRounds(e), ~e.ready, NEW t \in LookupTask
  PROVE  /\ Asked(e, t) \in Lookup /\ IsRounds(Asked(e, t))
         /\ Asked(e, t).kind = e.kind /\ Asked(e, t).id = e.id
         /\ Counts(e, Asked(e, t))
<1> DEFINE Same(x) == /\ x \in Lookup /\ x.kind = e.kind /\ x.id = e.id /\ x.phase = e.phase
                      /\ x.total = e.total /\ x.counted = e.counted
                      /\ x.ready = e.ready
<1>1. /\ t.uri \in Uri /\ t.callers \subseteq Uri /\ t.text \in Text
      /\ t.text.after \subseteq Uri /\ t.text.inherits \subseteq Uri
  BY TextFiles DEF LookupTask
<1>2. Same(CallersAsked(e, t))
  <2> DEFINE more == {u \in {t.uri} : DefinesFor(t.text, t.callee)}
             pairs == IF UnresolvedFor(t.text, t.callee) THEN {<<c, t.uri>> : c \in t.callers}
                      ELSE {}
  <2>1. more \in SUBSET Uri /\ pairs \in SUBSET (Uri \X Uri)
    BY <1>1
  <2> DEFINE f == e.found \union more
             v == e.undone \union pairs
             x == CallersAsked(e, t)
  <2>2. x = [e EXCEPT !.found = f, !.undone = v]
    BY DEF CallersAsked
  <2> HIDE DEF more, pairs
  <2>3. f \in SUBSET Uri /\ v \in SUBSET (Uri \X Uri)
    BY <2>1 DEF Lookup
  <2> HIDE DEF f, v, x
  <2>4. Same(x)
    BY <2>2, <2>3 DEF Lookup
  <2> QED
    BY <2>4 DEF x
<1>3. Same(DefinitionsAsked(e, t))
  BY <1>1 DEF DefinitionsAsked, Lookup
<1>4. Same(SubscriptsAsked(e, t))
  <2> DEFINE more == {u \in {t.uri} : t.text.uses}
             pairs == Alone(t.text.inherits)
  <2>1. more \in SUBSET Uri /\ pairs \in SUBSET (Uri \X Uri)
    BY <1>1 DEF Alone
  <2> DEFINE f == e.refs \union more
             v == e.undone \union pairs
             x == SubscriptsAsked(e, t)
  <2>2. x = [e EXCEPT !.refs = f, !.undone = v]
    BY DEF SubscriptsAsked
  <2> HIDE DEF more, pairs
  <2>3. f \in SUBSET Uri /\ v \in SUBSET (Uri \X Uri)
    BY <2>1 DEF Lookup
  <2> HIDE DEF f, v, x
  <2>4. Same(x)
    BY <2>2, <2>3 DEF Lookup
  <2> QED
    BY <2>4 DEF x
<1>5. ASSUME NEW x, Same(x)
      PROVE  /\ Advance(x) \in Lookup /\ IsRounds(Advance(x))
             /\ Advance(x).kind = e.kind /\ Advance(x).id = e.id /\ Counts(e, Advance(x))
  <2> DEFINE y == Advance(x)
             n == IF x.undone = {} THEN 0 ELSE x.total
             m == e.counted + 1
  <2>1. n \in Nat /\ m \in Nat /\ x.counted = e.counted /\ x.total = e.total
    BY <1>5 DEF Lookup
  <2>2. y = IF m >= e.total THEN [x EXCEPT !.ready = TRUE, !.counted = 0, !.total = n]
            ELSE [x EXCEPT !.counted = m]
    BY <2>1 DEF Advance
  <2>3. (m >= e.total) = (e.counted + 1 >= e.total) /\ m = e.counted + 1
    OBVIOUS
  <2> HIDE DEF y, n, m
  <2>4. y \in Lookup /\ y.kind = e.kind /\ y.id = e.id /\ y.phase = e.phase
    <3>1. CASE m >= e.total
      BY <1>5, <2>1, <2>2, <3>1 DEF Lookup
    <3>2. CASE ~(m >= e.total)
      BY <1>5, <2>1, <2>2, <3>2 DEF Lookup
    <3> QED
      BY <3>1, <3>2
  <2>5. IF m >= e.total THEN y.ready ELSE y.ready = x.ready /\ y.total = e.total /\ y.counted = m
    BY <1>5, <2>1, <2>2 DEF Lookup
  <2> QED
    BY <1>5, <2>3, <2>4, <2>5 DEF IsRounds, Counts, y
<1>6. Asked(e, t) \in {Advance(CallersAsked(e, t)), Advance(DefinitionsAsked(e, t)),
                       Advance(SubscriptsAsked(e, t))}
  BY DEF Asked, IsRounds, Phase
<1> HIDE DEF Same
<1> QED
  BY <1>2, <1>3, <1>4, <1>5, <1>6

LEMMA AskCallersEffect ==
  ASSUME StoreTyped, NEW e \in Lookup, NEW u \in Known, NEW found \in SUBSET Uri
  PROVE  /\ AskCallers(e, u, found) \in Lookup /\ IsRounds(AskCallers(e, u, found))
         /\ AskCallers(e, u, found).kind = e.kind /\ AskCallers(e, u, found).id = e.id
         /\ AskCallers(e, u, found).ready
<1> DEFINE pairs == {<<c, u>> : c \in docs[u].callers}
           total == Cardinality(docs[u].callers)
           s == Start(e, "callers", pairs, total)
<1>1. docs[u].callers \in SUBSET Uri /\ u \in Uri
  BY DEF StoreTyped, Doc
<1>2. pairs \in SUBSET (Uri \X Uri) /\ total \in Nat /\ "callers" \in Phase
  BY <1>1, FilesFinite DEF Phase
<1>3. AskCallers(e, u, found) = [s EXCEPT !.found = found]
  BY DEF AskCallers
<1> HIDE DEF pairs, total
<1>4. s \in Lookup /\ IsRounds(s) /\ s.ready /\ s.kind = e.kind /\ s.id = e.id
  BY <1>2, StartEffect
<1> HIDE DEF s
<1> QED
  BY <1>3, <1>4 DEF Lookup, IsRounds

LEMMA AskDefinitionsEffect ==
  ASSUME StoreTyped, NEW e \in Lookup, NEW u \in Uri, NEW t \in Text
  PROVE  /\ AskDefinitions(e, u, t) \in Lookup /\ IsRounds(AskDefinitions(e, u, t))
         /\ AskDefinitions(e, u, t).kind = e.kind /\ AskDefinitions(e, u, t).id = e.id
         /\ AskDefinitions(e, u, t).ready
<1> DEFINE pairs == Alone({u})
           s == Start(e, "definitions", pairs, 1)
           subs == IF t.global THEN {v \in Known : Mentions(docs[v].text)} ELSE {}
<1>1. pairs \in SUBSET (Uri \X Uri) /\ "definitions" \in Phase /\ subs \in SUBSET Uri
  BY DEF Alone, Phase, StoreTyped
<1>2. AskDefinitions(e, u, t) = [s EXCEPT !.subs = subs]
  BY DEF AskDefinitions
<1> HIDE DEF pairs, subs
<1>3. s \in Lookup /\ IsRounds(s) /\ s.ready /\ s.kind = e.kind /\ s.id = e.id
  BY <1>1, StartEffect
<1> HIDE DEF s
<1> QED
  BY <1>1, <1>2, <1>3 DEF Lookup, IsRounds

LEMMA DocsChangeTyped ==
  ASSUME ClientTyped, HistoryTyped, DocsChange, UNCHANGED client
  PROVE  ClientTyped' /\ HistoryTyped'
BY DEF ClientTyped, HistoryTyped, DocsChange, client

LEMMA AnswerTyped ==
  ASSUME ClientTyped, HistoryTyped, NEW id \in 1..MaxMsgs, NEW files \in SUBSET Uri,
         Answer(id, files), UNCHANGED history
  PROVE  ClientTyped' /\ HistoryTyped'
BY DEF ClientTyped, HistoryTyped, Answer, history

----------------------------------------------------------------------------
(* Results of lookups.                                                     *)

LEMMA FoundTyped ==
  ASSUME StoreTyped, NEW u \in Uri
  PROVE  FoundDefinitions(docs, u) \in SUBSET Uri /\ FoundReferences(docs, u) \in SUBSET Uri
<1>1. Definitions(docs, u) \in SUBSET Uri
  BY DEF Definitions, StoreTyped, Known
<1>2. FoundDefinitions(docs, u) \in SUBSET Uri
  BY <1>1 DEF FoundDefinitions, StoreTyped, Known
<1>3. FoundReferences(docs, u) \in SUBSET Uri
  BY <1>1 DEF FoundReferences, StoreTyped, Known
<1> QED
  BY <1>2, <1>3

LEMMA OriginEntry ==
  ASSUME LookupInv, NEW t \in pool, IsLookup(t), t.phase = "origin"
  PROVE  /\ ~IsRoundTask(t) /\ t \in LookupTask
         /\ At(t) \in DOMAIN ongoing /\ ongoing[At(t)] \in Lookup
         /\ ongoing[At(t)].kind = t.kind /\ ongoing[At(t)].id = t.id
<1>1. t \in LookupTask /\ ~IsRoundTask(t)
  BY TaskKinds DEF LookupInv, TypeOK, IsRoundTask
<1>2. At(t) \in DOMAIN ongoing /\ ongoing[At(t)] = Track(t)
  BY <1>1, TaskAt DEF LookupInv, Ledger
<1>3. Track(t) = NewEntry(t.kind, t.id, t.uri)
  BY DEF Track, IsLookup
<1> QED
  BY <1>1, <1>2, <1>3 DEF NewEntry, Lookup, LookupTask

Leaves(t) == /\ pool' = pool \ {t}
             /\ UNCHANGED <<pc, unscanned, discovery, blocked, completed, docs, history>>

LEMMA ConvertedTyped ==
  ASSUME LookupInv, NEW t \in pool, NEW x \in Lookup, Leaves(t), Convert(t, x)
  PROVE  TypeOK'
<1>1. pc \in Places /\ StoreTyped /\ TasksTyped /\ ClientTyped /\ HistoryTyped
  BY TypeParts DEF LookupInv
<1>2. pc' \in Places /\ StoreTyped' /\ ClientTyped' /\ HistoryTyped'
  BY <1>1 DEF StoreTyped, ClientTyped, HistoryTyped, Leaves, Convert, client, history, Known
<1>3. ongoing' \in Seq(Entry)
  <2> DEFINE i == At(t)
  <2>1. x \in Entry /\ ongoing \in Seq(Entry) /\ i \in DOMAIN ongoing
    BY <1>1, TaskAt DEF Entry, TasksTyped, LookupInv, Ledger
  <2>2. ongoing' = [ongoing EXCEPT ![i] = x]
    BY DEF Convert
  <2> HIDE DEF i
  <2> QED
    BY <2>1, <2>2
<1>4. TasksTyped'
  BY <1>1, <1>3 DEF TasksTyped, Leaves
<1> QED
  BY <1>2, <1>4 DEF TypeOK, Places, StoreTyped, TasksTyped, ClientTyped, HistoryTyped

LEMMA RespondKeeps ==
  ASSUME LookupInv, NEW t \in pool, IsLookup(t), t.phase = "origin", Leaves(t),
         NEW files \in SUBSET Uri, Respond(t, files)
  PROVE  /\ LookupInv' /\ t.id \in asked /\ t.id \in 1..MaxMsgs /\ replies[t.id] = 0
<1>1. /\ ~IsRoundTask(t)
      /\ At(t) \in DOMAIN ongoing
  BY OriginEntry
<1>2. Ledger' /\ t.id \in asked /\ t.id \in 1..MaxMsgs /\ replies[t.id] = 0
  BY <1>1, ResponseKeeps DEF Leaves, Respond, Answer
<1>3. pc \in Places /\ StoreTyped /\ TasksTyped /\ ClientTyped /\ HistoryTyped
  BY TypeParts DEF LookupInv
<1>4. pc' \in Places /\ StoreTyped'
  BY <1>3 DEF StoreTyped, Leaves, Known
<1>5. ClientTyped' /\ HistoryTyped'
  BY <1>2, <1>3, AnswerTyped DEF Leaves, Respond
<1>6. ongoing' \in Seq(Entry)
  BY <1>1, <1>3, RemoveKeeps DEF Respond, TasksTyped, LookupInv, Ledger, IdsApart
<1>7. TasksTyped'
  BY <1>3, <1>6 DEF TasksTyped, Leaves
<1>8. TypeOK'
  BY <1>4, <1>5, <1>7 DEF TypeOK, Places, StoreTyped, TasksTyped, ClientTyped, HistoryTyped
<1> QED
  BY <1>2, <1>8 DEF LookupInv

LEMMA OriginConverts ==
  ASSUME LookupInv, NEW t \in pool, IsLookup(t), t.phase = "origin", Leaves(t),
         NEW x \in Lookup, IsRounds(x), x.ready, x.id = t.id, x.kind = t.kind, Convert(t, x)
  PROVE  LookupInv'
<1>1. Ledger'
  BY OriginEntry, ConvertKeeps DEF Leaves, Convert, client
<1> QED
  BY <1>1, ConvertedTyped DEF LookupInv

(* The two ways a lookup goes on after its own document: callers are       *)
(* asked, or the definition is followed; otherwise it is answered.         *)
LEMMA RecvOriginCases ==
  ASSUME LookupInv, NEW t \in pool, RecvOrigin(t)
  PROVE  /\ IsLookup(t) /\ t.phase = "origin" /\ Leaves(t)
         /\ \/ /\ t.uri \in Known
               /\ \E here \in SUBSET Uri : Convert(t, AskCallers(ongoing[At(t)], t.uri, here))
            \/ Convert(t, AskDefinitions(ongoing[At(t)], t.uri, t.text))
            \/ \E files \in SUBSET Uri : Respond(t, files)
<1>1. IsLookup(t) /\ t.phase = "origin" /\ Leaves(t)
  BY DEF RecvOrigin, Received, Leaves, history
<1>2. t \in LookupTask
  BY <1>1, OriginEntry
<1> DEFINE here == {u \in {t.uri} : Defines(t.text)}
<1>3. here \in SUBSET Uri /\ {t.uri} \in SUBSET Uri /\ {} \in SUBSET Uri
  BY <1>2 DEF LookupTask
<1>4. HasCallers(t.uri) => t.uri \in Known
  BY DEF HasCallers
<1>5. GoToDefinitionResult(t) \/ FindReferencesResult(t)
  BY DEF RecvOrigin
<1>6. CASE GoToDefinitionResult(t)
  BY <1>1, <1>3, <1>4, <1>6 DEF GoToDefinitionResult
<1>7. CASE FindReferencesResult(t)
  <2>1. \/ HasCallers(t.uri) /\ Convert(t, AskCallers(ongoing[At(t)], t.uri, here))
        \/ Convert(t, AskDefinitions(ongoing[At(t)], t.uri, t.text))
        \/ Respond(t, {}) \/ Respond(t, {t.uri})
    BY <1>7 DEF FindReferencesResult
  <2> HIDE DEF here
  <2> QED
    BY <1>1, <1>3, <1>4, <2>1
<1> QED
  BY <1>5, <1>6, <1>7

LEMMA RecvOriginKeeps ==
  ASSUME LookupInv, NEW t \in pool, RecvOrigin(t)
  PROVE  LookupInv'
<1>1. /\ IsLookup(t) /\ t.phase = "origin" /\ Leaves(t)
  BY RecvOriginCases
<1>2. StoreTyped
  BY TypeParts DEF LookupInv
<1>3. /\ t \in LookupTask /\ ongoing[At(t)] \in Lookup
      /\ ongoing[At(t)].kind = t.kind /\ ongoing[At(t)].id = t.id
  BY <1>1, OriginEntry
<1>4. t.uri \in Uri /\ t.text \in Text
  BY <1>3 DEF LookupTask
<1>5. ASSUME t.uri \in Known, NEW here \in SUBSET Uri,
             Convert(t, AskCallers(ongoing[At(t)], t.uri, here))
      PROVE  LookupInv'
  BY <1>1, <1>2, <1>3, <1>5, AskCallersEffect, OriginConverts
<1>6. ASSUME Convert(t, AskDefinitions(ongoing[At(t)], t.uri, t.text))
      PROVE  LookupInv'
  BY <1>1, <1>2, <1>3, <1>4, <1>6, AskDefinitionsEffect, OriginConverts
<1>7. ASSUME NEW files \in SUBSET Uri, Respond(t, files)
      PROVE  LookupInv'
  BY <1>1, <1>7, RespondKeeps
<1> QED
  BY <1>5, <1>6, <1>7, RecvOriginCases

LEMMA RecvRoundKeeps ==
  ASSUME LookupInv, NEW t \in pool, RecvRound(t)
  PROVE  LookupInv'
<1> DEFINE e == ongoing[At(t)]
           x == Asked(e, t)
<1>1. IsLookup(t) /\ t.phase \in Phase /\ Leaves(t) /\ Convert(t, x)
  BY DEF RecvRound, Received, Leaves, history
<1>2. IsRoundTask(t) /\ t \in LookupTask
  BY <1>1, TaskKinds DEF LookupInv, TypeOK, IsRoundTask, Phase
<1>3. Asks(e, t) /\ e \in Entries
  BY <1>2, TaskAt DEF LookupInv, Ledger
<1>4. e \in Lookup /\ IsRounds(e) /\ ~e.ready /\ e.kind = t.kind /\ e.id = t.id
  <2>1. e \in Entry
    BY <1>3 DEF LookupInv, TypeOK, Entries, EntriesIn
  <2> HIDE DEF e
  <2> QED
    BY <1>3, <2>1, EntryKinds DEF Asks, IsRounds, IsLookup
<1> HIDE DEF e
<1>5. /\ x \in Lookup /\ IsRounds(x) /\ x.kind = t.kind /\ x.id = t.id
      /\ Counts(e, x)
  BY <1>2, <1>4, AskedEffect
<1> HIDE DEF x
<1>6. Counts(ongoing[At(t)], x)
  BY <1>5 DEF e
<1>7. Ledger'
  BY <1>1, <1>2, <1>5, <1>6, ConvertKeeps DEF Leaves, Convert, client
<1> QED
  BY <1>1, <1>5, <1>7, ConvertedTyped DEF LookupInv

----------------------------------------------------------------------------
(* Updates, renames, scans and the end of the discovery.                   *)

LEMMA EntryGone ==
  ASSUME LookupInv, NEW t \in pool, pool' = pool \ {t}, ongoing' = Remove(At(t)),
         UNCHANGED <<blocked, completed>>
  PROVE  TasksTyped'
<1>1. TasksTyped
  BY TypeParts DEF LookupInv
<1>2. At(t) \in DOMAIN ongoing
  BY TaskAt DEF LookupInv, Ledger
<1>3. ongoing' \in Seq(Entry)
  BY <1>1, <1>2, RemoveKeeps DEF TasksTyped, LookupInv, Ledger, IdsApart
<1> QED
  BY <1>1, <1>3 DEF TasksTyped

LEMMA RecvUpdateKeeps ==
  ASSUME LookupInv, NEW t \in pool, RecvUpdate(t)
  PROVE  LookupInv'
<1>1. pc \in Places /\ StoreTyped /\ TasksTyped /\ ClientTyped /\ HistoryTyped
  BY TypeParts DEF LookupInv
<1>2. /\ t.kind = "update" /\ pool' = pool \ {t} /\ ongoing' = Remove(At(t))
      /\ docs' = [docs EXCEPT ![t.uri].text = t.text]
      /\ DocsChange /\ UNCHANGED <<pc, unscanned, discovery, blocked, completed, client>>
  BY DEF RecvUpdate, Received
<1>3. Ledger'
  <2>1. ~IsLookup(t)
    BY <1>2 DEF IsLookup
  <2> QED
    BY <1>2, <2>1, ChangeEnds DEF client
<1>4. StoreTyped'
  <2>1. t.text \in Text
    BY <1>1, <1>2, TaskKinds DEF TasksTyped, UpdateTask
  <2>2. DOMAIN docs' = DOMAIN docs /\ docs' \in [DOMAIN docs -> Doc]
    BY <1>1, <1>2, <2>1 DEF StoreTyped, Known, Doc
  <2> QED
    BY <1>1, <1>2, <2>2 DEF StoreTyped, Known
<1>5. TypeOK'
  BY <1>1, <1>2, <1>4, EntryGone, DocsChangeTyped
     DEF TypeOK, Places, StoreTyped, TasksTyped, ClientTyped, HistoryTyped
<1> QED
  BY <1>3, <1>5 DEF LookupInv

LEMMA RenamedFiles ==
  ASSUME NEW ops \in Renames, NEW S \in SUBSET Uri
  PROVE  /\ Renamed(ops, S) \in SUBSET Uri
         /\ \A u \in Uri : To(ops, u) \in Uri
<1>1. PICK D \in SUBSET Uri : ops \in [D -> Uri \ D]
  BY LookupAssumption
<1>2. \A u \in Uri : To(ops, u) \in Uri
  BY <1>1 DEF To
<1> QED
  BY <1>2 DEF Renamed

LEMMA RecvRenameKeeps ==
  ASSUME LookupInv, NEW t \in pool, RecvRename(t)
  PROVE  LookupInv'
<1>1. pc \in Places /\ StoreTyped /\ TasksTyped /\ ClientTyped /\ HistoryTyped
  BY TypeParts DEF LookupInv
<1>2. /\ t.kind = "rename" /\ pool' = pool \ {t} /\ ongoing' = Remove(At(t))
      /\ docs' = [u \in Renamed(t.ops, Known) |->
                    RenamedDoc(t.ops, docs[CHOOSE v \in Known : To(t.ops, v) = u])]
      /\ DocsChange /\ UNCHANGED <<pc, unscanned, discovery, blocked, completed, client>>
  BY DEF RecvRename, Received
<1>3. Ledger'
  <2>1. ~IsLookup(t)
    BY <1>2 DEF IsLookup
  <2> QED
    BY <1>2, <2>1, ChangeEnds DEF client
<1>4. t.ops \in Renames
  BY <1>1, <1>2, TaskKinds DEF TasksTyped, RenameTask
<1>5. ASSUME NEW d \in Doc
      PROVE  RenamedDoc(t.ops, d) \in Doc
  <2>1. RenamedText(t.ops, d.text) \in Text
    BY <1>4, LookupAssumption DEF Doc
  <2>2. Renamed(t.ops, d.callers) \in SUBSET Uri
    BY <1>4, RenamedFiles DEF Doc
  <2> QED
    BY <2>1, <2>2 DEF RenamedDoc, Doc
<1>6. StoreTyped'
  <2>1. Renamed(t.ops, Known) \in SUBSET Uri
    BY <1>1, <1>4, RenamedFiles DEF StoreTyped
  <2>2. ASSUME NEW u \in Renamed(t.ops, Known)
        PROVE  RenamedDoc(t.ops, docs[CHOOSE v \in Known : To(t.ops, v) = u]) \in Doc
    <3>1. \E v \in Known : To(t.ops, v) = u
      BY DEF Renamed
    <3>2. (CHOOSE v \in Known : To(t.ops, v) = u) \in Known
      BY <3>1
    <3> QED
      BY <1>1, <1>5, <3>2 DEF StoreTyped
  <2>3. DOMAIN docs' = Renamed(t.ops, Known) /\ docs' \in [DOMAIN docs' -> Doc]
    BY <1>2, <2>2
  <2> QED
    BY <1>1, <1>2, <2>1, <2>3 DEF StoreTyped, Known
<1>7. TypeOK'
  BY <1>1, <1>2, <1>6, EntryGone, DocsChangeTyped
     DEF TypeOK, Places, StoreTyped, TasksTyped, ClientTyped, HistoryTyped
<1> QED
  BY <1>3, <1>7 DEF LookupInv

LEMMA RecvScanKeeps ==
  ASSUME LookupInv, NEW u \in DOMAIN unscanned, RecvScan(u)
  PROVE  LookupInv'
<1>1. pc \in Places /\ StoreTyped /\ TasksTyped /\ ClientTyped /\ HistoryTyped
  BY TypeParts DEF LookupInv
<1> DEFINE all == [v \in Known \union {u} |-> IF v = u THEN unscanned[u] ELSE docs[v].text]
           new == [text |-> all[u], listed |-> CallersIn(all, u) # {},
                   callers |-> CallersIn(all, u)]
<1>2. /\ pc = "recv" /\ unscanned' = [v \in DOMAIN unscanned \ {u} |-> unscanned[v]]
      /\ docs' = [v \in Known \union {u} |-> IF v = u THEN new ELSE docs[v]]
      /\ DocsChange /\ UNCHANGED <<pc, discovery, tasks, client>>
  BY DEF RecvScan
<1>3. u \in Uri /\ unscanned[u] \in Text
  BY <1>1, LookupAssumption DEF StoreTyped
<1>4. new \in Doc
  <2>1. all[u] \in Text /\ DOMAIN all \subseteq Uri
    BY <1>1, <1>3 DEF StoreTyped
  <2> HIDE DEF all
  <2>2. CallersIn(all, u) \in SUBSET Uri
    BY <2>1 DEF CallersIn
  <2> QED
    BY <2>1, <2>2 DEF Doc
<1> HIDE DEF new
<1>5. StoreTyped'
  <2>1. DOMAIN docs' = Known \union {u} /\ docs' \in [DOMAIN docs' -> Doc]
    BY <1>1, <1>2, <1>4 DEF StoreTyped
  <2>2. DOMAIN unscanned' \subseteq DOMAIN unscanned /\ unscanned' \in [DOMAIN unscanned' -> Text]
    BY <1>1, <1>2 DEF StoreTyped
  <2> QED
    BY <1>1, <1>2, <1>3, <2>1, <2>2 DEF StoreTyped, Known
<1>6. TypeOK'
  BY <1>1, <1>2, <1>5, DocsChangeTyped
     DEF TypeOK, Places, StoreTyped, TasksTyped, ClientTyped, HistoryTyped, tasks
<1>7. Ledger'
  BY <1>2, QuietKeeps DEF LookupInv, client
<1> QED
  BY <1>6, <1>7 DEF LookupInv

LEMMA RecvDiscoveryKeeps ==
  ASSUME LookupInv, RecvDiscovery
  PROVE  LookupInv'
<1>1. pc \in Places /\ StoreTyped /\ TasksTyped /\ ClientTyped /\ HistoryTyped
  BY TypeParts DEF LookupInv
<1>2. /\ pc = "completed" /\ discovery' = "gone"
      /\ docs' = [u \in Known |->
                    [docs[u] EXCEPT !.listed = @ \/ CallersIn(Texts, u) # {},
                                    !.callers = @ \union CallersIn(Texts, u)]]
      /\ DocsChange /\ UNCHANGED <<pc, unscanned, tasks, client>>
  BY DEF RecvDiscovery
<1>3. ASSUME NEW d \in Doc, NEW S \in SUBSET Uri
      PROVE  [d EXCEPT !.listed = @ \/ S # {}, !.callers = @ \union S] \in Doc
  <2> DEFINE l == d.listed \/ S # {}
             c == d.callers \union S
             x == [d EXCEPT !.listed = @ \/ S # {}, !.callers = @ \union S]
  <2>1. l \in BOOLEAN /\ c \in SUBSET Uri
    BY DEF Doc
  <2>2. x = [d EXCEPT !.listed = l, !.callers = c]
    OBVIOUS
  <2> HIDE DEF l, c, x
  <2>3. x \in Doc
    BY <2>1, <2>2 DEF Doc
  <2> QED
    BY <2>3 DEF x
<1>4. ASSUME NEW u \in Known
      PROVE  CallersIn(Texts, u) \in SUBSET Uri
  BY <1>1 DEF CallersIn, Texts, StoreTyped
<1>5. StoreTyped'
  <2>1. DOMAIN docs' = Known /\ docs' \in [Known -> Doc]
    BY <1>1, <1>2, <1>3, <1>4 DEF StoreTyped
  <2> QED
    BY <1>1, <1>2, <2>1 DEF StoreTyped, Known
<1>6. TypeOK'
  BY <1>1, <1>2, <1>5, DocsChangeTyped
     DEF TypeOK, Places, StoreTyped, TasksTyped, ClientTyped, HistoryTyped, tasks
<1>7. Ledger'
  BY <1>2, QuietKeeps DEF LookupInv, client
<1> QED
  BY <1>6, <1>7 DEF LookupInv

(* Steps of the loop that change its place only.                           *)
LEMMA PlaceKeeps ==
  ASSUME LookupInv, pc' \in Places, UNCHANGED <<store, tasks, client, history>>,
         pc' \in {"blocked", "process", "progress"} => completed = {}
  PROVE  LookupInv'
<1>1. TypeOK'
  BY DEF LookupInv, TypeOK, Places, store, tasks, client, history, Known
<1>2. Ledger'
  BY QuietKeeps DEF LookupInv, client
<1> QED
  BY <1>1, <1>2 DEF LookupInv

LEMMA PanicKeeps ==
  ASSUME LookupInv, NEW cause \in Crash, Panic(cause)
  PROVE  LookupInv'
<1>1. pc' \in Places /\ pc' \notin {"blocked", "process", "progress"}
  BY DEF Panic, Places, Crash
<1> QED
  BY <1>1, PlaceKeeps DEF Panic

----------------------------------------------------------------------------
(* Completed lookups, waiting tasks, messages and the pass.                *)

LEMMA RecvCompletedCases ==
  ASSUME LookupInv, NEW d \in completed, RecvCompleted(d)
  PROVE  LookupInv' /\ \/ Panic("empty slot")
                       \/ /\ UNCHANGED pc
                          /\ d.id \in asked /\ d.id \in 1..MaxMsgs /\ replies[d.id] = 0
                          /\ Answer(d.id, d.files)
<1>1. pc \in Places /\ StoreTyped /\ TasksTyped /\ ClientTyped /\ HistoryTyped
  BY TypeParts DEF LookupInv
<1>2. CASE MeetsEmpty(ongoing, WithId(d.id))
  <2>1. Panic("empty slot") /\ "empty slot" \in Crash
    BY <1>2 DEF RecvCompleted, Crash
  <2> QED
    BY <2>1, PanicKeeps
<1>3. CASE ~MeetsEmpty(ongoing, WithId(d.id))
  <2>1. /\ completed' = completed \ {d} /\ ongoing' = Remove(Index(WithId(d.id)))
        /\ Answer(d.id, d.files) /\ UNCHANGED <<pc, store, blocked, pool, history>>
    BY <1>3 DEF RecvCompleted
  <2>2. /\ Ledger'
        /\ d.id \in asked /\ d.id \in 1..MaxMsgs /\ replies[d.id] = 0
    BY <1>3, <2>1, CompletedKeeps DEF Answer
  <2>3. d.files \in SUBSET Uri
    BY <1>1 DEF TasksTyped
  <2>4. ClientTyped' /\ HistoryTyped'
    BY <1>1, <2>1, <2>2, <2>3, AnswerTyped
  <2>5. ongoing' \in Seq(Entry)
    <3>1. PICK k \in DOMAIN ongoing : ongoing[k] \in WithId(d.id)
      <4>1. CASE Empty \in Entries
        <5>1. ongoing \in Seq(Entry)
          BY <1>1 DEF TasksTyped
        <5> QED
          BY <1>3, <4>1, <5>1, EmptyMet
      <4>2. CASE \E e \in Entries : HasId(e) /\ e.id = d.id
        BY <4>2 DEF WithId, HasId, Entries, EntriesIn
      <4>3. Empty \in Entries \/ \E e \in Entries : HasId(e) /\ e.id = d.id
        BY DEF LookupInv, Ledger, Concluding
      <4> QED
        BY <4>1, <4>2, <4>3
    <3>2. Index(WithId(d.id)) \in DOMAIN ongoing
      BY <1>1, <3>1, IndexFits DEF TasksTyped
    <3> QED
      BY <1>1, <2>1, <3>2, RemoveKeeps DEF TasksTyped, LookupInv, Ledger, IdsApart
  <2>6. StoreTyped' /\ TasksTyped'
    BY <1>1, <2>1, <2>5 DEF StoreTyped, TasksTyped, store, Known
  <2>7. TypeOK'
    BY <1>1, <2>1, <2>4, <2>6
       DEF TypeOK, Places, StoreTyped, TasksTyped, ClientTyped, HistoryTyped
  <2> QED
    BY <2>1, <2>2, <2>7 DEF LookupInv
<1> QED
  BY <1>2, <1>3

LEMMA ScheduleTyped ==
  ASSUME TasksTyped, NEW t \in Task, Schedule(t), blocked' \subseteq blocked,
         UNCHANGED completed
  PROVE  TasksTyped'
<1>1. CASE IsRoundTask(t)
  BY <1>1 DEF Schedule, TasksTyped, IsRoundTask
<1>2. CASE ~IsRoundTask(t)
  <2>1. Track(t) \in Entry /\ ongoing' = Append(ongoing, Track(t)) /\ ongoing \in Seq(Entry)
    BY <1>2, TrackKinds DEF Schedule, IsRoundTask, TasksTyped
  <2>2. ongoing' \in Seq(Entry)
    BY <2>1
  <2> QED
    BY <2>2 DEF Schedule, TasksTyped
<1> QED
  BY <1>1, <1>2

LEMMA TryScheduleTyped ==
  ASSUME TasksTyped, NEW t \in Task, TrySchedule(t), UNCHANGED completed
  PROVE  TasksTyped'
<1>1. CASE TaskBlocked(t, ongoing)
  BY <1>1 DEF TrySchedule, TasksTyped
<1>2. CASE ~TaskBlocked(t, ongoing)
  BY <1>2, ScheduleTyped DEF TrySchedule
<1> QED
  BY <1>1, <1>2

LEMMA ScheduleBlockedKeeps ==
  ASSUME LookupInv, NEW t \in blocked, ScheduleBlocked(t)
  PROVE  LookupInv'
<1>1. pc \in Places /\ StoreTyped /\ TasksTyped /\ ClientTyped /\ HistoryTyped
  BY TypeParts DEF LookupInv
<1>2. /\ ~TaskBlocked(t, ongoing) /\ Schedule(t) /\ blocked' = blocked \ {t}
      /\ UNCHANGED <<pc, store, completed, client, history>>
  BY DEF ScheduleBlocked
<1>3. TasksTyped'
  BY <1>1, <1>2, ScheduleTyped DEF TasksTyped
<1>4. TypeOK'
  BY <1>1, <1>2, <1>3 DEF TypeOK, Places, StoreTyped, TasksTyped, ClientTyped,
                          HistoryTyped, store, client, history, Known
<1>5. Ledger'
  BY <1>2, BlockedKeeps DEF client
<1> QED
  BY <1>4, <1>5 DEF LookupInv

LEMMA LangRequestKeeps ==
  ASSUME LookupInv, NEW kind \in {"goto", "refs"}, NEW u \in Uri, NEW files \in SUBSET Uri,
         LangRequest(kind, u, files)
  PROVE  LookupInv' /\ next \notin asked /\ next \in 1..MaxMsgs
<1> DEFINE t == [kind |-> kind, id |-> next, phase |-> "origin", uri |-> u,
                 callee |-> u, text |-> docs[u].text, callers |-> {}]
<1>1. pc \in Places /\ StoreTyped /\ TasksTyped /\ ClientTyped /\ HistoryTyped
  BY TypeParts DEF LookupInv
<1>2. /\ pc = "process" /\ next <= MaxMsgs /\ next' = next + 1 /\ u \in Known
      /\ asked' = asked \union {next} /\ TrySchedule(t)
      /\ expected' = [expected EXCEPT ![next] = files] /\ steady' = steady \union {next}
      /\ UNCHANGED <<pc, store, completed, replies, answers>>
  BY DEF LangRequest, Message
<1>3. next \in Nat /\ MaxMsgs \in Nat /\ next \in 1..MaxMsgs
  BY <1>1, <1>2, LookupAssumption DEF ClientTyped
<1>4. t \in LookupTask /\ IsLookup(t) /\ t.id = next /\ ~IsRoundTask(t)
  BY <1>1, <1>2, <1>3 DEF LookupTask, StoreTyped, Doc, IsLookup, IsRoundTask
<1> HIDE DEF t
<1>5. t \in Task
  BY <1>4 DEF Task
<1>6. TasksTyped'
  BY <1>1, <1>2, <1>5, TryScheduleTyped
<1>7. ClientTyped' /\ HistoryTyped'
  BY <1>1, <1>2, <1>3 DEF ClientTyped, HistoryTyped
<1>8. TypeOK'
  BY <1>1, <1>2, <1>6, <1>7 DEF TypeOK, Places, StoreTyped, TasksTyped, ClientTyped,
                                HistoryTyped, store, Known
<1>9. Ledger' /\ next \notin asked
  BY <1>2, <1>4, <1>5, FreshKeeps
<1> QED
  BY <1>3, <1>8, <1>9 DEF LookupInv

LEMMA ChangeKeeps ==
  ASSUME LookupInv, Message, NEW t \in Task, ~IsLookup(t), HasId(t) => t.id = next,
         TrySchedule(t),
         UNCHANGED <<pc, store, completed, asked, replies, answers, history>>
  PROVE  LookupInv'
<1>1. pc \in Places /\ StoreTyped /\ TasksTyped /\ ClientTyped /\ HistoryTyped
  BY TypeParts DEF LookupInv
<1>2. pc = "process" /\ next <= MaxMsgs /\ next' = next + 1
  BY DEF Message
<1>3. TasksTyped'
  BY <1>1, TryScheduleTyped
<1>4. ClientTyped' /\ HistoryTyped'
  BY <1>1, <1>2, LookupAssumption DEF ClientTyped, HistoryTyped, history
<1>5. TypeOK'
  BY <1>1, <1>3, <1>4 DEF TypeOK, Places, StoreTyped, TasksTyped, ClientTyped,
                          HistoryTyped, store, Known
<1>6. ~IsRoundTask(t)
  BY DEF IsRoundTask
<1>7. Ledger'
  BY <1>2, <1>6, FreshKeeps
<1> QED
  BY <1>5, <1>7 DEF LookupInv

LEMMA ProgressTyped ==
  ASSUME LookupInv, Progress
  PROVE  TypeOK'
<1> DEFINE new == {TaskFor(q[1], q[2]) : q \in Queued}
           held == {t \in new : TaskBlocked(t, Progressing)}
<1>1. pc \in Places /\ StoreTyped /\ TasksTyped /\ ClientTyped /\ HistoryTyped
  BY TypeParts DEF LookupInv
<1>2. /\ \A q \in Queued : q[2][1] \in Known
      /\ pool' = pool \union (new \ held) /\ blocked' = blocked \union held
      /\ ongoing' = Progressing
      /\ completed' = completed \union UNION {DoneBy(e) : e \in Entries}
      /\ discovery' \in {"finished", discovery} /\ pc' = "recv"
      /\ UNCHANGED <<docs, unscanned, client, history>>
  BY DEF Progress
<1>3. \A e \in Entries : e \in Entry
  BY <1>1 DEF TasksTyped, Entries, EntriesIn
<1>4. ASSUME NEW q \in Queued
      PROVE  TaskFor(q[1], q[2]) \in LookupTask
  <2>1. PICK e \in Entries : \E p \in QueuedBy(e) : q = <<e, p>>
    BY DEF Queued
  <2>2. PICK p \in QueuedBy(e) : q = <<e, p>>
    BY <2>1
  <2>3. Ready(e) /\ p \in New(e)
    BY <2>2 DEF QueuedBy
  <2>4. e \in Lookup /\ e.phase \in Phase
    BY <1>3, <2>3, EntryKinds DEF Ready, IsRounds, IsLookup
  <2>5. p[1] \in Uri /\ p[2] \in Uri
    BY <2>3, <2>4 DEF New, Lookup
  <2>6. p[1] \in Known
    BY <1>2, <2>2
  <2>7. docs[p[1]] \in Doc
    BY <1>1, <2>6 DEF StoreTyped
  <2>8. TaskFor(e, p) \in LookupTask
    <3> DEFINE c == IF e.phase = "callers" THEN docs[p[1]].callers ELSE {}
    <3>1. c \in SUBSET Uri /\ docs[p[1]].text \in Text
      BY <2>7 DEF Doc
    <3>2. TaskFor(e, p) = [kind |-> e.kind, id |-> e.id, phase |-> e.phase, uri |-> p[1],
                           callee |-> p[2], text |-> docs[p[1]].text, callers |-> c]
      BY DEF TaskFor
    <3> HIDE DEF c
    <3>3. e.kind \in {"goto", "refs"} /\ e.id \in Nat
      BY <2>4 DEF Lookup
    <3> QED
      BY <2>4, <2>5, <3>1, <3>2, <3>3 DEF LookupTask
  <2> QED
    BY <2>2, <2>8
<1>5. new \subseteq Task
  BY <1>4 DEF Task
<1>6. ASSUME NEW e \in Entries, NEW d \in DoneBy(e)
      PROVE  d \in [id : Nat, files : SUBSET Uri]
  <2>1. Finished(e)
    BY <1>6 DEF DoneBy
  <2>2. e \in Lookup
    BY <1>3, <2>1, EntryKinds DEF Finished, IsRounds, IsLookup
  <2>3. e.id \in Nat /\ e.found \in SUBSET Uri /\ e.refs \in SUBSET Uri /\ {e.origin} \in SUBSET Uri
    BY <2>2 DEF Lookup
  <2>4. Globals(e.origin) \in SUBSET Uri
    BY <1>1 DEF Globals, StoreTyped
  <2>5. d = [id |-> e.id, files |-> e.found \union Globals(e.origin)]
        \/ d = [id |-> e.id, files |-> {e.origin}] \/ d = [id |-> e.id, files |-> e.refs]
    BY <1>6 DEF DoneBy
  <2> QED
    BY <2>3, <2>4, <2>5
<1>7. Progressing \in Seq(Entry)
  BY PassKeeps DEF LookupInv, Ledger, IdsApart
<1> HIDE DEF new, held
<1>8. held \subseteq new
  BY DEF held
<1>9. TasksTyped'
  BY <1>1, <1>2, <1>5, <1>6, <1>7, <1>8 DEF TasksTyped
<1> QED
  BY <1>1, <1>2, <1>9 DEF TypeOK, Places, StoreTyped, TasksTyped, ClientTyped,
                          HistoryTyped, client, history, Known

----------------------------------------------------------------------------
(* The invariant holds and is kept.                                        *)

LEMMA InitLookup == Init => LookupInv
<1> SUFFICES ASSUME Init
             PROVE  LookupInv
  OBVIOUS
<1>1. /\ pc = "recv" /\ ongoing = <<>> /\ blocked = {} /\ pool = {} /\ completed = {}
      /\ next = 1 /\ asked = {} /\ steady = {} /\ MaxMsgs \in Nat
      /\ replies = [m \in 1..MaxMsgs |-> 0]
      /\ answers = [m \in 1..MaxMsgs |-> {}]
      /\ expected = [m \in 1..MaxMsgs |-> {}]
  BY LookupAssumption DEF Init
<1>2. StoreTyped
  <2>1. PICK w \in Worlds :
          \/ /\ docs = [u \in {} |-> Empty] /\ unscanned = w /\ discovery = "parsing"
          \/ /\ \E reopened \in {{}} \union {{u} : u \in Workspace} : docs = Stored(w, reopened)
             /\ unscanned = [u \in {} |-> Empty]
             /\ discovery = "gone"
    BY DEF Init
  <2>2. DOMAIN w \subseteq Workspace /\ w \in [DOMAIN w -> Text] /\ Workspace \subseteq Uri
    BY LookupAssumption
  <2>3. CASE docs = [u \in {} |-> Empty] /\ unscanned = w /\ discovery = "parsing"
    BY <2>2, <2>3 DEF StoreTyped, Known
  <2>4. ASSUME NEW reopened, docs = Stored(w, reopened),
               unscanned = [u \in {} |-> Empty], discovery = "gone"
        PROVE  StoreTyped
    <3>1. ASSUME NEW u \in DOMAIN w
          PROVE  CallersIn(w, u) \in SUBSET Uri
      BY <2>2 DEF CallersIn
    <3>2. DOMAIN docs = DOMAIN w /\ docs \in [DOMAIN w -> Doc]
      BY <2>2, <2>4, <3>1 DEF Stored, Doc
    <3> QED
      BY <2>2, <2>4, <3>2 DEF StoreTyped, Known
  <2> QED
    BY <2>1, <2>3, <2>4
<1>3. TasksTyped /\ ClientTyped /\ HistoryTyped /\ pc \in Places
  BY <1>1 DEF TasksTyped, ClientTyped, HistoryTyped, Places
<1>4. TypeOK
  BY <1>2, <1>3, TypeParts
<1>5. Entries = {} /\ Work = {}
  BY <1>1 DEF Entries, EntriesIn, Work
<1>6. Ledger
  BY <1>1, <1>5 DEF Ledger, IdsApart, IdsUsed, Tracking, Counting, Requests, Concluding,
                    Distinct
<1> QED
  BY <1>4, <1>6 DEF LookupInv

LEMMA LoopKeeps == LookupInv /\ Loop => LookupInv'
<1> SUFFICES ASSUME LookupInv, Loop
             PROVE  LookupInv'
  OBVIOUS
<1>1. CASE EndRecv
  BY <1>1, PlaceKeeps DEF EndRecv, Places
<1>2. ASSUME NEW d \in completed, RecvCompleted(d)
      PROVE  LookupInv'
  BY <1>2, RecvCompletedCases
<1>3. CASE RecvDiscovery
  BY <1>3, RecvDiscoveryKeeps
<1>4. CASE EndCompleted
  BY <1>4, PlaceKeeps DEF EndCompleted, Places
<1>5. ASSUME NEW t \in blocked, ScheduleBlocked(t)
      PROVE  LookupInv'
  BY <1>5, ScheduleBlockedKeeps
<1>6. CASE EndBlocked
  <2>1. completed = {}
    BY <1>6 DEF EndBlocked, LookupInv, Ledger, Concluding
  <2> QED
    BY <1>6, <2>1, PlaceKeeps DEF EndBlocked, Places
<1>7. CASE EndProcess
  <2>1. completed = {}
    BY <1>7 DEF EndProcess, LookupInv, Ledger, Concluding
  <2> QED
    BY <1>7, <2>1, PlaceKeeps DEF EndProcess, Places
<1>8. CASE Progress
  BY <1>8, ProgressTyped, ProgressKeeps DEF LookupInv
<1>9. CASE ProgressPanic
  <2>1. Panic("file unknown") \/ Panic("empty slot")
    BY <1>9 DEF ProgressPanic
  <2> QED
    BY <2>1, PanicKeeps DEF Crash
<1> QED
  BY <1>1, <1>2, <1>3, <1>4, <1>5, <1>6, <1>7, <1>8, <1>9 DEF Loop

LEMMA ReceiveKeeps == LookupInv /\ Receive => LookupInv'
<1> SUFFICES ASSUME LookupInv, Receive
             PROVE  LookupInv'
  OBVIOUS
<1>1. ASSUME NEW t \in pool, RecvPanic(t)
      PROVE  LookupInv'
  BY <1>1, PanicKeeps DEF RecvPanic, Crash
<1> QED
  BY <1>1, RecvOriginKeeps, RecvRoundKeeps, RecvUpdateKeeps, RecvRenameKeeps, RecvScanKeeps
     DEF Receive

LEMMA MessageKeeps == LookupInv /\ ProcessMsg => LookupInv'
<1> SUFFICES ASSUME LookupInv, ProcessMsg
             PROVE  LookupInv'
  OBVIOUS
<1>1. StoreTyped /\ next \in Nat
  BY TypeParts DEF LookupInv, TypeOK
<1>2. ASSUME NEW u \in Uri, GoToDefinition(u) \/ FindReferences(u)
      PROVE  LookupInv'
  BY <1>1, <1>2, FoundTyped, LangRequestKeeps DEF GoToDefinition, FindReferences
<1>3. ASSUME NEW u \in Uri, NEW text \in EditTo[u], DidChange(u, text)
      PROVE  LookupInv'
  <2> DEFINE t == [kind |-> "update", uri |-> u, text |-> text]
  <2>1. text \in Text
    BY LookupAssumption
  <2>2. t \in Task /\ ~IsLookup(t) /\ ~HasId(t)
    BY <2>1 DEF Task, UpdateTask, IsLookup, HasId
  <2>3. /\ Message /\ TrySchedule(t)
        /\ UNCHANGED <<pc, store, completed, asked, replies, answers, history>>
    BY <1>3 DEF DidChange
  <2> HIDE DEF t
  <2> QED
    BY <2>2, <2>3, ChangeKeeps
<1>4. ASSUME NEW ops \in Renames, DidRenameFiles(ops)
      PROVE  LookupInv'
  <2> DEFINE t == [kind |-> "rename", id |-> next, ops |-> ops]
  <2>1. t \in Task /\ ~IsLookup(t) /\ t.id = next
    BY <1>1 DEF Task, RenameTask, IsLookup
  <2>2. /\ Message /\ TrySchedule(t)
        /\ UNCHANGED <<pc, store, completed, asked, replies, answers, history>>
    BY <1>4 DEF DidRenameFiles
  <2> HIDE DEF t
  <2> QED
    BY <2>1, <2>2, ChangeKeeps
<1> QED
  BY <1>2, <1>3, <1>4 DEF ProcessMsg

LEMMA StepLookup == LookupInv /\ [Next]_vars => LookupInv'
<1> SUFFICES ASSUME LookupInv, [Next]_vars
             PROVE  LookupInv'
  OBVIOUS
<1>1. CASE UNCHANGED vars
  <2>1. UNCHANGED <<pc, store, tasks, client, history>>
    BY <1>1 DEF vars
  <2>2. pc' \in Places /\ (pc' \in {"blocked", "process", "progress"} => completed = {})
    BY <2>1, TypeParts DEF LookupInv, Ledger, Concluding
  <2> QED
    BY <2>1, <2>2, PlaceKeeps
<1> QED
  BY <1>1, LoopKeeps, ReceiveKeeps, MessageKeeps DEF Next, Done

LEMMA AlwaysLookup == Spec => []LookupInv
BY InitLookup, StepLookup, PTL DEF Spec

----------------------------------------------------------------------------
(* Theorems.                                                               *)

(* While a round is on, the counters of the lookup are off by exactly its  *)
(* tasks that run or wait, all of them of the current phase, and between   *)
(* rounds there are none (TaskProgress, progress_multi_part_tasks).        *)
THEOREM CountersStayExact == Spec => []CountersExact
<1>1. LookupInv => CountersExact
  <2> SUFFICES ASSUME LookupInv
               PROVE  CountersExact
    OBVIOUS
  <2>1. TypeOK /\ IdsApart /\ Tracking /\ Counting
    BY DEF LookupInv, Ledger
  <2>2. ASSUME NEW e \in Entries, IsRounds(e), NEW t \in RoundsOf(e)
        PROVE  t.phase = e.phase
    <3>1. t \in Work /\ IsRoundTask(t) /\ t.id = e.id
      BY DEF RoundsOf, Work, IsRoundTask
    <3>2. PICK f \in Entries : Asks(f, t)
      BY <2>1, <3>1 DEF Tracking
    <3>3. f = e
      BY <2>1, <2>2, <3>1, <3>2, SameEntry DEF Asks, IsRounds, HasId, IdsApart, Entries
    <3> QED
      BY <3>2, <3>3 DEF Asks
  <2> QED
    BY <2>1, <2>2 DEF CountersExact, Counting
<1> QED
  BY <1>1, AlwaysLookup, PTL

(* Lookups answer no request that was not asked, and none twice, through   *)
(* however many rounds: the safety part of EveryRequestAnsweredOnce.       *)
THEOREM LookupsKeepPromise == Spec => Promise!Spec
<1>1. Init => Promise!Init
  BY DEF Init, Promise!Init, Crash
<1>2. LookupInv /\ [Next]_vars => [Promise!Next]_Promise!vars
  <2> SUFFICES ASSUME LookupInv, [Next]_vars
               PROVE  [Promise!Next]_Promise!vars
    OBVIOUS
  <2> DEFINE Unheard == UNCHANGED <<pc, asked, replies>>
  <2>1. /\ "recv" \notin Crash /\ "completed" \notin Crash /\ "blocked" \notin Crash
        /\ "process" \notin Crash /\ "progress" \notin Crash
    BY DEF Crash
  <2>2. ASSUME UNCHANGED <<asked, replies>>, (pc' \in Crash) = (pc \in Crash)
        PROVE  [Promise!Next]_Promise!vars
    BY <2>2 DEF Promise!vars
  <2>3. ASSUME NEW cause \in Crash, pc \notin Crash, Panic(cause)
        PROVE  [Promise!Next]_Promise!vars
    BY <2>3 DEF Panic, client, Promise!Next, Promise!Stop
  <2>4. ASSUME NEW id \in 1..MaxMsgs, NEW files, id \in asked, replies[id] = 0,
               pc \notin Crash, UNCHANGED pc, Answer(id, files)
        PROVE  [Promise!Next]_Promise!vars
    <3>1. replies' = [replies EXCEPT ![id] = 1]
      BY <2>4 DEF Answer
    <3> QED
      BY <2>4, <3>1 DEF Answer, Promise!Next, Promise!Answer
  <2>5. CASE UNCHANGED vars
    BY <2>2, <2>5 DEF vars, client
  <2>6. CASE Receive
    <3>1. ASSUME NEW t \in pool, RecvOrigin(t)
          PROVE  [Promise!Next]_Promise!vars
      <4>1. IsLookup(t) /\ t.phase = "origin" /\ Leaves(t) /\ pc = "recv"
        BY <3>1, RecvOriginCases DEF RecvOrigin, Received
      <4>2. ASSUME NEW x, Convert(t, x)
            PROVE  [Promise!Next]_Promise!vars
        BY <2>2, <4>1, <4>2 DEF Convert, client, Leaves
      <4>3. ASSUME NEW files \in SUBSET Uri, Respond(t, files)
            PROVE  [Promise!Next]_Promise!vars
        <5>1. t.id \in asked /\ t.id \in 1..MaxMsgs /\ replies[t.id] = 0
          BY <4>1, <4>3, RespondKeeps
        <5> QED
          BY <2>1, <2>4, <4>1, <4>3, <5>1 DEF Respond, Leaves
      <4> QED
        BY <3>1, <4>2, <4>3, RecvOriginCases
    <3>2. ASSUME NEW t \in pool, RecvRound(t) \/ RecvUpdate(t) \/ RecvRename(t)
          PROVE  [Promise!Next]_Promise!vars
      BY <2>2, <3>2 DEF RecvRound, RecvUpdate, RecvRename, Received, Convert, client
    <3>3. ASSUME NEW t \in pool, RecvPanic(t)
          PROVE  [Promise!Next]_Promise!vars
      BY <2>1, <2>3, <3>3 DEF RecvPanic, Crash
    <3>4. ASSUME NEW u \in DOMAIN unscanned, RecvScan(u)
          PROVE  [Promise!Next]_Promise!vars
      BY <2>2, <3>4 DEF RecvScan, client
    <3> QED
      BY <2>6, <3>1, <3>2, <3>3, <3>4 DEF Receive
  <2>7. CASE Loop
    <3>1. ASSUME NEW d \in completed, RecvCompleted(d)
          PROVE  [Promise!Next]_Promise!vars
      <4>1. pc = "completed"
        BY <3>1 DEF RecvCompleted
      <4>2. \/ Panic("empty slot")
            \/ /\ UNCHANGED pc
               /\ d.id \in asked /\ d.id \in 1..MaxMsgs /\ replies[d.id] = 0
               /\ Answer(d.id, d.files)
        BY <3>1, RecvCompletedCases
      <4>3. "empty slot" \in Crash
        BY DEF Crash
      <4> QED
        BY <2>1, <2>3, <2>4, <4>1, <4>2, <4>3
    <3>2. ASSUME NEW t \in blocked, ScheduleBlocked(t)
          PROVE  [Promise!Next]_Promise!vars
      BY <2>2, <3>2 DEF ScheduleBlocked, client
    <3>3. CASE EndRecv \/ EndCompleted \/ EndBlocked \/ EndProcess
      BY <2>1, <2>2, <3>3 DEF EndRecv, EndCompleted, EndBlocked, EndProcess, client
    <3>4. CASE RecvDiscovery
      BY <2>2, <3>4 DEF RecvDiscovery, client
    <3>5. CASE Progress
      BY <2>1, <2>2, <3>5 DEF Progress, client
    <3>6. CASE ProgressPanic
      <4>1. pc = "progress" /\ \E cause \in Crash : Panic(cause)
        BY <3>6 DEF ProgressPanic, Crash
      <4> QED
        BY <2>1, <2>3, <4>1
    <3> QED
      BY <2>7, <3>1, <3>2, <3>3, <3>4, <3>5, <3>6 DEF Loop
  <2>8. CASE ProcessMsg
    <3>1. ASSUME NEW kind \in {"goto", "refs"}, NEW u \in Uri, NEW files \in SUBSET Uri,
                 LangRequest(kind, u, files)
          PROVE  [Promise!Next]_Promise!vars
      <4>1. next \notin asked /\ next \in 1..MaxMsgs
        BY <3>1, LangRequestKeeps
      <4>2. /\ pc = "process" /\ asked' = asked \union {next} /\ UNCHANGED <<pc, replies>>
        BY <3>1 DEF LangRequest, Message
      <4> QED
        BY <2>1, <4>1, <4>2 DEF Promise!Next, Promise!Ask
    <3>2. ASSUME NEW u \in Uri, NEW text \in EditTo[u], DidChange(u, text)
          PROVE  [Promise!Next]_Promise!vars
      BY <2>2, <3>2 DEF DidChange
    <3>3. ASSUME NEW ops \in Renames, DidRenameFiles(ops)
          PROVE  [Promise!Next]_Promise!vars
      BY <2>2, <3>3 DEF DidRenameFiles
    <3>4. StoreTyped
      BY TypeParts DEF LookupInv
    <3>5. ASSUME NEW u \in Uri, GoToDefinition(u) \/ FindReferences(u)
          PROVE  [Promise!Next]_Promise!vars
      BY <3>1, <3>4, <3>5, FoundTyped DEF GoToDefinition, FindReferences
    <3> QED
      BY <2>8, <3>2, <3>3, <3>5 DEF ProcessMsg
  <2>9. CASE Done
    BY <2>5, <2>9 DEF Done
  <2> QED
    BY <2>5, <2>6, <2>7, <2>8, <2>9 DEF Next
<1> QED
  BY <1>1, <1>2, AlwaysLookup, PTL DEF Spec, Promise!Spec

------------------------------------------------------------------------------
(* A set of numbers that holds 0, and n + 1 with n, holds all numbers.     *)
LEMMA EveryNumber ==
  ASSUME NEW T, 0 \in T, \A n \in T : n \in Nat => n + 1 \in T
  PROVE  Nat \subseteq T
<1> DEFINE S == Nat \ T
<1>1. SUFFICES ASSUME S # {} PROVE FALSE
  OBVIOUS
<1>2. PICK n \in S : \A m \in S : <<m, n>> \notin OpToRel(<, Nat)
  BY <1>1, WFMin, NatLessThanWellFounded
<1>3. n # 0 /\ n - 1 \in Nat
  OBVIOUS
<1>4. n - 1 \in S
  <2>1. n = (n - 1) + 1
    BY <1>3
  <2> QED
    BY <1>3, <2>1
<1>5. <<n - 1, n>> \in OpToRel(<, Nat)
  BY <1>3 DEF OpToRel
<1> QED
  BY <1>2, <1>4, <1>5

(* What Closure iterates, with the function G in place of its operator.    *)
Iterates(f, S, G) == f = [n \in Nat |-> IF n = 0 THEN S ELSE G[f[n - 1]]]

Approx(g, n, S, G) == g = [i \in 0..n |-> IF i = 0 THEN S ELSE G[g[i - 1]]]

LEMMA ApproxUnique ==
  ASSUME NEW S, NEW G, NEW n \in Nat, NEW m \in Nat, n <= m, NEW g, NEW h,
         Approx(g, n, S, G), Approx(h, m, S, G)
  PROVE  \A i \in 0..n : g[i] = h[i]
<1> DEFINE T == {i \in Nat : i <= n => g[i] = h[i]}
<1>1. /\ \A i \in 0..n : g[i] = IF i = 0 THEN S ELSE G[g[i - 1]]
      /\ \A i \in 0..m : h[i] = IF i = 0 THEN S ELSE G[h[i - 1]]
  BY DEF Approx
<1>2. 0 \in T
  BY <1>1
<1>3. ASSUME NEW i \in T, i \in Nat
      PROVE  i + 1 \in T
  <2> SUFFICES ASSUME i + 1 <= n PROVE g[i + 1] = h[i + 1]
    BY <1>3
  <2>1. i + 1 \in 0..n /\ i + 1 \in 0..m /\ i + 1 # 0 /\ (i + 1) - 1 = i /\ g[i] = h[i]
    BY <1>3
  <2> HIDE DEF T
  <2>2. g[i + 1] = G[g[(i + 1) - 1]] /\ h[i + 1] = G[h[(i + 1) - 1]]
    BY <1>1, <2>1
  <2> QED
    BY <2>1, <2>2
<1> HIDE DEF T
<1>4. Nat \subseteq T
  BY <1>2, <1>3, EveryNumber
<1> QED
  BY <1>4 DEF T

LEMMA ApproxExists ==
  ASSUME NEW S, NEW G, NEW n \in Nat
  PROVE  \E g : Approx(g, n, S, G)
<1> DEFINE T == {k \in Nat : \E g : Approx(g, k, S, G)}
<1>1. 0 \in T
  <2> DEFINE g == [i \in 0..0 |-> S]
  <2>1. g = [i \in 0..0 |-> IF i = 0 THEN S ELSE G[g[i - 1]]]
    OBVIOUS
  <2>2. Approx(g, 0, S, G)
    BY <2>1 DEF Approx
  <2> QED
    BY <2>2
<1>2. ASSUME NEW k \in T, k \in Nat
      PROVE  k + 1 \in T
  <2>1. PICK g : Approx(g, k, S, G)
    BY <1>2
  <2> DEFINE h == [i \in 0..(k + 1) |-> IF i = k + 1 THEN G[g[k]] ELSE g[i]]
  <2>2. \A i \in 0..k : g[i] = IF i = 0 THEN S ELSE G[g[i - 1]]
    BY <2>1 DEF Approx
  <2>3. k + 1 \in Nat /\ k \in Nat /\ k + 1 # 0
    BY <1>2
  <2>4. ASSUME NEW i \in 0..(k + 1)
        PROVE  h[i] = IF i = 0 THEN S ELSE G[h[i - 1]]
    <3>1. CASE i = k + 1
      <4>1. i # 0 /\ i - 1 = k /\ k \in 0..(k + 1) /\ k # k + 1
        BY <2>3, <3>1
      <4>2. h[i - 1] = g[k]
        BY <4>1
      <4> QED
        BY <3>1, <4>1, <4>2
    <3>2. CASE i # k + 1
      <4>1. i \in 0..k
        BY <2>3, <3>2
      <4>2. h[i] = g[i]
        BY <3>2
      <4>3. CASE i = 0
        BY <2>2, <4>1, <4>2, <4>3
      <4>4. CASE i # 0
        <5>1. i - 1 \in 0..(k + 1) /\ i - 1 # k + 1
          BY <2>3, <4>1, <4>4
        <5>2. h[i - 1] = g[i - 1]
          BY <5>1
        <5> HIDE DEF h
        <5> QED
          BY <2>2, <4>1, <4>2, <4>4, <5>2
      <4> QED
        BY <4>3, <4>4
    <3> QED
      BY <3>1, <3>2
  <2>5. h = [i \in 0..(k + 1) |-> IF i = 0 THEN S ELSE G[h[i - 1]]]
    BY <2>4
  <2> HIDE DEF h
  <2>6. Approx(h, k + 1, S, G)
    BY <2>5 DEF Approx
  <2> QED
    BY <2>3, <2>6
<1> HIDE DEF T
<1>3. Nat \subseteq T
  BY <1>1, <1>2, EveryNumber
<1> QED
  BY <1>3 DEF T

LEMMA IteratesExists ==
  ASSUME NEW S, NEW G
  PROVE  \E f : Iterates(f, S, G)
<1> DEFINE a(n) == CHOOSE g : Approx(g, n, S, G)
           f == [n \in Nat |-> a(n)[n]]
<1>1. ASSUME NEW n \in Nat
      PROVE  Approx(a(n), n, S, G)
  BY ApproxExists
<1> HIDE DEF a
<1>2. ASSUME NEW n \in Nat
      PROVE  f[n] = IF n = 0 THEN S ELSE G[f[n - 1]]
  <2>1. a(n)[n] = IF n = 0 THEN S ELSE G[a(n)[n - 1]]
    BY <1>1 DEF Approx
  <2>2. CASE n = 0
    BY <2>1, <2>2
  <2>3. CASE n # 0
    <3>1. n - 1 \in Nat /\ n - 1 <= n /\ n - 1 \in 0..(n - 1)
      BY <2>3
    <3>2. a(n - 1)[n - 1] = a(n)[n - 1]
      BY <1>1, <3>1, ApproxUnique
    <3>3. f[n] = a(n)[n] /\ f[n - 1] = a(n - 1)[n - 1]
      BY <3>1
    <3> HIDE DEF f
    <3> QED
      BY <2>1, <2>3, <3>2, <3>3
  <2> QED
    BY <2>2, <2>3
<1>3. f = [n \in Nat |-> IF n = 0 THEN S ELSE G[f[n - 1]]]
  BY <1>2
<1> HIDE DEF f
<1> QED
  BY <1>3 DEF Iterates

(* S is a part of X, and G adds to each part of X.                         *)
Adds(X, S, G) == /\ S \in SUBSET X /\ G \in [SUBSET X -> SUBSET X]
                 /\ \A T \in SUBSET X : T \subseteq G[T]

LEMMA IteratesTyped ==
  ASSUME NEW X, NEW S, NEW G, Adds(X, S, G), NEW f, Iterates(f, S, G)
  PROVE  /\ f[0] = S
         /\ \A n \in Nat : f[n + 1] = G[f[n]]
         /\ \A n \in Nat : f[n] \in SUBSET X
<1>1. f[0] = S
  BY DEF Iterates
<1>2. \A n \in Nat : f[n + 1] = G[f[n]]
  <2> SUFFICES ASSUME NEW n \in Nat PROVE f[n + 1] = G[f[n]]
    OBVIOUS
  <2>1. n + 1 \in Nat /\ n + 1 # 0 /\ (n + 1) - 1 = n
    OBVIOUS
  <2>2. f[n + 1] = G[f[(n + 1) - 1]]
    BY <2>1 DEF Iterates
  <2> QED
    BY <2>1, <2>2
<1> DEFINE T == {n \in Nat : f[n] \in SUBSET X}
<1>3. 0 \in T
  BY <1>1 DEF Adds
<1>4. ASSUME NEW n \in T, n \in Nat
      PROVE  n + 1 \in T
  <2>1. f[n] \in SUBSET X
    BY <1>4
  <2>2. f[n + 1] \in SUBSET X
    BY <1>2, <2>1 DEF Adds
  <2> QED
    BY <2>2
<1> HIDE DEF T
<1>5. Nat \subseteq T
  BY <1>3, <1>4, EveryNumber
<1> QED
  BY <1>1, <1>2, <1>5 DEF T

(* After as many steps as X has elements nothing is added any more.        *)
LEMMA IteratesSettles ==
  ASSUME NEW X, IsFiniteSet(X), NEW S, NEW G, Adds(X, S, G),
         NEW f, Iterates(f, S, G)
  PROVE  G[f[Cardinality(X)]] = f[Cardinality(X)]
<1> DEFINE c == Cardinality(X)
<1>1. /\ f[0] = S
      /\ \A n \in Nat : f[n + 1] = G[f[n]]
      /\ \A n \in Nat : f[n] \in SUBSET X
  BY IteratesTyped
<1>2. c \in Nat /\ \A n \in Nat : f[n] \subseteq G[f[n]] /\ G[f[n]] \in SUBSET X
  BY <1>1, FS_CardinalityType DEF Adds
<1> HIDE DEF c
<1>3. SUFFICES ASSUME G[f[c]] # f[c] PROVE FALSE
  BY DEF c
<1>4. ASSUME NEW n \in Nat, G[f[n]] = f[n]
      PROVE  \A k \in Nat : k >= n => f[k] = f[n]
  <2> DEFINE T == {k \in Nat : f[n + k] = f[n]}
  <2>1. 0 \in T
    <3>1. n + 0 = n
      OBVIOUS
    <3> QED
      BY <3>1
  <2>2. ASSUME NEW k \in T, k \in Nat
        PROVE  k + 1 \in T
    <3>1. n + k \in Nat /\ n + (k + 1) = (n + k) + 1 /\ k + 1 \in Nat /\ f[n + k] = f[n]
      BY <2>2
    <3>2. f[(n + k) + 1] = G[f[n + k]]
      BY <1>1, <3>1
    <3> QED
      BY <1>4, <3>1, <3>2
  <2> HIDE DEF T
  <2>3. Nat \subseteq T
    BY <2>1, <2>2, EveryNumber
  <2>4. ASSUME NEW k \in Nat, k >= n
        PROVE  f[k] = f[n]
    <3>1. k - n \in Nat /\ n + (k - n) = k
      BY <2>4
    <3>2. f[n + (k - n)] = f[n]
      BY <2>3, <3>1 DEF T
    <3> QED
      BY <3>1, <3>2
  <2> QED
    BY <2>4
<1>5. ASSUME NEW n \in Nat, n <= c
      PROVE  G[f[n]] # f[n]
  <2> SUFFICES ASSUME G[f[n]] = f[n] PROVE FALSE
    OBVIOUS
  <2>1. f[c] = f[n] /\ f[c + 1] = f[n]
    <3>1. c >= n /\ c + 1 >= n /\ c + 1 \in Nat
      BY <1>2, <1>5
    <3> QED
      BY <1>2, <1>4, <3>1
  <2>2. f[c + 1] = G[f[c]]
    BY <1>1, <1>2
  <2> QED
    BY <1>3, <2>1, <2>2
<1> DEFINE T == {n \in Nat : n <= c + 1 => Cardinality(f[n]) >= n}
<1>6. 0 \in T
  <2>1. Cardinality(f[0]) \in Nat
    BY <1>1, FS_Subset, FS_CardinalityType
  <2> QED
    BY <2>1
<1>7. ASSUME NEW n \in T, n \in Nat
      PROVE  n + 1 \in T
  <2> SUFFICES ASSUME n + 1 <= c + 1 PROVE Cardinality(f[n + 1]) >= n + 1
    BY <1>7
  <2>1. n <= c /\ Cardinality(f[n]) >= n
    BY <1>2, <1>7
  <2> HIDE DEF T
  <2>2. f[n] \subseteq f[n + 1] /\ f[n] # f[n + 1] /\ f[n + 1] \in SUBSET X
    BY <1>1, <1>2, <1>5, <1>7, <2>1
  <2>3. IsFiniteSet(f[n + 1])
    BY <2>2, FS_Subset
  <2>4. /\ Cardinality(f[n]) <= Cardinality(f[n + 1])
        /\ Cardinality(f[n + 1]) # Cardinality(f[n])
        /\ IsFiniteSet(f[n])
    BY <2>2, <2>3, FS_Subset
  <2>5. Cardinality(f[n]) \in Nat /\ Cardinality(f[n + 1]) \in Nat
    BY <2>3, <2>4, FS_CardinalityType
  <2> QED
    BY <1>7, <2>1, <2>4, <2>5
<1> HIDE DEF T
<1>8. Nat \subseteq T
  BY <1>6, <1>7, EveryNumber
<1>9. c + 1 \in Nat /\ Cardinality(f[c + 1]) >= c + 1
  <2>1. c + 1 \in Nat /\ c + 1 <= c + 1
    BY <1>2
  <2> QED
    BY <1>8, <2>1 DEF T
<1>10. Cardinality(f[c + 1]) <= c /\ Cardinality(f[c + 1]) \in Nat
  BY <1>1, <1>9, FS_Subset, FS_CardinalityType DEF c
<1> QED
  BY <1>2, <1>9, <1>10

(* A set that G does not make larger.                                      *)
Closed(V, X, S, G) ==
  /\ V \in SUBSET X /\ S \subseteq V
  /\ \A T \in SUBSET X : T \subseteq V => G[T] \subseteq V

(* All that is in an iterate is in every set that holds S and what G adds. *)
LEMMA IteratesLeast ==
  ASSUME NEW X, NEW S, NEW G, Adds(X, S, G), NEW f, Iterates(f, S, G),
         NEW V, Closed(V, X, S, G)
  PROVE  \A n \in Nat : S \subseteq f[n] /\ f[n] \subseteq V
<1>1. /\ f[0] = S
      /\ \A n \in Nat : f[n + 1] = G[f[n]]
      /\ \A n \in Nat : f[n] \in SUBSET X
  BY IteratesTyped
<1> DEFINE T == {n \in Nat : S \subseteq f[n] /\ f[n] \subseteq V}
<1>2. 0 \in T
  BY <1>1 DEF Closed
<1>3. ASSUME NEW n \in T, n \in Nat
      PROVE  n + 1 \in T
  <2>1. S \subseteq f[n] /\ f[n] \subseteq V /\ f[n] \in SUBSET X /\ f[n + 1] = G[f[n]]
    BY <1>1, <1>3
  <2>2. f[n] \subseteq G[f[n]] /\ G[f[n]] \subseteq V
    BY <2>1 DEF Adds, Closed
  <2> QED
    BY <1>3, <2>1, <2>2
<1> HIDE DEF T
<1>4. Nat \subseteq T
  BY <1>2, <1>3, EveryNumber
<1> QED
  BY <1>4 DEF T

IsClosure(C, X, S, G) ==
  /\ C \in SUBSET X /\ S \subseteq C /\ G[C] = C
  /\ \A V : Closed(V, X, S, G) => C \subseteq V

(* The last iterate of a closure is the least set with S that is closed.   *)
LEMMA IteratesClose ==
  ASSUME NEW X, IsFiniteSet(X), NEW S, NEW G, Adds(X, S, G),
         NEW f, Iterates(f, S, G)
  PROVE  IsClosure(f[Cardinality(X)], X, S, G)
<1>1. Cardinality(X) \in Nat
  BY FS_CardinalityType
<1>2. f[Cardinality(X)] \in SUBSET X
  BY <1>1, IteratesTyped
<1>3. G[f[Cardinality(X)]] = f[Cardinality(X)]
  BY IteratesSettles
<1>4. ASSUME NEW V, Closed(V, X, S, G)
      PROVE  S \subseteq f[Cardinality(X)] /\ f[Cardinality(X)] \subseteq V
  <2>1. \A n \in Nat : S \subseteq f[n] /\ f[n] \subseteq V
    BY <1>4, IteratesLeast
  <2> QED
    BY <1>1, <2>1
<1>5. Closed(X, X, S, G)
  BY DEF Closed, Adds
<1> QED
  BY <1>2, <1>3, <1>4, <1>5 DEF IsClosure

(* The pairs a round of callers adds to S, and the scripts a round of      *)
(* called scripts adds to T.                                               *)
CallersOfPair(D, p) == {<<c, p[1]>> : c \in D[p[1]].callers}
SearchedIn(D, S) == {q \in S : q[1] \in DOMAIN D /\ UnresolvedFor(D[q[1]].text, q[2])}
MoreCallers(D, S) == S \union UNION {CallersOfPair(D, p) : p \in SearchedIn(D, S)}
MoreScripts(D, T) == T \union UNION {D[u].text.inherits : u \in T \intersect DOMAIN D}

LEMMA CallChainsClosed ==
  ASSUME IsFiniteSet(Uri), NEW D, \A u \in DOMAIN D : D[u].callers \subseteq Uri,
         DOMAIN D \subseteq Uri, NEW o \in DOMAIN D
  PROVE  /\ CallChains(D, o) \in SUBSET (Uri \X Uri)
         /\ {<<c, o>> : c \in D[o].callers} \subseteq CallChains(D, o)
         /\ \A p \in SearchedIn(D, CallChains(D, o)) :
              CallersOfPair(D, p) \subseteq CallChains(D, o)
         /\ \A V \in SUBSET (Uri \X Uri) :
              /\ {<<c, o>> : c \in D[o].callers} \subseteq V
              /\ \A p \in SearchedIn(D, V) : CallersOfPair(D, p) \subseteq V
              => CallChains(D, o) \subseteq V
<1> DEFINE X == Uri \X Uri
           S == {<<c, o>> : c \in D[o].callers}
           G == [T \in SUBSET X |-> MoreCallers(D, T)]
           Chain(f) == f = [n \in Nat |-> IF n = 0 THEN S ELSE MoreCallers(D, f[n - 1])]
           g == CHOOSE f : Chain(f)
           C == g[Cardinality(X)]
<1>1. CallChains(D, o) = C
  BY DEF CallChains, Closure, MoreCallers, SearchedIn, CallersOfPair
<1>2. S \in SUBSET X /\ IsFiniteSet(X)
  BY FS_Product
<1>3. \A T \in SUBSET X : \A p \in SearchedIn(D, T) : CallersOfPair(D, p) \in SUBSET X
  BY DEF SearchedIn, CallersOfPair
<1>4. \A T \in SUBSET X : T \subseteq MoreCallers(D, T) /\ MoreCallers(D, T) \in SUBSET X
  BY <1>3 DEF MoreCallers
<1> HIDE DEF X, S
<1>5. Adds(X, S, G)
  BY <1>2, <1>4 DEF Adds
<1>6. \A T \in SUBSET X : G[T] = MoreCallers(D, T)
  OBVIOUS
<1> HIDE DEF G
<1>7. \E f : Chain(f)
  <2>1. PICK f : Iterates(f, S, G)
    BY IteratesExists
  <2>2. \A n \in Nat : f[n] \in SUBSET X
    BY <1>2, <1>5, <2>1, IteratesTyped
  <2>3. \A n \in Nat : n # 0 => n - 1 \in Nat
    OBVIOUS
  <2>4. \A n \in Nat : f[n] = IF n = 0 THEN S ELSE G[f[n - 1]]
    BY <2>1 DEF Iterates
  <2>5. \A n \in Nat : f[n] = IF n = 0 THEN S ELSE MoreCallers(D, f[n - 1])
    BY <1>6, <2>2, <2>3, <2>4
  <2>6. f = [n \in Nat |-> f[n]]
    BY <2>1 DEF Iterates
  <2>7. Chain(f)
    BY <2>5, <2>6
  <2> QED
    BY <2>7
<1>8. Chain(g)
  BY <1>7
<1> HIDE DEF g
<1>9. Iterates(g, S, G)
  <2> DEFINE T == {n \in Nat : g[n] \in SUBSET X}
  <2>1. \A n \in Nat : g[n] = IF n = 0 THEN S ELSE MoreCallers(D, g[n - 1])
    BY <1>8
  <2>2. 0 \in T
    BY <1>2, <2>1
  <2>3. ASSUME NEW n \in T, n \in Nat
        PROVE  n + 1 \in T
    <3>1. n + 1 \in Nat /\ n + 1 # 0 /\ (n + 1) - 1 = n /\ g[n] \in SUBSET X
      BY <2>3
    <3>2. g[n + 1] = MoreCallers(D, g[(n + 1) - 1])
      BY <2>1, <3>1
    <3>3. g[n + 1] \in SUBSET X
      BY <1>4, <3>1, <3>2
    <3> QED
      BY <3>1, <3>3
  <2> HIDE DEF T
  <2>4. Nat \subseteq T
    BY <2>2, <2>3, EveryNumber
  <2>5. \A n \in Nat : n # 0 => n - 1 \in Nat /\ g[n - 1] \in SUBSET X
    <3> SUFFICES ASSUME NEW n \in Nat, n # 0 PROVE n - 1 \in Nat /\ g[n - 1] \in SUBSET X
      OBVIOUS
    <3>1. n - 1 \in Nat
      OBVIOUS
    <3> QED
      BY <2>4, <3>1 DEF T
  <2>6. \A n \in Nat : g[n] = IF n = 0 THEN S ELSE G[g[n - 1]]
    BY <1>6, <2>1, <2>5
  <2>7. g = [n \in Nat |-> g[n]]
    BY <1>8
  <2> QED
    BY <2>6, <2>7 DEF Iterates
<1> HIDE DEF Chain
<1>10. /\ C \in SUBSET X /\ S \subseteq C /\ G[C] = C
       /\ \A V : Closed(V, X, S, G) => C \subseteq V
  BY <1>2, <1>5, <1>9, IteratesClose DEF IsClosure
<1>13. \A p \in SearchedIn(D, C) : CallersOfPair(D, p) \subseteq C
  <2>1. MoreCallers(D, C) = C
    BY <1>6, <1>10
  <2> QED
    BY <2>1 DEF MoreCallers
<1>14. ASSUME NEW V \in SUBSET X, S \subseteq V,
              \A p \in SearchedIn(D, V) : CallersOfPair(D, p) \subseteq V
       PROVE  C \subseteq V
  <2>1. ASSUME NEW T \in SUBSET X, T \subseteq V
        PROVE  G[T] \subseteq V
    <3>1. SearchedIn(D, T) \subseteq SearchedIn(D, V)
      BY <2>1 DEF SearchedIn
    <3>2. MoreCallers(D, T) \subseteq V
      BY <1>14, <2>1, <3>1 DEF MoreCallers
    <3> QED
      BY <1>6, <3>2
  <2> QED
    BY <1>10, <1>14, <2>1 DEF Closed
<1> HIDE DEF C
<1> QED
  BY <1>1, <1>10, <1>13, <1>14 DEF X, S

LEMMA InheritingClosed ==
  ASSUME IsFiniteSet(Uri), NEW D, \A u \in DOMAIN D : D[u].text.inherits \subseteq Uri,
         DOMAIN D \subseteq Uri, NEW S \in SUBSET Uri
  PROVE  /\ Inheriting(D, S) \in SUBSET Uri
         /\ S \subseteq Inheriting(D, S)
         /\ \A u \in Inheriting(D, S) \intersect DOMAIN D :
              D[u].text.inherits \subseteq Inheriting(D, S)
         /\ \A V \in SUBSET Uri :
              /\ S \subseteq V
              /\ \A u \in V \intersect DOMAIN D : D[u].text.inherits \subseteq V
              => Inheriting(D, S) \subseteq V
<1> DEFINE G == [T \in SUBSET Uri |-> MoreScripts(D, T)]
           Chain(f) == f = [n \in Nat |-> IF n = 0 THEN S ELSE MoreScripts(D, f[n - 1])]
           g == CHOOSE f : Chain(f)
           C == g[Cardinality(Uri)]
<1>1. Inheriting(D, S) = C
  BY DEF Inheriting, Closure, MoreScripts
<1>4. \A T \in SUBSET Uri : T \subseteq MoreScripts(D, T) /\ MoreScripts(D, T) \in SUBSET Uri
  BY DEF MoreScripts
<1>5. Adds(Uri, S, G)
  BY <1>4 DEF Adds
<1>6. \A T \in SUBSET Uri : G[T] = MoreScripts(D, T)
  OBVIOUS
<1> HIDE DEF G
<1>7. \E f : Chain(f)
  <2>1. PICK f : Iterates(f, S, G)
    BY IteratesExists
  <2>2. \A n \in Nat : f[n] \in SUBSET Uri
    BY <1>5, <2>1, IteratesTyped
  <2>3. \A n \in Nat : n # 0 => n - 1 \in Nat
    OBVIOUS
  <2>4. \A n \in Nat : f[n] = IF n = 0 THEN S ELSE G[f[n - 1]]
    BY <2>1 DEF Iterates
  <2>5. \A n \in Nat : f[n] = IF n = 0 THEN S ELSE MoreScripts(D, f[n - 1])
    BY <1>6, <2>2, <2>3, <2>4
  <2>6. f = [n \in Nat |-> f[n]]
    BY <2>1 DEF Iterates
  <2>7. Chain(f)
    BY <2>5, <2>6
  <2> QED
    BY <2>7
<1>8. Chain(g)
  BY <1>7
<1> HIDE DEF g
<1>9. Iterates(g, S, G)
  <2> DEFINE T == {n \in Nat : g[n] \in SUBSET Uri}
  <2>1. \A n \in Nat : g[n] = IF n = 0 THEN S ELSE MoreScripts(D, g[n - 1])
    BY <1>8
  <2>2. 0 \in T
    BY <2>1
  <2>3. ASSUME NEW n \in T, n \in Nat
        PROVE  n + 1 \in T
    <3>1. n + 1 \in Nat /\ n + 1 # 0 /\ (n + 1) - 1 = n /\ g[n] \in SUBSET Uri
      BY <2>3
    <3>2. g[n + 1] = MoreScripts(D, g[(n + 1) - 1])
      BY <2>1, <3>1
    <3>3. g[n + 1] \in SUBSET Uri
      BY <1>4, <3>1, <3>2
    <3> QED
      BY <3>1, <3>3
  <2> HIDE DEF T
  <2>4. Nat \subseteq T
    BY <2>2, <2>3, EveryNumber
  <2>5. \A n \in Nat : n # 0 => n - 1 \in Nat /\ g[n - 1] \in SUBSET Uri
    <3> SUFFICES ASSUME NEW n \in Nat, n # 0 PROVE n - 1 \in Nat /\ g[n - 1] \in SUBSET Uri
      OBVIOUS
    <3>1. n - 1 \in Nat
      OBVIOUS
    <3> QED
      BY <2>4, <3>1 DEF T
  <2>6. \A n \in Nat : g[n] = IF n = 0 THEN S ELSE G[g[n - 1]]
    BY <1>6, <2>1, <2>5
  <2>7. g = [n \in Nat |-> g[n]]
    BY <1>8
  <2> QED
    BY <2>6, <2>7 DEF Iterates
<1> HIDE DEF Chain
<1>10. /\ C \in SUBSET Uri /\ S \subseteq C /\ G[C] = C
       /\ \A V : Closed(V, Uri, S, G) => C \subseteq V
  BY <1>5, <1>9, IteratesClose DEF IsClosure
<1>13. \A u \in C \intersect DOMAIN D : D[u].text.inherits \subseteq C
  <2>1. MoreScripts(D, C) = C
    BY <1>6, <1>10
  <2> QED
    BY <2>1 DEF MoreScripts
<1>14. ASSUME NEW V \in SUBSET Uri, S \subseteq V,
              \A u \in V \intersect DOMAIN D : D[u].text.inherits \subseteq V
       PROVE  C \subseteq V
  <2>1. ASSUME NEW T \in SUBSET Uri, T \subseteq V
        PROVE  G[T] \subseteq V
    <3>1. MoreScripts(D, T) \subseteq V
      BY <1>14, <2>1 DEF MoreScripts
    <3> QED
      BY <1>6, <3>1
  <2> QED
    BY <1>10, <1>14, <2>1 DEF Closed
<1> HIDE DEF C
<1> QED
  BY <1>1, <1>10, <1>13, <1>14

------------------------------------------------------------------------------
(* What the documents D name: the files a lookup of either kind finds, and *)
(* the scripts the third phase of a search for references asks first.      *)
Found(D, kind, o) == IF kind = "goto" THEN FoundDefinitions(D, o) ELSE FoundReferences(D, o)
Everywhere(D, o) ==
  {u \in DOMAIN D : /\ o \in Definitions(D, o) /\ D[o].text.global
                    /\ ~(Unresolved(D[o].text) /\ D[o].listed)
                    /\ Mentions(D[u].text)}
Called(D, S) == UNION {D[u].text.after : u \in S}
PassedOn(D, o) == Called(D, Definitions(D, o)) \union Everywhere(D, o)

(* The documents are stored, callers are among them, and a document with   *)
(* callers is listed as one that has some.                                 *)
Sound(D) ==
  /\ DOMAIN D \subseteq Uri /\ D \in [DOMAIN D -> Doc]
  /\ \A u \in DOMAIN D : /\ D[u].callers \subseteq DOMAIN D
                         /\ D[u].callers # {} => D[u].listed

(* A round of the lookup e with the tasks R over documents D.              *)
PairOf(t) == <<t.uri, t.callee>>
Got(e, R) == e.visited \ {PairOf(t) : t \in R}
Pairs(e) == e.visited \union e.undone

TaskOf(D, e, p) ==
  [kind |-> e.kind, id |-> e.id, phase |-> e.phase, uri |-> p[1], callee |-> p[2],
   text |-> D[p[1]].text,
   callers |-> IF e.phase = "callers" THEN D[p[1]].callers ELSE {}]

First(D, e) ==
  CASE e.phase = "callers" -> {<<c, e.origin>> : c \in D[e.origin].callers}
    [] e.phase = "definitions" -> Alone(Definitions(D, e.origin))
    [] e.phase = "subscripts" -> Alone(PassedOn(D, e.origin))

Reach(D, e) ==
  CASE e.phase = "callers" -> CallChains(D, e.origin)
    [] e.phase = "definitions" -> Alone(Definitions(D, e.origin))
    [] e.phase = "subscripts" -> Alone(Inheriting(D, PassedOn(D, e.origin)))

More(D, phase, p) ==
  CASE phase = "callers" -> IF UnresolvedFor(D[p[1]].text, p[2]) THEN CallersOfPair(D, p) ELSE {}
    [] phase = "definitions" -> {}
    [] phase = "subscripts" -> Alone(D[p[1]].text.inherits)

(* The pairs asked and to be asked lie between the first ones and all that *)
(* can be reached, and hold what every answer so far has named.            *)
Covering(D, e, R) ==
  /\ First(D, e) \subseteq Pairs(e) /\ Pairs(e) \subseteq Reach(D, e)
  /\ \A p \in e.visited : p[1] \in DOMAIN D
  /\ \A p \in Got(e, R) : More(D, e.phase, p) \subseteq Pairs(e)
  /\ \A t \in R : \E p \in e.visited : t = TaskOf(D, e, p)
  /\ e.total = 0 => e.undone = {}

(* What the answers so far have given.                                     *)
CallersGive(D, e, R) ==
  /\ Unresolved(D[e.origin].text) /\ D[e.origin].listed
  /\ e.found = {u \in {e.origin} : Defines(D[u].text)}
                 \union {u \in DOMAIN D : \E p \in Got(e, R) : p[1] = u /\ DefinesFor(D[u].text, p[2])}
  /\ e.subs = {} /\ e.refs = {}

Defined(D, e) == /\ e.kind = "refs" /\ Definitions(D, e.origin) # {}
                 /\ D[e.origin].text.search # "none"

DefinitionsGive(D, e, R) ==
  /\ Defined(D, e)
  /\ e.refs = {p[1] : p \in Got(e, R)}
  /\ e.subs = Everywhere(D, e.origin) \union UNION {D[p[1]].text.after : p \in Got(e, R)}

SubscriptsGive(D, e, R) ==
  /\ Defined(D, e)
  /\ e.refs = Definitions(D, e.origin)
                \union {u \in DOMAIN D : D[u].text.uses /\ \E p \in Got(e, R) : p[1] = u}

Collected(D, e, R) ==
  /\ e.phase = "callers" => CallersGive(D, e, R)
  /\ e.phase = "definitions" => DefinitionsGive(D, e, R)
  /\ e.phase = "subscripts" => SubscriptsGive(D, e, R)

RoundFits(D, e, R, files) ==
  /\ e.origin \in DOMAIN D /\ files = Found(D, e.kind, e.origin)
  /\ Covering(D, e, R) /\ Collected(D, e, R)

----------------------------------------------------------------------------
LEMMA SoundTexts ==
  ASSUME NEW D, Sound(D), NEW u \in DOMAIN D
  PROVE  /\ D[u] \in Doc /\ D[u].text \in Text /\ D[u].callers \subseteq Uri /\ u \in Uri
         /\ D[u].text.after \subseteq Uri /\ D[u].text.inherits \subseteq Uri
BY TextFiles DEF Sound, Doc

LEMMA DefinitionsIn ==
  ASSUME NEW D, NEW o \in DOMAIN D
  PROVE  Definitions(D, o) \subseteq DOMAIN D
BY DEF Definitions

LEMMA PassedOnIn ==
  ASSUME NEW D, Sound(D), NEW o \in DOMAIN D
  PROVE  PassedOn(D, o) \in SUBSET Uri
<1>1. \A u \in Definitions(D, o) : D[u].text.after \subseteq Uri
  BY DefinitionsIn, SoundTexts
<1>2. Everywhere(D, o) \subseteq Uri
  BY DEF Everywhere, Sound
<1> QED
  BY <1>1, <1>2 DEF PassedOn, Called

LEMMA ChainsOf ==
  ASSUME NEW D, Sound(D), NEW o \in DOMAIN D
  PROVE  /\ CallChains(D, o) \in SUBSET (Uri \X Uri)
         /\ {<<c, o>> : c \in D[o].callers} \subseteq CallChains(D, o)
         /\ \A p \in SearchedIn(D, CallChains(D, o)) :
              CallersOfPair(D, p) \subseteq CallChains(D, o)
         /\ \A V \in SUBSET (Uri \X Uri) :
              /\ {<<c, o>> : c \in D[o].callers} \subseteq V
              /\ \A p \in SearchedIn(D, V) : CallersOfPair(D, p) \subseteq V
              => CallChains(D, o) \subseteq V
<1>1. /\ IsFiniteSet(Uri) /\ DOMAIN D \subseteq Uri
      /\ \A u \in DOMAIN D : D[u].callers \subseteq Uri
  BY LookupAssumption, SoundTexts DEF Sound
<1> QED
  BY <1>1, CallChainsClosed

LEMMA InheritingOf ==
  ASSUME NEW D, Sound(D), NEW S \in SUBSET Uri
  PROVE  /\ Inheriting(D, S) \in SUBSET Uri
         /\ S \subseteq Inheriting(D, S)
         /\ \A u \in Inheriting(D, S) \intersect DOMAIN D :
              D[u].text.inherits \subseteq Inheriting(D, S)
         /\ \A V \in SUBSET Uri :
              /\ S \subseteq V
              /\ \A u \in V \intersect DOMAIN D : D[u].text.inherits \subseteq V
              => Inheriting(D, S) \subseteq V
<1>1. /\ IsFiniteSet(Uri) /\ DOMAIN D \subseteq Uri
      /\ \A u \in DOMAIN D : D[u].text.inherits \subseteq Uri
  BY LookupAssumption, SoundTexts DEF Sound
<1> QED
  BY <1>1, InheritingClosed

(* A document without callers has no chains of them.                       *)
LEMMA NoCallers ==
  ASSUME NEW D, Sound(D), NEW o \in DOMAIN D, ~D[o].listed
  PROVE  Definitions(D, o) = {u \in {o} : Defines(D[o].text)}
<1>1. D[o].callers = {}
  BY DEF Sound
<1>2. {} \in SUBSET (Uri \X Uri) /\ {<<c, o>> : c \in D[o].callers} \subseteq {}
      /\ \A p \in SearchedIn(D, {}) : CallersOfPair(D, p) \subseteq {}
  BY <1>1 DEF SearchedIn
<1>3. CallChains(D, o) \subseteq {}
  BY <1>2, ChainsOf
<1> QED
  BY <1>3 DEF Definitions

(* When nothing is left to ask, all that can be reached has been asked.    *)
LEMMA AllReached ==
  ASSUME NEW D, Sound(D), NEW e \in Lookup, IsRounds(e), e.undone = {},
         e.origin \in DOMAIN D, Covering(D, e, {})
  PROVE  e.visited = Reach(D, e)
<1> DEFINE o == e.origin
           V == e.visited
<1>1. /\ V \in SUBSET (Uri \X Uri) /\ First(D, e) \subseteq V /\ V \subseteq Reach(D, e)
      /\ \A p \in V : p[1] \in DOMAIN D
      /\ \A p \in V : More(D, e.phase, p) \subseteq V
  BY DEF Covering, Pairs, Got, Lookup
<1>2. o \in DOMAIN D /\ e.phase \in Phase
  BY DEF IsRounds
<1>3. CASE e.phase = "callers"
  <2>1. First(D, e) = {<<c, o>> : c \in D[o].callers} /\ Reach(D, e) = CallChains(D, o)
    BY <1>3 DEF First, Reach
  <2>2. ASSUME NEW p \in SearchedIn(D, V)
        PROVE  CallersOfPair(D, p) \subseteq V
    <3>1. p \in V /\ UnresolvedFor(D[p[1]].text, p[2])
      BY DEF SearchedIn
    <3>2. More(D, e.phase, p) = CallersOfPair(D, p)
      BY <1>3, <3>1 DEF More
    <3> QED
      BY <1>1, <3>1, <3>2
  <2> HIDE DEF V, o
  <2>3. CallChains(D, o) \subseteq V
    BY <1>1, <1>2, <2>1, <2>2, ChainsOf
  <2> QED
    BY <1>1, <2>1, <2>3 DEF V
<1>4. CASE e.phase = "definitions"
  BY <1>1, <1>4 DEF First, Reach
<1>5. CASE e.phase = "subscripts"
  <2> DEFINE S == PassedOn(D, o)
             W == {u \in Uri : <<u, u>> \in V}
  <2>1. First(D, e) = Alone(S) /\ Reach(D, e) = Alone(Inheriting(D, S))
    BY <1>5 DEF First, Reach
  <2>2. S \in SUBSET Uri
    BY <1>2, PassedOnIn
  <2>3. S \subseteq W
    BY <1>1, <2>1, <2>2 DEF Alone
  <2>4. ASSUME NEW u \in W \intersect DOMAIN D
        PROVE  D[u].text.inherits \subseteq W
    <3>1. More(D, e.phase, <<u, u>>) = Alone(D[u].text.inherits)
      BY <1>5 DEF More
    <3>2. Alone(D[u].text.inherits) \subseteq V
      BY <1>1, <3>1
    <3>3. D[u].text.inherits \subseteq Uri
      BY SoundTexts
    <3> QED
      BY <3>2, <3>3 DEF Alone
  <2>5. W \in SUBSET Uri
    OBVIOUS
  <2> HIDE DEF S, W, V
  <2>6. Inheriting(D, S) \subseteq W
    BY <2>2, <2>3, <2>4, <2>5, InheritingOf
  <2>7. Alone(Inheriting(D, S)) \subseteq V
    BY <2>6 DEF Alone, W
  <2> QED
    BY <1>1, <2>1, <2>7 DEF V
<1> QED
  BY <1>2, <1>3, <1>4, <1>5 DEF Phase

LEMMA AlonePairs ==
  ASSUME NEW S
  PROVE  /\ \A u \in S : <<u, u>> \in Alone(S) /\ <<u, u>>[1] = u
         /\ \A p \in Alone(S) : p[1] \in S /\ p = <<p[1], p[1]>>
BY DEF Alone

(* What the phases have found when nothing is left to ask.                 *)
LEMMA CallersFound ==
  ASSUME NEW D, Sound(D), NEW e \in Lookup, e.phase = "callers", e.undone = {},
         NEW files, RoundFits(D, e, {}, files)
  PROVE  e.found = Definitions(D, e.origin)
<1>1. /\ e.origin \in DOMAIN D /\ Covering(D, e, {}) /\ IsRounds(e) /\ CallersGive(D, e, {})
  BY DEF RoundFits, Collected, IsRounds, Phase, Lookup
<1>2. e.visited = CallChains(D, e.origin)
  BY <1>1, AllReached DEF Reach
<1>3. Got(e, {}) = e.visited
  BY DEF Got
<1> QED
  BY <1>1, <1>2, <1>3 DEF CallersGive, Definitions

LEMMA DefinitionsFound ==
  ASSUME NEW D, Sound(D), NEW e \in Lookup, e.phase = "definitions", e.undone = {},
         NEW files, RoundFits(D, e, {}, files)
  PROVE  e.refs = Definitions(D, e.origin) /\ e.subs = PassedOn(D, e.origin)
<1> DEFINE S == Definitions(D, e.origin)
<1>1. /\ e.origin \in DOMAIN D /\ Covering(D, e, {}) /\ DefinitionsGive(D, e, {})
  BY DEF RoundFits, Collected
<1>2. e.visited = Alone(S)
  <2>1. CASE e.kind \in {"goto", "refs"}
    BY <1>1, <2>1, AllReached DEF Reach, IsRounds, Phase
  <2> QED
    BY <2>1 DEF Lookup
<1>3. Got(e, {}) = Alone(S)
  BY <1>2 DEF Got
<1> HIDE DEF S
<1>4. {p[1] : p \in Alone(S)} = S
  <2>1. \A u \in S : u \in {p[1] : p \in Alone(S)}
    BY AlonePairs
  <2>2. \A u \in {p[1] : p \in Alone(S)} : u \in S
    BY AlonePairs
  <2> QED
    BY <2>1, <2>2
<1>5. UNION {D[p[1]].text.after : p \in Alone(S)} = Called(D, S)
  <2>1. ASSUME NEW u \in S
        PROVE  D[u].text.after \in {D[p[1]].text.after : p \in Alone(S)}
    <3>1. PICK p \in Alone(S) : p[1] = u
      BY AlonePairs
    <3> QED
      BY <3>1
  <2>2. ASSUME NEW p \in Alone(S)
        PROVE  D[p[1]].text.after \in {D[u].text.after : u \in S}
    BY AlonePairs
  <2>3. {D[p[1]].text.after : p \in Alone(S)} = {D[u].text.after : u \in S}
    BY <2>1, <2>2
  <2> QED
    BY <2>3 DEF Called
<1> QED
  BY <1>1, <1>3, <1>4, <1>5 DEF DefinitionsGive, PassedOn, S

LEMMA SubscriptsFound ==
  ASSUME NEW D, Sound(D), NEW e \in Lookup, e.phase = "subscripts", e.undone = {},
         NEW files, RoundFits(D, e, {}, files)
  PROVE  e.refs = files
<1> DEFINE o == e.origin
           I == Inheriting(D, PassedOn(D, o))
<1>1. /\ o \in DOMAIN D /\ Covering(D, e, {}) /\ SubscriptsGive(D, e, {})
      /\ e.kind = "refs" /\ files = FoundReferences(D, o) /\ IsRounds(e)
  BY DEF RoundFits, Collected, Found, SubscriptsGive, Defined, IsRounds, Phase
<1>2. Got(e, {}) = Alone(I)
  BY <1>1, AllReached DEF Reach, Got
<1> HIDE DEF I, o
<1>3. {u \in DOMAIN D : D[u].text.uses /\ \E p \in Alone(I) : p[1] = u}
        = {u \in I \intersect DOMAIN D : D[u].text.uses}
  <2>1. \A u : (\E p \in Alone(I) : p[1] = u) <=> u \in I
    BY AlonePairs
  <2> QED
    BY <2>1
<1>4. e.refs = Definitions(D, o) \union {u \in I \intersect DOMAIN D : D[u].text.uses}
  BY <1>1, <1>2, <1>3 DEF SubscriptsGive, o
<1>5. /\ D[o].text.search # "none" /\ Definitions(D, o) # {}
  BY <1>1 DEF SubscriptsGive, Defined, o
<1>6. FoundReferences(D, o)
        = Definitions(D, o) \union {u \in I \intersect DOMAIN D : D[u].text.uses}
  BY <1>5 DEF FoundReferences, I, PassedOn, Called, Everywhere
<1> QED
  BY <1>1, <1>4, <1>6

----------------------------------------------------------------------------
(* The result of a task of a round.                                        *)

LEMMA AskedFits ==
  ASSUME NEW D, Sound(D), NEW e \in Lookup, IsRounds(e), e.total # 0, NEW R, NEW files,
         RoundFits(D, e, R, files), NEW t \in R, t \in LookupTask
  PROVE  RoundFits(D, Asked(e, t), R \ {t}, files)
<1> DEFINE x == Asked(e, t)
           Q == R \ {t}
<1>1. /\ e.origin \in DOMAIN D /\ Covering(D, e, R) /\ Collected(D, e, R)
      /\ files = Found(D, e.kind, e.origin) /\ e.phase \in Phase
  BY DEF RoundFits, IsRounds
<1>2. PICK p \in e.visited : t = TaskOf(D, e, p)
  BY <1>1 DEF Covering
<1>3. /\ p[1] \in DOMAIN D /\ p \in Uri \X Uri /\ p = <<p[1], p[2]>>
      /\ e.visited \subseteq Uri \X Uri
  BY <1>1 DEF Covering, Lookup
<1>4. t.uri = p[1] /\ t.callee = p[2] /\ t.text = D[p[1]].text /\ PairOf(t) = p
      /\ (e.phase = "callers" => t.callers = D[p[1]].callers)
  BY <1>2, <1>3 DEF TaskOf, PairOf
<1>5. ASSUME NEW s \in Q
      PROVE  PairOf(s) # p
  <2>1. PICK q \in e.visited : s = TaskOf(D, e, q)
    BY <1>1 DEF Covering
  <2>2. q = <<q[1], q[2]>> /\ s.uri = q[1] /\ s.callee = q[2]
    BY <1>3, <2>1 DEF TaskOf
  <2>3. PairOf(s) = q
    BY <2>2 DEF PairOf
  <2>4. s # t
    OBVIOUS
  <2> QED
    BY <1>2, <2>1, <2>3, <2>4
<1>6. /\ x.visited = e.visited /\ x.origin = e.origin /\ x.kind = e.kind /\ x.id = e.id
      /\ x.phase = e.phase
      /\ x.total = 0 => x.undone = {}
      /\ e.phase = "callers" =>
           /\ x.undone = e.undone \union More(D, e.phase, p)
           /\ x.found = e.found \union {u \in {p[1]} : DefinesFor(D[u].text, p[2])}
           /\ x.subs = e.subs /\ x.refs = e.refs
      /\ e.phase = "definitions" =>
           /\ x.undone = e.undone
           /\ x.refs = e.refs \union {p[1]} /\ x.subs = e.subs \union D[p[1]].text.after
      /\ e.phase = "subscripts" =>
           /\ x.undone = e.undone \union More(D, e.phase, p)
           /\ x.refs = e.refs \union {u \in {p[1]} : D[u].text.uses}
  <2>1. ASSUME NEW y \in Lookup, y.total = e.total, x = Advance(y)
        PROVE  /\ x.visited = y.visited /\ x.origin = y.origin /\ x.kind = y.kind /\ x.id = y.id
               /\ x.phase = y.phase /\ x.undone = y.undone /\ x.found = y.found
               /\ x.subs = y.subs /\ x.refs = y.refs
               /\ x.total = 0 => x.undone = {}
    <3>1. CASE y.counted + 1 >= y.total
      <4>1. x = [y EXCEPT !.ready = TRUE, !.counted = 0,
                          !.total = IF y.undone = {} THEN 0 ELSE y.total]
        BY <2>1, <3>1 DEF Advance
      <4> HIDE DEF x
      <4> QED
        BY <2>1, <4>1 DEF Lookup
    <3>2. CASE ~(y.counted + 1 >= y.total)
      <4>1. x = [y EXCEPT !.counted = y.counted + 1]
        BY <2>1, <3>2 DEF Advance
      <4> HIDE DEF x
      <4> QED
        BY <2>1, <4>1 DEF Lookup
    <3> QED
      BY <3>1, <3>2
  <2>2. CASE e.phase = "callers"
    <3> DEFINE f == e.found \union {u \in {t.uri} : DefinesFor(t.text, t.callee)}
               v == e.undone \union IF UnresolvedFor(t.text, t.callee)
                                    THEN {<<c, t.uri>> : c \in t.callers} ELSE {}
               y == [e EXCEPT !.found = f, !.undone = v]
    <3>1. x = Advance(y)
      BY <2>2 DEF Asked, CallersAsked
    <3>2. f \in SUBSET Uri /\ v \in SUBSET (Uri \X Uri)
      BY DEF Lookup, LookupTask
    <3>3. f = e.found \union {u \in {p[1]} : DefinesFor(D[u].text, p[2])}
      BY <1>4
    <3>4. v = e.undone \union More(D, e.phase, p)
      BY <1>4, <2>2 DEF More, CallersOfPair
    <3> HIDE DEF f, v, x
    <3>5. /\ y \in Lookup /\ y.total = e.total /\ y.visited = e.visited /\ y.origin = e.origin
          /\ y.kind = e.kind /\ y.id = e.id /\ y.phase = e.phase /\ y.undone = v /\ y.found = f
          /\ y.subs = e.subs /\ y.refs = e.refs
      BY <3>2 DEF Lookup
    <3> HIDE DEF y
    <3> QED
      BY <2>1, <2>2, <3>1, <3>3, <3>4, <3>5
  <2>3. CASE e.phase = "definitions"
    <3> DEFINE f == e.refs \union {t.uri}
               v == e.subs \union t.text.after
               y == [e EXCEPT !.refs = f, !.subs = v]
    <3>1. x = Advance(y)
      BY <2>3 DEF Asked, DefinitionsAsked
    <3>2. f \in SUBSET Uri /\ v \in SUBSET Uri
      BY TextFiles DEF Lookup, LookupTask
    <3>3. f = e.refs \union {p[1]} /\ v = e.subs \union D[p[1]].text.after
      BY <1>4
    <3> HIDE DEF f, v, x
    <3>5. /\ y \in Lookup /\ y.total = e.total /\ y.visited = e.visited /\ y.origin = e.origin
          /\ y.kind = e.kind /\ y.id = e.id /\ y.phase = e.phase /\ y.undone = e.undone
          /\ y.subs = v /\ y.refs = f
      BY <3>2 DEF Lookup
    <3> HIDE DEF y
    <3> QED
      BY <2>1, <2>3, <3>1, <3>3, <3>5
  <2>4. CASE e.phase = "subscripts"
    <3> DEFINE f == e.refs \union {u \in {t.uri} : t.text.uses}
               v == e.undone \union Alone(t.text.inherits)
               y == [e EXCEPT !.refs = f, !.undone = v]
    <3>1. x = Advance(y)
      BY <2>4 DEF Asked, SubscriptsAsked
    <3>2. f \in SUBSET Uri /\ v \in SUBSET (Uri \X Uri)
      BY TextFiles DEF Lookup, LookupTask, Alone
    <3>3. f = e.refs \union {u \in {p[1]} : D[u].text.uses}
      BY <1>4
    <3>4. v = e.undone \union More(D, e.phase, p)
      BY <1>4, <2>4 DEF More
    <3> HIDE DEF f, v, x
    <3>5. /\ y \in Lookup /\ y.total = e.total /\ y.visited = e.visited /\ y.origin = e.origin
          /\ y.kind = e.kind /\ y.id = e.id /\ y.phase = e.phase /\ y.undone = v /\ y.refs = f
      BY <3>2 DEF Lookup
    <3> HIDE DEF y
    <3> QED
      BY <2>1, <2>4, <3>1, <3>3, <3>4, <3>5
  <2> HIDE DEF x
  <2> QED
    BY <1>1, <2>2, <2>3, <2>4 DEF Phase
<1> HIDE DEF x
<1>7. Got(x, Q) = Got(e, R) \union {p}
  <2>1. p \in Got(x, Q)
    BY <1>5, <1>6 DEF Got
  <2>2. Got(e, R) \subseteq Got(x, Q)
    BY <1>6 DEF Got
  <2>3. ASSUME NEW q \in Got(x, Q), q # p
        PROVE  q \in Got(e, R)
    BY <1>4, <1>6, <2>3 DEF Got
  <2> QED
    BY <2>1, <2>2, <2>3
<1>8. More(D, e.phase, p) \subseteq Reach(D, e)
  <2>1. p \in Reach(D, e)
    BY <1>1 DEF Covering, Pairs
  <2>2. CASE e.phase = "callers"
    <3>1. p \in CallChains(D, e.origin)
      BY <2>1, <2>2 DEF Reach
    <3>2. CASE UnresolvedFor(D[p[1]].text, p[2])
      <4>1. p \in SearchedIn(D, CallChains(D, e.origin))
        BY <1>3, <3>1, <3>2 DEF SearchedIn
      <4>2. CallersOfPair(D, p) \subseteq CallChains(D, e.origin)
        BY <1>1, <4>1, ChainsOf
      <4> QED
        BY <2>2, <3>2, <4>2 DEF More, Reach
    <3>3. CASE ~UnresolvedFor(D[p[1]].text, p[2])
      BY <2>2, <3>3 DEF More
    <3> QED
      BY <3>2, <3>3
  <2>3. CASE e.phase = "definitions"
    BY <2>3 DEF More
  <2>4. CASE e.phase = "subscripts"
    <3> DEFINE S == PassedOn(D, e.origin)
    <3>1. p[1] \in Inheriting(D, S)
      BY <2>1, <2>4 DEF Reach, Alone
    <3>2. S \in SUBSET Uri
      BY <1>1, PassedOnIn
    <3> HIDE DEF S
    <3>3. D[p[1]].text.inherits \subseteq Inheriting(D, S)
      BY <1>3, <3>1, <3>2, InheritingOf
    <3> QED
      BY <2>4, <3>3 DEF More, Reach, Alone, S
  <2> QED
    BY <1>1, <2>2, <2>3, <2>4 DEF Phase
<1>9. /\ First(D, x) = First(D, e) /\ Reach(D, x) = Reach(D, e)
      /\ \A q : TaskOf(D, x, q) = TaskOf(D, e, q)
  BY <1>6 DEF First, Reach, TaskOf
<1>10. Pairs(x) = Pairs(e) \union More(D, e.phase, p)
  <2>1. CASE e.phase = "definitions"
    BY <1>6, <2>1 DEF Pairs, More
  <2>2. CASE e.phase # "definitions"
    BY <1>1, <1>6, <2>2 DEF Pairs, Phase
  <2> QED
    BY <2>1, <2>2
<1>11. Covering(D, x, Q)
  <2>1. First(D, x) \subseteq Pairs(x) /\ Pairs(x) \subseteq Reach(D, x)
    BY <1>1, <1>8, <1>9, <1>10 DEF Covering
  <2>2. \A q \in x.visited : q[1] \in DOMAIN D
    BY <1>1, <1>6 DEF Covering
  <2>3. \A q \in Got(x, Q) : More(D, x.phase, q) \subseteq Pairs(x)
    BY <1>1, <1>6, <1>7, <1>10 DEF Covering
  <2>4. \A s \in Q : \E q \in x.visited : s = TaskOf(D, x, q)
    BY <1>1, <1>6, <1>9 DEF Covering
  <2> QED
    BY <1>6, <2>1, <2>2, <2>3, <2>4 DEF Covering
<1>12. CASE e.phase = "callers"
  <2>1. CallersGive(D, e, R)
    BY <1>1, <1>12 DEF Collected
  <2>2. {u \in DOMAIN D : \E q \in Got(x, Q) : q[1] = u /\ DefinesFor(D[u].text, q[2])}
          = {u \in DOMAIN D : \E q \in Got(e, R) : q[1] = u /\ DefinesFor(D[u].text, q[2])}
              \union {u \in {p[1]} : DefinesFor(D[u].text, p[2])}
    BY <1>3, <1>7
  <2>3. CallersGive(D, x, Q)
    BY <1>6, <1>12, <2>1, <2>2 DEF CallersGive
  <2>4. Collected(D, x, Q)
    BY <1>6, <1>12, <2>3 DEF Collected
  <2> QED
    BY <1>1, <1>6, <1>11, <2>4 DEF RoundFits, x
<1>13. CASE e.phase = "definitions"
  <2>1. DefinitionsGive(D, e, R)
    BY <1>1, <1>13 DEF Collected
  <2>2. {q[1] : q \in Got(x, Q)} = {q[1] : q \in Got(e, R)} \union {p[1]}
    BY <1>7
  <2>3. UNION {D[q[1]].text.after : q \in Got(x, Q)}
          = (UNION {D[q[1]].text.after : q \in Got(e, R)}) \union D[p[1]].text.after
    BY <1>7
  <2>4. Defined(D, x)
    BY <1>6, <2>1 DEF DefinitionsGive, Defined
  <2>5. x.subs = Everywhere(D, x.origin) \union UNION {D[q[1]].text.after : q \in Got(x, Q)}
    BY <1>6, <1>13, <2>1, <2>3 DEF DefinitionsGive
  <2>6. x.refs = {q[1] : q \in Got(x, Q)}
    BY <1>6, <1>13, <2>1, <2>2 DEF DefinitionsGive
  <2>7. DefinitionsGive(D, x, Q)
    BY <2>4, <2>5, <2>6 DEF DefinitionsGive
  <2>8. Collected(D, x, Q)
    BY <1>6, <1>13, <2>7 DEF Collected
  <2> QED
    BY <1>1, <1>6, <1>11, <2>8 DEF RoundFits, x
<1>14. CASE e.phase = "subscripts"
  <2>1. SubscriptsGive(D, e, R)
    BY <1>1, <1>14 DEF Collected
  <2>2. {u \in DOMAIN D : D[u].text.uses /\ \E q \in Got(x, Q) : q[1] = u}
          = {u \in DOMAIN D : D[u].text.uses /\ \E q \in Got(e, R) : q[1] = u}
              \union {u \in {p[1]} : D[u].text.uses}
    BY <1>3, <1>7
  <2>3. SubscriptsGive(D, x, Q)
    BY <1>6, <1>14, <2>1, <2>2 DEF SubscriptsGive, Defined
  <2>4. Collected(D, x, Q)
    BY <1>6, <1>14, <2>3 DEF Collected
  <2> QED
    BY <1>1, <1>6, <1>11, <2>4 DEF RoundFits, x
<1> QED
  BY <1>1, <1>12, <1>13, <1>14 DEF Phase

(* A round is queued.                                                      *)
LEMMA QueueFits ==
  ASSUME NEW D, NEW e \in Lookup, NEW files, RoundFits(D, e, {}, files),
         \A p \in New(e) : p[1] \in DOMAIN D
  PROVE  RoundFits(D, Queue(e), {TaskOf(D, e, p) : p \in New(e)}, files)
<1> DEFINE x == Queue(e)
           N == New(e)
           R == {TaskOf(D, e, p) : p \in N}
<1>1. Covering(D, e, {}) /\ Collected(D, e, {}) /\ Got(e, {}) = e.visited
  BY DEF RoundFits, Got
<1>2. N = e.undone \ e.visited /\ N \subseteq Uri \X Uri
  BY DEF New, Lookup
<1>3. CASE e.undone = {}
  <2>1. x = e /\ R = {}
    BY <1>2, <1>3 DEF Queue
  <2> QED
    BY <2>1
<1>4. CASE e.undone # {}
  <2> DEFINE v == e.visited \union N
             c == Cardinality(N)
  <2>1. x = [e EXCEPT !.total = c, !.ready = FALSE, !.counted = 0, !.visited = v, !.undone = {}]
    BY <1>4 DEF Queue
  <2> HIDE DEF x, c
  <2>2. /\ x.visited = v /\ x.undone = {} /\ x.kind = e.kind /\ x.id = e.id
        /\ x.phase = e.phase /\ x.origin = e.origin /\ x.found = e.found /\ x.subs = e.subs
        /\ x.refs = e.refs
    BY <2>1 DEF Lookup
  <2>3. \A p \in N : PairOf(TaskOf(D, e, p)) = p
    BY <1>2 DEF PairOf, TaskOf
  <2>4. {PairOf(t) : t \in R} = N
    <3>1. \A p \in N : p \in {PairOf(t) : t \in R}
      <4> SUFFICES ASSUME NEW p \in N PROVE \E t \in R : PairOf(t) = p
        OBVIOUS
      <4>1. TaskOf(D, e, p) \in R
        OBVIOUS
      <4> HIDE DEF R
      <4> QED
        BY <2>3, <4>1
    <3>2. \A t \in R : PairOf(t) \in N
      BY <2>3
    <3> QED
      BY <3>1, <3>2
  <2> HIDE DEF N
  <2>5. Got(x, R) = e.visited
    BY <1>2, <2>2, <2>4 DEF Got
  <2>6. Pairs(x) = Pairs(e)
    BY <1>2, <2>2 DEF Pairs
  <2>7. /\ First(D, x) = First(D, e) /\ Reach(D, x) = Reach(D, e)
        /\ \A q : TaskOf(D, x, q) = TaskOf(D, e, q)
    BY <2>2 DEF First, Reach, TaskOf
  <2>8. Covering(D, x, R)
    <3>1. First(D, x) \subseteq Pairs(x) /\ Pairs(x) \subseteq Reach(D, x)
      BY <1>1, <2>6, <2>7 DEF Covering
    <3>2. \A q \in x.visited : q[1] \in DOMAIN D
      BY <1>1, <2>2 DEF Covering, N
    <3>3. \A q \in Got(x, R) : More(D, x.phase, q) \subseteq Pairs(x)
      BY <1>1, <2>2, <2>5, <2>6 DEF Covering
    <3>4. \A s \in R : \E q \in x.visited : s = TaskOf(D, x, q)
      BY <2>2, <2>7
    <3> HIDE DEF R
    <3> QED
      BY <2>2, <3>1, <3>2, <3>3, <3>4 DEF Covering
  <2> HIDE DEF R
  <2>9. Collected(D, x, R)
    <3>1. e.phase = "callers" => CallersGive(D, x, R)
      BY <1>1, <2>2, <2>5 DEF Collected, CallersGive
    <3>2. e.phase = "definitions" => DefinitionsGive(D, x, R)
      BY <1>1, <2>2, <2>5 DEF Collected, DefinitionsGive, Defined
    <3>3. e.phase = "subscripts" => SubscriptsGive(D, x, R)
      BY <1>1, <2>2, <2>5 DEF Collected, SubscriptsGive, Defined
    <3> QED
      BY <2>2, <3>1, <3>2, <3>3 DEF Collected
  <2> QED
    BY <2>2, <2>8, <2>9 DEF RoundFits, x, R, N
<1> QED
  BY <1>3, <1>4

(* The start of a phase with all its pairs still to be asked.              *)
LEMMA StartFits ==
  ASSUME NEW D, NEW e \in Lookup, e.origin \in DOMAIN D,
         e.visited = {}, e.undone = First(D, e), First(D, e) \subseteq Reach(D, e),
         e.total = 0 => e.undone = {}
  PROVE  Covering(D, e, {}) /\ Got(e, {}) = {}
BY DEF Covering, Got, Pairs

LEMMA NoPairs ==
  ASSUME NEW S \in SUBSET Uri, Cardinality(S) = 0
  PROVE  Alone(S) = {}
<1>1. S = {}
  BY FilesFinite, FS_EmptySet
<1> QED
  BY <1>1 DEF Alone

(* A phase of a search for references ends and the next one begins.        *)
LEMMA ConcludeFits ==
  ASSUME NEW D, Sound(D), NEW e \in Lookup, NEW files, RoundFits(D, e, {}, files),
         Finished(e), e.kind = "refs", e.phase # "subscripts", Conclude(e) # Empty
  PROVE  RoundFits(D, Conclude(e), {}, files)
<1> DEFINE x == Conclude(e)
           o == e.origin
<1>1. /\ e.undone = {} /\ e.phase \in Phase /\ o \in DOMAIN D
      /\ files = FoundReferences(D, o) /\ Got(e, {}) = e.visited
      /\ Covering(D, e, {}) /\ Collected(D, e, {})
  BY DEF Finished, IsRounds, RoundFits, Covering, Found, Got
<1>2. CASE e.phase = "callers"
  <2> DEFINE S == Definitions(D, o)
  <2>1. e.found = S /\ CallersGive(D, e, {})
    BY <1>1, <1>2, CallersFound DEF Collected
  <2>2. S \in SUBSET Uri /\ S # {}
    <3>1. S \subseteq DOMAIN D /\ DOMAIN D \subseteq Uri
      BY <1>1, DefinitionsIn DEF Sound
    <3>2. S # {}
      BY <1>2, <2>1 DEF Conclude
    <3> QED
      BY <3>1, <3>2
  <2>3. x = Start(e, "definitions", Alone(e.found), Cardinality(e.found))
    BY <1>2, <2>1, <2>2 DEF Conclude
  <2>4. Alone(S) \in SUBSET (Uri \X Uri) /\ Cardinality(S) \in Nat
    BY <2>2, FilesFinite DEF Alone
  <2> HIDE DEF x, S
  <2>5. /\ x \in Lookup /\ x.kind = "refs" /\ x.id = e.id /\ x.phase = "definitions"
        /\ x.origin = o /\ x.visited = {} /\ x.undone = Alone(S) /\ x.total = Cardinality(S)
        /\ x.subs = e.subs /\ x.refs = e.refs
    BY <2>1, <2>3, <2>4 DEF Start, Lookup, Phase
  <2>6. First(D, x) = Alone(S) /\ Reach(D, x) = Alone(S)
    BY <2>5 DEF First, Reach, S
  <2>7. x.total = 0 => x.undone = {}
    BY <2>2, <2>5, NoPairs
  <2>8. Covering(D, x, {}) /\ Got(x, {}) = {}
    BY <1>1, <2>5, <2>6, <2>7, StartFits
  <2>9. Everywhere(D, o) = {}
    BY <2>1 DEF CallersGive, Everywhere
  <2>10. Defined(D, x)
    BY <2>1, <2>2, <2>5 DEF Defined, CallersGive, Unresolved, S
  <2>11. DefinitionsGive(D, x, {})
    BY <2>1, <2>5, <2>8, <2>9, <2>10 DEF DefinitionsGive, CallersGive
  <2>12. Collected(D, x, {})
    BY <2>5, <2>11 DEF Collected
  <2> QED
    BY <1>1, <2>5, <2>8, <2>12 DEF RoundFits, Found, x
<1>3. CASE e.phase = "definitions"
  <2> DEFINE S == PassedOn(D, o)
  <2>1. e.refs = Definitions(D, o) /\ e.subs = S /\ DefinitionsGive(D, e, {})
    BY <1>1, <1>3, DefinitionsFound DEF Collected
  <2>2. S \in SUBSET Uri
    BY <1>1, PassedOnIn
  <2>3. x = Start(e, "subscripts", Alone(S), Cardinality(S))
    BY <1>3, <2>1 DEF Conclude
  <2>4. Alone(S) \in SUBSET (Uri \X Uri) /\ Cardinality(S) \in Nat
    BY <2>2, FilesFinite DEF Alone
  <2> HIDE DEF x, S
  <2>5. /\ x \in Lookup /\ x.kind = "refs" /\ x.id = e.id /\ x.phase = "subscripts"
        /\ x.origin = o /\ x.visited = {} /\ x.undone = Alone(S) /\ x.total = Cardinality(S)
        /\ x.refs = e.refs
    BY <2>3, <2>4 DEF Start, Lookup, Phase
  <2>6. First(D, x) = Alone(S) /\ Reach(D, x) = Alone(Inheriting(D, S))
    BY <2>5 DEF First, Reach, S
  <2>7. Alone(S) \subseteq Alone(Inheriting(D, S))
    <3>1. S \subseteq Inheriting(D, S)
      BY <2>2, InheritingOf
    <3> QED
      BY <3>1 DEF Alone
  <2>8. x.total = 0 => x.undone = {}
    BY <2>2, <2>5, NoPairs
  <2>9. Covering(D, x, {}) /\ Got(x, {}) = {}
    BY <1>1, <2>5, <2>6, <2>7, <2>8, StartFits
  <2>10. SubscriptsGive(D, x, {})
    BY <2>1, <2>5, <2>9 DEF DefinitionsGive, Defined, SubscriptsGive
  <2>11. Collected(D, x, {})
    BY <2>5, <2>10 DEF Collected
  <2> QED
    BY <1>1, <2>5, <2>9, <2>11 DEF RoundFits, Found, x
<1> QED
  BY <1>1, <1>2, <1>3 DEF Phase

(* A search for references that ends without a definition leaves an empty  *)
(* slot.                                                                   *)
LEMMA EmptiedBy ==
  ASSUME NEW e \in Lookup, IsRounds(e), Conclude(e) = Empty
  PROVE  e.kind = "refs" /\ e.phase = "callers" /\ e.found = {}
<1>1. e.kind \in {"goto", "refs"} /\ Empty.kind = "empty"
  BY DEF Lookup, Empty
<1>2. CASE e.kind = "goto"
  <2>1. Conclude(e).kind = "goto"
    BY <1>2 DEF Conclude, Lookup
  <2> QED
    BY <1>1, <2>1
<1>3. CASE e.kind = "refs" /\ e.phase = "callers" /\ e.found # {}
  <2>1. Conclude(e) = Start(e, "definitions", Alone(e.found), Cardinality(e.found))
    BY <1>3 DEF Conclude
  <2>2. Conclude(e).kind = "refs"
    BY <1>3, <2>1 DEF Start, Lookup
  <2> QED
    BY <1>1, <2>2
<1>4. CASE e.kind = "refs" /\ e.phase = "definitions"
  <2>1. Conclude(e) = Start(e, "subscripts", Alone(e.subs), Cardinality(e.subs))
    BY <1>4 DEF Conclude
  <2>2. Conclude(e).kind = "refs"
    BY <1>4, <2>1 DEF Start, Lookup
  <2> QED
    BY <1>1, <2>2
<1>5. CASE e.kind = "refs" /\ e.phase = "subscripts"
  <2>1. Conclude(e).kind = "refs"
    BY <1>5 DEF Conclude, Lookup
  <2> QED
    BY <1>1, <2>1
<1> QED
  BY <1>1, <1>2, <1>3, <1>4, <1>5 DEF IsRounds, Phase

LEMMA EmptiedFits ==
  ASSUME NEW D, Sound(D), NEW e \in Lookup, NEW files, RoundFits(D, e, {}, files),
         Finished(e), Conclude(e) = Empty
  PROVE  D[e.origin].listed /\ Definitions(D, e.origin) = {}
<1>1. e.undone = {} /\ e.phase \in Phase /\ Covering(D, e, {}) /\ Collected(D, e, {})
  BY DEF Finished, IsRounds, RoundFits, Covering
<1>2. e.kind = "refs" /\ e.phase = "callers" /\ e.found = {}
  BY EmptiedBy DEF Finished
<1> QED
  BY <1>1, <1>2, CallersFound DEF Collected, CallersGive

(* What is handed over.                                                    *)
LEMMA DoneByFits ==
  ASSUME Sound(docs), NEW e \in Lookup, NEW files, RoundFits(docs, e, {}, files),
         NEW d \in DoneBy(e)
  PROVE  d.id = e.id /\ d.files = files /\ Finished(e) /\ (e.kind = "goto" \/ e.phase # "definitions")
<1> DEFINE o == e.origin
<1>1. Finished(e) /\ e.kind \in {"goto", "refs"}
  BY DEF DoneBy, Lookup
<1>2. /\ e.undone = {} /\ e.phase \in Phase /\ files = Found(docs, e.kind, o)
      /\ o \in DOMAIN docs /\ Collected(docs, e, {})
  BY <1>1 DEF Finished, IsRounds, RoundFits, Covering
<1>3. CASE e.kind = "goto"
  <2>1. d.id = e.id /\ d.files = e.found \union Globals(o)
    BY <1>1, <1>3 DEF DoneBy
  <2>2. e.phase = "callers"
    BY <1>2, <1>3 DEF Collected, DefinitionsGive, SubscriptsGive, Defined, Phase
  <2>3. e.found = Definitions(docs, o) /\ CallersGive(docs, e, {})
    BY <1>2, <2>2, CallersFound DEF Collected
  <2>4. files = FoundDefinitions(docs, o)
    BY <1>2, <1>3 DEF Found
  <2>5. FoundDefinitions(docs, o) = Definitions(docs, o) \union Globals(o)
    BY <2>3 DEF FoundDefinitions, Globals, CallersGive, Known
  <2> QED
    BY <1>1, <1>3, <2>1, <2>3, <2>4, <2>5
<1>4. CASE e.kind = "refs"
  <2>1. files = FoundReferences(docs, o)
    BY <1>2, <1>4 DEF Found
  <2>2. CASE e.phase = "callers"
    <3>1. e.found = {} /\ d = [id |-> e.id, files |-> {o}]
      BY <1>1, <1>4, <2>2 DEF DoneBy
    <3>2. Definitions(docs, o) = {} /\ CallersGive(docs, e, {})
      BY <1>2, <2>2, <3>1, CallersFound DEF Collected
    <3>3. docs[o].text.search # "none"
      BY <3>2 DEF CallersGive, Unresolved
    <3>4. FoundReferences(docs, o) = {o}
      BY <3>2, <3>3 DEF FoundReferences
    <3> QED
      BY <1>1, <2>1, <2>2, <3>1, <3>4
  <2>3. CASE e.phase = "definitions"
    BY <1>1, <1>4, <2>3 DEF DoneBy
  <2>4. CASE e.phase = "subscripts"
    <3>1. d = [id |-> e.id, files |-> e.refs]
      BY <1>1, <1>4, <2>4 DEF DoneBy
    <3> QED
      BY <1>1, <1>2, <2>4, <3>1, SubscriptsFound
  <2> QED
    BY <1>2, <2>2, <2>3, <2>4 DEF Phase
<1> QED
  BY <1>1, <1>3, <1>4

----------------------------------------------------------------------------
(* A lookup after its own document, whose result is compared with Found.   *)

LEMMA NewEntryFields ==
  ASSUME NEW kind \in {"goto", "refs"}, NEW id \in Nat, NEW o \in Uri
  PROVE  /\ NewEntry(kind, id, o) \in Lookup
         /\ NewEntry(kind, id, o).kind = kind /\ NewEntry(kind, id, o).id = id
         /\ NewEntry(kind, id, o).origin = o
         /\ NewEntry(kind, id, o).found = {} /\ NewEntry(kind, id, o).subs = {}
         /\ NewEntry(kind, id, o).refs = {}
BY DEF NewEntry, Lookup

LEMMA StartFields ==
  ASSUME NEW e \in Lookup, NEW phase, NEW pairs, NEW total
  PROVE  /\ Start(e, phase, pairs, total).kind = e.kind
         /\ Start(e, phase, pairs, total).id = e.id
         /\ Start(e, phase, pairs, total).origin = e.origin
         /\ Start(e, phase, pairs, total).phase = phase
         /\ Start(e, phase, pairs, total).undone = pairs
         /\ Start(e, phase, pairs, total).visited = {}
         /\ Start(e, phase, pairs, total).total = total
         /\ Start(e, phase, pairs, total).found = e.found
         /\ Start(e, phase, pairs, total).subs = e.subs
         /\ Start(e, phase, pairs, total).refs = e.refs
BY DEF Start, Lookup

LEMMA AskCallersFits ==
  ASSUME Sound(docs), NEW kind \in {"goto", "refs"}, NEW id \in Nat, NEW o \in Known,
         Unresolved(docs[o].text), docs[o].listed,
         NEW here \in SUBSET Uri, here = {u \in {o} : Defines(docs[o].text)}
  PROVE  RoundFits(docs, AskCallers(NewEntry(kind, id, o), o, here), {},
                   Found(docs, kind, o))
<1> DEFINE e == NewEntry(kind, id, o)
           pairs == {<<c, o>> : c \in docs[o].callers}
           total == Cardinality(docs[o].callers)
           s == Start(e, "callers", pairs, total)
           x == AskCallers(e, o, here)
<1>1. o \in Uri /\ o \in DOMAIN docs /\ docs[o].callers \in SUBSET Uri
  BY SoundTexts DEF Known
<1>2. /\ e \in Lookup /\ e.kind = kind /\ e.id = id /\ e.origin = o
      /\ e.subs = {} /\ e.refs = {}
  BY <1>1, NewEntryFields
<1>3. pairs \in SUBSET (Uri \X Uri) /\ total \in Nat /\ "callers" \in Phase
  BY <1>1, FilesFinite DEF Phase
<1>4. x = [s EXCEPT !.found = here]
  BY DEF AskCallers
<1>5. total = 0 => pairs = {}
  <2>1. total = 0 => docs[o].callers = {}
    BY <1>1, FilesFinite, FS_EmptySet
  <2> QED
    BY <2>1
<1>6. pairs = {<<c, o>> : c \in docs[o].callers}
  OBVIOUS
<1> HIDE DEF pairs, total, e
<1>7. s \in Lookup
  BY <1>2, <1>3, StartEffect
<1>8. /\ s.kind = kind /\ s.origin = o /\ s.phase = "callers" /\ s.undone = pairs
      /\ s.visited = {} /\ s.total = total /\ s.subs = {} /\ s.refs = {}
  BY <1>2, StartFields
<1> HIDE DEF s, x
<1>9. /\ x \in Lookup /\ x.kind = kind /\ x.origin = o /\ x.phase = "callers"
      /\ x.undone = pairs /\ x.visited = {} /\ x.total = total /\ x.found = here
      /\ x.subs = {} /\ x.refs = {}
  BY <1>4, <1>7, <1>8 DEF Lookup
<1>10. First(docs, x) = pairs /\ Reach(docs, x) = CallChains(docs, o)
  BY <1>6, <1>9 DEF First, Reach
<1>11. pairs \subseteq CallChains(docs, o)
  BY <1>1, <1>6, ChainsOf
<1>12. Covering(docs, x, {}) /\ Got(x, {}) = {}
  BY <1>1, <1>5, <1>9, <1>10, <1>11, StartFits
<1>13. x.found = {u \in {o} : Defines(docs[u].text)}
                   \union {u \in DOMAIN docs : \E p \in Got(x, {}) :
                             p[1] = u /\ DefinesFor(docs[u].text, p[2])}
  BY <1>9, <1>12
<1>14. CallersGive(docs, x, {})
  BY <1>9, <1>13 DEF CallersGive
<1>15. Collected(docs, x, {})
  BY <1>9, <1>14 DEF Collected
<1>16. RoundFits(docs, x, {}, Found(docs, kind, o))
  BY <1>1, <1>9, <1>12, <1>15 DEF RoundFits
<1> QED
  BY <1>16 DEF x, e

(* The search ended in the document, or nobody is known to call it.        *)
LEMMA OwnDefinitions ==
  ASSUME NEW D, Sound(D), NEW o \in DOMAIN D, ~(Unresolved(D[o].text) /\ D[o].listed)
  PROVE  Definitions(D, o) = {u \in {o} : Defines(D[o].text)}
<1>1. CASE Unresolved(D[o].text)
  BY <1>1, NoCallers
<1>2. CASE ~Unresolved(D[o].text)
  BY <1>2 DEF Definitions
<1> QED
  BY <1>1, <1>2

LEMMA AskDefinitionsFits ==
  ASSUME Sound(docs), NEW id \in Nat, NEW o \in Known,
         ~(Unresolved(docs[o].text) /\ docs[o].listed), Defines(docs[o].text)
  PROVE  RoundFits(docs, AskDefinitions(NewEntry("refs", id, o), o, docs[o].text), {},
                   Found(docs, "refs", o))
<1> DEFINE e == NewEntry("refs", id, o)
           pairs == Alone({o})
           s == Start(e, "definitions", pairs, 1)
           subs == IF docs[o].text.global THEN {v \in Known : Mentions(docs[v].text)} ELSE {}
           x == AskDefinitions(e, o, docs[o].text)
<1>1. o \in Uri /\ o \in DOMAIN docs /\ Known \subseteq Uri
  BY SoundTexts DEF Known, Sound
<1>2. e \in Lookup /\ e.kind = "refs" /\ e.id = id /\ e.origin = o
  BY <1>1, NewEntryFields
<1>3. pairs \in SUBSET (Uri \X Uri) /\ "definitions" \in Phase /\ subs \in SUBSET Uri
  BY <1>1 DEF Alone, Phase
<1>4. x = [s EXCEPT !.subs = subs]
  BY DEF AskDefinitions
<1>5. Definitions(docs, o) = {o}
  <2>1. Definitions(docs, o) = {u \in {o} : Defines(docs[o].text)}
    BY <1>1, OwnDefinitions
  <2> QED
    BY <2>1
<1>6. subs = Everywhere(docs, o)
  <2>1. o \in Definitions(docs, o)
    BY <1>5
  <2>2. \A u \in DOMAIN docs : u \in Everywhere(docs, o)
          <=> docs[o].text.global /\ Mentions(docs[u].text)
    BY <2>1 DEF Everywhere
  <2>3. Everywhere(docs, o) \subseteq DOMAIN docs
    BY DEF Everywhere
  <2>4. subs \subseteq DOMAIN docs
    BY DEF Known
  <2>5. \A u \in DOMAIN docs : u \in subs <=> docs[o].text.global /\ Mentions(docs[u].text)
    BY DEF Known
  <2> HIDE DEF subs
  <2> QED
    BY <2>2, <2>3, <2>4, <2>5
<1>7. pairs = Alone({o})
  OBVIOUS
<1> HIDE DEF pairs, subs, e
<1>8. s \in Lookup
  BY <1>2, <1>3, StartEffect
<1>9. /\ s.kind = "refs" /\ s.origin = o /\ s.phase = "definitions" /\ s.undone = pairs
      /\ s.visited = {} /\ s.total = 1 /\ s.refs = e.refs
  BY <1>2, StartFields
<1>10. e.refs = {}
  BY <1>1, NewEntryFields DEF e
<1> HIDE DEF s, x
<1>11. /\ x \in Lookup /\ x.kind = "refs" /\ x.origin = o /\ x.phase = "definitions"
       /\ x.undone = pairs /\ x.visited = {} /\ x.total = 1
       /\ x.subs = subs /\ x.refs = {}
  BY <1>3, <1>4, <1>8, <1>9, <1>10 DEF Lookup
<1>12. First(docs, x) = pairs /\ Reach(docs, x) = pairs
  BY <1>5, <1>7, <1>11 DEF First, Reach
<1>13. Covering(docs, x, {}) /\ Got(x, {}) = {}
  BY <1>1, <1>11, <1>12, StartFits
<1>14. docs[o].text.search # "none"
  BY DEF Defines
<1>15. Defined(docs, x)
  BY <1>5, <1>11, <1>14 DEF Defined
<1>16. DefinitionsGive(docs, x, {})
  BY <1>6, <1>11, <1>13, <1>15 DEF DefinitionsGive
<1>17. Collected(docs, x, {})
  BY <1>11, <1>16 DEF Collected
<1>18. RoundFits(docs, x, {}, Found(docs, "refs", o))
  BY <1>1, <1>11, <1>13, <1>17 DEF RoundFits
<1> QED
  BY <1>18 DEF x, e

(* A lookup that is answered after its own document.                       *)
LEMMA RespondedFits ==
  ASSUME NEW D, Sound(D), NEW o \in DOMAIN D, ~(Unresolved(D[o].text) /\ D[o].listed)
  PROVE  /\ Found(D, "goto", o) = {u \in {o} : Defines(D[o].text)}
         /\ ~Defines(D[o].text) =>
              Found(D, "refs", o) = IF D[o].text.search = "none" THEN {} ELSE {o}
<1>1. Definitions(D, o) = {u \in {o} : Defines(D[o].text)}
  BY OwnDefinitions
<1>2. Found(D, "goto", o) = {u \in {o} : Defines(D[o].text)}
  BY <1>1 DEF Found, FoundDefinitions
<1>3. ~Defines(D[o].text) => Definitions(D, o) = {}
  BY <1>1
<1>4. ~Defines(D[o].text) =>
        Found(D, "refs", o) = IF D[o].text.search = "none" THEN {} ELSE {o}
  BY <1>3 DEF Found, FoundReferences
<1> QED
  BY <1>2, <1>4

----------------------------------------------------------------------------
(* The stored documents and the changes under way.  A call names a file of *)
(* the index, or one that was renamed and is stored; a rename is of stored *)
(* files, and no other change is under way with it.                        *)

DocsFit ==
  /\ Sound(docs)
  /\ \A u \in Known : docs[u].text.calls \subseteq Workspace \union Known
  /\ \A u \in DOMAIN unscanned : unscanned[u].calls \subseteq Workspace

IsChange(t) == ~IsLookup(t)

ChangesFit ==
  /\ \A t \in Work : t.kind = "update" => t.text.calls \subseteq Workspace
  /\ \A t \in Work : t.kind = "rename" =>
       DOMAIN t.ops \subseteq Known /\ \A s \in Work : IsChange(s) => s = t

StoreFits == DocsFit /\ ChangesFit

LEMMA ChangesLeft ==
  ASSUME ChangesFit, Known \subseteq Known', \A t \in Work' : IsChange(t) => t \in Work
  PROVE  ChangesFit'
BY DEF ChangesFit, IsChange, IsLookup

LEMMA StoreLeft ==
  ASSUME StoreFits, UNCHANGED <<docs, unscanned>>, \A t \in Work' : IsChange(t) => t \in Work
  PROVE  StoreFits'
<1>1. Known' = Known
  BY DEF Known
<1>2. DocsFit'
  BY <1>1 DEF StoreFits, DocsFit
<1> QED
  BY <1>1, <1>2, ChangesLeft DEF StoreFits

LEMMA InitStore == Init => StoreFits
<1> SUFFICES ASSUME Init
             PROVE  StoreFits
  OBVIOUS
<1>1. PICK w \in Worlds :
        \/ /\ docs = [u \in {} |-> Empty] /\ unscanned = w
        \/ /\ \E reopened \in {{}} \union {{u} : u \in Workspace} : docs = Stored(w, reopened)
           /\ unscanned = [u \in {} |-> Empty]
  BY DEF Init
<1>2. /\ DOMAIN w \subseteq Workspace /\ w \in [DOMAIN w -> Text] /\ Workspace \subseteq Uri
      /\ \A u \in DOMAIN w : w[u].calls \subseteq Workspace
  BY LookupAssumption
<1>3. ChangesFit
  BY DEF Init, ChangesFit, Work
<1>4. CASE docs = [u \in {} |-> Empty] /\ unscanned = w
  <2>1. DOMAIN docs = {}
    BY <1>4
  <2>2. Sound(docs)
    BY <1>4, <2>1 DEF Sound
  <2> QED
    BY <1>2, <1>3, <1>4, <2>1, <2>2 DEF StoreFits, DocsFit, Known
<1>5. ASSUME NEW reopened, docs = Stored(w, reopened), unscanned = [u \in {} |-> Empty]
      PROVE  StoreFits
  <2>1. /\ DOMAIN docs = DOMAIN w
        /\ \A u \in DOMAIN w : /\ docs[u].text = w[u]
                               /\ docs[u].listed = (CallersIn(w, u) # {})
                               /\ docs[u].callers = CallersIn(w, u) \ (reopened \ {u})
    BY <1>5 DEF Stored
  <2>2. \A u \in DOMAIN w : CallersIn(w, u) \subseteq DOMAIN w
    BY DEF CallersIn
  <2>3. docs \in [DOMAIN docs -> Doc]
    BY InitLookup DEF LookupInv, TypeOK, Known
  <2>4. Sound(docs)
    BY <1>2, <2>1, <2>2, <2>3 DEF Sound
  <2> QED
    BY <1>2, <1>3, <1>5, <2>1, <2>4 DEF StoreFits, DocsFit, Known
<1> QED
  BY <1>1, <1>4, <1>5

LEMMA UpdateStore ==
  ASSUME LookupInv, LookupInv', StoreFits, NEW t \in pool, RecvUpdate(t)
  PROVE  StoreFits'
<1>1. /\ t.kind = "update" /\ pool' = pool \ {t}
      /\ docs' = [docs EXCEPT ![t.uri].text = t.text]
      /\ UNCHANGED <<unscanned, blocked>>
  BY DEF RecvUpdate, Received
<1>2. docs \in [Known -> Doc] /\ docs' \in [Known' -> Doc] /\ Known' \subseteq Uri /\ Known' = Known
  BY <1>1 DEF LookupInv, TypeOK, Known
<1>3. t.text.calls \subseteq Workspace
  BY <1>1 DEF StoreFits, ChangesFit, Work
<1>4. \A u \in Known : /\ docs'[u].callers = docs[u].callers /\ docs'[u].listed = docs[u].listed
                       /\ docs'[u].text \in {docs[u].text, t.text}
  BY <1>1, <1>2 DEF Doc
<1>5. DocsFit'
  BY <1>1, <1>2, <1>3, <1>4 DEF StoreFits, DocsFit, Sound, Known
<1>6. \A s \in Work' : s \in Work
  BY <1>1 DEF Work
<1> QED
  BY <1>2, <1>5, <1>6, ChangesLeft DEF StoreFits

LEMMA RenameStore ==
  ASSUME LookupInv, LookupInv', StoreFits, NEW t \in pool, RecvRename(t)
  PROVE  StoreFits'
<1> DEFINE ops == t.ops
           Old(u) == CHOOSE v \in Known : To(ops, v) = u
<1>1. /\ t.kind = "rename" /\ pool' = pool \ {t} /\ ongoing' = Remove(At(t))
      /\ docs' = [u \in Renamed(ops, Known) |-> RenamedDoc(ops, docs[Old(u)])]
      /\ UNCHANGED <<pc, unscanned, blocked, completed, client>>
  BY DEF RecvRename, Received
<1>2. docs \in [Known -> Doc] /\ docs' \in [Known' -> Doc] /\ Known' \subseteq Uri
  BY DEF LookupInv, TypeOK
<1>3. Known' = Renamed(ops, Known)
  BY <1>1 DEF Known
<1>4. DOMAIN ops \subseteq Known
  BY <1>1 DEF StoreFits, ChangesFit, Work
<1>5. ASSUME NEW S, S \subseteq Workspace \union Known
      PROVE  Renamed(ops, S) \subseteq Workspace \union Known'
  <2> SUFFICES ASSUME NEW w \in S
               PROVE  To(ops, w) \in Workspace \union Known'
    BY DEF Renamed
  <2>1. CASE w \in Known
    BY <1>3, <2>1 DEF Renamed
  <2>2. CASE w \in Workspace \ Known
    BY <1>4, <2>2 DEF To
  <2> QED
    BY <1>5, <2>1, <2>2
<1>6. \A S : S \subseteq Known => Renamed(ops, S) \subseteq Known'
  BY <1>3 DEF Renamed
<1>7. ASSUME NEW u \in Known'
      PROVE  /\ docs'[u].callers \subseteq Known'
             /\ docs'[u].callers # {} => docs'[u].listed
             /\ docs'[u].text.calls \subseteq Workspace \union Known'
  <2>1. PICK v \in Known : docs'[u] = RenamedDoc(ops, docs[v])
    <3>1. \E v \in Known : To(ops, v) = u
      BY <1>3 DEF Renamed
    <3>2. Old(u) \in Known
      BY <3>1
    <3>3. docs'[u] = RenamedDoc(ops, docs[Old(u)])
      BY <1>1, <1>3
    <3> QED
      BY <3>2, <3>3
  <2>2. /\ docs'[u].callers = Renamed(ops, docs[v].callers)
        /\ docs'[u].listed = docs[v].listed
        /\ docs'[u].text = RenamedText(ops, docs[v].text)
    BY <2>1 DEF RenamedDoc
  <2>3. /\ docs[v].callers \subseteq Known
        /\ docs[v].callers # {} => docs[v].listed
        /\ docs[v].text.calls \subseteq Workspace \union Known /\ docs[v].text \in Text
    BY <1>2 DEF StoreFits, DocsFit, Sound, Known, Doc
  <2>4. docs[v].callers = {} => Renamed(ops, docs[v].callers) = {}
    BY DEF Renamed
  <2>5. docs'[u].text.calls = Renamed(ops, docs[v].text.calls)
    <3> DEFINE y == docs[v].text
               S == Renamed(ops, y.calls)
               A == Renamed(ops, y.after)
               I == Renamed(ops, y.inherits)
    <3>1. y \in [calls : SUBSET Uri, search : {"final", "partial", "open", "none"},
                 global : BOOLEAN, after : SUBSET Uri, inherits : SUBSET Uri,
                 uses : BOOLEAN]
      BY <2>3, LookupAssumption
    <3>2. RenamedText(ops, y) = [y EXCEPT !.calls = S, !.after = A, !.inherits = I]
      BY DEF RenamedText
    <3> HIDE DEF S, A, I
    <3>3. RenamedText(ops, y).calls = S
      BY <3>1, <3>2
    <3> QED
      BY <2>2, <3>3 DEF S
  <2> QED
    BY <1>5, <1>6, <2>2, <2>3, <2>4, <2>5
<1> HIDE DEF Old, ops
<1>8. DocsFit'
  BY <1>1, <1>2, <1>7 DEF StoreFits, DocsFit, Sound, Known
<1>9. t \notin Work' /\ t \in Work /\ \A s \in Work' : s \in Work
  <2>1. ~IsRoundTask(t) /\ HasId(t)
    BY <1>1 DEF IsRoundTask, IsLookup, HasId
  <2>2. \A x \in Entries' \union Work' : HasId(x) => x.id # t.id
    BY <1>1, <2>1, EntryEnds DEF client
  <2> QED
    BY <1>1, <2>1, <2>2 DEF Work
<1>10. \A s \in Work' : ~IsChange(s)
  BY <1>1, <1>9 DEF StoreFits, ChangesFit
<1>11. ChangesFit'
  BY <1>10 DEF ChangesFit, IsChange, IsLookup
<1> QED
  BY <1>8, <1>11 DEF StoreFits

LEMMA ScanStore ==
  ASSUME LookupInv, LookupInv', StoreFits, NEW u \in DOMAIN unscanned, RecvScan(u)
  PROVE  StoreFits'
<1> DEFINE all == [v \in Known \union {u} |-> IF v = u THEN unscanned[u] ELSE docs[v].text]
           new == [text |-> all[u], listed |-> CallersIn(all, u) # {},
                   callers |-> CallersIn(all, u)]
<1>1. /\ unscanned' = [v \in DOMAIN unscanned \ {u} |-> unscanned[v]]
      /\ docs' = [v \in Known \union {u} |-> IF v = u THEN new ELSE docs[v]]
      /\ UNCHANGED tasks
  BY DEF RecvScan
<1>2. docs' \in [Known' -> Doc] /\ Known' \subseteq Uri
  BY DEF LookupInv, TypeOK
<1>3. CallersIn(all, u) \subseteq Known \union {u} /\ all[u] = unscanned[u]
  BY DEF CallersIn
<1>4. /\ new.text = unscanned[u] /\ new.callers \subseteq Known \union {u}
      /\ new.callers # {} => new.listed
  BY <1>3
<1> HIDE DEF new, all
<1>5. /\ Known' = Known \union {u}
      /\ \A v \in Known' : docs'[v] = IF v = u THEN new ELSE docs[v]
  BY <1>1 DEF Known
<1>6. Sound(docs)'
  BY <1>2, <1>4, <1>5 DEF StoreFits, DocsFit, Sound, Known
<1>7. \A v \in Known' : docs'[v].text.calls \subseteq Workspace \union Known'
  BY <1>4, <1>5 DEF StoreFits, DocsFit
<1>8. DocsFit'
  BY <1>1, <1>6, <1>7 DEF StoreFits, DocsFit
<1>9. Work' = Work
  BY <1>1 DEF tasks, Work
<1> QED
  BY <1>5, <1>8, <1>9, ChangesLeft DEF StoreFits

LEMMA DiscoveryStore ==
  ASSUME LookupInv, LookupInv', StoreFits, RecvDiscovery
  PROVE  StoreFits'
<1>1. /\ docs' = [u \in Known |->
                    [docs[u] EXCEPT !.listed = @ \/ CallersIn(Texts, u) # {},
                                    !.callers = @ \union CallersIn(Texts, u)]]
      /\ UNCHANGED <<unscanned, tasks>>
  BY DEF RecvDiscovery
<1>2. docs \in [Known -> Doc] /\ docs' \in [Known' -> Doc] /\ Known' \subseteq Uri
  BY DEF LookupInv, TypeOK
<1>3. Known' = Known
  BY <1>1 DEF Known
<1>4. ASSUME NEW u \in Known
      PROVE  /\ docs'[u].callers \subseteq Known
             /\ docs'[u].callers # {} => docs'[u].listed
             /\ docs'[u].text = docs[u].text
  <2> DEFINE S == CallersIn(Texts, u)
             c == docs[u].callers \union S
             l == docs[u].listed \/ S # {}
  <2>1. docs[u] \in Doc /\ docs'[u] = [docs[u] EXCEPT !.listed = l, !.callers = c]
    BY <1>1, <1>2
  <2>2. S \subseteq Known
    BY DEF CallersIn, Texts
  <2>3. docs[u].callers \subseteq Known /\ (docs[u].callers # {} => docs[u].listed)
    BY DEF StoreFits, DocsFit, Sound, Known
  <2>4. c \subseteq Known /\ (c # {} => l)
    BY <2>2, <2>3
  <2> HIDE DEF S, c, l
  <2>5. docs'[u].callers = c /\ docs'[u].listed = l /\ docs'[u].text = docs[u].text
    BY <2>1 DEF Doc
  <2> QED
    BY <2>4, <2>5
<1>5. DocsFit'
  BY <1>1, <1>2, <1>3, <1>4 DEF StoreFits, DocsFit, Sound, Known
<1>6. Work' = Work
  BY <1>1 DEF tasks, Work
<1> QED
  BY <1>3, <1>5, <1>6, ChangesLeft DEF StoreFits

LEMMA NewWork ==
  ASSUME NEW t, TrySchedule(t)
  PROVE  Work' = Work \union {t}
BY DEF TrySchedule, Schedule, Work

LEMMA MessageStore ==
  ASSUME LookupInv, StoreFits, ProcessMsg
  PROVE  StoreFits'
<1>1. ASSUME NEW u \in Uri, GoToDefinition(u) \/ FindReferences(u)
      PROVE  StoreFits'
  <2> DEFINE t(kind) == [kind |-> kind, id |-> next, phase |-> "origin", uri |-> u,
                         callee |-> u, text |-> docs[u].text, callers |-> {}]
  <2>1. PICK kind \in {"goto", "refs"} : TrySchedule(t(kind)) /\ UNCHANGED store
    BY <1>1 DEF GoToDefinition, FindReferences, LangRequest
  <2>2. ~IsChange(t(kind))
    BY DEF IsChange, IsLookup
  <2> HIDE DEF t
  <2> QED
    BY <2>1, <2>2, NewWork, StoreLeft DEF store
<1>2. ASSUME NEW u \in Uri, NEW text \in EditTo[u], DidChange(u, text)
      PROVE  StoreFits'
  <2> DEFINE t == [kind |-> "update", uri |-> u, text |-> text]
  <2>1. Unsettled = {} /\ TrySchedule(t) /\ UNCHANGED store
    BY <1>2 DEF DidChange
  <2>2. t.text.calls \subseteq Workspace /\ t.kind = "update"
    BY LookupAssumption
  <2> HIDE DEF t
  <2>3. Work' = Work \union {t} /\ \A s \in Work : IsLookup(s)
    BY <2>1, NewWork DEF Unsettled, Work
  <2>4. ChangesFit'
    BY <2>2, <2>3 DEF ChangesFit, IsLookup
  <2> QED
    BY <2>1, <2>4 DEF StoreFits, DocsFit, store, Known
<1>3. ASSUME NEW ops \in Renames, DidRenameFiles(ops)
      PROVE  StoreFits'
  <2> DEFINE t == [kind |-> "rename", id |-> next, ops |-> ops]
  <2>1. /\ Unsettled = {} /\ TrySchedule(t) /\ UNCHANGED store
        /\ DOMAIN t.ops \subseteq Known /\ t.kind = "rename"
    BY <1>3 DEF DidRenameFiles
  <2> HIDE DEF t
  <2>2. Work' = Work \union {t} /\ \A s \in Work : IsLookup(s)
    BY <2>1, NewWork DEF Unsettled, Work
  <2>3. ChangesFit'
    BY <2>1, <2>2 DEF ChangesFit, IsLookup, IsChange, store, Known
  <2> QED
    BY <2>1, <2>3 DEF StoreFits, DocsFit, store, Known
<1> QED
  BY <1>1, <1>2, <1>3 DEF ProcessMsg

(* A task of a round is a lookup.                                          *)
LEMMA ProgressStore ==
  ASSUME LookupInv, StoreFits, Progress
  PROVE  StoreFits'
<1> DEFINE new == {TaskFor(q[1], q[2]) : q \in Queued}
           held == {t \in new : TaskBlocked(t, Progressing)}
<1>1. /\ pool' = pool \union (new \ held) /\ blocked' = blocked \union held
      /\ UNCHANGED <<docs, unscanned>>
  BY DEF Progress
<1>2. ASSUME NEW q \in Queued
      PROVE  ~IsChange(TaskFor(q[1], q[2]))
  <2>1. PICK e \in Entries : \E p \in QueuedBy(e) : q = <<e, p>>
    BY DEF Queued
  <2>2. IsLookup(e) /\ q[1] = e
    BY <2>1 DEF QueuedBy, Ready, IsRounds, IsLookup
  <2> QED
    BY <2>2 DEF TaskFor, IsChange, IsLookup
<1>3. \A t \in new : ~IsChange(t)
  BY <1>2
<1>4. held \subseteq new
  OBVIOUS
<1> HIDE DEF new, held
<1>5. \A t \in Work' : IsChange(t) => t \in Work
  BY <1>1, <1>3, <1>4 DEF Work
<1> QED
  BY <1>1, <1>5, StoreLeft

LEMMA StepStore ==
  ASSUME LookupInv, LookupInv', StoreFits, Next
  PROVE  StoreFits'
<1>1. ASSUME UNCHANGED <<docs, unscanned>>, Work' \subseteq Work
      PROVE  StoreFits'
  BY <1>1, StoreLeft
<1>2. ASSUME UNCHANGED <<store, tasks>>
      PROVE  StoreFits'
  BY <1>1, <1>2 DEF store, tasks, Work
<1>3. CASE Receive
  <2>1. ASSUME NEW t \in pool, RecvOrigin(t) \/ RecvRound(t)
        PROVE  StoreFits'
    BY <1>1, <2>1 DEF RecvOrigin, RecvRound, Received, Work
  <2>2. ASSUME NEW t \in pool, RecvPanic(t)
        PROVE  StoreFits'
    BY <1>2, <2>2 DEF RecvPanic, Panic
  <2> QED
    BY <1>3, <2>1, <2>2, UpdateStore, RenameStore, ScanStore DEF Receive
<1>4. CASE Loop
  <2>1. ASSUME NEW d \in completed, RecvCompleted(d)
        PROVE  StoreFits'
    BY <1>1, <1>2, <2>1 DEF RecvCompleted, Panic, store, Work
  <2>2. ASSUME NEW t \in blocked, ScheduleBlocked(t)
        PROVE  StoreFits'
    BY <1>1, <2>2 DEF ScheduleBlocked, Schedule, store, Work
  <2>3. CASE EndRecv \/ EndCompleted \/ EndBlocked \/ EndProcess
    BY <1>2, <2>3 DEF EndRecv, EndCompleted, EndBlocked, EndProcess
  <2>4. CASE ProgressPanic
    BY <1>2, <2>4 DEF ProgressPanic, Panic
  <2> QED
    BY <1>4, <2>1, <2>2, <2>3, <2>4, DiscoveryStore, ProgressStore DEF Loop
<1>5. CASE ProcessMsg
  BY <1>5, MessageStore
<1>6. CASE Done
  BY <1>2, <1>6 DEF Done, vars
<1> QED
  BY <1>3, <1>4, <1>5, <1>6 DEF Next

----------------------------------------------------------------------------
(* Lookups during which no document has changed: their tasks and rounds    *)
(* are those of the documents stored now, and what they hand over is what  *)
(* they had to find.                                                       *)

OriginFits(t) == /\ t.uri \in Known /\ t.text = docs[t.uri].text
                 /\ expected[t.id] = Found(docs, t.kind, t.uri)

OriginsFit ==
  \A t \in Work : IsLookup(t) /\ t.phase = "origin" /\ t.id \in steady => OriginFits(t)

RoundsFit ==
  \A e \in Entries : IsRounds(e) /\ e.id \in steady /\ (\A d \in completed : d.id # e.id) =>
    RoundFits(docs, e, RoundsOf(e), expected[e.id])

DoneFit == \A d \in completed : d.id \in steady => d.files = expected[d.id]

AnswersFit == \A m \in steady : replies[m] = 1 => answers[m] = expected[m]

NotFoundAnywhere == \E u \in Known : docs[u].listed /\ Definitions(docs, u) = {}

(* A slot is empty after a search for references that found no definition, *)
(* until its result is received, which ends the server.                    *)
EmptySlots ==
  Empty \in Entries =>
    \E d \in completed : /\ \A e \in Entries : HasId(e) => e.id # d.id
                         /\ d.id \in steady => NotFoundAnywhere

LookupsFit == OriginsFit /\ RoundsFit /\ DoneFit /\ AnswersFit /\ EmptySlots

ExactInv == LookupInv /\ StoreFits /\ LookupsFit /\ PanicCauses

LEMMA InitFits == Init => LookupsFit
<1> SUFFICES ASSUME Init
             PROVE  LookupsFit
  OBVIOUS
<1>1. Work = {} /\ Entries = {} /\ completed = {} /\ steady = {}
  BY DEF Init, Work, Entries, EntriesIn
<1> QED
  BY <1>1 DEF LookupsFit, OriginsFit, RoundsFit, DoneFit, AnswersFit, EmptySlots

LEMMA QuietFits ==
  ASSUME LookupsFit, UNCHANGED <<store, tasks, client, history>>
  PROVE  LookupsFit'
<1>1. /\ UNCHANGED <<docs, pool, blocked, ongoing, completed, replies, answers, expected, steady>>
      /\ Known' = Known /\ Work' = Work /\ Entries' = Entries
  BY DEF store, tasks, client, history, Known, Work, Entries, EntriesIn
<1>2. \A e \in Entries : RoundsOf(e)' = RoundsOf(e)
  BY <1>1 DEF RoundsOf
<1>3. OriginsFit'
  BY <1>1 DEF LookupsFit, OriginsFit, OriginFits
<1>4. RoundsFit'
  BY <1>1, <1>2 DEF LookupsFit, RoundsFit
<1>5. DoneFit' /\ AnswersFit' /\ EmptySlots'
  BY <1>1 DEF LookupsFit, DoneFit, AnswersFit, EmptySlots, NotFoundAnywhere
<1> QED
  BY <1>3, <1>4, <1>5 DEF LookupsFit

(* A document changes: the lookups under way are no longer compared.       *)
LEMMA ChangeFits ==
  ASSUME LookupInv, LookupInv', LookupsFit, DocsChange,
         Entries' \subseteq Entries, UNCHANGED <<client, completed>>
  PROVE  LookupsFit'
<1>1. /\ UNCHANGED <<next, asked, replies, answers, completed>> /\ asked \subseteq 1..MaxMsgs
      /\ replies \in [1..MaxMsgs -> Nat] /\ steady \subseteq asked
  BY DEF client, LookupInv, TypeOK
<1>2. /\ steady' \subseteq steady
      /\ \A m \in steady' : replies[m] # 0 /\ expected'[m] = expected[m]
  <2>1. /\ steady' = steady \intersect Answered
        /\ expected' = [m \in 1..MaxMsgs |-> IF m \in Answered THEN expected[m] ELSE {}]
    BY DEF DocsChange
  <2>2. \A m \in Answered : m \in 1..MaxMsgs /\ replies[m] > 0
    BY <1>1 DEF Answered
  <2> QED
    BY <2>1, <2>2
<1>3. /\ \A x \in Entries' \union Work' : IsLookup(x) => replies[x.id] = 0
      /\ \A d \in completed : replies[d.id] = 0
  BY <1>1 DEF LookupInv, Ledger, Requests
<1>4. OriginsFit' /\ DoneFit'
  BY <1>1, <1>2, <1>3 DEF OriginsFit, DoneFit
<1>5. RoundsFit'
  BY <1>1, <1>2, <1>3 DEF RoundsFit, IsRounds, IsLookup
<1>6. AnswersFit'
  BY <1>1, <1>2 DEF LookupsFit, AnswersFit
<1>7. EmptySlots'
  BY <1>1, <1>2, <1>3 DEF LookupsFit, EmptySlots
<1> QED
  BY <1>4, <1>5, <1>6, <1>7 DEF LookupsFit

LEMMA ReceivedChangeFits ==
  ASSUME LookupInv, LookupInv', LookupsFit, NEW t \in pool, RecvUpdate(t) \/ RecvRename(t)
  PROVE  LookupsFit'
<1>1. ~IsRoundTask(t)
  BY DEF RecvUpdate, RecvRename, IsRoundTask, IsLookup
<1>2. /\ DocsChange /\ pool' = pool \ {t} /\ ongoing' = Remove(At(t))
      /\ UNCHANGED <<pc, blocked, completed, client>>
  BY DEF RecvUpdate, RecvRename, Received
<1>3. Entries' \subseteq Entries
  BY <1>1, <1>2, EntryEnds DEF client
<1> QED
  BY <1>2, <1>3, ChangeFits

LEMMA StoreChangeFits ==
  ASSUME LookupInv, LookupInv', LookupsFit, RecvDiscovery \/ \E u \in DOMAIN unscanned : RecvScan(u)
  PROVE  LookupsFit'
<1>1. DocsChange /\ UNCHANGED <<tasks, client>>
  BY DEF RecvDiscovery, RecvScan
<1>2. Entries' = Entries
  BY <1>1 DEF tasks, Entries, EntriesIn
<1> QED
  BY <1>1, <1>2, ChangeFits DEF tasks

(* A lookup goes on with another entry.                                    *)
LEMMA ConvertFits ==
  ASSUME LookupInv, LookupInv', LookupsFit, NEW t \in pool, IsLookup(t), Leaves(t),
         NEW x \in Lookup, x.id = t.id, x.kind = t.kind, Convert(t, x),
         t.id \in steady => RoundFits(docs, x, RoundsOf(x)', expected[t.id])
  PROVE  LookupsFit'
<1> DEFINE i == At(t)
<1>1. /\ TypeOK /\ IdsApart /\ Tracking /\ Distinct(ongoing) /\ Concluding
      /\ t \in Task /\ t \in Work
  BY DEF LookupInv, Ledger, IdsApart, TypeOK, Work
<1>2. /\ i \in DOMAIN ongoing /\ ongoing[i] \in Entries
      /\ ~IsRoundTask(t) => ongoing[i] = Track(t)
      /\ IsRoundTask(t) => Asks(ongoing[i], t)
  BY <1>1, TaskAt
<1>3. ongoing[i].id = t.id /\ HasId(ongoing[i]) /\ HasId(x) /\ HasId(t)
  BY <1>1, <1>2, TrackKinds DEF Asks, IsRounds, IsLookup, HasId
<1>4. ongoing' = [ongoing EXCEPT ![i] = x] /\ x \in Entry /\ ongoing \in Seq(Entry)
  BY <1>1 DEF Convert, Entry, TypeOK
<1> HIDE DEF i
<1>5. \A f \in EntriesIn(ongoing') : f = x \/ (f \in Entries /\ (HasId(f) => f.id # x.id))
  BY <1>1, <1>2, <1>3, <1>4, ReplaceKeeps
<1>6. \A f \in Entries' : f = x \/ (f \in Entries /\ (HasId(f) => f.id # x.id))
  BY <1>5 DEF Entries, EntriesIn
<1>7. /\ UNCHANGED <<docs, completed, blocked, replies, answers, expected, steady>>
      /\ pool' = pool \ {t} /\ Work' \subseteq Work /\ Known' = Known
  BY DEF Leaves, Convert, client, history, Work, Known
<1>8. OriginsFit'
  BY <1>7 DEF LookupsFit, OriginsFit, OriginFits
<1>9. DoneFit' /\ AnswersFit'
  BY <1>7 DEF LookupsFit, DoneFit, AnswersFit
<1>10. EmptySlots'
  <2> SUFFICES ASSUME Empty \in Entries'
               PROVE  \E d \in completed : /\ \A f \in Entries' : HasId(f) => f.id # d.id
                                           /\ d.id \in steady => NotFoundAnywhere
    BY <1>7 DEF EmptySlots, NotFoundAnywhere
  <2>1. Empty \in Entries
    BY <1>3, <1>6 DEF Empty, HasId
  <2>2. PICK d \in completed : /\ \A f \in Entries : HasId(f) => f.id # d.id
                               /\ d.id \in steady => NotFoundAnywhere
    BY <2>1 DEF LookupsFit, EmptySlots
  <2>3. x.id # d.id
    BY <1>2, <1>3, <2>2
  <2> QED
    BY <1>6, <2>2, <2>3
<1>11. RoundsFit'
  <2> SUFFICES ASSUME NEW f \in Entries', IsRounds(f), f.id \in steady,
                      \A d \in completed : d.id # f.id
               PROVE  RoundFits(docs, f, RoundsOf(f)', expected[f.id])
    BY <1>7 DEF RoundsFit
  <2>1. CASE f = x
    BY <2>1
  <2>2. CASE f \in Entries /\ f.id # x.id
    <3>1. RoundsOf(f)' = RoundsOf(f)
      BY <1>7, <2>2 DEF RoundsOf
    <3> QED
      BY <2>2, <3>1 DEF LookupsFit, RoundsFit
  <2> QED
    BY <1>6, <2>1, <2>2 DEF IsRounds, HasId
<1> QED
  BY <1>8, <1>9, <1>10, <1>11 DEF LookupsFit

(* A lookup is answered, after its own document or with what it collected. *)
LEMMA AnswerFits ==
  ASSUME LookupInv, LookupInv', LookupsFit, NEW id \in 1..MaxMsgs, NEW files,
         Answer(id, files), id \in steady => files = expected[id],
         replies[id] = 0, Work' \subseteq Work, Entries' \subseteq Entries,
         \A e \in Entries' : RoundsOf(e)' = RoundsOf(e),
         completed' \subseteq completed, \A d \in completed : d \in completed' \/ d.id = id,
         Empty \in Entries => (\A d \in completed : d.id = id => \E e \in Entries : HasId(e) /\ e.id = d.id),
         UNCHANGED <<docs, history>>
  PROVE  LookupsFit'
<1>1. /\ UNCHANGED <<docs, expected, steady, asked, next>> /\ Known' = Known
      /\ replies' = [replies EXCEPT ![id] = @ + 1]
      /\ answers' = [answers EXCEPT ![id] = files]
  BY DEF history, Known, Answer
<1>2. /\ replies \in [1..MaxMsgs -> Nat] /\ DOMAIN answers = 1..MaxMsgs
      /\ steady \subseteq 1..MaxMsgs
  BY DEF LookupInv, TypeOK
<1>3. replies'[id] = 1 /\ answers'[id] = files
      /\ \A m \in 1..MaxMsgs : m # id => replies'[m] = replies[m] /\ answers'[m] = answers[m]
  BY <1>1, <1>2
<1>4. AnswersFit'
  BY <1>1, <1>2, <1>3 DEF LookupsFit, AnswersFit
<1>5. OriginsFit' /\ DoneFit'
  BY <1>1 DEF LookupsFit, OriginsFit, OriginFits, DoneFit
<1>6. RoundsFit'
  <2> SUFFICES ASSUME NEW e \in Entries', IsRounds(e), e.id \in steady,
                      \A d \in completed' : d.id # e.id
               PROVE  RoundFits(docs, e, RoundsOf(e), expected[e.id])
    BY <1>1 DEF RoundsFit
  <2>1. replies'[e.id] = 0
    BY DEF LookupInv, Ledger, Requests, IsRounds, IsLookup
  <2>2. e.id # id
    BY <1>3, <2>1
  <2> QED
    BY <2>2 DEF LookupsFit, RoundsFit
<1>7. EmptySlots'
  <2> SUFFICES ASSUME Empty \in Entries'
               PROVE  \E d \in completed' : /\ \A f \in Entries' : HasId(f) => f.id # d.id
                                            /\ d.id \in steady => NotFoundAnywhere
    BY <1>1 DEF EmptySlots, NotFoundAnywhere
  <2>1. PICK d \in completed : /\ \A f \in Entries : HasId(f) => f.id # d.id
                               /\ d.id \in steady => NotFoundAnywhere
    BY DEF LookupsFit, EmptySlots
  <2>2. d.id # id
    BY <2>1
  <2> QED
    BY <2>1, <2>2
<1> QED
  BY <1>4, <1>5, <1>6, <1>7 DEF LookupsFit

LEMMA OriginTracked ==
  ASSUME LookupInv, NEW t \in pool, IsLookup(t), t.phase = "origin"
  PROVE  ongoing[At(t)] = NewEntry(t.kind, t.id, t.uri) /\ t \in LookupTask
<1>1. ~IsRoundTask(t) /\ t \in LookupTask
  BY OriginEntry
<1>2. ongoing[At(t)] = Track(t)
  BY <1>1, TaskAt DEF LookupInv, Ledger
<1> QED
  BY <1>1, <1>2 DEF Track, IsLookup

LEMMA OriginRoundsFit ==
  ASSUME LookupInv, LookupInv', LookupsFit, NEW t \in pool, IsLookup(t), t.phase = "origin",
         Leaves(t), NEW x \in Lookup, IsRounds(x), x.ready, x.id = t.id, x.kind = t.kind,
         Convert(t, x),
         t.id \in steady => RoundFits(docs, x, {}, expected[t.id])
  PROVE  LookupsFit'
<1>1. x \in Entries'
  <2> DEFINE i == At(t)
  <2>1. i \in DOMAIN ongoing
    BY OriginEntry
  <2>2. ongoing' = [ongoing EXCEPT ![i] = x]
    BY DEF Convert
  <2> HIDE DEF i
  <2> QED
    BY <2>1, <2>2 DEF Entries, EntriesIn
<1>2. IsFiniteSet(RoundsOf(x)') /\ Cardinality(RoundsOf(x)') = 0
  BY <1>1 DEF LookupInv, Ledger, Counting
<1>3. RoundsOf(x)' = {}
  BY <1>2, FS_EmptySet
<1> QED
  BY <1>3, ConvertFits

LEMMA OriginResponseFits ==
  ASSUME LookupInv, LookupInv', LookupsFit, NEW t \in pool, IsLookup(t), t.phase = "origin",
         Leaves(t), NEW files \in SUBSET Uri, Respond(t, files),
         t.id \in steady => files = expected[t.id]
  PROVE  LookupsFit'
<1>1. ~IsRoundTask(t)
  BY OriginEntry
<1>2. t.id \in 1..MaxMsgs /\ replies[t.id] = 0
  BY RespondKeeps
<1>3. /\ pool' = pool \ {t} /\ ongoing' = Remove(At(t)) /\ Answer(t.id, files)
      /\ UNCHANGED <<pc, blocked, completed, docs, history, next, asked>>
  BY DEF Leaves, Respond, Answer
<1>4. Entries' \subseteq Entries /\ Work' \subseteq Work
  BY <1>1, <1>3, EntryEnds
<1>5. \A e \in Entries' : RoundsOf(e)' = RoundsOf(e)
  BY <1>1, <1>3 DEF RoundsOf, IsRoundTask
<1>6. \A d \in completed : d.id # t.id
  BY DEF LookupInv, Ledger, Concluding, Work, HasId, IsLookup
<1> QED
  BY <1>2, <1>3, <1>4, <1>5, <1>6, AnswerFits

LEMMA RecvOriginFits ==
  ASSUME LookupInv, LookupInv', StoreFits, LookupsFit, NEW t \in pool, RecvOrigin(t)
  PROVE  LookupsFit'
<1> DEFINE o == t.uri
           here == {u \in {t.uri} : Defines(t.text)}
           e == NewEntry(t.kind, t.id, t.uri)
           Callers == Unresolved(t.text) /\ HasCallers(t.uri)
<1>1. /\ IsLookup(t) /\ t.phase = "origin" /\ Leaves(t)
      /\ IF t.kind = "goto" THEN GoToDefinitionResult(t) ELSE FindReferencesResult(t)
  BY RecvOriginCases DEF RecvOrigin
<1>2. ongoing[At(t)] = e /\ t \in LookupTask
  BY <1>1, OriginTracked
<1>3. /\ t.kind \in {"goto", "refs"} /\ t.id \in Nat /\ o \in Uri /\ t.text \in Text
      /\ here \in SUBSET Uri
  BY <1>2 DEF LookupTask
<1>4. e \in Lookup /\ e.kind = t.kind /\ e.id = t.id
  BY <1>3, NewEntryFields
<1>5. StoreTyped /\ Sound(docs)
  BY TypeParts DEF LookupInv, StoreFits, DocsFit
<1>6. t.id \in steady => o \in Known /\ t.text = docs[o].text /\ expected[t.id] = Found(docs, t.kind, o)
  BY <1>1 DEF LookupsFit, OriginsFit, OriginFits, Work
<1>7. here = {u \in {o} : Defines(t.text)}
  OBVIOUS
<1>8. Callers => o \in Known /\ docs[o].listed /\ Unresolved(t.text)
  BY DEF HasCallers
<1>9. ~Callers /\ t.id \in steady => ~(Unresolved(docs[o].text) /\ docs[o].listed)
  BY <1>6 DEF HasCallers
<1> HIDE DEF e, Callers, o, here
<1>10. CASE Callers
  <2> DEFINE x == AskCallers(e, o, here)
  <2>1. Convert(t, x)
    BY <1>1, <1>2, <1>10 DEF GoToDefinitionResult, FindReferencesResult, Callers, o, here
  <2>2. x \in Lookup /\ IsRounds(x) /\ x.ready /\ x.id = t.id /\ x.kind = t.kind
    BY <1>3, <1>4, <1>5, <1>8, <1>10, AskCallersEffect
  <2>3. t.id \in steady => RoundFits(docs, x, {}, expected[t.id])
    <3> SUFFICES ASSUME t.id \in steady
                 PROVE  RoundFits(docs, x, {}, expected[t.id])
      OBVIOUS
    <3>1. /\ o \in Known /\ Unresolved(docs[o].text) /\ docs[o].listed
          /\ here = {u \in {o} : Defines(docs[o].text)}
      BY <1>6, <1>7, <1>8, <1>10
    <3>2. RoundFits(docs, AskCallers(NewEntry(t.kind, t.id, o), o, here), {}, Found(docs, t.kind, o))
      BY <1>3, <1>5, <3>1, AskCallersFits
    <3> QED
      BY <1>6, <3>2 DEF e, o
  <2> HIDE DEF x
  <2> QED
    BY <1>1, <2>1, <2>2, <2>3, OriginRoundsFit
<1>11. CASE ~Callers /\ t.kind = "refs" /\ here # {}
  <2> DEFINE x == AskDefinitions(e, o, t.text)
  <2>1. Convert(t, x)
    BY <1>1, <1>2, <1>11 DEF FindReferencesResult, Callers, o, here
  <2>2. x \in Lookup /\ IsRounds(x) /\ x.ready /\ x.id = t.id /\ x.kind = t.kind
    BY <1>3, <1>4, <1>5, AskDefinitionsEffect
  <2>3. t.id \in steady => RoundFits(docs, x, {}, expected[t.id])
    <3> SUFFICES ASSUME t.id \in steady
                 PROVE  RoundFits(docs, x, {}, expected[t.id])
      OBVIOUS
    <3>1. /\ o \in Known /\ ~(Unresolved(docs[o].text) /\ docs[o].listed)
          /\ Defines(docs[o].text) /\ t.text = docs[o].text
      BY <1>6, <1>7, <1>9, <1>11
    <3>2. RoundFits(docs, AskDefinitions(NewEntry("refs", t.id, o), o, docs[o].text), {}, Found(docs, "refs", o))
      BY <1>3, <1>5, <3>1, AskDefinitionsFits
    <3> QED
      BY <1>6, <1>11, <3>1, <3>2 DEF e, o
  <2> HIDE DEF x
  <2> QED
    BY <1>1, <2>1, <2>2, <2>3, OriginRoundsFit
<1>12. CASE ~Callers /\ t.kind = "goto"
  <2>1. Respond(t, here)
    BY <1>1, <1>12 DEF GoToDefinitionResult, Callers, here
  <2>2. t.id \in steady => here = expected[t.id]
    BY <1>5, <1>6, <1>7, <1>9, <1>12, RespondedFits DEF Known
  <2> QED
    BY <1>1, <1>3, <2>1, <2>2, OriginResponseFits
<1>13. CASE ~Callers /\ t.kind = "refs" /\ here = {}
  <2> DEFINE files == IF t.text.search = "none" THEN {} ELSE {o}
  <2>1. Respond(t, files) /\ files \in SUBSET Uri
    BY <1>1, <1>3, <1>13 DEF FindReferencesResult, Callers, o, here
  <2>2. t.id \in steady => files = expected[t.id]
    <3> SUFFICES ASSUME t.id \in steady
                 PROVE  files = expected[t.id]
      OBVIOUS
    <3>1. /\ o \in DOMAIN docs /\ ~Defines(docs[o].text) /\ t.text = docs[o].text
          /\ ~(Unresolved(docs[o].text) /\ docs[o].listed)
      BY <1>6, <1>7, <1>9, <1>13 DEF Known
    <3>2. Found(docs, "refs", o) = IF docs[o].text.search = "none" THEN {} ELSE {o}
      BY <1>5, <3>1, RespondedFits
    <3>3. expected[t.id] = Found(docs, "refs", o)
      BY <1>6, <1>13
    <3> QED
      BY <3>1, <3>2, <3>3
  <2> HIDE DEF files
  <2> QED
    BY <1>1, <2>1, <2>2, OriginResponseFits
<1> QED
  BY <1>3, <1>10, <1>11, <1>12, <1>13

------------------------------------------------------------------------------
LEMMA RecvRoundFits ==
  ASSUME LookupInv, LookupInv', StoreFits, LookupsFit, NEW t \in pool, RecvRound(t)
  PROVE  LookupsFit'
<1> DEFINE e == ongoing[At(t)]
           R == RoundsOf(e)
<1>1. IsLookup(t) /\ t.phase \in Phase /\ Leaves(t) /\ Convert(t, Asked(e, t))
  BY DEF RecvRound, Received, Leaves, history
<1>2. IsRoundTask(t) /\ t \in LookupTask
  BY <1>1, TaskKinds DEF LookupInv, TypeOK, IsRoundTask, Phase
<1>3. Asks(e, t) /\ e \in Entries
  BY <1>2, TaskAt DEF LookupInv, Ledger
<1>4. e \in Lookup /\ IsRounds(e) /\ ~e.ready /\ e.kind = t.kind /\ e.id = t.id
  <2>1. e \in Entry
    BY <1>3 DEF LookupInv, TypeOK, Entries, EntriesIn
  <2> HIDE DEF e
  <2> QED
    BY <1>3, <2>1, EntryKinds DEF Asks, IsRounds, IsLookup
<1> HIDE DEF e
<1>5. PICK x \in Lookup : x = Asked(e, t) /\ x.kind = t.kind /\ x.id = t.id
  BY <1>2, <1>4, AskedEffect
<1>6. t \in R
  BY <1>1, <1>2, <1>4 DEF RoundsOf, IsRoundTask
<1>7. e.total # 0
  <2>1. /\ IsFiniteSet(R) /\ Cardinality(R) = e.total - e.counted
        /\ e.total \in Nat /\ e.counted \in Nat
    BY <1>3, <1>4 DEF LookupInv, Ledger, Counting, Lookup
  <2>2. Cardinality(R) \in Nat /\ Cardinality(R) # 0
    BY <1>6, <2>1, FS_CardinalityType, FS_EmptySet
  <2> HIDE DEF R
  <2> QED
    BY <2>1, <2>2
<1>8. RoundsOf(x)' = R \ {t}
  <2>1. pool' = pool \ {t} /\ blocked' = blocked
    BY <1>1 DEF Leaves
  <2>2. t \notin blocked
    BY <1>2 DEF LookupInv, Ledger, Tracking
  <2>3. RoundsOf(x)' = {s \in pool' \union blocked' : IsLookup(s) /\ s.id = t.id /\ s.phase # "origin"}
    BY <1>5 DEF RoundsOf
  <2>4. R = {s \in pool \union blocked : IsLookup(s) /\ s.id = t.id /\ s.phase # "origin"}
    BY <1>4 DEF RoundsOf
  <2> HIDE DEF R
  <2> QED
    BY <2>1, <2>2, <2>3, <2>4
<1>9. t.id \in steady => RoundFits(docs, x, RoundsOf(x)', expected[t.id])
  <2> SUFFICES ASSUME t.id \in steady
               PROVE  RoundFits(docs, x, RoundsOf(x)', expected[t.id])
    OBVIOUS
  <2>1. \A d \in completed : d.id # e.id
    BY <1>1, <1>4 DEF LookupInv, Ledger, Concluding, Work, HasId, IsLookup
  <2>2. RoundFits(docs, e, R, expected[t.id])
    BY <1>3, <1>4, <2>1 DEF LookupsFit, RoundsFit
  <2>3. Sound(docs)
    BY DEF StoreFits, DocsFit
  <2> HIDE DEF R
  <2>4. RoundFits(docs, Asked(e, t), R \ {t}, expected[t.id])
    BY <1>2, <1>4, <1>6, <1>7, <2>2, <2>3, AskedFits
  <2> QED
    BY <1>5, <1>8, <2>4
<1> QED
  BY <1>1, <1>5, <1>9, ConvertFits

LEMMA RecvCompletedFits ==
  ASSUME LookupInv, LookupInv', LookupsFit, NEW d \in completed, RecvCompleted(d)
  PROVE  LookupsFit'
<1>1. CASE MeetsEmpty(ongoing, WithId(d.id))
  BY <1>1, QuietFits DEF RecvCompleted, Panic
<1>2. CASE ~MeetsEmpty(ongoing, WithId(d.id))
  <2> DEFINE i == Index(WithId(d.id))
  <2>1. /\ completed' = completed \ {d} /\ ongoing' = Remove(i)
        /\ Answer(d.id, d.files) /\ UNCHANGED <<pc, store, blocked, pool, history>>
    BY <1>2 DEF RecvCompleted
  <2>2. d.id \in 1..MaxMsgs /\ d.id \in asked /\ replies[d.id] = 0
    BY DEF LookupInv, TypeOK, Ledger, Requests
  <2>3. ongoing \in Seq(Entry) /\ Distinct(ongoing)
    BY DEF LookupInv, TypeOK, Ledger, IdsApart
  <2>4. \E k \in DOMAIN ongoing : ongoing[k] \in WithId(d.id)
    <3>1. CASE Empty \in Entries
      BY <1>2, <2>3, <3>1, EmptyMet
    <3>2. CASE \E e \in Entries : HasId(e) /\ e.id = d.id
      BY <3>2 DEF WithId, HasId, Entries, EntriesIn
    <3> QED
      BY <3>1, <3>2 DEF LookupInv, Ledger, Concluding
  <2>5. i \in DOMAIN ongoing
    BY <2>3, <2>4, IndexFits
  <2> HIDE DEF i
  <2>6. Entries' \subseteq Entries
    BY <2>1, <2>3, <2>5, RemoveKeeps DEF Entries, EntriesIn
  <2>7. Work' \subseteq Work /\ \A e \in Entries' : RoundsOf(e)' = RoundsOf(e)
    BY <2>1 DEF Work, RoundsOf
  <2>8. \E e \in Entries : HasId(e) /\ e.id = d.id
    BY <2>4 DEF WithId, HasId, Entries, EntriesIn
  <2>9. \A c \in completed : c.id = d.id => \E e \in Entries : HasId(e) /\ e.id = c.id
    BY <2>8
  <2>10. \A c \in completed : c \in completed' \/ c.id = d.id
    BY <2>1
  <2>11. d.id \in steady => d.files = expected[d.id]
    BY DEF LookupsFit, DoneFit
  <2>12. completed' \subseteq completed /\ UNCHANGED <<docs, history>>
    BY <2>1 DEF store
  <2> QED
    BY <2>1, <2>2, <2>6, <2>7, <2>9, <2>10, <2>11, <2>12, AnswerFits
<1> QED
  BY <1>1, <1>2

(* A task is scheduled or waits.  Requests that are new have a new id.     *)
LEMMA AddedFits ==
  ASSUME LookupInv, LookupsFit, NEW t \in Task, Work' = Work \union {t},
         t \in Work \/ ~IsRoundTask(t),
         Entries' = Entries \/ (~IsRoundTask(t) /\ Entries' = Entries \union {Track(t)}),
         \A d \in completed : HasId(t) => d.id # t.id,
         IsLookup(t) /\ t.phase = "origin" /\ t.id \in steady' => OriginFits(t)',
         \A m \in steady' : \/ m \in steady /\ expected'[m] = expected[m]
                            \/ m = next /\ replies[m] = 0,
         UNCHANGED <<docs, completed, replies, answers>>
  PROVE  LookupsFit'
<1>1. Known' = Known
  BY DEF Known
<1>2. /\ next \in Nat /\ \A e \in Entries : e \in Entry
      /\ \A s \in Work : s \in Task
      /\ \A d \in completed : d.id \in Nat /\ d.id < next
  BY DEF LookupInv, TypeOK, Entries, EntriesIn, Work, Ledger, IdsUsed, Requests
<1>3. \A x \in Entries \union Work : IsLookup(x) => x.id # next
  <2>1. \A x \in Entries \union Work : HasId(x) => x.id \in Nat /\ x.id < next
    BY <1>2, EntryKinds, TaskKinds DEF LookupInv, Ledger, IdsUsed
  <2> QED
    BY <1>2, <2>1 DEF HasId, IsLookup
<1>4. \A e \in Entries' : \/ e \in Entries
                          \/ /\ e # Empty /\ ~IsRounds(e)
                             /\ HasId(e) => HasId(t) /\ e.id = t.id
  BY TrackKinds DEF HasId
<1>5. OriginsFit'
  <2> SUFFICES ASSUME NEW s \in Work', IsLookup(s), s.phase = "origin", s.id \in steady'
               PROVE  OriginFits(s)'
    BY DEF OriginsFit
  <2>1. CASE s = t
    BY <2>1
  <2>2. CASE s \in Work
    <3>1. s.id \in steady /\ expected'[s.id] = expected[s.id]
      BY <1>3, <2>2
    <3> QED
      BY <1>1, <2>2, <3>1 DEF LookupsFit, OriginsFit, OriginFits
  <2> QED
    BY <2>1, <2>2
<1>6. \A e : RoundsOf(e)' = RoundsOf(e)
  <2>1. \A e : RoundsOf(e) = {s \in Work : IsRoundTask(s) /\ s.id = e.id}
    BY DEF RoundsOf, Work, IsRoundTask
  <2>2. \A e : RoundsOf(e)' = {s \in Work' : IsRoundTask(s) /\ s.id = e.id}
    BY DEF RoundsOf, Work, IsRoundTask
  <2> QED
    BY <2>1, <2>2
<1>7. RoundsFit'
  <2> SUFFICES ASSUME NEW e \in Entries', IsRounds(e), e.id \in steady',
                      \A d \in completed : d.id # e.id
               PROVE  RoundFits(docs, e, RoundsOf(e), expected'[e.id])
    BY <1>6 DEF RoundsFit
  <2>1. e \in Entries /\ IsLookup(e)
    BY <1>4 DEF IsRounds, IsLookup
  <2>2. e.id \in steady /\ expected'[e.id] = expected[e.id]
    BY <1>3, <2>1
  <2> QED
    BY <2>1, <2>2 DEF LookupsFit, RoundsFit
<1>8. DoneFit' /\ AnswersFit'
  BY <1>2 DEF LookupsFit, DoneFit, AnswersFit
<1>9. EmptySlots'
  <2> SUFFICES ASSUME Empty \in Entries'
               PROVE  \E d \in completed : /\ \A f \in Entries' : HasId(f) => f.id # d.id
                                           /\ d.id \in steady' => NotFoundAnywhere
    BY <1>1 DEF EmptySlots, NotFoundAnywhere
  <2>1. PICK d \in completed : /\ \A f \in Entries : HasId(f) => f.id # d.id
                               /\ d.id \in steady => NotFoundAnywhere
    BY <1>4 DEF LookupsFit, EmptySlots
  <2>2. d.id \in steady' => d.id \in steady
    BY <1>2
  <2> QED
    BY <1>4, <2>1, <2>2
<1> QED
  BY <1>5, <1>7, <1>8, <1>9 DEF LookupsFit

LEMMA ScheduledEntries ==
  ASSUME NEW t, Schedule(t), ongoing \in Seq(Entry), t \in Task
  PROVE  Entries' = Entries \/ (~IsRoundTask(t) /\ Entries' = Entries \union {Track(t)})
<1>1. CASE IsRoundTask(t)
  BY <1>1 DEF Schedule, IsRoundTask, Entries, EntriesIn
<1>2. CASE ~IsRoundTask(t)
  <2>1. ongoing' = Append(ongoing, Track(t))
    BY <1>2 DEF Schedule, IsRoundTask
  <2> DEFINE x == Track(t)
             list == Append(ongoing, x)
  <2>2. /\ DOMAIN ongoing = 1..Len(ongoing) /\ Len(ongoing) \in Nat
        /\ DOMAIN list = 1..(Len(ongoing) + 1)
        /\ list[Len(ongoing) + 1] = x /\ \A j \in DOMAIN ongoing : list[j] = ongoing[j]
    BY <1>2, TrackKinds
  <2> HIDE DEF list, x
  <2>3. DOMAIN list = DOMAIN ongoing \union {Len(ongoing) + 1}
    BY <2>2
  <2>4. EntriesIn(list) = Entries \union {x}
    BY <2>2, <2>3 DEF Entries, EntriesIn
  <2> QED
    BY <1>2, <2>1, <2>4 DEF Entries, EntriesIn, list, x
<1> QED
  BY <1>1, <1>2

LEMMA ScheduleBlockedFits ==
  ASSUME LookupInv, LookupsFit, NEW t \in blocked, ScheduleBlocked(t)
  PROVE  LookupsFit'
<1>1. /\ Schedule(t) /\ blocked' = blocked \ {t} /\ pool' = pool \union {t}
      /\ UNCHANGED <<docs, completed, replies, answers, expected, steady>> /\ Known' = Known
  BY DEF ScheduleBlocked, Schedule, store, client, history, Known
<1>2. t \in Work /\ t \in Task /\ ongoing \in Seq(Entry)
  BY DEF Work, LookupInv, TypeOK
<1>3. Work' = Work \union {t}
  BY <1>1 DEF Work
<1>4. Entries' = Entries \/ (~IsRoundTask(t) /\ Entries' = Entries \union {Track(t)})
  BY <1>1, <1>2, ScheduledEntries
<1>5. \A d \in completed : HasId(t) => d.id # t.id
  BY <1>2 DEF LookupInv, Ledger, Concluding
<1>6. IsLookup(t) /\ t.phase = "origin" /\ t.id \in steady' => OriginFits(t)'
  BY <1>1, <1>2 DEF LookupsFit, OriginsFit, OriginFits
<1> QED
  BY <1>1, <1>2, <1>3, <1>4, <1>5, <1>6, AddedFits

LEMMA TriedEntries ==
  ASSUME NEW t \in Task, TrySchedule(t), ongoing \in Seq(Entry), ~IsRoundTask(t)
  PROVE  Entries' = Entries \/ (~IsRoundTask(t) /\ Entries' = Entries \union {Track(t)})
<1>1. CASE TaskBlocked(t, ongoing)
  BY <1>1 DEF TrySchedule, Entries, EntriesIn
<1>2. CASE ~TaskBlocked(t, ongoing)
  BY <1>2, ScheduledEntries DEF TrySchedule
<1> QED
  BY <1>1, <1>2

LEMMA LangRequestFits ==
  ASSUME LookupInv, LookupsFit, NEW kind \in {"goto", "refs"}, NEW u \in Uri,
         NEW files \in SUBSET Uri, files = Found(docs, kind, u), LangRequest(kind, u, files)
  PROVE  LookupsFit'
<1> DEFINE t == [kind |-> kind, id |-> next, phase |-> "origin", uri |-> u,
                 callee |-> u, text |-> docs[u].text, callers |-> {}]
<1>1. /\ pc = "process" /\ next <= MaxMsgs /\ u \in Known /\ TrySchedule(t)
      /\ expected' = [expected EXCEPT ![next] = files] /\ steady' = steady \union {next}
      /\ UNCHANGED <<docs, completed, replies, answers>> /\ Known' = Known
  BY DEF LangRequest, Message, store, Known
<1>2. next \in 1..MaxMsgs /\ next \notin asked
  BY LangRequestKeeps
<1>3. /\ replies[next] = 0 /\ completed = {} /\ steady \subseteq asked
      /\ ongoing \in Seq(Entry) /\ expected \in [1..MaxMsgs -> SUBSET Uri]
      /\ docs[u].text \in Text
  BY <1>1, <1>2 DEF LookupInv, TypeOK, Ledger, Requests, Concluding, Doc
<1>4. PICK s : s = t
  OBVIOUS
<1>5. /\ s.kind = kind /\ s.id = next /\ s.phase = "origin" /\ s.uri = u
      /\ s.text = docs[u].text /\ s \in LookupTask
  BY <1>2, <1>3, <1>4 DEF LookupTask
<1>6. s \in Task /\ IsLookup(s) /\ ~IsRoundTask(s) /\ TrySchedule(s)
  BY <1>1, <1>4, <1>5 DEF Task, IsLookup, IsRoundTask
<1> HIDE DEF t
<1>7. Work' = Work \union {s}
  BY <1>6, NewWork
<1>8. Entries' = Entries \/ (~IsRoundTask(s) /\ Entries' = Entries \union {Track(s)})
  BY <1>3, <1>6, TriedEntries
<1>9. OriginFits(s)'
  BY <1>1, <1>2, <1>3, <1>5 DEF OriginFits
<1>10. \A m \in steady' : \/ m \in steady /\ expected'[m] = expected[m]
                          \/ m = next /\ replies[m] = 0
  BY <1>1, <1>2, <1>3
<1>11. \A d \in completed : HasId(s) => d.id # s.id
  BY <1>3
<1> QED
  BY <1>1, <1>6, <1>7, <1>8, <1>9, <1>10, <1>11, AddedFits

LEMMA ChangeMessageFits ==
  ASSUME LookupInv, LookupsFit, Message, NEW t \in Task, ~IsLookup(t), TrySchedule(t),
         UNCHANGED <<pc, store, completed, asked, replies, answers, history>>
  PROVE  LookupsFit'
<1>1. ongoing \in Seq(Entry) /\ completed = {}
  BY DEF LookupInv, TypeOK, Ledger, Concluding, Message
<1>2. ~IsRoundTask(t)
  BY DEF IsRoundTask
<1>3. Work' = Work \union {t}
  BY NewWork
<1>4. Entries' = Entries \/ (~IsRoundTask(t) /\ Entries' = Entries \union {Track(t)})
  BY <1>1, <1>2, TriedEntries
<1>5. UNCHANGED <<docs, completed, replies, answers, expected, steady>>
  BY DEF store, history
<1> QED
  BY <1>1, <1>2, <1>3, <1>4, <1>5, AddedFits

LEMMA MessageFits ==
  ASSUME LookupInv, LookupsFit, ProcessMsg
  PROVE  LookupsFit'
<1>1. StoreTyped /\ next \in Nat
  BY TypeParts DEF LookupInv, TypeOK
<1>2. ASSUME NEW u \in Uri, GoToDefinition(u)
      PROVE  LookupsFit'
  <2>1. FoundDefinitions(docs, u) = Found(docs, "goto", u)
    BY DEF Found
  <2> QED
    BY <1>1, <1>2, <2>1, FoundTyped, LangRequestFits DEF GoToDefinition
<1>3. ASSUME NEW u \in Uri, FindReferences(u)
      PROVE  LookupsFit'
  <2>1. FoundReferences(docs, u) = Found(docs, "refs", u)
    BY DEF Found
  <2> QED
    BY <1>1, <1>3, <2>1, FoundTyped, LangRequestFits DEF FindReferences
<1>4. ASSUME NEW u \in Uri, NEW text \in EditTo[u], DidChange(u, text)
      PROVE  LookupsFit'
  <2> DEFINE t == [kind |-> "update", uri |-> u, text |-> text]
  <2>1. text \in Text
    BY LookupAssumption
  <2>2. t \in Task /\ ~IsLookup(t)
    BY <2>1 DEF Task, UpdateTask, IsLookup
  <2>3. /\ Message /\ TrySchedule(t)
        /\ UNCHANGED <<pc, store, completed, asked, replies, answers, history>>
    BY <1>4 DEF DidChange
  <2> HIDE DEF t
  <2> QED
    BY <2>2, <2>3, ChangeMessageFits
<1>5. ASSUME NEW ops \in Renames, DidRenameFiles(ops)
      PROVE  LookupsFit'
  <2>1. PICK t : t = [kind |-> "rename", id |-> next, ops |-> ops]
    OBVIOUS
  <2>2. t \in Task /\ ~IsLookup(t)
    BY <1>1, <2>1 DEF Task, RenameTask, IsLookup
  <2>3. /\ Message /\ TrySchedule(t)
        /\ UNCHANGED <<pc, store, completed, asked, replies, answers, history>>
    BY <1>5, <2>1 DEF DidRenameFiles
  <2> QED
    BY <2>2, <2>3, ChangeMessageFits
<1> QED
  BY <1>2, <1>3, <1>4, <1>5 DEF ProcessMsg

(* Where a lookup ends with nothing handed over, there is a next phase.    *)
LEMMA NothingDone ==
  ASSUME NEW e \in Lookup, Finished(e), DoneBy(e) = {}
  PROVE  e.kind = "refs" /\ e.phase # "subscripts" /\ Conclude(e) # Empty
<1>1. e.kind \in {"goto", "refs"} /\ e.phase \in Phase /\ IsRounds(e)
  BY DEF Finished, IsRounds
<1>2. e.kind # "goto"
  BY DEF DoneBy
<1>3. e.phase # "subscripts"
  BY <1>2 DEF DoneBy
<1>4. ~(e.phase = "callers" /\ e.found = {})
  BY <1>2 DEF DoneBy
<1> QED
  BY <1>1, <1>2, <1>3, <1>4, EmptiedBy

(* Between rounds a lookup has no tasks.                                   *)
LEMMA NoTasksLeft ==
  ASSUME LookupInv, NEW e \in Entries, e \in Lookup, IsRounds(e), Ready(e) \/ Finished(e)
  PROVE  RoundsOf(e) = {}
<1>1. /\ IsFiniteSet(RoundsOf(e))
      /\ Cardinality(RoundsOf(e)) = IF e.ready THEN 0 ELSE e.total - e.counted
      /\ e.total \in Nat /\ e.counted \in Nat
  BY DEF LookupInv, Ledger, Counting, Lookup
<1>2. Cardinality(RoundsOf(e)) \in Nat
  BY <1>1, FS_CardinalityType
<1>3. Cardinality(RoundsOf(e)) = 0
  BY <1>1, <1>2 DEF Ready, Finished
<1> QED
  BY <1>1, <1>3, FS_EmptySet

LEMMA EmptiedAt ==
  ASSUME NEW e \in Lookup, IsRounds(e), Progressed(e) = Empty
  PROVE  Finished(e) /\ Conclude(e) = Empty
<1>1. e.kind # Empty.kind /\ e # Empty
  BY DEF IsRounds, Empty
<1>2. CASE Ready(e) /\ ~Finished(e)
  <2>1. Queue(e) = Empty
    BY <1>2 DEF Progressed
  <2>2. Queue(e).kind = e.kind
    <3>1. CASE e.undone = {}
      BY <3>1 DEF Queue
    <3>2. CASE e.undone # {}
      BY <3>2, QueueEffect
    <3> QED
      BY <3>1, <3>2
  <2> QED
    BY <1>1, <2>1, <2>2
<1>3. CASE ~Ready(e) /\ ~Finished(e)
  BY <1>1, <1>3 DEF Progressed
<1>4. CASE Finished(e)
  BY <1>4 DEF Progressed
<1> QED
  BY <1>2, <1>3, <1>4

LEMMA ProgressFits ==
  ASSUME LookupInv, StoreFits, LookupsFit, Progress
  PROVE  LookupsFit'
<1>1. /\ pc = "progress" /\ completed = {} /\ Concluding
      /\ Distinct(ongoing) /\ Sound(docs) /\ TypeOK
  BY DEF Progress, LookupInv, Ledger, Concluding, IdsApart, StoreFits, DocsFit
<1>2. /\ ongoing' = Progressing
      /\ completed' = UNION {DoneBy(e) : e \in Entries}
      /\ \A q \in Queued : q[2][1] \in Known
      /\ UNCHANGED <<docs, replies, answers, expected, steady>> /\ Known' = Known
  BY <1>1 DEF Progress, client, history, Known
<1>3. /\ Entries' = {Progressed(e) : e \in Entries}
      /\ \A e \in Entries : e \in Entry
  BY <1>1, <1>2, PassKeeps DEF Entries
<1>4. /\ \A e \in Entries : Ready(e) \/ Finished(e) => RoundsOf(e) = {}
      /\ \A e \in Entries : HasId(e) => \A x : x.id = e.id =>
           RoundsOf(x)' = RoundsOf(e) \union {TaskFor(e, p) : p \in QueuedBy(e)}
  BY ProgressKeeps
<1>5. Empty \notin Entries
  BY <1>1 DEF LookupsFit, EmptySlots
<1>6. ASSUME NEW e \in Entries, IsRounds(e), e.id \in steady
      PROVE  /\ e \in Lookup /\ HasId(e) /\ RoundFits(docs, e, RoundsOf(e), expected[e.id])
             /\ Ready(e) \/ Finished(e) => RoundFits(docs, e, {}, expected[e.id])
  <2>1. e \in Lookup /\ HasId(e)
    BY <1>3, <1>6, EntryKinds DEF IsRounds, IsLookup, HasId
  <2>2. RoundFits(docs, e, RoundsOf(e), expected[e.id])
    BY <1>1, <1>6 DEF LookupsFit, RoundsFit
  <2>3. Ready(e) \/ Finished(e) => RoundsOf(e) = {}
    BY <1>4
  <2> QED
    BY <2>1, <2>2, <2>3
<1>7. ASSUME NEW e \in Entries, IsRounds(e)
      PROVE  e \in Lookup /\ HasId(e)
  BY <1>3, <1>7, EntryKinds DEF IsRounds, IsLookup, HasId
<1>8. OriginsFit'
  <2>1. ASSUME NEW t \in Work', t.phase = "origin", IsLookup(t)
        PROVE  t \in Work
    <3> DEFINE new == {TaskFor(q[1], q[2]) : q \in Queued}
               held == {s \in new : TaskBlocked(s, Progressing)}
    <3>1. pool' = pool \union (new \ held) /\ blocked' = blocked \union held
      BY DEF Progress
    <3>2. ASSUME NEW q \in Queued
          PROVE  TaskFor(q[1], q[2]).phase # "origin"
      <4>1. PICK e \in Entries : \E p \in QueuedBy(e) : q = <<e, p>>
        BY DEF Queued
      <4>2. q[1] = e /\ e.phase \in Phase
        BY <4>1 DEF QueuedBy, Ready, IsRounds
      <4> QED
        BY <4>2 DEF TaskFor, Phase
    <3>3. held \subseteq new /\ \A s \in new : s.phase # "origin"
      BY <3>2
    <3> HIDE DEF new, held
    <3> QED
      BY <2>1, <3>1, <3>3 DEF Work
  <2> QED
    BY <1>2, <2>1 DEF LookupsFit, OriginsFit, OriginFits
<1>9. DoneFit'
  <2> SUFFICES ASSUME NEW d \in completed', d.id \in steady
               PROVE  d.files = expected[d.id]
    BY <1>2 DEF DoneFit
  <2>1. PICK e \in Entries : d \in DoneBy(e)
    BY <1>2
  <2>2. Finished(e) /\ d.id = e.id /\ IsRounds(e)
    BY <2>1 DEF DoneBy, Finished
  <2>3. e \in Lookup /\ RoundFits(docs, e, {}, expected[e.id])
    BY <1>6, <2>2
  <2> QED
    BY <1>1, <2>1, <2>2, <2>3, DoneByFits
<1>10. AnswersFit'
  BY <1>2 DEF LookupsFit, AnswersFit
<1>11. RoundsFit'
  <2> SUFFICES ASSUME NEW x \in Entries', IsRounds(x), x.id \in steady,
                      \A d \in completed' : d.id # x.id
               PROVE  RoundFits(docs, x, RoundsOf(x)', expected[x.id])
    BY <1>2 DEF RoundsFit
  <2>1. PICK e \in Entries : x = Progressed(e)
    BY <1>3
  <2>2. IsRounds(e) /\ x.id = e.id
    <3>1. x # Empty
      BY DEF IsRounds, Empty
    <3>2. IsRounds(e)
      BY <1>3, <2>1, ProgressedEffect
    <3> QED
      BY <1>3, <1>7, <2>1, <3>1, <3>2, ProgressedEffect
  <2>3. /\ e \in Lookup /\ HasId(e) /\ RoundFits(docs, e, RoundsOf(e), expected[e.id])
        /\ Ready(e) \/ Finished(e) => RoundFits(docs, e, {}, expected[e.id])
    BY <1>6, <2>2
  <2>4. RoundsOf(x)' = RoundsOf(e) \union {TaskFor(e, p) : p \in QueuedBy(e)}
    BY <1>4, <2>2, <2>3
  <2>5. CASE Finished(e)
    <3>1. RoundsOf(x)' = {}
      BY <1>4, <2>4, <2>5 DEF QueuedBy, Ready, Finished
    <3>2. DoneBy(e) = {}
      <4>1. ASSUME NEW d \in DoneBy(e)
            PROVE  FALSE
        <5>1. d \in completed' /\ d.id = e.id
          BY <1>1, <1>2, <2>3, <2>5, DoneByFits
        <5> QED
          BY <2>2, <5>1
      <4> QED
        BY <4>1
    <3>3. e.kind = "refs" /\ e.phase # "subscripts" /\ Conclude(e) # Empty
      BY <2>3, <2>5, <3>2, NothingDone
    <3>4. x = Conclude(e)
      BY <2>1, <2>5 DEF Progressed
    <3>5. RoundFits(docs, e, {}, expected[e.id])
      BY <2>3, <2>5
    <3>6. RoundFits(docs, Conclude(e), {}, expected[e.id])
      BY <1>1, <2>3, <2>5, <3>3, <3>5, ConcludeFits
    <3> QED
      BY <2>2, <3>1, <3>4, <3>6
  <2>6. CASE Ready(e) /\ ~Finished(e)
    <3>1. x = Queue(e) /\ QueuedBy(e) = New(e) /\ RoundsOf(e) = {}
      BY <1>4, <2>1, <2>6 DEF Progressed, QueuedBy
    <3>2. \A p \in New(e) : p[1] \in DOMAIN docs
      <4> SUFFICES ASSUME NEW p \in New(e)
                   PROVE  p[1] \in Known
        BY DEF Known
      <4>1. <<e, p>> \in Queued
        BY <3>1 DEF Queued
      <4>2. <<e, p>>[2] = p
        OBVIOUS
      <4> QED
        BY <1>2, <4>1, <4>2
    <3>3. {TaskFor(e, p) : p \in New(e)} = {TaskOf(docs, e, p) : p \in New(e)}
      BY DEF TaskFor, TaskOf
    <3>4. RoundFits(docs, Queue(e), {TaskOf(docs, e, p) : p \in New(e)}, expected[e.id])
      <4>1. RoundFits(docs, e, {}, expected[e.id])
        BY <2>3, <2>6
      <4> QED
        BY <2>3, <3>2, <4>1, QueueFits
    <3>5. RoundsOf(x)' = {TaskOf(docs, e, p) : p \in New(e)}
      BY <2>4, <3>1, <3>3
    <3> QED
      BY <2>2, <3>1, <3>4, <3>5
  <2>7. CASE ~Finished(e) /\ ~Ready(e)
    <3>1. x = e /\ RoundsOf(x)' = RoundsOf(e)
      BY <2>1, <2>4, <2>7 DEF Progressed, QueuedBy
    <3> QED
      BY <2>3, <3>1
  <2> QED
    BY <2>5, <2>6, <2>7
<1>12. EmptySlots'
  <2> SUFFICES ASSUME Empty \in Entries'
               PROVE  \E d \in completed' : /\ \A f \in Entries' : HasId(f) => f.id # d.id
                                            /\ d.id \in steady => NotFoundAnywhere
    BY <1>2 DEF EmptySlots, NotFoundAnywhere
  <2>1. PICK e \in Entries : Progressed(e) = Empty
    BY <1>3
  <2>2. IsRounds(e)
    BY <1>3, <1>5, <2>1, ProgressedEffect
  <2>3. e \in Lookup /\ HasId(e) /\ e.kind # "empty"
    BY <1>7, <2>2 DEF HasId
  <2>4. Finished(e) /\ Conclude(e) = Empty
    BY <2>1, <2>2, <2>3, EmptiedAt
  <2>5. e.kind = "refs" /\ e.phase = "callers" /\ e.found = {}
    BY <2>2, <2>3, <2>4, EmptiedBy
  <2> DEFINE d == [id |-> e.id, files |-> {e.origin}]
  <2>6. d \in completed' /\ d.id = e.id
    <3>1. DoneBy(e) = {d}
      BY <2>4, <2>5 DEF DoneBy
    <3> QED
      BY <1>2, <3>1
  <2> HIDE DEF d
  <2>7. ASSUME NEW f \in Entries', HasId(f)
        PROVE  f.id # d.id
    <3>1. PICK g \in Entries : f = Progressed(g)
      BY <1>3
    <3>2. f # Empty
      BY <2>7 DEF HasId, Empty
    <3>3. HasId(g) /\ f.id = g.id
      BY <1>3, <2>7, <3>1, <3>2, ProgressedEffect DEF HasId
    <3>4. g # e
      BY <2>1, <3>1, <3>2
    <3> QED
      BY <1>1, <2>3, <2>6, <3>3, <3>4, SameEntry DEF Entries
  <2>8. d.id \in steady => NotFoundAnywhere
    <3> SUFFICES ASSUME e.id \in steady
                 PROVE  NotFoundAnywhere
      BY <2>6
    <3>1. RoundFits(docs, e, {}, expected[e.id])
      BY <1>6, <2>2, <2>4
    <3>2. docs[e.origin].listed /\ Definitions(docs, e.origin) = {}
      BY <1>1, <2>3, <2>4, <3>1, EmptiedFits
    <3>3. e.origin \in Known
      BY <3>1 DEF RoundFits, Known
    <3> QED
      BY <3>2, <3>3 DEF NotFoundAnywhere
  <2> QED
    BY <2>6, <2>7, <2>8
<1> QED
  BY <1>8, <1>9, <1>10, <1>11, <1>12 DEF LookupsFit

----------------------------------------------------------------------------
(* What ends the server.                                                   *)

LEMMA CalledInCalls ==
  ASSUME NEW D, Sound(D), NEW u \in DOMAIN D, D[u].text.calls \subseteq DOMAIN D
  PROVE  D[u].text.after \subseteq DOMAIN D /\ D[u].text.inherits \subseteq DOMAIN D
<1>1. D[u].text \in Text
  BY SoundTexts
<1> QED
  BY <1>1, LookupAssumption

(* If every call names a stored file, a lookup asks for stored files only. *)
LEMMA ReachKnown ==
  ASSUME NEW D, Sound(D), \A u \in DOMAIN D : D[u].text.calls \subseteq DOMAIN D,
         NEW e \in Lookup, e.phase \in Phase, e.origin \in DOMAIN D, NEW p \in Reach(D, e)
  PROVE  p[1] \in DOMAIN D
<1> DEFINE o == e.origin
           K == DOMAIN D
<1>1. K \subseteq Uri /\ \A u \in K : D[u].callers \subseteq K
  BY DEF Sound
<1>2. CASE e.phase = "callers"
  <2> DEFINE V == K \X K
  <2>1. V \in SUBSET (Uri \X Uri)
    BY <1>1
  <2>2. {<<c, o>> : c \in D[o].callers} \subseteq V
    BY <1>1
  <2>3. \A q \in SearchedIn(D, V) : CallersOfPair(D, q) \subseteq V
    BY <1>1 DEF SearchedIn, CallersOfPair
  <2> HIDE DEF V
  <2>4. CallChains(D, o) \subseteq V
    BY <2>1, <2>2, <2>3, ChainsOf
  <2>5. p \in V
    BY <1>2, <2>4 DEF Reach
  <2> QED
    BY <2>5 DEF V
<1>3. CASE e.phase = "definitions"
  <2>1. p \in Alone(Definitions(D, o))
    BY <1>3 DEF Reach
  <2> QED
    BY <2>1, DefinitionsIn, AlonePairs
<1>4. CASE e.phase = "subscripts"
  <2> DEFINE S == PassedOn(D, o)
  <2>1. \A u \in K : D[u].text.after \subseteq K /\ D[u].text.inherits \subseteq K
    BY CalledInCalls
  <2>2. S \subseteq K
    <3>1. Everywhere(D, o) \subseteq K
      BY DEF Everywhere
    <3>2. Called(D, Definitions(D, o)) \subseteq K
      BY <2>1, DefinitionsIn DEF Called
    <3> QED
      BY <3>1, <3>2 DEF PassedOn
  <2>3. S \in SUBSET Uri /\ K \in SUBSET Uri
    BY <1>1, <2>2
  <2>4. p \in Alone(Inheriting(D, S))
    BY <1>4 DEF Reach
  <2> HIDE DEF S
  <2>5. Inheriting(D, S) \subseteq K
    BY <2>1, <2>2, <2>3, InheritingOf
  <2> QED
    BY <2>4, <2>5, AlonePairs
<1> QED
  BY <1>2, <1>3, <1>4 DEF Phase

LEMMA QueuedKnown ==
  ASSUME LookupInv, StoreFits, LookupsFit, completed = {}, Workspace \subseteq Known,
         NEW q \in Queued, q[1].id \in steady
  PROVE  q[2][1] \in Known
<1>1. PICK e \in Entries : \E p \in QueuedBy(e) : q = <<e, p>>
  BY DEF Queued
<1>2. PICK p \in QueuedBy(e) : q = <<e, p>>
  BY <1>1
<1>3. Ready(e) /\ p \in New(e) /\ IsRounds(e) /\ e.id \in steady
  BY <1>2 DEF QueuedBy, Ready
<1>4. e \in Lookup
  <2>1. e \in Entry
    BY DEF LookupInv, TypeOK, Entries, EntriesIn
  <2> QED
    BY <1>3, <2>1, EntryKinds DEF IsRounds, IsLookup
<1>5. RoundFits(docs, e, RoundsOf(e), expected[e.id])
  BY <1>3 DEF LookupsFit, RoundsFit
<1>6. p \in Reach(docs, e) /\ e.origin \in DOMAIN docs /\ e.phase \in Phase
  BY <1>3, <1>5 DEF RoundFits, Covering, Pairs, New, IsRounds
<1>7. Sound(docs) /\ \A u \in DOMAIN docs : docs[u].text.calls \subseteq DOMAIN docs
  BY DEF StoreFits, DocsFit, Known
<1>8. p[1] \in DOMAIN docs
  BY <1>4, <1>6, <1>7, ReachKnown
<1> QED
  BY <1>2, <1>8 DEF Known

EmptyCause == ~(asked \subseteq steady) \/ NotFoundAnywhere

LEMMA EmptyExplained ==
  ASSUME LookupInv, LookupsFit, Empty \in Entries
  PROVE  EmptyCause
<1>1. PICK d \in completed : d.id \in steady => NotFoundAnywhere
  BY DEF LookupsFit, EmptySlots
<1>2. d.id \in asked
  BY DEF LookupInv, Ledger, Requests
<1> QED
  BY <1>1, <1>2 DEF EmptyCause

LEMMA EmptyPanic ==
  ASSUME EmptyCause, Panic("empty slot")
  PROVE  PanicCauses'
<1>1. pc' = "empty slot" /\ asked' = asked /\ steady' = steady /\ docs' = docs /\ Known' = Known
  BY DEF Panic, client, history, store, Known
<1> QED
  BY <1>1 DEF PanicCauses, EmptyCause, NotFoundAnywhere

LEMMA RunningOn ==
  ASSUME pc' \notin Crash
  PROVE  PanicCauses'
BY DEF PanicCauses, Crash

LEMMA StayFits ==
  ASSUME LookupsFit, PanicCauses, UNCHANGED vars
  PROVE  LookupsFit' /\ PanicCauses'
<1>1. UNCHANGED <<pc, store, tasks, client, history>>
  BY DEF vars
<1>2. /\ pc' = pc /\ Known' = Known /\ docs' = docs /\ asked' = asked /\ steady' = steady
      /\ Entries' = Entries
  BY <1>1 DEF store, tasks, client, history, Known, Entries, EntriesIn
<1>3. Queued' = Queued
  BY <1>2 DEF Queued
<1>4. PanicCauses'
  BY <1>2, <1>3 DEF PanicCauses
<1> QED
  BY <1>1, <1>4, QuietFits

LEMMA RecvPanicExplained ==
  ASSUME LookupInv, LookupsFit, NEW t \in pool, RecvPanic(t)
  PROVE  PanicCauses'
<1>1. Empty \in Entries
  BY DEF RecvPanic, MeetsEmpty, Entries, EntriesIn
<1> QED
  BY <1>1, EmptyExplained, EmptyPanic DEF RecvPanic

LEMMA RecvCompletedExplained ==
  ASSUME LookupInv, LookupsFit, NEW d \in completed, RecvCompleted(d)
  PROVE  PanicCauses'
<1>1. CASE MeetsEmpty(ongoing, WithId(d.id))
  <2>1. Empty \in Entries
    BY <1>1 DEF MeetsEmpty, Entries, EntriesIn
  <2> QED
    BY <1>1, <2>1, EmptyExplained, EmptyPanic DEF RecvCompleted
<1>2. CASE ~MeetsEmpty(ongoing, WithId(d.id))
  BY <1>2, RunningOn DEF RecvCompleted, Crash
<1> QED
  BY <1>1, <1>2

LEMMA ProgressPanicExplained ==
  ASSUME LookupInv, StoreFits, LookupsFit, ProgressPanic
  PROVE  PanicCauses'
<1>1. /\ pc = "progress" /\ completed = {} /\ Distinct(ongoing) /\ TypeOK /\ Sound(docs)
      /\ \A e \in Entries : e \in Entry
  BY PassKeeps DEF ProgressPanic, LookupInv, Ledger, Concluding, IdsApart, StoreFits, DocsFit
<1>2. CASE \E q \in Queued : q[2][1] \notin Known
  <2>1. PICK q \in Queued : q[2][1] \notin Known
    BY <1>2
  <2>2. Workspace \subseteq Known => q[1].id \notin steady
    BY <1>1, <2>1, QueuedKnown
  <2>3. Panic("file unknown")
    BY <1>2 DEF ProgressPanic
  <2>4. pc' = "file unknown" /\ Known' = Known /\ steady' = steady /\ Entries' = Entries
    BY <2>3 DEF Panic, store, tasks, history, Known, Entries, EntriesIn
  <2>5. Queued' = Queued
    BY <2>4 DEF Queued
  <2> QED
    BY <2>1, <2>2, <2>4, <2>5 DEF PanicCauses
<1>3. CASE ~\E q \in Queued : q[2][1] \notin Known
  <2>1. Empty \in EntriesIn(Progressing)
    BY <1>3 DEF ProgressPanic, MeetsEmpty, EntriesIn
  <2>2. PICK e \in Entries : Progressed(e) = Empty
    BY <1>1, <2>1, PassKeeps
  <2>3. Empty \notin Entries
    BY <1>1 DEF LookupsFit, EmptySlots
  <2>4. IsRounds(e)
    BY <1>1, <2>2, <2>3, ProgressedEffect
  <2>5. e \in Lookup /\ IsLookup(e)
    BY <1>1, <2>4, EntryKinds DEF IsRounds, IsLookup
  <2>6. Finished(e) /\ Conclude(e) = Empty
    BY <1>1, <2>2, <2>3, <2>4, <2>5, EmptiedAt
  <2>7. EmptyCause
    <3>1. e.id \in asked
      BY <2>5 DEF LookupInv, Ledger, Requests
    <3>2. CASE e.id \notin steady
      BY <3>1, <3>2 DEF EmptyCause
    <3>3. CASE e.id \in steady
      <4>1. RoundFits(docs, e, RoundsOf(e), expected[e.id])
        BY <1>1, <2>4, <3>3 DEF LookupsFit, RoundsFit
      <4>2. RoundsOf(e) = {}
        BY <2>4, <2>5, <2>6, NoTasksLeft
      <4>3. docs[e.origin].listed /\ Definitions(docs, e.origin) = {} /\ e.origin \in Known
        BY <1>1, <2>5, <2>6, <4>1, <4>2, EmptiedFits DEF RoundFits, Known
      <4> QED
        BY <4>3 DEF EmptyCause, NotFoundAnywhere
    <3> QED
      BY <3>2, <3>3
  <2>8. Panic("empty slot")
    BY <1>3 DEF ProgressPanic
  <2> QED
    BY <2>7, <2>8, EmptyPanic
<1> QED
  BY <1>2, <1>3

----------------------------------------------------------------------------
(* The invariant holds and is kept.                                        *)

LEMMA InitExact == Init => ExactInv
<1> SUFFICES ASSUME Init
             PROVE  ExactInv
  OBVIOUS
<1>1. PanicCauses
  BY DEF Init, PanicCauses
<1> QED
  BY <1>1, InitLookup, InitStore, InitFits DEF ExactInv

LEMMA StepFits ==
  ASSUME LookupInv, LookupInv', StoreFits, LookupsFit, Next, PanicCauses
  PROVE  LookupsFit' /\ PanicCauses'
<1>1. /\ "recv" \notin Crash /\ "completed" \notin Crash /\ "blocked" \notin Crash
      /\ "process" \notin Crash /\ "progress" \notin Crash
  BY DEF Crash
<1>2. CASE Receive
  <2>1. ASSUME NEW t \in pool, RecvPanic(t)
        PROVE  LookupsFit' /\ PanicCauses'
    BY <2>1, QuietFits, RecvPanicExplained DEF RecvPanic, Panic
  <2>2. ASSUME NEW t \in pool, RecvOrigin(t) \/ RecvRound(t)
        PROVE  LookupsFit' /\ PanicCauses'
    <3>1. pc' \notin Crash
      BY <1>1, <2>2 DEF RecvOrigin, RecvRound, Received
    <3> QED
      BY <2>2, <3>1, RecvOriginFits, RecvRoundFits, RunningOn
  <2>3. ASSUME NEW t \in pool, RecvUpdate(t) \/ RecvRename(t)
        PROVE  LookupsFit' /\ PanicCauses'
    <3>1. pc' \notin Crash
      BY <1>1, <2>3 DEF RecvUpdate, RecvRename, Received
    <3> QED
      BY <2>3, <3>1, ReceivedChangeFits, RunningOn
  <2>4. ASSUME NEW u \in DOMAIN unscanned, RecvScan(u)
        PROVE  LookupsFit' /\ PanicCauses'
    <3>1. pc' \notin Crash
      BY <1>1, <2>4 DEF RecvScan
    <3> QED
      BY <2>4, <3>1, StoreChangeFits, RunningOn
  <2> QED
    BY <1>2, <2>1, <2>2, <2>3, <2>4 DEF Receive
<1>3. CASE Loop
  <2>1. CASE EndRecv \/ EndCompleted \/ EndBlocked \/ EndProcess
    <3>1. pc' \notin Crash /\ UNCHANGED <<store, tasks, client, history>>
      BY <1>1, <2>1 DEF EndRecv, EndCompleted, EndBlocked, EndProcess
    <3> QED
      BY <3>1, QuietFits, RunningOn
  <2>2. ASSUME NEW d \in completed, RecvCompleted(d)
        PROVE  LookupsFit' /\ PanicCauses'
    BY <2>2, RecvCompletedFits, RecvCompletedExplained
  <2>3. CASE RecvDiscovery
    <3>1. pc' \notin Crash
      BY <1>1, <2>3 DEF RecvDiscovery
    <3> QED
      BY <2>3, <3>1, StoreChangeFits, RunningOn
  <2>4. ASSUME NEW t \in blocked, ScheduleBlocked(t)
        PROVE  LookupsFit' /\ PanicCauses'
    <3>1. pc' \notin Crash
      BY <1>1, <2>4 DEF ScheduleBlocked
    <3> QED
      BY <2>4, <3>1, ScheduleBlockedFits, RunningOn
  <2>5. CASE Progress
    <3>1. pc' \notin Crash
      BY <1>1, <2>5 DEF Progress
    <3> QED
      BY <2>5, <3>1, ProgressFits, RunningOn
  <2>6. CASE ProgressPanic
    <3>1. UNCHANGED <<store, tasks, client, history>>
      BY <2>6 DEF ProgressPanic, Panic
    <3> QED
      BY <2>6, <3>1, QuietFits, ProgressPanicExplained
  <2> QED
    BY <1>3, <2>1, <2>2, <2>3, <2>4, <2>5, <2>6 DEF Loop
<1>4. CASE ProcessMsg
  <2>1. pc' \notin Crash
    BY <1>1, <1>4 DEF ProcessMsg, GoToDefinition, FindReferences, LangRequest, DidChange,
                      DidRenameFiles, Message
  <2> QED
    BY <1>4, <2>1, MessageFits, RunningOn
<1>5. CASE Done
  BY <1>5, StayFits DEF Done
<1> QED
  BY <1>2, <1>3, <1>4, <1>5 DEF Next

LEMMA StepExact == ExactInv /\ [Next]_vars => ExactInv'
<1> SUFFICES ASSUME ExactInv, [Next]_vars
             PROVE  ExactInv'
  OBVIOUS
<1>1. LookupInv /\ StoreFits /\ LookupsFit /\ PanicCauses
  BY DEF ExactInv
<1>2. LookupInv'
  BY <1>1, StepLookup
<1>3. CASE Next
  BY <1>1, <1>2, <1>3, StepStore, StepFits DEF ExactInv
<1>4. CASE UNCHANGED vars
  <2>1. UNCHANGED <<docs, unscanned>> /\ Work' = Work
    BY <1>4 DEF vars, store, tasks, Work
  <2> QED
    BY <1>1, <1>2, <1>4, <2>1, StoreLeft, StayFits DEF ExactInv
<1> QED
  BY <1>3, <1>4

(* A lookup during which no document changes answers with exactly the      *)
(* files that the closures over calls and callers name, and only a file    *)
(* that is not stored and a search that finds nothing end the server       *)
(* (TaskProgress, progress_multi_part_tasks, find_definition, the phases   *)
(* of find_references).                                                    *)
THEOREM AnswersStayExact == Spec => []AnswersExact
<1>1. ExactInv => AnswersExact
  BY DEF ExactInv, LookupsFit, AnswersFit, AnswersExact
<1> QED
  BY <1>1, InitExact, StepExact, PTL DEF Spec
=============================================================================
