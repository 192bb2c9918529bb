----------------------- MODULE TaskSchedulerProofs --------------------------
(***************************************************************************)
(* Proofs about TaskScheduler, for every set of files, every set of        *)
(* renames and any number of messages of the client.                       *)
(***************************************************************************)
EXTENDS TaskScheduler, FiniteSetTheorems, FunctionTheorems,
        WellFoundedInduction, TLAPS

(* What remains of a sequence when an element is taken out.                *)
LEMMA WithoutType ==
  ASSUME NEW S, NEW s \in Seq(S), NEW i \in DOMAIN s
  PROVE  Without(s, i) \in Seq(S)
<1>1. Len(s) - 1 \in Nat /\ \A j \in 1..(Len(s) - 1) :
        j \in DOMAIN s /\ j + 1 \in DOMAIN s
  OBVIOUS
<1>2. \A j \in DOMAIN s : s[j] \in S
  OBVIOUS
<1>3. \A j \in 1..(Len(s) - 1) : (IF j < i THEN s[j] ELSE s[j + 1]) \in S
  BY <1>1, <1>2
<1> QED
  BY <1>1, <1>3 DEF Without

(* Vec::swap_remove yields a shorter sequence of the same elements.        *)
LEMMA SwapRemoveType ==
  ASSUME NEW S, NEW s \in Seq(S), NEW i \in DOMAIN s
  PROVE  SwapRemove(s, i) \in Seq(S)
<1>1. Len(s) - 1 \in Nat /\ Len(s) \in DOMAIN s
        /\ \A j \in 1..(Len(s) - 1) : j \in DOMAIN s
  OBVIOUS
<1>2. \A j \in DOMAIN s : s[j] \in S
  OBVIOUS
<1>3. \A j \in 1..(Len(s) - 1) : (IF j = i THEN s[Len(s)] ELSE s[j]) \in S
  BY <1>1, <1>2
<1> QED
  BY <1>1, <1>3 DEF SwapRemove

(* Nothing but the element itself is lost, and nothing is added.           *)
LEMMA WithoutKeeps ==
  ASSUME NEW S, NEW s \in Seq(S), NEW i \in DOMAIN s,
         NEW j \in DOMAIN s, i # j
  PROVE  \E k \in DOMAIN Without(s, i) : Without(s, i)[k] = s[j]
<1>1. CASE j < i
  <2>1. j \in 1..(Len(s) - 1)
    BY <1>1
  <2> QED
    BY <1>1, <2>1 DEF Without
<1>2. CASE j > i
  <2>1. j - 1 \in 1..(Len(s) - 1) /\ ~(j - 1 < i) /\ (j - 1) + 1 = j
    BY <1>2
  <2> QED
    BY <2>1 DEF Without
<1> QED
  BY <1>1, <1>2

(* Vec::remove adds no element.                                            *)
LEMMA WithoutAddsNothing ==
  ASSUME NEW S, NEW s \in Seq(S), NEW i \in DOMAIN s,
         NEW k \in DOMAIN Without(s, i)
  PROVE  \E j \in DOMAIN s : Without(s, i)[k] = s[j]
<1>1. k \in 1..(Len(s) - 1)
  BY DEF Without
<1>2. k \in DOMAIN s /\ k + 1 \in DOMAIN s
  BY <1>1
<1> QED
  BY <1>1, <1>2 DEF Without

----------------------------------------------------------------------------
(* Tasks, entries and renames have their types.                            *)

(* A rename moves files of Uri to files of Uri.                            *)
LEMMA RenameTyped ==
  ASSUME NEW r \in Renames
  PROVE  /\ DOMAIN r \subseteq Uri
         /\ \A o \in DOMAIN r : r[o] \in Uri \ DOMAIN r
         /\ \A o, p \in DOMAIN r : r[o] = r[p] => o = p
<1>1. PICK S \in SUBSET Uri : /\ r \in [S -> Uri \ S]
                              /\ \A o, p \in S : r[o] = r[p] => o = p
  BY UriAssumption
<1> QED
  BY <1>1

(* add_task_status_tracking creates entries of ongoing.                    *)
LEMMA EntryTyped ==
  ASSUME NEW t \in Task, ~IsScan(t)
  PROVE  EntryOf(t) \in Entry
<1>1. CASE t \in UpdateTask
  BY <1>1 DEF UpdateTask, IsUpdate, EntryOf, Entry
<1>2. CASE t \in LookupTask
  BY <1>2 DEF LookupTask, IsUpdate, EntryOf, Entry
<1>3. CASE t \in RenameTask
  BY <1>3 DEF RenameTask, IsUpdate, EntryOf, Entry
<1>4. CASE t \in ScanTask
  BY <1>4 DEF ScanTask, IsScan
<1> QED
  BY <1>1, <1>2, <1>3, <1>4 DEF Task, DocTask

(* A task yields a result of its kind.                                     *)
LEMMA ResultTyped ==
  ASSUME NEW t \in Task
  PROVE  ResultOf(t) \in Result
<1>1. CASE t \in ScanTask
  BY <1>1 DEF ScanTask, IsScan, ResultOf, Result, ScanResult
<1>2. CASE t \in DocTask
  <2>1. ~IsScan(t)
    BY <1>2 DEF DocTask, UpdateTask, LookupTask, RenameTask, IsScan
  <2> QED
    BY <1>2, <2>1 DEF ResultOf, Result
<1> QED
  BY <1>1, <1>2 DEF Task

(* What schedules a task keeps the types of the lists of tasks.            *)
TasksTyped == /\ blocked \in Seq(DocTask)
              /\ ongoing \in Seq(Entry)
              /\ pool \subseteq Task
              /\ exec \subseteq DOMAIN blocked

(* TaskSystem::schedule keeps the types of the task lists.                 *)
LEMMA ScheduleTyped ==
  ASSUME TasksTyped, NEW t \in Task, Schedule(t)
  PROVE  pool' \subseteq Task /\ ongoing' \in Seq(Entry)
<1>1. pool' \subseteq Task
  BY DEF Schedule, TasksTyped
<1>2. CASE IsScan(t)
  BY <1>1, <1>2 DEF Schedule, TasksTyped
<1>3. CASE ~IsScan(t)
  <2>1. EntryOf(t) \in Entry
    BY <1>3, EntryTyped
  <2>2. ongoing' = Append(ongoing, EntryOf(t))
    BY <1>3 DEF Schedule
  <2>3. ongoing \in Seq(Entry)
    BY DEF TasksTyped
  <2> HIDE DEF Entry
  <2> QED
    BY <1>1, <2>1, <2>2, <2>3
<1> QED
  BY <1>2, <1>3

(* try_schedule keeps the types of the task lists.                         *)
LEMMA TryScheduleTyped ==
  ASSUME TasksTyped, NEW t \in DocTask, TrySchedule(t), UNCHANGED exec
  PROVE  TasksTyped'
<1>1. CASE TaskBlocked(t)
  <2>1. blocked' = Append(blocked, t) /\ UNCHANGED <<ongoing, pool>>
    BY <1>1 DEF TrySchedule
  <2> QED
    BY <2>1 DEF TasksTyped
<1>2. CASE ~TaskBlocked(t)
  <2>1. Schedule(t) /\ UNCHANGED blocked
    BY <1>2 DEF TrySchedule
  <2>2. t \in Task
    BY DEF Task
  <2> QED
    BY <2>1, <2>2, ScheduleTyped DEF TasksTyped
<1> QED
  BY <1>1, <1>2

(* A set of positions that is not empty has a first one.                   *)
LEMMA FirstPosition ==
  ASSUME NEW T \in SUBSET Nat, T # {}
  PROVE  \E i \in T : \A j \in T : i <= j
<1> DEFINE R == OpToRel(<, Nat)
<1>1. PICK i \in T : \A j \in T : <<j, i>> \notin R
  BY WFMin, NatLessThanWellFounded
<1>2. \A j \in T : <<j, i>> \in Nat \X Nat
  OBVIOUS
<1>3. \A j \in T : j < i => <<j, i>> \in R
  BY <1>2 DEF OpToRel
<1>4. \A j \in T : ~(j < i)
  BY <1>1, <1>3
<1> QED
  BY <1>4

(* find_ongoing_task_by_id finds an entry that is registered.              *)
LEMMA FirstEntryIsEntry ==
  ASSUME ongoing \in Seq(Entry), NEW e, Registered(e)
  PROVE  FirstEntry(e) \in DOMAIN ongoing /\ ongoing[FirstEntry(e)] = e
<1> DEFINE T == {i \in DOMAIN ongoing : ongoing[i] = e}
<1>1. T \in SUBSET Nat /\ T # {}
  BY DEF Registered
<1>2. PICK i \in T : \A j \in T : i <= j
  BY <1>1, FirstPosition
<1>3. \E k \in DOMAIN ongoing :
        ongoing[k] = e /\ \A j \in DOMAIN ongoing : ongoing[j] = e => k <= j
  BY <1>2
<1> QED
  BY <1>3 DEF FirstEntry

(* mark_ongoing_task_completed keeps the type of ongoing.                  *)
LEMMA MarkCompletedTyped ==
  ASSUME ongoing \in Seq(Entry), NEW e, Registered(e), MarkCompleted(e)
  PROVE  ongoing' \in Seq(Entry)
<1>1. FirstEntry(e) \in DOMAIN ongoing
  BY FirstEntryIsEntry
<1> QED
  BY <1>1, WithoutType DEF MarkCompleted

(* TextDocs::rename_files keeps the type of the registry.                  *)
LEMMA RenameResultTyped ==
  ASSUME docs \in [Uri -> Doc], NEW t \in RenameTask
  PROVE  LET changes == Resolved(t.ops, t.files) IN
           /\ FileIndexUpdate(t.files, changes) \subseteq Uri
           /\ RenamedDocs(changes) \in [Uri -> Doc]
<1> DEFINE changes == Resolved(t.ops, t.files)
<1>1. t.ops \in Renames /\ t.files \subseteq Uri
  BY DEF RenameTask
<1>2. /\ DOMAIN t.ops \subseteq Uri
      /\ \A o \in DOMAIN t.ops : t.ops[o] \in Uri
  BY <1>1, RenameTyped
<1>3. /\ DOMAIN changes \subseteq Uri
      /\ \A o \in DOMAIN changes : changes[o] \in Uri
  BY <1>2 DEF Resolved
<1>4. Targets(changes) \subseteq Uri
  BY <1>3 DEF Targets
<1>5. FileIndexUpdate(t.files, changes) \subseteq Uri
  BY <1>1, <1>4 DEF FileIndexUpdate
<1>6. Absent \in Doc
  BY DEF Absent, Doc, Text
<1>7. \A u \in Targets(changes) :
        docs[CHOOSE o \in DOMAIN changes : changes[o] = u] \in Doc
  <2> TAKE u \in Targets(changes)
  <2>1. \E o \in DOMAIN changes : changes[o] = u
    BY DEF Targets
  <2>2. (CHOOSE o \in DOMAIN changes : changes[o] = u) \in DOMAIN changes
    BY <2>1
  <2> QED
    BY <2>2, <1>3
<1>8. RenamedDocs(changes) \in [Uri -> Doc]
  <2> HIDE DEF changes
  <2>1. \A u \in Uri :
          (IF u \in Targets(changes)
           THEN docs[CHOOSE o \in DOMAIN changes : changes[o] = u]
           ELSE IF u \in DOMAIN changes THEN Absent ELSE docs[u]) \in Doc
    BY <1>6, <1>7
  <2> QED
    BY <2>1 DEF RenamedDocs
<1> QED
  BY <1>5, <1>8

(* The tasks that the handlers create.                                     *)
LEMMA CreatedTyped ==
  ASSUME TypeOK, NEW u \in Uri
  PROVE  /\ [kind |-> "TextDocNew", n |-> next, uri |-> u, text |-> <<next>>]
              \in DocTask
         /\ [kind |-> "TextDocEdit", n |-> next, uri |-> u,
             text |-> docs[u].text] \in DocTask
         /\ [kind |-> "Lookup", n |-> next, uri |-> u, text |-> docs[u].text]
              \in DocTask
<1>1. next \in Nat /\ <<next>> \in Text
  BY UriAssumption DEF TypeOK, Text
<1>2. docs[u].text \in Text
  BY DEF TypeOK, Doc
<1>4. [kind |-> "TextDocNew", n |-> next, uri |-> u, text |-> <<next>>]
        \in UpdateTask
  BY <1>1 DEF UpdateTask
<1>5. [kind |-> "TextDocEdit", n |-> next, uri |-> u, text |-> docs[u].text]
        \in UpdateTask
  BY <1>1, <1>2 DEF UpdateTask
<1>6. [kind |-> "Lookup", n |-> next, uri |-> u, text |-> docs[u].text]
        \in LookupTask
  BY <1>1, <1>2 DEF LookupTask
<1> QED
  BY <1>4, <1>5, <1>6 DEF DocTask

(* The task that process_files_did_rename_notif creates.                   *)
LEMMA RenameCreated ==
  ASSUME TypeOK, NEW r \in Renames
  PROVE  [kind |-> "DidRenameFiles", n |-> next, ops |-> r, files |-> files]
            \in DocTask
<1>1. next \in Nat /\ files \subseteq Uri
  BY UriAssumption DEF TypeOK
<1>2. [kind |-> "DidRenameFiles", n |-> next, ops |-> r, files |-> files]
        \in RenameTask
  BY <1>1 DEF RenameTask
<1> QED
  BY <1>2 DEF DocTask

(* The tasks that move_to_file_parsing_stage creates.                      *)
LEMMA ScansCreated ==
  [kind : {"WorkspaceFileScan"}, uri : Workspace] \subseteq Task
<1>1. [kind : {"WorkspaceFileScan"}, uri : Workspace] \subseteq ScanTask
  BY UriAssumption DEF ScanTask
<1> QED
  BY <1>1 DEF Task

----------------------------------------------------------------------------
(* Type correctness.                                                       *)

(* The state at the entry of the main loop is typed.                       *)
LEMMA TypeInit == Init => TypeOK
<1> SUFFICES ASSUME Init PROVE TypeOK
  OBVIOUS
<1>1. unparsed \in Int
  <2>1. Cardinality(Workspace) \in Nat
    BY FS_CardinalityType, UriAssumption
  <2> QED
    BY <2>1 DEF Init, InitBooted, InitSteady
<1>2. docs \in [Uri -> Doc]
  <2>1. /\ Absent \in Doc
        /\ [status |-> "open", text |-> <<0>>] \in Doc
        /\ [status |-> "closed", text |-> <<0>>] \in Doc
    BY DEF Doc, Absent, Text
  <2> QED
    BY <2>1 DEF Init, InitBooted, InitSteady
<1>3. discovery \in {"ready", "parsing", "finished", "gone"}
  BY DEF Init, InitBooted, InitSteady
<1>4. editor \in [Uri -> Text]
  <2>1. <<0>> \in Text /\ <<>> \in Text
    BY DEF Text
  <2> QED
    BY <2>1 DEF Init
<1>5. /\ files \subseteq Uri /\ disk \subseteq Uri
      /\ next \in 1..(MaxMsgs + 1)
      /\ replies \in [1..MaxMsgs -> Nat]
  BY UriAssumption DEF Init
<1>6. TasksTyped /\ rx \subseteq Result
  BY DEF Init, TasksTyped
<1>7. /\ pc = "recv" /\ ii \in Nat \ {0} /\ asked \subseteq 1..MaxMsgs
  BY DEF Init
<1>8. shutdown \in BOOLEAN /\ exit \in BOOLEAN
  BY DEF Init
<1>9. calm \in BOOLEAN
  BY DEF Init
<1> QED
  BY <1>1, <1>2, <1>3, <1>4, <1>5, <1>6, <1>7, <1>8, <1>9 DEF TypeOK, TasksTyped

(* The handlers of messages, by what they have in common.                  *)
LEMMA TypeMessage ==
  ASSUME TypeOK, ProcessMsg
  PROVE  TypeOK'
<1>1. TasksTyped
  BY DEF TypeOK, TasksTyped
<1>2. ASSUME Message PROVE /\ pc = "process"
                          /\ next \in 1..MaxMsgs /\ next \in Nat
                          /\ next' \in 1..(MaxMsgs + 1)
  BY <1>2, UriAssumption DEF Message, TypeOK
<1>2a. ASSUME NEW us, Change(us) PROVE Message /\ calm' \in BOOLEAN
  BY <1>2a DEF Change
<1>3. ASSUME NEW u \in Uri, DidOpen(u) PROVE TypeOK'
  <2>1. TasksTyped'
    BY <1>1, <1>3, TryScheduleTyped, CreatedTyped DEF DidOpen, loopVars
  <2>2. editor' \in [Uri -> Text]
    BY <1>2, <1>2a, <1>3 DEF DidOpen, TypeOK, Text
  <2> QED
    BY <1>2, <1>2a, <1>3, <2>1, <2>2
    DEF DidOpen, TypeOK, TasksTyped, loopVars, discVars, envVars, stateVars
<1>4. ASSUME NEW u \in Uri, DidChange(u) PROVE TypeOK'
  <2>1. TasksTyped'
    BY <1>1, <1>4, TryScheduleTyped, CreatedTyped
    DEF DidChange, TasksTyped, taskVars, loopVars
  <2>2. editor' \in [Uri -> Text]
    <3>1. Append(editor[u], next) \in Text
      BY <1>2, <1>2a, <1>4 DEF DidChange, TypeOK, Text
    <3> QED
      BY <3>1, <1>4 DEF DidChange, TypeOK
  <2> QED
    BY <1>2, <1>2a, <1>4, <2>1, <2>2
    DEF DidChange, TypeOK, TasksTyped, loopVars, discVars, envVars, stateVars
<1>5. ASSUME NEW u \in Uri, DidClose(u) PROVE TypeOK'
  <2>1. docs' \in [Uri -> Doc]
    BY <1>5 DEF DidClose, TypeOK, Doc
  <2>2. editor' \in [Uri -> Text]
    BY <1>5 DEF DidClose, TypeOK, Text
  <2> QED
    BY <1>2, <1>2a, <1>5, <2>1, <2>2
    DEF DidClose, TypeOK, loopVars, taskVars, discVars, stateVars
<1>6. ASSUME NEW u \in Uri, LangRequest(u) PROVE TypeOK'
  <2>1. TasksTyped'
    BY <1>1, <1>6, TryScheduleTyped, CreatedTyped
    DEF LangRequest, TasksTyped, taskVars, loopVars
  <2>2. asked' \subseteq 1..MaxMsgs
    BY <1>2, <1>6 DEF LangRequest, TypeOK
  <2>3. replies' \in [1..MaxMsgs -> Nat]
    BY <1>2, <1>6 DEF LangRequest, TypeOK
  <2> QED
    BY <1>2, <1>6, <2>1, <2>2, <2>3
    DEF LangRequest, TypeOK, TasksTyped, loopVars, discVars, envVars, stateVars
<1>7. ASSUME NEW r \in Renames, DidRenameFiles(r) PROVE TypeOK'
  <2>1. TasksTyped'
    BY <1>1, <1>7, TryScheduleTyped, RenameCreated
    DEF DidRenameFiles, loopVars
  <2>2. disk' \subseteq Uri
    BY <1>7, RenameTyped DEF DidRenameFiles, TypeOK, Targets
  <2>3. Message /\ calm' \in BOOLEAN
    BY <1>7 DEF DidRenameFiles
  <2> QED
    BY <1>2, <1>7, <2>1, <2>2, <2>3
    DEF DidRenameFiles, TypeOK, TasksTyped, loopVars, discVars, envVars,
        stateVars
<1>8. ASSUME ShutdownRequest PROVE TypeOK'
  <2>1. asked' \subseteq 1..MaxMsgs
    BY <1>2, <1>8 DEF ShutdownRequest, TypeOK
  <2>2. replies' \in [1..MaxMsgs -> Nat]
    BY <1>2, <1>8 DEF ShutdownRequest, TypeOK
  <2> QED
    BY <1>2, <1>8, <2>1, <2>2
    DEF ShutdownRequest, TypeOK, loopVars, taskVars, discVars, envVars
<1>9. ASSUME ExitNotification PROVE TypeOK'
  BY <1>2, <1>9
  DEF ExitNotification, TypeOK, loopVars, taskVars, discVars, envVars
<1> QED
  BY <1>3, <1>4, <1>5, <1>6, <1>7, <1>8, <1>9 DEF ProcessMsg

(* A worker that finishes a task keeps the types.                          *)
LEMMA TypeFinish ==
  ASSUME TypeOK, NEW t \in pool, Finish(t)
  PROVE  TypeOK'
<1>1. pool' \subseteq Task /\ rx' \subseteq Result
  BY ResultTyped DEF Finish, TypeOK
<1> QED
  BY <1>1
  DEF Finish, TypeOK, loopVars, discVars, envVars, stateVars, clientVars

(* The handlers of results.                                                *)
LEMMA TypeReceive ==
  ASSUME TypeOK, Receive
  PROVE  TypeOK'
<1>1. ASSUME NEW t \in rx, Received(t)
      PROVE  rx' \subseteq Result /\ t \in Result
             /\ (~IsScan(t) => Registered(EntryOf(t)))
  BY <1>1 DEF Received, Fails, EntryMissing, TypeOK
<1>2. ASSUME NEW e, Registered(e), MarkCompleted(e)
      PROVE  ongoing' \in Seq(Entry)
  BY <1>2, MarkCompletedTyped DEF TypeOK
<1>3. ASSUME NEW t \in rx, RecvUpdate(t) PROVE TypeOK'
  <2>1. t \in UpdateTask
    BY <1>1, <1>3
    DEF RecvUpdate, Result, DocTask, IsUpdate, UpdateTask, LookupTask,
        RenameTask, ScanResult
  <2>2. /\ t.uri \in Uri /\ t.text \in Text /\ t.n \in Nat
    BY <2>1 DEF UpdateTask
  <2>3. [status |-> "open", text |-> t.text] \in Doc
    BY <2>2 DEF Doc
  <2>4. [status |-> docs[t.uri].status, text |-> Append(t.text, t.n)] \in Doc
    BY <2>2 DEF Doc, TypeOK, Text
  <2>5. docs' \in [Uri -> Doc]
    BY <1>3, <2>3, <2>4 DEF RecvUpdate, StoreUpdate, TypeOK
  <2>6. ongoing' \in Seq(Entry)
    BY <1>1, <1>2, <1>3 DEF RecvUpdate, IsUpdate, IsScan
  <2> QED
    BY <1>1, <1>3, <2>5, <2>6
    DEF RecvUpdate, TypeOK, loopVars, discVars, stateVars, clientVars
<1>4. ASSUME NEW t \in rx, RecvLookup(t) PROVE TypeOK'
  <2>1. replies' \in [1..MaxMsgs -> Nat]
    <3>1. t \in LookupTask
      BY <1>1, <1>4
      DEF RecvLookup, Result, DocTask, IsLookup, UpdateTask, LookupTask,
          RenameTask, ScanResult
    <3>2. t.n \in Nat /\ replies' = [replies EXCEPT ![t.n] = @ + 1]
      BY <1>4, <3>1 DEF RecvLookup, LookupTask
    <3>3. replies \in [1..MaxMsgs -> Nat]
      BY DEF TypeOK
    <3>4. CASE t.n \in 1..MaxMsgs
      BY <3>2, <3>3, <3>4
    <3>5. CASE t.n \notin 1..MaxMsgs
      BY <3>2, <3>3, <3>5
    <3> QED
      BY <3>4, <3>5
  <2>2. ongoing' \in Seq(Entry)
    BY <1>1, <1>2, <1>4 DEF RecvLookup, IsLookup, IsScan
  <2> QED
    BY <1>1, <1>4, <2>1, <2>2
    DEF RecvLookup, TypeOK, loopVars, discVars, envVars, stateVars
<1>5. ASSUME NEW t \in rx, RecvRename(t) PROVE TypeOK'
  <2>1. t \in RenameTask
    BY <1>1, <1>5
    DEF RecvRename, Result, DocTask, IsRename, UpdateTask, LookupTask,
        RenameTask, ScanResult
  <2>2. docs' \in [Uri -> Doc] /\ files' \subseteq Uri
    BY <1>5, <2>1, RenameResultTyped DEF RecvRename, TypeOK
  <2>3. ongoing' \in Seq(Entry)
    BY <1>1, <1>2, <1>5 DEF RecvRename, IsRename, IsScan
  <2> QED
    BY <1>1, <1>5, <2>2, <2>3
    DEF RecvRename, TypeOK, loopVars, discVars, stateVars, clientVars
<1>6. ASSUME NEW t \in rx, RecvScan(t) PROVE TypeOK'
  <2>1. t \in ScanResult
    BY <1>1, <1>6
    DEF RecvScan, Result, DocTask, IsScan, UpdateTask, LookupTask, RenameTask
  <2>2. docs' \in [Uri -> Doc]
    <3>1. [status |-> "closed", text |-> <<0>>] \in Doc
      BY DEF Doc, Text
    <3> QED
      BY <1>6, <2>1, <3>1 DEF RecvScan, StoreScan, TypeOK, ScanResult
  <2>3. unparsed' \in Int
    BY <1>6 DEF RecvScan, TypeOK
  <2> QED
    BY <1>1, <1>6, <2>2, <2>3
    DEF RecvScan, TypeOK, loopVars, taskVars, stateVars, clientVars
<1>7. ASSUME NEW t \in rx, RecvPanic(t) PROVE TypeOK'
  <2>1. pc' \in Crash
    BY <1>7 DEF RecvPanic, CrashOf, Crash
  <2> QED
    BY <1>7, <2>1
    DEF RecvPanic, TypeOK, taskVars, discVars, envVars, stateVars, clientVars
<1>8. ASSUME RecvDiscovery PROVE TypeOK'
  BY <1>8
  DEF RecvDiscovery, TypeOK, loopVars, taskVars, envVars, stateVars, clientVars
<1>9. ASSUME EndRecv PROVE TypeOK'
  BY <1>9
  DEF EndRecv, TypeOK, taskVars, discVars, envVars, stateVars, clientVars
<1> QED
  BY <1>3, <1>4, <1>5, <1>6, <1>7, <1>8, <1>9 DEF Receive

(* The steps of the loop that handle neither results nor messages.         *)
LEMMA TypeLoop ==
  ASSUME TypeOK, ScheduleBlocked \/ RemoveScheduled \/ EndProcess \/ Progress
  PROVE  TypeOK'
<1>1. TasksTyped
  BY DEF TypeOK, TasksTyped
<1>2. ASSUME ScheduleBlocked PROVE TypeOK'
  <2>1. ii \in DOMAIN blocked /\ blocked[ii] \in Task
    BY <1>2 DEF ScheduleBlocked, TypeOK, Task
  <2>2. pool' \subseteq Task /\ ongoing' \in Seq(Entry)
    BY <1>1, <1>2, <2>1, ScheduleTyped DEF ScheduleBlocked, TasksTyped
  <2>3. ii' \in Nat \ {0} /\ exec' \subseteq DOMAIN blocked'
    BY <1>2, <2>1 DEF ScheduleBlocked, TypeOK
  <2> QED
    BY <1>2, <2>2, <2>3
    DEF ScheduleBlocked, TypeOK, discVars, envVars, stateVars, clientVars
<1>3. ASSUME RemoveScheduled PROVE TypeOK'
  <2>1. ASSUME NEW e \in exec, \A f \in exec : f <= e,
               blocked' = SwapRemove(blocked, e),
               exec' = exec \ {e},
               ii' = ii - 1,
               UNCHANGED pc
        PROVE  TypeOK'
    <3>1. e \in DOMAIN blocked /\ e \in 1..Len(blocked)
      BY <1>1, <2>1 DEF TasksTyped
    <3>2. blocked' \in Seq(DocTask)
      BY <1>1, <2>1, <3>1, SwapRemoveType DEF TasksTyped
    <3>3. DOMAIN blocked' = 1..(Len(blocked) - 1)
      BY <2>1 DEF SwapRemove
    <3>4. \A f \in exec' : f \in 1..Len(blocked) /\ f <= e /\ f # e
      BY <1>1, <2>1 DEF TasksTyped
    <3>5. exec' \subseteq DOMAIN blocked'
      BY <1>1, <3>1, <3>3, <3>4 DEF TasksTyped
    <3>6. ii' \in Nat \ {0}
      BY <1>1, <1>3, <2>1, <3>1 DEF RemoveScheduled, TypeOK
    <3> QED
      BY <1>3, <2>1, <3>2, <3>5, <3>6
      DEF RemoveScheduled, TypeOK, discVars, envVars, stateVars, clientVars
  <2>2. ASSUME pc' = "process", ii' = 1, UNCHANGED <<blocked, exec>>
        PROVE  TypeOK'
    BY <1>3, <2>2
    DEF RemoveScheduled, TypeOK, discVars, envVars, stateVars, clientVars
  <2> QED
    BY <1>3, <2>1, <2>2 DEF RemoveScheduled
<1>4. ASSUME EndProcess PROVE TypeOK'
  BY <1>4
  DEF EndProcess, TypeOK, taskVars, discVars, envVars, stateVars, clientVars
<1>5. ASSUME Progress PROVE TypeOK'
  <2>1. pool' \subseteq Task
    BY <1>5, ScansCreated DEF Progress, StartScans, TypeOK
  <2>2. discovery' \in {"ready", "parsing", "finished", "gone"}
    BY <1>5 DEF Progress, StartScans, TypeOK
  <2>3. pc' \in {"exited", "recv"}
    BY <1>5 DEF Progress
  <2> QED
    BY <1>5, <2>1, <2>2, <2>3
    DEF Progress, TypeOK, envVars, stateVars, clientVars
<1> QED
  BY <1>2, <1>3, <1>4, <1>5

(* Every step keeps the types.                                             *)
LEMMA TypeStep == TypeOK /\ [Next]_vars => TypeOK'
<1> SUFFICES ASSUME TypeOK, [Next]_vars PROVE TypeOK'
  OBVIOUS
<1>1. CASE MainLoop
  BY <1>1, TypeReceive, TypeLoop DEF MainLoop
<1>2. CASE ProcessMsg
  BY <1>2, TypeMessage
<1>3. CASE \E t \in pool : Finish(t)
  BY <1>3, TypeFinish
<1>4. CASE UNCHANGED vars
  BY <1>4
  DEF vars, TypeOK, loopVars, taskVars, discVars, envVars, stateVars,
      clientVars
<1> QED
  BY <1>1, <1>2, <1>3, <1>4 DEF Next, Done

(* The state keeps its types.                                              *)
THEOREM TypeCorrect == Spec => []TypeOK
BY TypeInit, TypeStep, PTL DEF Spec

-----------------------------------------------------------------------------
(***************************************************************************)
(* Mutual exclusion of the tasks of TaskScheduler and the progress of the  *)
(* workspace discovery, proved from one inductive invariant, Apart.        *)
(*                                                                         *)
(* task_blocked decides from the list `ongoing` alone.  It keeps tasks     *)
(* apart because every update and every rename in the hands of the workers *)
(* has its entry there until its result is received, and because the entry *)
(* removed then is its own.  The discovery has no entry per scan: a rename *)
(* finds no scan under way since the progress counter reaches zero with    *)
(* the last of them.                                                       *)
(***************************************************************************)

Scans == {t \in InFlight : IsScan(t)}
ScanUris == {t.uri : t \in Scans}

UpdatesApart ==
  /\ \A t \in InFlight : IsUpdate(t) => Updating(t.uri)
  /\ OneUpdateAtATime
  /\ \A t \in pool : IsUpdate(t) => t \notin rx

RenamesApart ==
  /\ \A r \in InFlight : IsRename(r) => Tracks("DidRenameFiles")
  /\ RenameAlone
  /\ \A r \in pool : IsRename(r) => r \notin rx

(* A file is under way once, and the files under way are those that the    *)
(* discovery still waits for.                                              *)
ScansCounted ==
  /\ \A s, t \in Scans : s.uri = t.uri => s = t
  /\ ScanUris \subseteq Workspace
  /\ unparsed = IF discovery = "ready" THEN Cardinality(Workspace)
                ELSE Cardinality(ScanUris)
  /\ discovery # "parsing" => Scans = {}

Apart == TypeOK /\ UpdatesApart /\ RenamesApart /\ ScansCounted

----------------------------------------------------------------------------
(* What a step does to the tasks under way.                                *)

StaysPut == UNCHANGED <<pool, rx, ongoing, discVars>>

Starts(t) == /\ ~TaskBlocked(t)
             /\ Schedule(t)
             /\ UNCHANGED <<rx, discVars>>

Ends(t) == /\ t \in rx
           /\ ~IsScan(t)
           /\ Registered(EntryOf(t))
           /\ rx' = rx \ {t}
           /\ MarkCompleted(EntryOf(t))
           /\ UNCHANGED <<pool, discVars>>

(* A handler that tries to schedule a task starts it or leaves it blocked. *)
LEMMA TriedTask ==
  ASSUME NEW t \in DocTask, TrySchedule(t), UNCHANGED <<rx, discVars>>
  PROVE  StaysPut \/ Starts(t)
BY DEF TrySchedule, StaysPut, Starts, discVars

(* A message of the client starts at most one task.                        *)
LEMMA MessageKinds ==
  ASSUME TypeOK, ProcessMsg
  PROVE  StaysPut \/ \E t \in DocTask : Starts(t)
<1>1. ASSUME NEW u \in Uri, DidOpen(u)
      PROVE  StaysPut \/ \E t \in DocTask : Starts(t)
  BY <1>1, TriedTask, CreatedTyped DEF DidOpen
<1>2. ASSUME NEW u \in Uri, DidChange(u)
      PROVE  StaysPut \/ \E t \in DocTask : Starts(t)
  <2>1. CASE UNCHANGED taskVars
    BY <1>2, <2>1 DEF DidChange, StaysPut, taskVars
  <2>2. CASE TrySchedule([kind |-> "TextDocEdit", n |-> next, uri |-> u,
                          text |-> docs[u].text])
    BY <1>2, <2>2, TriedTask, CreatedTyped DEF DidChange
  <2> QED
    BY <1>2, <2>1, <2>2 DEF DidChange
<1>3. ASSUME NEW u \in Uri, LangRequest(u)
      PROVE  StaysPut \/ \E t \in DocTask : Starts(t)
  <2>1. CASE UNCHANGED taskVars
    BY <1>3, <2>1 DEF LangRequest, StaysPut, taskVars
  <2>2. CASE TrySchedule([kind |-> "Lookup", n |-> next, uri |-> u,
                          text |-> docs[u].text])
    BY <1>3, <2>2, TriedTask, CreatedTyped DEF LangRequest
  <2> QED
    BY <1>3, <2>1, <2>2 DEF LangRequest
<1>4. ASSUME NEW r \in Renames, DidRenameFiles(r)
      PROVE  StaysPut \/ \E t \in DocTask : Starts(t)
  BY <1>4, TriedTask, RenameCreated DEF DidRenameFiles
<1>5. ASSUME NEW u \in Uri, DidClose(u) PROVE StaysPut
  BY <1>5 DEF DidClose, StaysPut, taskVars
<1>6. ASSUME ShutdownRequest PROVE StaysPut
  BY <1>6 DEF ShutdownRequest, StaysPut, taskVars
<1>7. ASSUME ExitNotification PROVE StaysPut
  BY <1>7 DEF ExitNotification, StaysPut, taskVars
<1> QED
  BY <1>1, <1>2, <1>3, <1>4, <1>5, <1>6, <1>7 DEF ProcessMsg

(* Every step is one of these.                                             *)
LEMMA StepKinds ==
  ASSUME TypeOK, [Next]_vars
  PROVE  \/ StaysPut
         \/ \E t \in DocTask : Starts(t)
         \/ \E t \in pool : Finish(t)
         \/ \E t \in rx : Ends(t)
         \/ \E t \in rx : RecvScan(t)
         \/ RecvDiscovery
         \/ Progress
<1>1. ASSUME NEW t \in rx, RecvUpdate(t) \/ RecvLookup(t) \/ RecvRename(t)
      PROVE  Ends(t)
  <2>1. Received(t) /\ ~IsScan(t)
    BY <1>1 DEF RecvUpdate, RecvLookup, RecvRename, IsUpdate, IsLookup,
                IsRename, IsScan
  <2>2. Registered(EntryOf(t)) /\ rx' = rx \ {t}
    BY <2>1 DEF Received, Fails, EntryMissing
  <2>3. MarkCompleted(EntryOf(t)) /\ UNCHANGED <<pool, discVars>>
    BY <1>1 DEF RecvUpdate, RecvLookup, RecvRename
  <2> QED
    BY <2>1, <2>2, <2>3 DEF Ends
<1>2. ASSUME NEW t \in rx, RecvPanic(t) PROVE StaysPut
  BY <1>2 DEF RecvPanic, StaysPut, taskVars
<1>3. ASSUME EndRecv \/ RemoveScheduled \/ EndProcess PROVE StaysPut
  BY <1>3 DEF EndRecv, RemoveScheduled, EndProcess, StaysPut, taskVars
<1>4. ASSUME ScheduleBlocked
      PROVE  StaysPut \/ \E t \in DocTask : Starts(t)
  <2>1. blocked[ii] \in DocTask
    BY <1>4 DEF ScheduleBlocked, TypeOK
  <2> QED
    BY <1>4, <2>1 DEF ScheduleBlocked, StaysPut, Starts
<1>5. ASSUME UNCHANGED vars PROVE StaysPut
  BY <1>5 DEF vars, StaysPut, taskVars
<1> QED
  BY <1>1, <1>2, <1>3, <1>4, <1>5, MessageKinds
  DEF Next, MainLoop, Receive, Done

----------------------------------------------------------------------------
(* The entries of ongoing.                                                 *)

(* An appended entry hides none of the others.                             *)
LEMMA AppendKeeps ==
  ASSUME ongoing \in Seq(Entry), NEW t \in DocTask, Schedule(t)
  PROVE  /\ Registered(EntryOf(t))'
         /\ \A e : Registered(e) => Registered(e)'
<1>1. ~IsScan(t) /\ t \in Task
  BY DEF DocTask, UpdateTask, LookupTask, RenameTask, IsScan, Task
<1>2. ongoing' = Append(ongoing, EntryOf(t)) /\ EntryOf(t) \in Entry
  BY <1>1, EntryTyped DEF Schedule
<1> DEFINE e0 == EntryOf(t)
<1>3. ongoing' = Append(ongoing, e0) /\ e0 \in Entry
  BY <1>2
<1> HIDE DEF e0
<1>4. /\ Len(ongoing) + 1 \in DOMAIN ongoing'
      /\ ongoing'[Len(ongoing) + 1] = e0
      /\ \A i \in DOMAIN ongoing :
           i \in DOMAIN ongoing' /\ ongoing'[i] = ongoing[i]
  <2> HIDE DEF Entry
  <2> QED
    BY <1>3
<1>5. EntryOf(t)' = EntryOf(t)
  BY DEF EntryOf
<1> QED
  BY <1>4, <1>5 DEF Registered, e0

(* The end of a task takes away its entry and no other one.                *)
LEMMA EndsKeeps ==
  ASSUME ongoing \in Seq(Entry), NEW t, Ends(t),
         NEW e, Registered(e), e # EntryOf(t)
  PROVE  Registered(e)'
<1> DEFINE i == FirstEntry(EntryOf(t))
<1>1. i \in DOMAIN ongoing /\ ongoing[i] = EntryOf(t)
  BY FirstEntryIsEntry DEF Ends
<1>2. PICK j \in DOMAIN ongoing : ongoing[j] = e
  BY DEF Registered
<1>3. j # i
  BY <1>1, <1>2
<1>4. \E k \in DOMAIN Without(ongoing, i) : Without(ongoing, i)[k] = ongoing[j]
  <2> HIDE DEF i, Entry
  <2> QED
    BY <1>1, <1>3, WithoutKeeps
<1>5. ongoing' = Without(ongoing, i)
  BY DEF Ends, MarkCompleted
<1> QED
  BY <1>2, <1>4, <1>5 DEF Registered

(* Updating and Tracks in terms of the entries.                            *)
LEMMA UpdatingIsRegistered ==
  /\ \A u : Updating(u) <=> Registered([kind |-> "TextDocUpdate", uri |-> u])
  /\ \A u : Updating(u)' <=> Registered([kind |-> "TextDocUpdate", uri |-> u])'
BY DEF Updating, Registered

(* The same for the entries of renames.                                    *)
LEMMA TracksIsRegistered ==
  /\ \A e : Registered(e) /\ e.kind = "DidRenameFiles"
              => Tracks("DidRenameFiles")
  /\ Tracks("DidRenameFiles")
       => \E e : Registered(e) /\ e.kind = "DidRenameFiles"
  /\ \A e : Registered(e)' /\ e.kind = "DidRenameFiles"
              => Tracks("DidRenameFiles")'
BY DEF Tracks, Registered

(* Results of tasks that are not scans are the tasks themselves.           *)
LEMMA KindsOfTasks ==
  /\ \A t : IsUpdate(t) => ~IsScan(t) /\ ~IsRename(t)
  /\ \A t : IsRename(t) => ~IsScan(t) /\ ~IsUpdate(t)
  /\ \A t : ~IsScan(t) => ResultOf(t) = t
  /\ \A t : IsScan(t) => IsScan(ResultOf(t)) /\ ResultOf(t).uri = t.uri
BY DEF IsUpdate, IsRename, IsScan, ResultOf

----------------------------------------------------------------------------
(* Updates stay apart.                                                     *)

(* An update starts only when its document has no entry.                   *)
LEMMA UpdatesStart ==
  ASSUME TypeOK, UpdatesApart, NEW t \in DocTask, Starts(t)
  PROVE  UpdatesApart'
<1>1. /\ pool' = pool \union {t} /\ rx' = rx
      /\ InFlight' = InFlight \union {t}
  BY DEF Starts, Schedule, InFlight
<1>2. Registered(EntryOf(t))' /\ \A u : Updating(u) => Updating(u)'
  BY AppendKeeps, UpdatingIsRegistered DEF Starts, TypeOK
<1>3. ASSUME IsUpdate(t)
      PROVE  /\ Updating(t.uri)'
             /\ \A s \in InFlight : IsUpdate(s) => s.uri # t.uri
  <2>1. EntryOf(t)' = [kind |-> "TextDocUpdate", uri |-> t.uri]
    BY <1>3 DEF EntryOf
  <2>2. ~Updating(t.uri)
    BY <1>3 DEF Starts, TaskBlocked
  <2> QED
    BY <1>2, <2>1, <2>2, UpdatingIsRegistered DEF UpdatesApart
<1>4. \A s \in InFlight' : IsUpdate(s) => Updating(s.uri)'
  BY <1>1, <1>2, <1>3 DEF UpdatesApart
<1>5. \A r, s \in InFlight' :
        IsUpdate(r) /\ IsUpdate(s) /\ r.uri = s.uri => r = s
  BY <1>1, <1>3 DEF UpdatesApart, OneUpdateAtATime
<1>6. \A s \in pool' : IsUpdate(s) => s \notin rx'
  BY <1>1, <1>3 DEF UpdatesApart, InFlight
<1> QED
  BY <1>4, <1>5, <1>6 DEF UpdatesApart, OneUpdateAtATime, IsUpdate

(* A finished update is still under way, as its result.                    *)
LEMMA UpdatesFinish ==
  ASSUME UpdatesApart, NEW t \in pool, Finish(t)
  PROVE  UpdatesApart'
<1>1. pool' = pool \ {t} /\ rx' = rx \union {ResultOf(t)}
  BY DEF Finish
<1>2. \A u : Updating(u)' <=> Updating(u)
  BY DEF Finish, Updating
<1>3. ASSUME NEW s \in InFlight', IsUpdate(s) PROVE s \in InFlight
  BY <1>1, <1>3, KindsOfTasks DEF InFlight
<1>4. \A s \in pool' : IsUpdate(s) => s \notin rx'
  <2> SUFFICES ASSUME NEW s \in pool', IsUpdate(s), s \in rx'
               PROVE  FALSE
    OBVIOUS
  <2>1. s \in pool /\ s # t /\ s \notin rx
    BY <1>1 DEF UpdatesApart
  <2>2. s = ResultOf(t)
    BY <1>1, <2>1
  <2> QED
    BY <2>1, <2>2, KindsOfTasks
<1>5. \A s \in InFlight' : IsUpdate(s) => Updating(s.uri)'
  BY <1>2, <1>3 DEF UpdatesApart
<1>6. \A r, s \in InFlight' :
        IsUpdate(r) /\ IsUpdate(s) /\ r.uri = s.uri => r = s
  BY <1>3 DEF UpdatesApart, OneUpdateAtATime
<1> QED
  BY <1>4, <1>5, <1>6 DEF UpdatesApart, OneUpdateAtATime, IsUpdate

(* The entry of another update under way is not the one removed: it is for *)
(* another file.                                                           *)
LEMMA UpdatesEnd ==
  ASSUME TypeOK, UpdatesApart, NEW t, Ends(t)
  PROVE  UpdatesApart'
<1>1. t \in rx /\ rx' = rx \ {t} /\ pool' = pool
  BY DEF Ends
<1>2. InFlight' \subseteq InFlight
  BY <1>1 DEF InFlight
<1>3. ASSUME NEW s \in InFlight', IsUpdate(s) PROVE Updating(s.uri)'
  <2>1. s \in InFlight /\ s # t
    BY <1>1, <1>3 DEF InFlight, UpdatesApart
  <2> DEFINE e == [kind |-> "TextDocUpdate", uri |-> s.uri]
  <2>2. Registered(e)
    BY <1>3, <2>1, UpdatingIsRegistered DEF UpdatesApart
  <2>3. e # EntryOf(t)
    <3>1. CASE IsUpdate(t)
      <4>1. t.uri # s.uri
        BY <1>1, <1>3, <2>1, <3>1
        DEF UpdatesApart, OneUpdateAtATime, InFlight
      <4>2. EntryOf(t) = [kind |-> "TextDocUpdate", uri |-> t.uri]
        BY <3>1 DEF EntryOf
      <4>3. EntryOf(t).uri # e.uri
        BY <4>1, <4>2
      <4> QED
        BY <4>3
    <3>2. CASE ~IsUpdate(t)
      <4>1. t \in DocTask
        BY <1>1 DEF Ends, TypeOK, Result, ScanResult, IsScan
      <4>2. EntryOf(t).kind \in {"Lookup", "DidRenameFiles"}
        BY <3>2, <4>1
        DEF EntryOf, DocTask, UpdateTask, LookupTask, RenameTask, IsUpdate
      <4>3. EntryOf(t).kind # e.kind
        BY <4>2
      <4> QED
        BY <4>3
    <3> QED
      BY <3>1, <3>2
  <2>4. Registered(e)'
    <3> HIDE DEF e
    <3> QED
      BY <2>2, <2>3, EndsKeeps DEF TypeOK
  <2> QED
    BY <2>4, UpdatingIsRegistered
<1>4. \A r, s \in InFlight' :
        IsUpdate(r) /\ IsUpdate(s) /\ r.uri = s.uri => r = s
  BY <1>2 DEF UpdatesApart, OneUpdateAtATime
<1>5. \A s \in pool' : IsUpdate(s) => s \notin rx'
  BY <1>1 DEF UpdatesApart
<1> QED
  BY <1>3, <1>4, <1>5 DEF UpdatesApart, OneUpdateAtATime, IsUpdate

(* Results of scans and the discovery concern no update.                   *)
LEMMA UpdatesElse ==
  ASSUME UpdatesApart,
         \/ StaysPut \/ (\E t \in rx : RecvScan(t)) \/ RecvDiscovery
         \/ Progress
  PROVE  UpdatesApart'
<1>1. /\ \A s \in pool' : IsUpdate(s) => s \in pool
      /\ rx' \subseteq rx
      /\ ongoing' = ongoing
  BY DEF StaysPut, RecvScan, Received, RecvDiscovery, Progress, StartScans,
         IsUpdate, taskVars
<1>2. \A s \in InFlight' : IsUpdate(s) => s \in InFlight
  BY <1>1 DEF InFlight
<1>3. \A u : Updating(u)' <=> Updating(u)
  BY <1>1 DEF Updating
<1> QED
  BY <1>1, <1>2, <1>3 DEF UpdatesApart, OneUpdateAtATime, IsUpdate

----------------------------------------------------------------------------
(* Renames stay alone.                                                     *)

(* A rename starts when nothing is registered that it excludes; an update  *)
(* starts when no rename is registered.                                    *)
LEMMA RenamesStart ==
  ASSUME TypeOK, UpdatesApart, RenamesApart, ScansCounted,
         NEW t \in DocTask, Starts(t)
  PROVE  RenamesApart'
<1>1. /\ pool' = pool \union {t} /\ rx' = rx /\ discovery' = discovery
      /\ InFlight' = InFlight \union {t}
  BY DEF Starts, Schedule, InFlight, discVars
<1>2. Registered(EntryOf(t))' /\ \A e : Registered(e) => Registered(e)'
  BY AppendKeeps DEF Starts, TypeOK
<1>3. Tracks("DidRenameFiles") => Tracks("DidRenameFiles")'
  BY <1>2, TracksIsRegistered
<1>4. ~IsScan(t)
  BY DEF DocTask, UpdateTask, LookupTask, RenameTask, IsScan
<1>5. CASE IsRename(t)
  <2>1. /\ ~Tracks("DidRenameFiles") /\ discovery = "gone"
        /\ \A o \in DOMAIN t.ops : ~Updating(o)
    BY <1>5 DEF Starts, TaskBlocked
  <2>2. \A s \in InFlight : /\ ~IsRename(s) /\ ~IsScan(s)
                            /\ IsUpdate(s) => s.uri \notin DOMAIN t.ops
    BY <2>1 DEF RenamesApart, UpdatesApart, ScansCounted, Scans
  <2>3. Tracks("DidRenameFiles")'
    <3>1. EntryOf(t).kind = "DidRenameFiles" /\ EntryOf(t)' = EntryOf(t)
      BY <1>5 DEF EntryOf, IsRename, IsUpdate
    <3> QED
      BY <1>2, <3>1, TracksIsRegistered
  <2>4. \A s \in InFlight' : IsRename(s) => s = t
    BY <1>1, <2>2
  <2>5. RenameAlone'
    BY <1>1, <1>4, <1>5, <2>1, <2>2, <2>4, KindsOfTasks DEF RenameAlone
  <2>6. \A r \in pool' : IsRename(r) => r \notin rx'
    BY <1>1, <2>2 DEF InFlight
  <2> QED
    BY <2>3, <2>5, <2>6 DEF RenamesApart, IsRename
<1>6. CASE IsUpdate(t)
  <2>1. ~Tracks("DidRenameFiles")
    BY <1>6 DEF Starts, TaskBlocked
  <2>2. \A s \in InFlight' : ~IsRename(s)
    BY <1>1, <1>6, <2>1, KindsOfTasks DEF RenamesApart
  <2> QED
    BY <2>2 DEF RenamesApart, RenameAlone, InFlight, IsRename
<1>7. CASE ~IsRename(t) /\ ~IsUpdate(t)
  <2>1. RenameAlone'
    BY <1>1, <1>4, <1>7
    DEF RenamesApart, RenameAlone, IsRename, IsUpdate, IsScan
  <2>2. \A r \in InFlight' : IsRename(r) => Tracks("DidRenameFiles")'
    BY <1>1, <1>3, <1>7 DEF RenamesApart
  <2>3. \A r \in pool' : IsRename(r) => r \notin rx'
    BY <1>1, <1>7 DEF RenamesApart
  <2> QED
    BY <2>1, <2>2, <2>3 DEF RenamesApart, IsRename
<1> QED
  BY <1>5, <1>6, <1>7

(* A finished rename is still under way, as its result.                    *)
LEMMA RenamesFinish ==
  ASSUME RenamesApart, NEW t \in pool, Finish(t)
  PROVE  RenamesApart'
<1>1. /\ pool' = pool \ {t} /\ rx' = rx \union {ResultOf(t)}
      /\ discovery' = discovery
  BY DEF Finish, discVars
<1>2. Tracks("DidRenameFiles")' <=> Tracks("DidRenameFiles")
  BY DEF Finish, Tracks
<1>3. CASE IsScan(t)
  <2>1. \A r \in InFlight : ~IsRename(r)
    BY <1>3 DEF RenamesApart, RenameAlone, InFlight
  <2>2. \A r \in InFlight' : ~IsRename(r)
    BY <1>1, <1>3, <2>1, KindsOfTasks DEF InFlight
  <2> QED
    BY <2>2 DEF RenamesApart, RenameAlone, InFlight, IsRename
<1>4. CASE ~IsScan(t)
  <2>1. ResultOf(t) = t
    BY <1>4, KindsOfTasks
  <2>2. InFlight' = InFlight
    BY <1>1, <2>1 DEF InFlight
  <2>3. RenameAlone'
    BY <1>1, <2>2
    DEF RenamesApart, RenameAlone, IsRename, IsUpdate, IsScan
  <2>4. \A r \in pool' : IsRename(r) => r \notin rx'
    BY <1>1, <2>1 DEF RenamesApart
  <2> QED
    BY <1>2, <2>2, <2>3, <2>4 DEF RenamesApart, IsRename
<1> QED
  BY <1>3, <1>4

(* The entry removed with another task is not the one of the rename.       *)
LEMMA RenamesEnd ==
  ASSUME TypeOK, RenamesApart, NEW t, Ends(t)
  PROVE  RenamesApart'
<1>1. /\ t \in rx /\ rx' = rx \ {t} /\ pool' = pool
      /\ discovery' = discovery
  BY DEF Ends, discVars
<1>2. InFlight' \subseteq InFlight
  BY <1>1 DEF InFlight
<1>3. RenameAlone'
  BY <1>1, <1>2
  DEF RenamesApart, RenameAlone, IsRename, IsUpdate, IsScan
<1>4. \A r \in pool' : IsRename(r) => r \notin rx'
  BY <1>1 DEF RenamesApart
<1>5. ASSUME NEW r \in InFlight', IsRename(r)
      PROVE  Tracks("DidRenameFiles")'
  <2>1. r \in InFlight /\ r # t
    BY <1>1, <1>5 DEF InFlight, RenamesApart
  <2>2. ~IsRename(t)
    BY <1>1, <1>5, <2>1 DEF RenamesApart, RenameAlone, InFlight
  <2>3. t \in DocTask
    BY <1>1 DEF Ends, TypeOK, Result, ScanResult, IsScan
  <2>4. EntryOf(t).kind # "DidRenameFiles"
    BY <2>2, <2>3
    DEF EntryOf, IsRename, DocTask, UpdateTask, LookupTask, RenameTask
  <2>5. PICK e : Registered(e) /\ e.kind = "DidRenameFiles"
    BY <1>5, <2>1, TracksIsRegistered DEF RenamesApart
  <2>6. Registered(e)'
    BY <2>4, <2>5, EndsKeeps DEF TypeOK
  <2> QED
    BY <2>5, <2>6, TracksIsRegistered
<1> QED
  BY <1>3, <1>4, <1>5 DEF RenamesApart, IsRename

(* The discovery starts its scans when no rename is under way: a rename    *)
(* waits until the discovery is gone, and it never comes back.             *)
LEMMA RenamesElse ==
  ASSUME RenamesApart,
         \/ StaysPut \/ (\E t \in rx : RecvScan(t)) \/ RecvDiscovery
         \/ Progress
  PROVE  RenamesApart'
<1>1. /\ rx' \subseteq rx /\ ongoing' = ongoing
      /\ discovery = "gone" => pool' = pool /\ discovery' = "gone"
      /\ \A r \in pool' : IsRename(r) => r \in pool
  BY DEF StaysPut, RecvScan, Received, RecvDiscovery, Progress, StartScans,
         IsRename, taskVars, discVars
<1>2. \A r \in InFlight' : IsRename(r) => r \in InFlight
  BY <1>1 DEF InFlight
<1>3. Tracks("DidRenameFiles")' <=> Tracks("DidRenameFiles")
  BY <1>1 DEF Tracks
<1>4. ASSUME NEW r \in InFlight', IsRename(r)
      PROVE  InFlight' \subseteq InFlight /\ discovery' = "gone"
  BY <1>1, <1>2, <1>4 DEF RenamesApart, RenameAlone, InFlight
<1>5. RenameAlone'
  BY <1>2, <1>4
  DEF RenamesApart, RenameAlone, IsRename, IsUpdate, IsScan
<1> QED
  BY <1>1, <1>2, <1>3, <1>5 DEF RenamesApart, IsRename

----------------------------------------------------------------------------
(* The discovery counts its scans.                                         *)

(* A scan on its way to the workers is told from its result.               *)
LEMMA ScanOrResult ==
  ASSUME TypeOK, NEW t \in pool, IsScan(t)
  PROVE  t \notin rx
<1>1. t \in ScanTask
  BY DEF TypeOK, Task, DocTask, UpdateTask, LookupTask, RenameTask, IsScan
<1>2. "read" \notin DOMAIN t
  BY <1>1 DEF ScanTask
<1>3. ASSUME t \in rx PROVE "read" \in DOMAIN t
  <2>1. t \in ScanResult
    BY <1>3 DEF TypeOK, Result, DocTask, UpdateTask, LookupTask, RenameTask,
                IsScan
  <2> QED
    BY <2>1 DEF ScanResult
<1> QED
  BY <1>2, <1>3

(* Nothing that leaves the scans and the discovery alone miscounts them.   *)
LEMMA ScansUnchanged ==
  ASSUME ScansCounted, Scans' = Scans, UNCHANGED discVars
  PROVE  ScansCounted'
<1>1. ScanUris' = ScanUris
  BY DEF ScanUris
<1> QED
  BY <1>1 DEF ScansCounted, discVars

(* A started task of the client is no scan.                                *)
LEMMA ScansStart ==
  ASSUME ScansCounted, NEW t \in DocTask, Starts(t)
  PROVE  ScansCounted'
<1>1. ~IsScan(t)
  BY DEF DocTask, UpdateTask, LookupTask, RenameTask, IsScan
<1>2. Scans' = Scans
  BY <1>1 DEF Starts, Schedule, Scans, InFlight, IsScan
<1> QED
  BY <1>2, ScansUnchanged DEF Starts

(* The result of another task is no result of a scan.                      *)
LEMMA ScansEnd ==
  ASSUME ScansCounted, NEW t, Ends(t)
  PROVE  ScansCounted'
<1>1. Scans' = Scans
  BY DEF Ends, Scans, InFlight, IsScan
<1> QED
  BY <1>1, ScansUnchanged DEF Ends

(* A scan that finishes is still under way, as its result.                 *)
LEMMA ScansFinish ==
  ASSUME TypeOK, ScansCounted, NEW t \in pool, Finish(t)
  PROVE  ScansCounted'
<1>1. /\ pool' = pool \ {t} /\ rx' = rx \union {ResultOf(t)}
      /\ UNCHANGED discVars
  BY DEF Finish
<1>2. CASE ~IsScan(t)
  <2>1. InFlight' = InFlight
    BY <1>1, <1>2, KindsOfTasks DEF InFlight
  <2> QED
    BY <1>1, <2>1, ScansUnchanged DEF Scans, IsScan
<1>3. CASE IsScan(t)
  <2> DEFINE d == ResultOf(t)
  <2>1. IsScan(d) /\ d.uri = t.uri
    BY <1>3, KindsOfTasks
  <2>2. t \in Scans /\ Scans' = (Scans \ {t}) \union {d}
    <3>1. t \notin rx
      BY <1>3, ScanOrResult
    <3> HIDE DEF d
    <3>2. rx' = rx \union {d}
      BY <1>1 DEF d
    <3> QED
      BY <1>1, <1>3, <2>1, <3>1, <3>2 DEF Scans, InFlight, IsScan
  <2> HIDE DEF d
  <2>3. \A r \in Scans \ {t} : r.uri # t.uri
    BY <2>2 DEF ScansCounted
  <2>4. \A r, s \in Scans' : r.uri = s.uri => r = s
    BY <2>1, <2>2, <2>3 DEF ScansCounted
  <2>5. ScanUris' = ScanUris
    BY <2>1, <2>2 DEF ScanUris
  <2>6. discovery = "parsing"
    BY <2>2 DEF ScansCounted
  <2> QED
    BY <1>1, <2>4, <2>5, <2>6 DEF ScansCounted, discVars
<1> QED
  BY <1>2, <1>3

(* The counter follows: the file leaves the files under way.               *)
LEMMA ScansReceived ==
  ASSUME TypeOK, ScansCounted, NEW t \in rx, RecvScan(t)
  PROVE  ScansCounted'
<1>1. /\ IsScan(t) /\ rx' = rx \ {t} /\ pool' = pool
      /\ unparsed' = unparsed - 1 /\ discovery' = discovery
      /\ discovery = "parsing"
  BY DEF RecvScan, Received, Fails, EntryMissing, taskVars
<1>2. t \notin pool
  BY <1>1, ScanOrResult
<1>3. t \in Scans /\ Scans' = Scans \ {t}
  BY <1>1, <1>2 DEF Scans, InFlight, IsScan
<1>4. \A r \in Scans \ {t} : r.uri # t.uri
  BY <1>3 DEF ScansCounted
<1>5. t.uri \in ScanUris /\ ScanUris' = ScanUris \ {t.uri}
  BY <1>3, <1>4 DEF ScanUris
<1>6. IsFiniteSet(ScanUris)
  BY FS_Subset, UriAssumption DEF ScansCounted
<1>7. Cardinality(ScanUris') = Cardinality(ScanUris) - 1
  BY <1>5, <1>6, FS_RemoveElement
<1>8. \A r, s \in Scans' : r.uri = s.uri => r = s
  BY <1>3 DEF ScansCounted
<1> QED
  BY <1>1, <1>5, <1>7, <1>8 DEF ScansCounted

(* The discovery starts its scans once and ends without any.               *)
LEMMA ScansProgress ==
  ASSUME TypeOK, ScansCounted, RecvDiscovery \/ Progress
  PROVE  ScansCounted'
<1>1. /\ rx' = rx /\ unparsed' = unparsed
      /\ pool' # pool => StartScans
  BY DEF RecvDiscovery, Progress, taskVars
<1>2. CASE StartScans
  <2>1. Scans = {} /\ unparsed = Cardinality(Workspace)
    BY <1>2 DEF StartScans, ScansCounted
  <2> DEFINE new == [kind : {"WorkspaceFileScan"}, uri : Workspace]
  <2>2. pool' = pool \union new /\ discovery' = "parsing"
    BY <1>2 DEF StartScans
  <2>3. Scans' = new
    BY <1>1, <2>1, <2>2 DEF Scans, InFlight, IsScan
  <2>4. ScanUris' = Workspace
    <3>1. \A t \in new : t.uri \in Workspace
      OBVIOUS
    <3>2. \A u \in Workspace :
            [kind |-> "WorkspaceFileScan", uri |-> u] \in new
      OBVIOUS
    <3>3. ScanUris' = {t.uri : t \in new}
      BY <2>3 DEF ScanUris
    <3>4. \A u \in Workspace : \E t \in new : t.uri = u
      BY <3>2
    <3> HIDE DEF new
    <3> QED
      BY <3>1, <3>3, <3>4
  <2>5. \A r, s \in new : r.uri = s.uri => r = s
    OBVIOUS
  <2> QED
    BY <1>1, <2>1, <2>2, <2>3, <2>4, <2>5 DEF ScansCounted
<1>3. CASE ~StartScans
  <2>1. Scans' = Scans /\ ScanUris' = ScanUris
    BY <1>1, <1>3 DEF Scans, ScanUris, InFlight
  <2>2. CASE discovery' = discovery
    BY <1>1, <2>1, <2>2, ScansUnchanged DEF discVars
  <2>3. CASE discovery' # discovery
    <3>1. /\ discovery' \in {"finished", "gone"}
          /\ \/ discovery = "finished"
             \/ discovery \in {"ready", "parsing"} /\ unparsed = 0
      BY <1>3, <2>3 DEF RecvDiscovery, Progress
    <3>2. IsFiniteSet(ScanUris)
      BY FS_Subset, UriAssumption DEF ScansCounted
    <3>3. Scans = {} /\ ScanUris = {}
      <4>1. CASE discovery # "parsing"
        BY <4>1 DEF ScansCounted, ScanUris
      <4>2. CASE discovery = "parsing"
        <5>1. Cardinality(ScanUris) = 0
          BY <3>1, <4>2 DEF ScansCounted
        <5>2. ScanUris = {}
          BY <3>2, <5>1, FS_EmptySet
        <5> QED
          BY <5>2 DEF ScanUris
      <4> QED
        BY <4>1, <4>2
    <3>4. unparsed = 0
      BY <3>1, <3>3, FS_EmptySet DEF ScansCounted
    <3> QED
      BY <1>1, <2>1, <3>1, <3>3, <3>4, FS_EmptySet DEF ScansCounted
  <2> QED
    BY <2>2, <2>3
<1> QED
  BY <1>2, <1>3

----------------------------------------------------------------------------
(* The inductive invariant and what follows from it.                       *)

(* When the main loop is entered no task is under way.                     *)
LEMMA ApartInit == Init => Apart
<1> SUFFICES ASSUME Init PROVE Apart
  OBVIOUS
<1>1. TypeOK
  BY TypeInit
<1>2. pool = {} /\ rx = {} /\ InFlight = {} /\ Scans = {} /\ ScanUris = {}
  BY DEF Init, InFlight, Scans, ScanUris
<1>3. /\ discovery \in {"ready", "gone"}
      /\ discovery = "ready" => unparsed = Cardinality(Workspace)
      /\ discovery = "gone" => unparsed = 0
  BY FS_EmptySet DEF Init, InitBooted, InitSteady
<1> QED
  BY <1>1, <1>2, <1>3, FS_EmptySet
  DEF Apart, UpdatesApart, OneUpdateAtATime, RenamesApart, RenameAlone,
      ScansCounted

(* Every step keeps the tasks apart.                                       *)
LEMMA ApartStep == Apart /\ [Next]_vars => Apart'
<1> SUFFICES ASSUME Apart, [Next]_vars PROVE Apart'
  OBVIOUS
<1>1. TypeOK /\ UpdatesApart /\ RenamesApart /\ ScansCounted
  BY DEF Apart
<1>2. TypeOK'
  BY <1>1, TypeStep
<1>3. CASE StaysPut
  <2>1. UpdatesApart' /\ RenamesApart'
    BY <1>1, <1>3, UpdatesElse, RenamesElse
  <2>2. ScansCounted'
    BY <1>1, <1>3, ScansUnchanged DEF StaysPut, Scans, InFlight
  <2> QED
    BY <1>2, <2>1, <2>2 DEF Apart
<1>4. CASE \E t \in DocTask : Starts(t)
  <2>1. PICK t \in DocTask : Starts(t)
    BY <1>4
  <2>2. UpdatesApart' /\ RenamesApart' /\ ScansCounted'
    BY <1>1, <2>1, UpdatesStart, RenamesStart, ScansStart
  <2> QED
    BY <1>2, <2>2 DEF Apart
<1>5. CASE \E t \in pool : Finish(t)
  <2>1. PICK t \in pool : Finish(t)
    BY <1>5
  <2>2. UpdatesApart' /\ RenamesApart' /\ ScansCounted'
    BY <1>1, <2>1, UpdatesFinish, RenamesFinish, ScansFinish
  <2> QED
    BY <1>2, <2>2 DEF Apart
<1>6. CASE \E t \in rx : Ends(t)
  <2>1. PICK t \in rx : Ends(t)
    BY <1>6
  <2>2. UpdatesApart' /\ RenamesApart' /\ ScansCounted'
    BY <1>1, <2>1, UpdatesEnd, RenamesEnd, ScansEnd
  <2> QED
    BY <1>2, <2>2 DEF Apart
<1>7. CASE \E t \in rx : RecvScan(t)
  <2>1. PICK t \in rx : RecvScan(t)
    BY <1>7
  <2>2. UpdatesApart' /\ RenamesApart' /\ ScansCounted'
    BY <1>1, <2>1, UpdatesElse, RenamesElse, ScansReceived
  <2> QED
    BY <1>2, <2>2 DEF Apart
<1>8. CASE RecvDiscovery \/ Progress
  <2>1. UpdatesApart' /\ RenamesApart' /\ ScansCounted'
    BY <1>1, <1>8, UpdatesElse, RenamesElse, ScansProgress
  <2> QED
    BY <1>2, <2>1 DEF Apart
<1> QED
  BY <1>1, <1>3, <1>4, <1>5, <1>6, <1>7, <1>8, StepKinds

(* The tasks are apart in every reachable state.                           *)
LEMMA ApartAlways == Spec => []Apart
BY ApartInit, ApartStep, PTL DEF Spec

(* Updates of one document never run at the same time, whatever order the  *)
(* client's messages and the results of the workers arrive in.             *)
THEOREM UpdatesOneAtATime == Spec => []OneUpdateAtATime
<1>1. Apart => OneUpdateAtATime
  BY DEF Apart, UpdatesApart
<1> QED
  BY <1>1, ApartAlways, PTL

(* While files are being renamed there is no other rename, no scan of the  *)
(* workspace and no update of a file that is moved.                        *)
THEOREM RenamesRunAlone == Spec => []RenameAlone
<1>1. Apart => RenameAlone
  BY DEF Apart, RenamesApart
<1> QED
  BY <1>1, ApartAlways, PTL

(* The counter of the discovery is the number of scans under way, so the   *)
(* discovery ends with the last result and not before.                     *)
THEOREM DiscoveryCountsScans == Spec => []DiscoveryCounts
<1>1. ASSUME Apart PROVE DiscoveryCounts
  <2>1. ScansCounted
    BY <1>1 DEF Apart
  <2>2. IsFiniteSet(ScanUris)
    BY <2>1, FS_Subset, UriAssumption DEF ScansCounted
  <2> DEFINE f == [t \in Scans |-> t.uri]
  <2>3. f \in Bijection(Scans, ScanUris)
    <3>1. f \in [Scans -> ScanUris]
      BY DEF ScanUris
    <3>2. \A s, t \in Scans : f[s] = f[t] => s = t
      BY <2>1 DEF ScansCounted
    <3>3. \A u \in ScanUris : \E t \in Scans : f[t] = u
      BY DEF ScanUris
    <3> QED
      BY <3>1, <3>2, <3>3, Fun_IsBij
  <2>4. Cardinality(Scans) = Cardinality(ScanUris)
    <3> HIDE DEF f
    <3>1. ExistsBijection(Scans, ScanUris)
      BY <2>3 DEF ExistsBijection
    <3>2. ExistsBijection(ScanUris, Scans)
      BY <3>1, Fun_ExistsBijSymmetric
    <3> QED
      BY <2>2, <3>2, FS_Bijection
  <2> QED
    BY <2>1, <2>4 DEF DiscoveryCounts, ScansCounted, Scans
<1>2. Apart => DiscoveryCounts
  BY <1>1
<1> QED
  BY <1>2, ApartAlways, PTL

-----------------------------------------------------------------------------
(***************************************************************************)
(* Every task of TaskScheduler is in one place and every request has one   *)
(* answer, proved for every set of files, renames and messages from the    *)
(* inductive invariant Tracked.                                            *)
(*                                                                         *)
(* A task keeps the number of the message that made it, so tasks are told  *)
(* apart by their numbers.  While a pass over `blocked` runs, the          *)
(* positions in `exec` hold tasks that are with the workers already; they  *)
(* lie before the cursor, and swap_remove takes them out from the back, so *)
(* the element it moves is never one of them.                              *)
(***************************************************************************)

(* The positions of the tasks that still wait.                             *)
StillBlocked == DOMAIN blocked \ exec

(* A task is in one list, once, and no task comes from a later message.    *)
NumbersApart ==
  /\ \A t \in TrackedTasks : t.n < next
  /\ \A i \in DOMAIN blocked : blocked[i].n < next
  /\ \A s, t \in TrackedTasks : s.n = t.n => s = t
  /\ \A i, j \in DOMAIN blocked : blocked[i].n = blocked[j].n => i = j
  /\ \A i \in StillBlocked : \A t \in TrackedTasks : blocked[i].n # t.n
  /\ \A t \in pool : ~IsScan(t) => t \notin rx

(* What a pass has scheduled is with the workers, and behind the cursor.   *)
PassExact ==
  /\ \A e \in exec : blocked[e] \in TrackedTasks /\ e < ii
  /\ pc # "blocked" => exec = {}

(* A task with the workers has its entry, and each entry has its task.     *)
EntriesKept ==
  /\ pc # "entry missing"
  /\ \A t \in TrackedTasks : Registered(EntryOf(t))
  /\ \A i \in DOMAIN ongoing : \E t \in TrackedTasks : ongoing[i] = EntryOf(t)
  /\ \A i, j \in DOMAIN ongoing : ongoing[i] = ongoing[j] => i = j

(* A lookup that waits or runs belongs to a request without an answer.     *)
OpenLookup(t) == IsLookup(t) /\ t.n \in asked /\ replies[t.n] = 0

LookupOf(m) == \/ \E i \in StillBlocked : IsLookup(blocked[i]) /\ blocked[i].n = m
               \/ \E t \in TrackedTasks : IsLookup(t) /\ t.n = m

RequestsKept ==
  /\ \A m \in asked : m < next
  /\ \A m \in 1..MaxMsgs : replies[m] \in {0, 1}
  /\ \A m \in 1..MaxMsgs : m \notin asked => replies[m] = 0
  /\ \A t \in TrackedTasks : IsLookup(t) => OpenLookup(t)
  /\ \A i \in StillBlocked : IsLookup(blocked[i]) => OpenLookup(blocked[i])
  /\ \A m \in asked : replies[m] = 0 => LookupOf(m)

Tracked == Apart /\ NumbersApart /\ PassExact /\ EntriesKept /\ RequestsKept

----------------------------------------------------------------------------
(* What a calm client relies on while its changes settle.                  *)

UpdateOf(u) == \E t \in Unsettled : IsUpdate(t) /\ t.uri = u
RenameUnsettled == \E r \in Unsettled : IsRename(r)

(* The text the update leaves behind is the one in the editor.             *)
UpdateLands(t) ==
  /\ t.uri \in disk /\ editor[t.uri] # <<>>
  /\ t.kind = "TextDocNew" => editor[t.uri] = t.text
  /\ t.kind = "TextDocEdit" => /\ editor[t.uri] = Append(t.text, t.n)
                               /\ docs[t.uri].status = "open"

(* The rename works on the index as it is, and its files are moved.        *)
RenameLands(r) ==
  /\ r.files = files
  /\ files \subseteq (disk \ Targets(r.ops)) \union DOMAIN r.ops
  /\ DOMAIN r.ops \intersect disk = {} /\ Targets(r.ops) \subseteq disk
  /\ \A u \in Targets(r.ops) : editor[u] = <<>>

ChangesLand ==
  /\ \A t \in Unsettled : IsUpdate(t) => UpdateLands(t)
  /\ \A r \in Unsettled : IsRename(r) => RenameLands(r)

ChangesApart ==
  /\ \A s, t \in Unsettled :
       IsUpdate(s) /\ IsUpdate(t) /\ s.uri = t.uri => s = t
  /\ \A r, s \in Unsettled : IsRename(r) /\ IsRename(s) => r = s

IndexOnDisk == ~RenameUnsettled => files \subseteq disk

TextsAgree ==
  \A u \in disk : editor[u] # <<>> /\ ~UpdateOf(u)
                    => docs[u] = [status |-> "open", text |-> editor[u]]

InStep == ChangesLand /\ ChangesApart /\ IndexOnDisk /\ TextsAgree

CalmInStep == calm => InStep

----------------------------------------------------------------------------
(* What a step does to the tasks.                                          *)

(* The tasks that messages make and the results other than those of scans  *)
(* are the same records.                                                   *)
LEMMA TrackedTyped ==
  ASSUME TypeOK
  PROVE  /\ \A t \in TrackedTasks : t \in DocTask /\ t.n \in Nat
         /\ \A i \in DOMAIN blocked : blocked[i] \in DocTask
                                        /\ blocked[i].n \in Nat
<1>1. \A t \in DocTask : t.n \in Nat
  BY DEF DocTask, UpdateTask, LookupTask, RenameTask
<1>2. \A t \in InFlight : ~IsScan(t) => t \in DocTask
  BY DEF TypeOK, InFlight, Task, Result, ScanTask, ScanResult, IsScan
<1>3. \A i \in DOMAIN blocked : blocked[i] \in DocTask
  BY DEF TypeOK
<1> QED
  BY <1>1, <1>2, <1>3 DEF TrackedTasks

(* No document task is a scan.                                             *)
LEMMA DocTaskKinds ==
  ASSUME NEW t \in DocTask
  PROVE  ~IsScan(t) /\ t \in Task /\ t.n \in Nat
BY DEF DocTask, UpdateTask, LookupTask, RenameTask, IsScan, Task

(* The handler of a message that makes the task t.                         *)
Takes(t) ==
  /\ pc = "process" /\ next <= MaxMsgs /\ t.n = next
  /\ next' = next + 1
  /\ TrySchedule(t)
  /\ asked' = IF IsLookup(t) THEN asked \union {next} ELSE asked
  /\ UNCHANGED <<loopVars, rx, discVars, replies>>

(* The handler of a message that is done with it at once.                  *)
TakesNone ==
  /\ pc = "process" /\ next <= MaxMsgs
  /\ next' = next + 1
  /\ \/ UNCHANGED <<asked, replies>>
     \/ /\ asked' = asked \union {next}
        /\ replies' = [replies EXCEPT ![next] = @ + 1]
  /\ UNCHANGED <<loopVars, taskVars, rx, discVars>>

(* A message makes one task, with its number, or none.                     *)
LEMMA MessageTakes ==
  ASSUME TypeOK, ProcessMsg
  PROVE  TakesNone \/ \E t \in DocTask : Takes(t)
<1>1. ASSUME NEW u \in Uri, DidOpen(u) PROVE \E t \in DocTask : Takes(t)
  <2> DEFINE t == [kind |-> "TextDocNew", n |-> next, uri |-> u,
                   text |-> <<next>>]
  <2>1. t \in DocTask /\ ~IsLookup(t) /\ t.n = next
    BY CreatedTyped DEF IsLookup
  <2>2. Takes(t)
    BY <1>1, <2>1 DEF DidOpen, Change, Message, Takes
  <2> QED
    BY <2>1, <2>2
<1>2. ASSUME NEW u \in Uri, DidChange(u)
      PROVE  TakesNone \/ \E t \in DocTask : Takes(t)
  <2> DEFINE t == [kind |-> "TextDocEdit", n |-> next, uri |-> u,
                   text |-> docs[u].text]
  <2>1. t \in DocTask /\ ~IsLookup(t) /\ t.n = next
    BY CreatedTyped DEF IsLookup
  <2>2. CASE TrySchedule(t)
    <3>1. Takes(t)
      BY <1>2, <2>1, <2>2 DEF DidChange, Change, Message, Takes
    <3> QED
      BY <2>1, <3>1
  <2>3. CASE UNCHANGED taskVars
    BY <1>2, <2>3 DEF DidChange, Change, Message, TakesNone
  <2> QED
    BY <1>2, <2>2, <2>3 DEF DidChange
<1>3. ASSUME NEW u \in Uri, LangRequest(u)
      PROVE  TakesNone \/ \E t \in DocTask : Takes(t)
  <2> DEFINE t == [kind |-> "Lookup", n |-> next, uri |-> u,
                   text |-> docs[u].text]
  <2>1. t \in DocTask /\ IsLookup(t) /\ t.n = next
    BY CreatedTyped DEF IsLookup
  <2>2. CASE TrySchedule(t) /\ UNCHANGED replies
    <3>1. Takes(t)
      BY <1>3, <2>1, <2>2 DEF LangRequest, Message, Takes
    <3> QED
      BY <2>1, <3>1
  <2>3. CASE UNCHANGED taskVars
               /\ replies' = [replies EXCEPT ![next] = @ + 1]
    BY <1>3, <2>3 DEF LangRequest, Message, TakesNone
  <2> QED
    BY <1>3, <2>2, <2>3 DEF LangRequest
<1>4. ASSUME NEW r \in Renames, DidRenameFiles(r)
      PROVE  \E t \in DocTask : Takes(t)
  <2> DEFINE t == [kind |-> "DidRenameFiles", n |-> next, ops |-> r,
                   files |-> files]
  <2>1. t \in DocTask /\ ~IsLookup(t) /\ t.n = next
    BY RenameCreated DEF IsLookup
  <2>2. Takes(t)
    BY <1>4, <2>1 DEF DidRenameFiles, Message, Takes
  <2> QED
    BY <2>1, <2>2
<1>5. ASSUME NEW u \in Uri, DidClose(u) PROVE TakesNone
  BY <1>5 DEF DidClose, Change, Message, TakesNone
<1>6. ASSUME ShutdownRequest PROVE TakesNone
  BY <1>6 DEF ShutdownRequest, Message, TakesNone
<1>7. ASSUME ExitNotification PROVE TakesNone
  BY <1>7 DEF ExitNotification, Message, TakesNone
<1> QED
  BY <1>1, <1>2, <1>3, <1>4, <1>5, <1>6, <1>7 DEF ProcessMsg

(* swap_remove as a step of the loop.                                      *)
TakesOut(e) ==
  /\ pc = "blocked" /\ ii > Len(blocked)
  /\ e \in exec /\ \A f \in exec : f <= e
  /\ blocked' = SwapRemove(blocked, e)
  /\ exec' = exec \ {e}
  /\ ii' = ii - 1
  /\ UNCHANGED <<pc, ongoing, pool, rx, discVars, next, asked, replies>>

(* A step that leaves the documents' tasks, their places and the requests  *)
(* alone.                                                                  *)
Quiet ==
  /\ TrackedTasks' = TrackedTasks
  /\ (\A t \in pool' : ~IsScan(t) => t \notin rx')
  /\ exec' = exec
  /\ UNCHANGED <<blocked, ongoing, next, asked, replies>>
  /\ \A e \in exec : e < ii'
  /\ pc' = "blocked" \/ exec = {}
  /\ pc' # "entry missing"

(* The handlers of results other than those of scans.                      *)
Concludes(t) ==
  /\ pc = "recv" /\ Ends(t)
  /\ replies' = IF IsLookup(t) THEN [replies EXCEPT ![t.n] = @ + 1] ELSE replies
  /\ UNCHANGED <<loopVars, blocked, next, asked>>

(* A finished task is still under way, as its result.                      *)
LEMMA FinishIsQuiet ==
  ASSUME NumbersApart, PassExact, pc # "entry missing",
         NEW t \in pool, Finish(t)
  PROVE  Quiet
<1>1. /\ pool' = pool \ {t} /\ rx' = rx \union {ResultOf(t)}
      /\ UNCHANGED <<pc, ii, exec, blocked, ongoing, next, asked, replies>>
  BY DEF Finish, loopVars, clientVars
<1>2. TrackedTasks' = TrackedTasks
  <2>1. CASE IsScan(t)
    BY <1>1, <2>1, KindsOfTasks DEF TrackedTasks, InFlight, IsScan
  <2>2. CASE ~IsScan(t)
    <3>1. ResultOf(t) = t
      BY <2>2, KindsOfTasks
    <3> QED
      BY <1>1, <3>1 DEF TrackedTasks, InFlight, IsScan
  <2> QED
    BY <2>1, <2>2
<1>3. ASSUME NEW s \in pool', ~IsScan(s) PROVE s \notin rx'
  <2>1. s \in pool /\ s # t /\ s \notin rx
    BY <1>1, <1>3 DEF NumbersApart
  <2>2. s # ResultOf(t)
    BY <1>3, <2>1, KindsOfTasks
  <2> QED
    BY <1>1, <2>1, <2>2
<1>4. (\A e \in exec : e < ii') /\ (pc' = "blocked" \/ exec = {})
  BY <1>1 DEF PassExact
<1> QED
  BY <1>1, <1>2, <1>3, <1>4 DEF Quiet

(* A scan under way finds the discovery under way; another task finds its  *)
(* entry.  The panic "Must be a registered task." is not reached.          *)
LEMMA NoEntryMissing ==
  ASSUME TypeOK, ScansCounted, EntriesKept, NEW t \in rx, RecvPanic(t)
  PROVE  pc' # "entry missing"
<1>1. CASE IsScan(t)
  <2>1. t \in Scans
    BY <1>1 DEF Scans, InFlight
  <2>2. ~EntryMissing(t)
    BY <1>1, <2>1 DEF ScansCounted, EntryMissing
  <2> QED
    BY <2>2 DEF RecvPanic, Fails, CrashOf
<1>2. CASE ~IsScan(t)
  <2>1. t \in TrackedTasks
    BY <1>2 DEF TrackedTasks, InFlight
  <2>2. ~EntryMissing(t)
    BY <1>2, <2>1 DEF EntriesKept, EntryMissing
  <2> QED
    BY <2>2 DEF RecvPanic, Fails, CrashOf
<1> QED
  BY <1>1, <1>2

(* The other steps of the loop leave the tasks where they are.             *)
LEMMA OthersAreQuiet ==
  ASSUME Tracked,
         \/ \E t \in rx : RecvScan(t) \/ RecvPanic(t)
         \/ RecvDiscovery \/ EndRecv \/ EndProcess \/ Progress
         \/ UNCHANGED vars
  PROVE  Quiet
<1>1. /\ TypeOK /\ ScansCounted /\ NumbersApart /\ PassExact /\ EntriesKept
      /\ ii \in Nat \ {0}
  BY DEF Tracked, Apart, TypeOK
<1>2. pc # "entry missing" /\ (pc # "blocked" => exec = {})
  BY <1>1 DEF EntriesKept, PassExact
<1>3. ASSUME rx' = rx, \A t : ~IsScan(t) => (t \in pool' <=> t \in pool)
      PROVE  /\ TrackedTasks' = TrackedTasks
             /\ \A t \in pool' : ~IsScan(t) => t \notin rx'
  BY <1>1, <1>3 DEF TrackedTasks, InFlight, IsScan, NumbersApart
<1>4. ASSUME NEW t \in rx, RecvScan(t) PROVE Quiet
  <2>1. /\ rx' = rx \ {t} /\ IsScan(t) /\ pc = "recv"
        /\ UNCHANGED <<pool, pc, ii, exec, blocked, ongoing, next, asked,
                       replies>>
    BY <1>4 DEF RecvScan, Received, loopVars, taskVars, clientVars
  <2>2. TrackedTasks' = TrackedTasks
    BY <2>1 DEF TrackedTasks, InFlight, IsScan
  <2>3. \A s \in pool' : ~IsScan(s) => s \notin rx'
    BY <1>1, <2>1 DEF NumbersApart
  <2> QED
    BY <1>2, <2>1, <2>2, <2>3 DEF Quiet
<1>5. ASSUME NEW t \in rx, RecvPanic(t) PROVE Quiet
  <2>1. /\ pc = "recv" /\ pc' # "entry missing"
        /\ UNCHANGED <<rx, pool, ii, exec, blocked, ongoing, next, asked,
                       replies>>
    BY <1>1, <1>5, NoEntryMissing DEF RecvPanic, taskVars, clientVars
  <2> QED
    BY <1>2, <1>3, <2>1 DEF Quiet
<1>6. ASSUME RecvDiscovery PROVE Quiet
  <2>1. /\ pc = "recv"
        /\ UNCHANGED <<rx, pool, pc, ii, exec, blocked, ongoing, next, asked,
                       replies>>
    BY <1>6 DEF RecvDiscovery, taskVars, clientVars, loopVars
  <2> QED
    BY <1>2, <1>3, <2>1 DEF Quiet
<1>7. ASSUME EndRecv PROVE Quiet
  <2>1. /\ pc = "recv" /\ pc' = "blocked" /\ exec' = {}
        /\ UNCHANGED <<rx, pool, blocked, ongoing, next, asked, replies>>
    BY <1>7 DEF EndRecv, taskVars, clientVars
  <2> QED
    BY <1>2, <1>3, <2>1 DEF Quiet
<1>8. ASSUME EndProcess PROVE Quiet
  <2>1. /\ pc = "process" /\ pc' = "progress"
        /\ UNCHANGED <<rx, pool, exec, blocked, ongoing, next, asked, replies>>
    BY <1>8 DEF EndProcess, taskVars, clientVars
  <2> QED
    BY <1>2, <1>3, <2>1 DEF Quiet
<1>9. ASSUME Progress PROVE Quiet
  <2>1. /\ pc = "progress" /\ pc' \in {"exited", "recv"}
        /\ UNCHANGED <<rx, exec, blocked, ongoing, next, asked, replies>>
    BY <1>9 DEF Progress, clientVars
  <2>2. \A t : ~IsScan(t) => (t \in pool' <=> t \in pool)
    BY <1>9 DEF Progress, StartScans, IsScan
  <2> QED
    BY <1>2, <1>3, <2>1, <2>2 DEF Quiet
<1>10. ASSUME UNCHANGED vars PROVE Quiet
  <2>1. UNCHANGED <<rx, pool, pc, ii, exec, blocked, ongoing, next, asked,
                    replies>>
    BY <1>10 DEF vars, taskVars, clientVars, loopVars
  <2>2. \A e \in exec : e < ii
    BY <1>1 DEF PassExact
  <2> QED
    BY <1>2, <1>3, <2>1, <2>2 DEF Quiet
<1> QED
  BY <1>4, <1>5, <1>6, <1>7, <1>8, <1>9, <1>10

(* The pass over blocked starts the task at the cursor.                    *)
Begins ==
  /\ pc = "blocked" /\ pc' = pc
  /\ ii \in DOMAIN blocked
  /\ ii' = ii + 1 /\ exec' = exec \union {ii}
  /\ Starts(blocked[ii])
  /\ UNCHANGED <<blocked, next, asked, replies>>

(* The handlers of results conclude their task.                            *)
LEMMA ResultConcludes ==
  ASSUME NEW t \in rx, RecvUpdate(t) \/ RecvLookup(t) \/ RecvRename(t)
  PROVE  Concludes(t)
<1>1. Received(t) /\ ~IsScan(t)
  BY DEF RecvUpdate, RecvLookup, RecvRename, IsUpdate, IsLookup,
              IsRename, IsScan
<1>2. pc = "recv" /\ Registered(EntryOf(t)) /\ rx' = rx \ {t}
  BY <1>1 DEF Received, Fails, EntryMissing
<1>3. /\ MarkCompleted(EntryOf(t))
      /\ UNCHANGED <<pool, discVars, loopVars, blocked, next, asked>>
  BY DEF RecvUpdate, RecvLookup, RecvRename, clientVars
<1>4. replies' = IF IsLookup(t) THEN [replies EXCEPT ![t.n] = @ + 1]
                 ELSE replies
  BY DEF RecvUpdate, RecvLookup, RecvRename, clientVars, IsUpdate,
              IsLookup, IsRename
<1> QED
  BY <1>1, <1>2, <1>3, <1>4 DEF Concludes, Ends

(* The pass over blocked starts the task at the cursor or skips it.        *)
LEMMA ScheduleShape ==
  ASSUME TypeOK, NumbersApart, PassExact, ScheduleBlocked
  PROVE  Quiet \/ Begins
<1>1. /\ pc = "blocked" /\ pc' = pc /\ ii' = ii + 1
      /\ ii \in DOMAIN blocked
      /\ UNCHANGED <<blocked, rx, discVars, next, asked, replies>>
  BY DEF ScheduleBlocked, clientVars, TypeOK
<1>2. CASE UNCHANGED <<ongoing, pool, exec>>
  <2>1. \A e \in exec : e < ii'
    <3>1. \A e \in exec : e \in Nat /\ e < ii
      BY DEF PassExact, TypeOK
    <3> QED
      BY <1>1, <3>1 DEF TypeOK
  <2>2. TrackedTasks' = TrackedTasks
    BY <1>1, <1>2 DEF TrackedTasks, InFlight, IsScan
  <2>3. \A t \in pool' : ~IsScan(t) => t \notin rx'
    BY <1>1, <1>2 DEF NumbersApart
  <2> QED
    BY <1>1, <1>2, <2>1, <2>2, <2>3 DEF Quiet
<1>3. CASE /\ ~TaskBlocked(blocked[ii]) /\ Schedule(blocked[ii])
           /\ exec' = exec \union {ii}
  BY <1>1, <1>3 DEF Begins, Starts
<1> QED
  BY <1>2, <1>3 DEF ScheduleBlocked

(* The end of the pass takes the started tasks out one by one.             *)
LEMMA RemoveShape ==
  ASSUME NumbersApart, RemoveScheduled
  PROVE  Quiet \/ \E e \in exec : TakesOut(e)
<1>1. /\ pc = "blocked" /\ ii > Len(blocked)
      /\ UNCHANGED <<ongoing, pool, rx, discVars, next, asked, replies>>
  BY DEF RemoveScheduled, clientVars
<1>2. CASE \E e \in exec : /\ \A f \in exec : f <= e
                           /\ blocked' = SwapRemove(blocked, e)
                           /\ exec' = exec \ {e}
                           /\ ii' = ii - 1
                           /\ UNCHANGED pc
  BY <1>1, <1>2 DEF TakesOut
<1>3. CASE exec = {} /\ pc' = "process" /\ UNCHANGED <<blocked, exec>>
  <2>1. TrackedTasks' = TrackedTasks
    BY <1>1 DEF TrackedTasks, InFlight, IsScan
  <2>2. \A t \in pool' : ~IsScan(t) => t \notin rx'
    BY <1>1 DEF NumbersApart
  <2> QED
    BY <1>1, <1>3, <2>1, <2>2 DEF Quiet
<1> QED
  BY <1>2, <1>3 DEF RemoveScheduled

(* Every step is one of these.                                             *)
LEMMA StepShapes ==
  ASSUME Tracked, [Next]_vars
  PROVE  \/ Quiet \/ Begins \/ TakesNone
         \/ \E t \in DocTask : Takes(t)
         \/ \E e \in exec : TakesOut(e)
         \/ \E t \in rx : Concludes(t)
<1>1. TypeOK /\ NumbersApart /\ PassExact /\ EntriesKept
  BY DEF Tracked, Apart
<1>2. ASSUME NEW t \in pool, Finish(t) PROVE Quiet
  BY <1>1, <1>2, FinishIsQuiet DEF EntriesKept
<1>3. CASE Receive
  BY <1>3, ResultConcludes, OthersAreQuiet DEF Receive
<1>4. CASE ScheduleBlocked \/ RemoveScheduled
  BY <1>1, <1>4, ScheduleShape, RemoveShape
<1> QED
  BY <1>1, <1>2, <1>3, <1>4, OthersAreQuiet, MessageTakes
  DEF Next, MainLoop, Done

----------------------------------------------------------------------------
(* A task is in one place.                                                 *)

(* A handler that tries to schedule its task either starts it or appends   *)
(* it to the tasks that wait.                                              *)
LEMMA TakenTask ==
  ASSUME NEW t \in DocTask, Takes(t)
  PROVE  \/ Starts(t) /\ blocked' = blocked
         \/ blocked' = Append(blocked, t) /\ UNCHANGED <<pool, ongoing, rx>>
BY DEF Takes, TrySchedule, Starts

(* A started task joins the tracked ones.                                  *)
LEMMA StartedTask ==
  ASSUME NEW t \in DocTask, Starts(t)
  PROVE  TrackedTasks' = TrackedTasks \union {t}
<1>1. ~IsScan(t)
  BY DocTaskKinds
<1> QED
  BY <1>1 DEF Starts, Schedule, TrackedTasks, InFlight, IsScan

(* A task whose result was received is gone.                               *)
LEMMA ConcludedTask ==
  ASSUME NumbersApart, NEW t \in rx, Concludes(t)
  PROVE  t \in TrackedTasks /\ TrackedTasks' = TrackedTasks \ {t}
<1>1. rx' = rx \ {t} /\ pool' = pool /\ ~IsScan(t)
  BY DEF Concludes, Ends
<1>2. t \notin pool
  BY <1>1 DEF NumbersApart
<1> QED
  BY <1>1, <1>2 DEF TrackedTasks, InFlight, IsScan

(* No task under way has this number.                                      *)
NumberFree(n) == \A s \in TrackedTasks : s.n # n

(* A step that adds no task and takes none back.                           *)
LEMMA NumbersKept ==
  ASSUME TypeOK, NumbersApart, TrackedTasks' \subseteq TrackedTasks,
         \A t \in pool' : ~IsScan(t) => t \notin rx',
         UNCHANGED <<blocked, exec>>, next' \in {next, next + 1}
  PROVE  NumbersApart'
<1>1. next \in Nat /\ StillBlocked' = StillBlocked
  BY UriAssumption DEF TypeOK, StillBlocked
<1>2. \A n \in Nat : n < next => n < next'
  BY <1>1
<1>3. /\ \A t \in TrackedTasks' : t.n < next'
      /\ \A i \in DOMAIN blocked : blocked[i].n < next'
  BY <1>2, TrackedTyped DEF NumbersApart
<1> QED
  BY <1>1, <1>3 DEF NumbersApart, IsScan

(* A task that starts is not yet under way, and no longer waits.           *)
LEMMA NumbersStart ==
  ASSUME TypeOK, NumbersApart, NEW t \in DocTask, Starts(t),
         NumberFree(t.n),
         \A i \in StillBlocked' : blocked[i].n # t.n,
         StillBlocked' \subseteq StillBlocked,
         blocked' = blocked, next' \in {next, next + 1}, t.n < next'
  PROVE  NumbersApart'
<1>1. next \in Nat /\ TrackedTasks' = TrackedTasks \union {t} /\ ~IsScan(t)
  BY StartedTask, DocTaskKinds, UriAssumption DEF TypeOK
<1>2. \A n \in Nat : n < next => n < next'
  BY <1>1
<1>3. /\ \A s \in TrackedTasks' : s.n < next'
      /\ \A i \in DOMAIN blocked : blocked[i].n < next'
  BY <1>1, <1>2, TrackedTyped DEF NumbersApart
<1>4. \A r, s \in TrackedTasks' : r.n = s.n => r = s
  BY <1>1 DEF NumbersApart, NumberFree
<1>5. \A i \in StillBlocked' : \A s \in TrackedTasks' : blocked[i].n # s.n
  BY <1>1 DEF NumbersApart
<1>6. \A s \in pool' : ~IsScan(s) => s \notin rx'
  <2>1. t \notin rx
    BY <1>1 DEF TrackedTasks, InFlight, NumberFree
  <2>2. pool' = pool \union {t} /\ rx' = rx
    BY DEF Starts, Schedule
  <2> QED
    BY <2>1, <2>2 DEF NumbersApart
<1> QED
  BY <1>3, <1>4, <1>5, <1>6 DEF NumbersApart, IsScan

(* A new task has a number that no task has.                               *)
LEMMA NumbersTake ==
  ASSUME TypeOK, NumbersApart, PassExact, NEW t \in DocTask, Takes(t)
  PROVE  NumbersApart'
<1>1. /\ next \in Nat /\ t.n = next /\ next' = next + 1 /\ t.n < next'
      /\ exec = {} /\ exec' = {}
  BY UriAssumption DEF TypeOK, Takes, PassExact, loopVars
<1>2. /\ NumberFree(t.n)
      /\ \A i \in DOMAIN blocked : blocked[i].n # t.n
  BY <1>1, TrackedTyped DEF NumbersApart, NumberFree
<1>3. CASE Starts(t) /\ blocked' = blocked
  <2>1. StillBlocked' = StillBlocked /\ StillBlocked \subseteq DOMAIN blocked
    BY <1>1, <1>3 DEF StillBlocked
  <2> QED
    BY <1>1, <1>2, <1>3, <2>1, NumbersStart
<1>4. CASE blocked' = Append(blocked, t) /\ UNCHANGED <<pool, ongoing, rx>>
  <2>1. TrackedTasks' = TrackedTasks
    BY <1>4 DEF TrackedTasks, InFlight, IsScan
  <2>2. blocked \in Seq(DocTask)
    BY DEF TypeOK
  <2> DEFINE k == Len(blocked) + 1
  <2>3. /\ DOMAIN blocked' = DOMAIN blocked \union {k}
        /\ k \notin DOMAIN blocked
        /\ blocked'[k] = t
        /\ \A i \in DOMAIN blocked : blocked'[i] = blocked[i]
    <3> HIDE DEF DocTask
    <3> QED
      BY <1>4, <2>2
  <2> HIDE DEF k
  <2>4. /\ StillBlocked' = StillBlocked \union {k}
        /\ StillBlocked \subseteq DOMAIN blocked
    BY <1>1, <2>3 DEF StillBlocked
  <2>5. \A n \in Nat : n < next => n < next'
    BY <1>1
  <2>6. /\ \A s \in TrackedTasks : s.n < next'
        /\ \A i \in DOMAIN blocked : blocked[i].n < next'
    BY <2>5, TrackedTyped DEF NumbersApart
  <2>7. \A i \in DOMAIN blocked' : blocked'[i].n < next'
    BY <1>1, <2>3, <2>6
  <2>8. \A i, j \in DOMAIN blocked' : blocked'[i].n = blocked'[j].n => i = j
    BY <1>2, <2>3 DEF NumbersApart
  <2>9. \A i \in StillBlocked' : \A s \in TrackedTasks : blocked'[i].n # s.n
    BY <1>2, <2>3, <2>4 DEF NumbersApart, NumberFree
  <2>10. \A s \in pool' : ~IsScan(s) => s \notin rx'
    BY <1>4 DEF NumbersApart
  <2> QED
    BY <2>1, <2>6, <2>7, <2>8, <2>9, <2>10 DEF NumbersApart, IsScan
<1> QED
  BY <1>3, <1>4, TakenTask

(* The task at the cursor still waits, the ones behind it may not.         *)
LEMMA CursorWaits ==
  ASSUME PassExact, TypeOK, ii \in DOMAIN blocked
  PROVE  ii \in StillBlocked
<1>1. \A e \in exec : e \in Nat /\ e < ii
  BY DEF PassExact, TypeOK
<1> QED
  BY <1>1 DEF StillBlocked, TypeOK

(* A pass moves a task from the list to the workers.                       *)
LEMMA NumbersBegin ==
  ASSUME TypeOK, NumbersApart, PassExact, Begins
  PROVE  NumbersApart'
<1> DEFINE t == blocked[ii]
<1>1. ii \in StillBlocked /\ ii \in DOMAIN blocked /\ t \in DocTask
  BY CursorWaits, TrackedTyped DEF Begins
<1>2. /\ Starts(t) /\ blocked' = blocked /\ next' = next
      /\ exec' = exec \union {ii}
  BY DEF Begins
<1>3. StillBlocked' = StillBlocked \ {ii} /\ StillBlocked \subseteq DOMAIN blocked
  BY <1>2 DEF StillBlocked
<1>4. \A i \in StillBlocked' : blocked[i].n # t.n
  BY <1>1, <1>3 DEF NumbersApart
<1>5. NumberFree(t.n) /\ t.n < next
  BY <1>1 DEF NumbersApart, NumberFree
<1> HIDE DEF t
<1> QED
  BY <1>1, <1>2, <1>3, <1>4, <1>5, NumbersStart

(* swap_remove loses the scheduled task and no other, and the element it   *)
(* moves is no scheduled one.                                              *)
LEMMA TakenOut ==
  ASSUME TypeOK, NEW e \in exec, TakesOut(e)
  PROVE  /\ e \in DOMAIN blocked
         /\ DOMAIN blocked' = 1..(Len(blocked) - 1)
         /\ DOMAIN blocked' \subseteq DOMAIN blocked
         /\ \A i \in DOMAIN blocked' : i # e => blocked'[i] = blocked[i]
         /\ e \in DOMAIN blocked' => /\ blocked'[e] = blocked[Len(blocked)]
                                     /\ Len(blocked) \in StillBlocked
         /\ exec' \subseteq DOMAIN blocked' /\ e \notin exec'
<1>1. /\ e \in DOMAIN blocked /\ exec \subseteq DOMAIN blocked
      /\ blocked' = SwapRemove(blocked, e) /\ exec' = exec \ {e}
      /\ \A f \in exec : f <= e
  BY DEF TypeOK, TakesOut
<1>2. /\ Len(blocked) \in Nat /\ DOMAIN blocked = 1..Len(blocked)
      /\ DOMAIN blocked' = 1..(Len(blocked) - 1)
  <2>1. blocked \in Seq(DocTask)
    BY DEF TypeOK
  <2> HIDE DEF DocTask
  <2> QED
    BY <1>1, <2>1 DEF SwapRemove
<1>3. \A i \in DOMAIN blocked' :
        blocked'[i] = IF i = e THEN blocked[Len(blocked)] ELSE blocked[i]
  BY <1>1, <1>2 DEF SwapRemove
<1>4. e \in DOMAIN blocked' => Len(blocked) \in StillBlocked
  BY <1>1, <1>2 DEF StillBlocked
<1>5. exec' \subseteq DOMAIN blocked'
  BY <1>1, <1>2
<1> QED
  BY <1>1, <1>2, <1>3, <1>4, <1>5

(* Where the tasks that wait were before.                                  *)
LEMMA TakenFrom ==
  ASSUME TypeOK, NEW e \in exec, TakesOut(e)
  PROVE  LET from(i) == IF i = e THEN Len(blocked) ELSE i IN
           /\ \A i \in DOMAIN blocked' : /\ from(i) \in DOMAIN blocked
                                         /\ blocked'[i] = blocked[from(i)]
           /\ \A i \in StillBlocked' : from(i) \in StillBlocked
           /\ \A i, j \in DOMAIN blocked' : from(i) = from(j) => i = j
           /\ \A k \in StillBlocked : \E i \in StillBlocked' : from(i) = k
<1> DEFINE from(i) == IF i = e THEN Len(blocked) ELSE i
<1>1. /\ e \in DOMAIN blocked
      /\ DOMAIN blocked' = 1..(Len(blocked) - 1)
      /\ DOMAIN blocked' \subseteq DOMAIN blocked
      /\ \A i \in DOMAIN blocked' : i # e => blocked'[i] = blocked[i]
      /\ e \in DOMAIN blocked' => /\ blocked'[e] = blocked[Len(blocked)]
                                  /\ Len(blocked) \in StillBlocked
      /\ exec' \subseteq DOMAIN blocked' /\ e \notin exec'
  BY TakenOut
<1>2. exec' = exec \ {e} /\ exec \subseteq DOMAIN blocked
  BY DEF TakesOut, TypeOK
<1>3. Len(blocked) \in Nat /\ DOMAIN blocked = 1..Len(blocked)
  BY DEF TypeOK
<1>4. \A i \in DOMAIN blocked' : /\ from(i) \in DOMAIN blocked
                                 /\ blocked'[i] = blocked[from(i)]
  BY <1>1 DEF StillBlocked
<1>5. ASSUME NEW i \in StillBlocked' PROVE from(i) \in StillBlocked
  <2>1. i \in DOMAIN blocked' /\ i \notin exec'
    BY <1>5 DEF StillBlocked
  <2>2. CASE i = e
    BY <1>1, <2>1, <2>2
  <2>3. CASE i # e
    BY <1>1, <1>2, <2>1, <2>3 DEF StillBlocked
  <2> QED
    BY <2>2, <2>3
<1>6. \A i, j \in DOMAIN blocked' : from(i) = from(j) => i = j
  BY <1>1, <1>3
<1>7. ASSUME NEW k \in StillBlocked
      PROVE  \E i \in StillBlocked' : from(i) = k
  <2>1. k \in DOMAIN blocked /\ k \notin exec /\ k # e
    BY <1>7 DEF StillBlocked
  <2>2. CASE k = Len(blocked)
    <3>1. e \in DOMAIN blocked'
      BY <1>1, <1>3, <2>1, <2>2
    <3>2. e \in StillBlocked' /\ from(e) = k
      BY <1>1, <2>2, <3>1 DEF StillBlocked
    <3> QED
      BY <3>2
  <2>3. CASE k # Len(blocked)
    <3>1. k \in DOMAIN blocked'
      BY <1>1, <1>3, <2>1, <2>3
    <3>2. k \in StillBlocked' /\ from(k) = k
      BY <1>2, <2>1, <3>1 DEF StillBlocked
    <3> QED
      BY <3>2
  <2> QED
    BY <2>2, <2>3
<1> QED
  BY <1>4, <1>5, <1>6, <1>7

(* The numbers stay apart when a scheduled task leaves the list.           *)
LEMMA NumbersTakeOut ==
  ASSUME TypeOK, NumbersApart, NEW e \in exec, TakesOut(e)
  PROVE  NumbersApart'
<1> DEFINE from(i) == IF i = e THEN Len(blocked) ELSE i
<1>1. /\ \A i \in DOMAIN blocked' : /\ from(i) \in DOMAIN blocked
                                    /\ blocked'[i] = blocked[from(i)]
      /\ \A i \in StillBlocked' : from(i) \in StillBlocked
      /\ \A i, j \in DOMAIN blocked' : from(i) = from(j) => i = j
  BY TakenFrom
<1> HIDE DEF from
<1>2. /\ pool' = pool /\ rx' = rx /\ next' = next
      /\ StillBlocked' \subseteq DOMAIN blocked'
  BY DEF TakesOut, StillBlocked
<1>3. TrackedTasks' = TrackedTasks
  BY <1>2 DEF TrackedTasks, InFlight, IsScan
<1>4. \A i \in DOMAIN blocked' : blocked'[i].n < next'
  BY <1>1, <1>2 DEF NumbersApart
<1>5. \A i, j \in DOMAIN blocked' : blocked'[i].n = blocked'[j].n => i = j
  BY <1>1 DEF NumbersApart
<1>6. \A i \in StillBlocked' : \A t \in TrackedTasks' :
        blocked'[i].n # t.n
  BY <1>1, <1>2, <1>3 DEF NumbersApart
<1> QED
  BY <1>2, <1>3, <1>4, <1>5, <1>6 DEF NumbersApart, IsScan

(* The positions a pass has scheduled stay where they are until they are   *)
(* taken out, and their tasks stay with the workers while the pass lasts.  *)
LEMMA PassKept ==
  ASSUME TypeOK, PassExact,
         \/ Quiet \/ Begins \/ TakesNone
         \/ \E t \in DocTask : Takes(t)
         \/ \E e \in exec : TakesOut(e)
         \/ \E t \in rx : Concludes(t)
  PROVE  PassExact'
<1>1. ii \in Nat /\ exec \subseteq DOMAIN blocked /\ DOMAIN blocked \subseteq Nat
  BY DEF TypeOK
<1>2. CASE Quiet
  <2>1. /\ exec' = exec /\ blocked' = blocked /\ TrackedTasks' = TrackedTasks
        /\ (\A e \in exec : e < ii') /\ (pc' = "blocked" \/ exec = {})
    BY <1>2 DEF Quiet
  <2> QED
    BY <2>1 DEF PassExact
<1>3. CASE Begins
  <2> DEFINE t == blocked[ii]
  <2>1. /\ pc = "blocked" /\ pc' = pc /\ ii' = ii + 1
        /\ exec' = exec \union {ii} /\ blocked' = blocked /\ Starts(t)
        /\ t \in DocTask
    BY <1>3, TrackedTyped DEF Begins
  <2> HIDE DEF t
  <2>2. TrackedTasks' = TrackedTasks \union {t}
    BY <2>1, StartedTask
  <2>3. \A e \in exec' : blocked[e] \in TrackedTasks'
    BY <2>1, <2>2 DEF PassExact, t
  <2>4. \A e \in exec : e < ii + 1
    BY <1>1 DEF PassExact
  <2>5. \A e \in exec' : e < ii'
    BY <1>1, <2>1, <2>4
  <2> QED
    BY <2>1, <2>3, <2>5 DEF PassExact
<1>4. CASE TakesNone \/ \E t \in DocTask : Takes(t)
  <2>1. pc = "process" /\ exec' = exec /\ pc' = pc
    BY <1>4 DEF TakesNone, Takes, loopVars
  <2> QED
    BY <2>1 DEF PassExact
<1>5. ASSUME NEW e \in exec, TakesOut(e) PROVE PassExact'
  <2>1. /\ pc = "blocked" /\ pc' = pc /\ ii' = ii - 1 /\ ii > Len(blocked)
        /\ exec' = exec \ {e} /\ pool' = pool /\ rx' = rx
        /\ \A f \in exec : f <= e
    BY <1>5 DEF TakesOut
  <2>2. TrackedTasks' = TrackedTasks
    BY <2>1 DEF TrackedTasks, InFlight, IsScan
  <2>3. /\ \A i \in DOMAIN blocked' : i # e => blocked'[i] = blocked[i]
        /\ exec' \subseteq DOMAIN blocked' /\ e \notin exec'
        /\ e \in DOMAIN blocked
    BY <1>5, TakenOut
  <2>4. \A f \in exec' : blocked'[f] \in TrackedTasks'
    BY <2>1, <2>2, <2>3 DEF PassExact
  <2>5. \A f \in exec' : f < ii'
    <3>1. e <= Len(blocked) /\ e \in Nat /\ Len(blocked) \in Nat
      BY <2>3 DEF TypeOK
    <3> QED
      BY <1>1, <2>1, <3>1
  <2> QED
    BY <2>1, <2>4, <2>5 DEF PassExact
<1>6. ASSUME NEW t \in rx, Concludes(t) PROVE PassExact'
  <2>1. pc = "recv" /\ exec' = exec
    BY <1>6 DEF Concludes, loopVars
  <2> QED
    BY <2>1 DEF PassExact
<1> QED
  BY <1>2, <1>3, <1>4, <1>5, <1>6

----------------------------------------------------------------------------
(* The entries of ongoing are those of the tasks under way.                *)

(* An entry names one task: updates are told apart by their file, lookups  *)
(* and renames by their number.                                            *)
LEMMA EntryInjective ==
  ASSUME TypeOK, OneUpdateAtATime, NumbersApart,
         NEW s \in TrackedTasks, NEW t \in TrackedTasks,
         EntryOf(s) = EntryOf(t)
  PROVE  s = t
<1>1. s \in DocTask /\ t \in DocTask
  BY TrackedTyped
<1>2. \A r \in DocTask : ~IsUpdate(r) => r.kind \in {"Lookup", "DidRenameFiles"}
  BY DEF DocTask, UpdateTask, LookupTask, RenameTask, IsUpdate
<1>3. CASE IsUpdate(s) /\ IsUpdate(t)
  <2>1. s.uri = t.uri
    BY <1>3 DEF EntryOf
  <2> QED
    BY <1>3, <2>1 DEF OneUpdateAtATime, TrackedTasks
<1>4. CASE ~IsUpdate(s) /\ ~IsUpdate(t)
  <2>1. s.n = t.n
    BY <1>4 DEF EntryOf
  <2> QED
    BY <2>1 DEF NumbersApart
<1>5. CASE IsUpdate(s) # IsUpdate(t)
  <2>1. EntryOf(s).kind # EntryOf(t).kind
    <3>1. CASE IsUpdate(s) /\ ~IsUpdate(t)
      BY <1>1, <1>2, <3>1 DEF EntryOf
    <3>2. CASE ~IsUpdate(s) /\ IsUpdate(t)
      BY <1>1, <1>2, <3>2 DEF EntryOf
    <3> QED
      BY <1>5, <3>1, <3>2 DEF IsUpdate
  <2> QED
    BY <2>1
<1> QED
  BY <1>3, <1>4, <1>5 DEF IsUpdate

(* Vec::remove leaves elements from other positions, in their order.       *)
LEMMA WithoutFrom ==
  ASSUME NEW S, NEW s \in Seq(S), NEW i \in DOMAIN s,
         NEW k \in DOMAIN Without(s, i)
  PROVE  LET from(l) == IF l < i THEN l ELSE l + 1 IN
           from(k) \in DOMAIN s \ {i} /\ Without(s, i)[k] = s[from(k)]
<1>1. k \in 1..(Len(s) - 1) /\ i \in 1..Len(s) /\ Len(s) \in Nat
  BY DEF Without
<1>2. Without(s, i)[k] = IF k < i THEN s[k] ELSE s[k + 1]
  BY <1>1 DEF Without
<1> QED
  BY <1>1, <1>2

(* A list without duplicates has none after Vec::remove.                   *)
LEMMA WithoutApart ==
  ASSUME NEW S, NEW s \in Seq(S), NEW i \in DOMAIN s,
         \A j, k \in DOMAIN s : s[j] = s[k] => j = k,
         NEW k \in DOMAIN Without(s, i), NEW l \in DOMAIN Without(s, i),
         Without(s, i)[k] = Without(s, i)[l]
  PROVE  k = l
<1> DEFINE from(j) == IF j < i THEN j ELSE j + 1
<1>1. /\ from(k) \in DOMAIN s /\ from(l) \in DOMAIN s
      /\ s[from(k)] = s[from(l)]
  BY WithoutFrom
<1>2. from(k) = from(l)
  <2> HIDE DEF from
  <2> QED
    BY <1>1
<1>3. k \in Nat /\ l \in Nat /\ i \in Nat
  BY DEF Without
<1> QED
  BY <1>2, <1>3

(* The loop has not panicked with "Must be a registered task.".            *)
EntryFound == pc # "entry missing"

(* A task starts without an entry of its own, so it gets the only one.     *)
LEMMA EntriesStart ==
  ASSUME TypeOK, EntriesKept, NEW t \in DocTask, Starts(t),
         NumberFree(t.n), EntryFound'
  PROVE  EntriesKept'
<1>1. /\ TrackedTasks' = TrackedTasks \union {t}
      /\ ~IsScan(t) /\ t \in Task
  BY StartedTask, DocTaskKinds
<1> DEFINE e0 == EntryOf(t)
<1>2. ongoing' = Append(ongoing, e0) /\ e0 \in Entry
  BY <1>1, EntryTyped DEF Starts, Schedule
<1>3. ongoing \in Seq(Entry)
  BY DEF TypeOK
<1>4. ~Registered(e0)
  <2> SUFFICES ASSUME Registered(e0) PROVE FALSE
    OBVIOUS
  <2>1. CASE IsUpdate(t)
    <3>1. e0 = [kind |-> "TextDocUpdate", uri |-> t.uri]
      BY <2>1 DEF EntryOf
    <3>2. ~Updating(t.uri)
      BY <2>1 DEF Starts, TaskBlocked
    <3> QED
      BY <3>1, <3>2, UpdatingIsRegistered
  <2>2. CASE ~IsUpdate(t)
    <3>1. PICK s \in TrackedTasks : EntryOf(s) = e0
      BY DEF Registered, EntriesKept
    <3>2. e0 = [kind |-> t.kind, id |-> t.n] /\ t.kind # "TextDocUpdate"
      BY <2>2 DEF EntryOf, DocTask, UpdateTask, LookupTask, RenameTask,
                  IsUpdate
    <3>3. ~IsUpdate(s)
      <4>1. IsUpdate(s) => EntryOf(s).kind = "TextDocUpdate"
        BY DEF EntryOf
      <4> QED
        BY <3>1, <3>2, <4>1
    <3>4. s.n = t.n
      BY <3>1, <3>2, <3>3 DEF EntryOf
    <3> QED
      BY <3>4 DEF NumberFree
  <2> QED
    BY <2>1, <2>2
<1> HIDE DEF e0
<1> DEFINE k == Len(ongoing) + 1
<1>5. /\ DOMAIN ongoing' = DOMAIN ongoing \union {k}
      /\ k \notin DOMAIN ongoing /\ ongoing'[k] = e0
      /\ \A i \in DOMAIN ongoing : ongoing'[i] = ongoing[i]
  <2> HIDE DEF Entry
  <2>1. Len(ongoing) \in Nat /\ DOMAIN ongoing = 1..Len(ongoing)
    BY <1>3
  <2>2. Len(ongoing') = Len(ongoing) + 1 /\ DOMAIN ongoing' = 1..Len(ongoing')
    BY <1>2, <1>3
  <2>3. DOMAIN ongoing' = DOMAIN ongoing \union {k} /\ k \notin DOMAIN ongoing
    BY <2>1, <2>2
  <2>4. /\ ongoing'[k] = e0
        /\ \A i \in DOMAIN ongoing : ongoing'[i] = ongoing[i]
    BY <1>2, <1>3
  <2> QED
    BY <2>3, <2>4
<1> HIDE DEF k
<1>6. \A s \in TrackedTasks' : Registered(EntryOf(s))'
  <2>1. Registered(EntryOf(t))' /\ \A e : Registered(e) => Registered(e)'
    BY AppendKeeps, <1>3 DEF Starts
  <2>2. \A s : EntryOf(s)' = EntryOf(s)
    BY DEF EntryOf
  <2> QED
    BY <1>1, <2>1, <2>2 DEF EntriesKept, Registered
<1>7. \A i \in DOMAIN ongoing' : \E s \in TrackedTasks' : ongoing'[i] = EntryOf(s)
  BY <1>1, <1>5 DEF EntriesKept, e0
<1>8. \A i, j \in DOMAIN ongoing' : ongoing'[i] = ongoing'[j] => i = j
  BY <1>4, <1>5 DEF EntriesKept, Registered
<1> QED
  BY <1>6, <1>7, <1>8 DEF EntriesKept, EntryFound, EntryOf, Registered

(* mark_ongoing_task_completed removes the entry of the task and no other. *)
LEMMA EntriesEnd ==
  ASSUME TypeOK, OneUpdateAtATime, NumbersApart, EntriesKept,
         NEW t \in rx, Concludes(t)
  PROVE  EntriesKept'
<1>1. t \in TrackedTasks /\ TrackedTasks' = TrackedTasks \ {t}
  BY ConcludedTask
<1>2. Ends(t) /\ pc' = "recv"
  BY DEF Concludes, loopVars
<1> DEFINE e0 == EntryOf(t)  i == FirstEntry(e0)
<1>3. ongoing \in Seq(Entry) /\ i \in DOMAIN ongoing /\ ongoing[i] = e0
  BY <1>2, FirstEntryIsEntry DEF TypeOK, Ends
<1>4. ongoing' = Without(ongoing, i)
  BY <1>2 DEF Ends, MarkCompleted
<1>5. \A s \in TrackedTasks' : Registered(EntryOf(s))'
  <2> TAKE s \in TrackedTasks'
  <2>1. Registered(EntryOf(s)) /\ EntryOf(s) # e0
    BY <1>1, EntryInjective DEF EntriesKept
  <2> DEFINE e == EntryOf(s)
  <2>2. Registered(e) /\ e # EntryOf(t)
    BY <2>1
  <2>3. EntryOf(s)' = e
    BY DEF EntryOf
  <2> HIDE DEF e
  <2>4. Registered(e)'
    BY <1>2, <1>3, <2>2, EndsKeeps
  <2> QED
    BY <2>3, <2>4 DEF Registered
<1> HIDE DEF i
<1>6. ASSUME NEW k \in DOMAIN ongoing'
      PROVE  \E s \in TrackedTasks' : ongoing'[k] = EntryOf(s)
  <2>1. PICK j \in DOMAIN ongoing \ {i} : ongoing'[k] = ongoing[j]
    <3> HIDE DEF Entry, e0
    <3> QED
      BY <1>3, <1>4, <1>6, WithoutFrom
  <2>2. PICK s \in TrackedTasks : ongoing[j] = EntryOf(s)
    BY <2>1 DEF EntriesKept
  <2>3. s # t
    BY <1>3, <2>1, <2>2 DEF EntriesKept
  <2> QED
    BY <1>1, <2>1, <2>2, <2>3
<1>7. \A k, l \in DOMAIN ongoing' : ongoing'[k] = ongoing'[l] => k = l
  <2> HIDE DEF Entry, e0
  <2>1. \A k, l \in DOMAIN ongoing : ongoing[k] = ongoing[l] => k = l
    BY DEF EntriesKept
  <2> QED
    BY <1>3, <1>4, <2>1, WithoutApart
<1> QED
  BY <1>2, <1>5, <1>6, <1>7 DEF EntriesKept, EntryOf, Registered

(* Every step keeps the entries.                                           *)
LEMMA EntriesStep ==
  ASSUME Tracked, [Next]_vars
  PROVE  EntriesKept'
<1>1. /\ TypeOK /\ OneUpdateAtATime /\ NumbersApart /\ PassExact
      /\ EntriesKept
  BY DEF Tracked, Apart, UpdatesApart
<1>2. ASSUME TrackedTasks' = TrackedTasks, ongoing' = ongoing,
             EntryFound'
      PROVE  EntriesKept'
  BY <1>1, <1>2 DEF EntriesKept, EntryFound, EntryOf, Registered, IsUpdate
<1>3. CASE Quiet
  BY <1>2, <1>3 DEF Quiet, EntryFound
<1>4. CASE TakesNone
  <2>1. TrackedTasks' = TrackedTasks
    BY <1>4 DEF TakesNone, TrackedTasks, InFlight, IsScan, taskVars
  <2>2. EntryFound' /\ ongoing' = ongoing
    BY <1>4 DEF TakesNone, loopVars, taskVars, EntryFound
  <2> QED
    BY <1>2, <2>1, <2>2
<1>5. ASSUME NEW t \in DocTask, Takes(t) PROVE EntriesKept'
  <2>1. EntryFound' /\ t.n = next /\ next \in Nat
    BY <1>1, <1>5, UriAssumption DEF Takes, loopVars, TypeOK, EntryFound
  <2>2. NumberFree(t.n)
    BY <1>1, <2>1, TrackedTyped DEF NumbersApart, NumberFree
  <2>3. CASE Starts(t)
    BY <1>1, <2>1, <2>2, <2>3, EntriesStart
  <2>4. CASE UNCHANGED <<pool, ongoing, rx>>
    BY <1>2, <2>1, <2>4 DEF TrackedTasks, InFlight, IsScan
  <2> QED
    BY <1>5, <2>3, <2>4, TakenTask
<1>6. CASE Begins
  <2>1. ii \in StillBlocked /\ blocked[ii] \in DocTask /\ Starts(blocked[ii])
        /\ EntryFound'
    BY <1>1, <1>6, CursorWaits, TrackedTyped DEF Begins, EntryFound
  <2>2. NumberFree(blocked[ii].n)
    BY <1>1, <2>1 DEF NumbersApart, NumberFree
  <2> QED
    BY <1>1, <2>1, <2>2, EntriesStart
<1>7. ASSUME NEW e \in exec, TakesOut(e) PROVE EntriesKept'
  <2>1. /\ UNCHANGED <<pool, rx, ongoing>> /\ EntryFound'
    BY <1>7 DEF TakesOut, EntryFound
  <2> QED
    BY <1>2, <2>1 DEF TrackedTasks, InFlight, IsScan
<1>8. ASSUME NEW t \in rx, Concludes(t) PROVE EntriesKept'
  BY <1>1, <1>8, EntriesEnd
<1> QED
  BY <1>3, <1>4, <1>5, <1>6, <1>7, <1>8, StepShapes

----------------------------------------------------------------------------
(* A request has one answer, now or once its lookup is done.               *)

(* The number of a message at hand is the number of no request so far.     *)
LEMMA NumberIsNew ==
  ASSUME TypeOK, RequestsKept, next <= MaxMsgs
  PROVE  next \in 1..MaxMsgs /\ next \notin asked /\ replies[next] = 0
<1>1. next \in 1..MaxMsgs
  BY UriAssumption DEF TypeOK
<1>2. next \notin asked
  BY <1>1 DEF RequestsKept
<1> QED
  BY <1>1, <1>2 DEF RequestsKept

(* The requests stay below the number of the next message.                 *)
LEMMA AskedBelow ==
  ASSUME TypeOK, RequestsKept, next' = next + 1,
         asked' \subseteq asked \union {next}
  PROVE  \A m \in asked' : m < next'
<1>1. next \in Nat /\ \A m \in asked : m \in Nat /\ m < next
  BY UriAssumption DEF TypeOK, RequestsKept
<1> QED
  BY <1>1

(* A message that is done with at once.                                    *)
LEMMA RequestsTakeNone ==
  ASSUME TypeOK, RequestsKept, TakesNone
  PROVE  RequestsKept'
<1>1. /\ next \in 1..MaxMsgs /\ next \notin asked /\ replies[next] = 0
      /\ next' = next + 1 /\ replies \in [1..MaxMsgs -> Nat]
  BY NumberIsNew DEF TakesNone, TypeOK
<1>2. TrackedTasks' = TrackedTasks /\ StillBlocked' = StillBlocked
        /\ blocked' = blocked
  BY DEF TakesNone, TrackedTasks, InFlight, IsScan, StillBlocked, taskVars,
         loopVars
<1>3. CASE UNCHANGED <<asked, replies>>
  <2>1. \A m \in asked' : m < next'
    BY <1>1, <1>3, AskedBelow
  <2> QED
    BY <1>2, <1>3, <2>1 DEF RequestsKept, LookupOf, OpenLookup, IsLookup
<1>4. CASE /\ asked' = asked \union {next}
           /\ replies' = [replies EXCEPT ![next] = @ + 1]
  <2>1. \A m \in asked' : m < next'
    BY <1>1, <1>4, AskedBelow
  <2>2. /\ replies'[next] = 1
        /\ \A m \in 1..MaxMsgs : m # next => replies'[m] = replies[m]
    BY <1>1, <1>4
  <2>3. \A m \in 1..MaxMsgs : replies'[m] \in {0, 1}
    BY <2>2 DEF RequestsKept
  <2>4. \A m \in 1..MaxMsgs : m \notin asked' => replies'[m] = 0
    BY <1>4, <2>2 DEF RequestsKept
  <2>5. \A t : OpenLookup(t) => OpenLookup(t)'
    <3>1. asked \subseteq 1..MaxMsgs
      BY DEF TypeOK
    <3> QED
      BY <1>1, <1>4, <2>2, <3>1 DEF OpenLookup, IsLookup
  <2>6. \A m \in asked' : replies'[m] = 0 => LookupOf(m)'
    <3>1. asked \subseteq 1..MaxMsgs
      BY DEF TypeOK
    <3>2. \A m \in asked' : replies'[m] = 0 => m \in asked /\ replies[m] = 0
      BY <1>1, <1>4, <2>2, <3>1
    <3> QED
      BY <1>2, <3>2 DEF RequestsKept, LookupOf, IsLookup
  <2> QED
    BY <1>2, <2>1, <2>3, <2>4, <2>5, <2>6 DEF RequestsKept, IsLookup
<1> QED
  BY <1>3, <1>4 DEF TakesNone

(* A lookup is started or has to wait; its request is the new one.         *)
LEMMA RequestsTake ==
  ASSUME TypeOK, PassExact, RequestsKept, NEW t \in DocTask, Takes(t)
  PROVE  RequestsKept'
<1>1. /\ next \in 1..MaxMsgs /\ next \notin asked /\ replies[next] = 0
      /\ next' = next + 1 /\ replies' = replies /\ t.n = next
      /\ asked' = IF IsLookup(t) THEN asked \union {next} ELSE asked
      /\ exec = {} /\ exec' = {}
  BY NumberIsNew DEF Takes, PassExact, loopVars
<1>2. \A m \in asked' : m < next'
  BY <1>1, AskedBelow
<1>3. IsLookup(t) => OpenLookup(t)'
  BY <1>1 DEF OpenLookup, IsLookup
<1>4. \A s : OpenLookup(s) => OpenLookup(s)'
  BY <1>1 DEF OpenLookup, IsLookup
<1>5. \A m \in asked' : m \in asked \/ (IsLookup(t) /\ m = t.n)
  BY <1>1
<1>6. /\ \A m \in 1..MaxMsgs : replies'[m] \in {0, 1}
      /\ \A m \in 1..MaxMsgs : m \notin asked' => replies'[m] = 0
  BY <1>1 DEF RequestsKept
<1>7. CASE Starts(t) /\ blocked' = blocked
  <2>1. TrackedTasks' = TrackedTasks \union {t} /\ StillBlocked' = StillBlocked
    BY <1>1, <1>7, StartedTask DEF StillBlocked
  <2>2. \A m : LookupOf(m) => LookupOf(m)'
    BY <1>7, <2>1 DEF LookupOf, IsLookup
  <2>3. IsLookup(t) => LookupOf(t.n)'
    BY <2>1 DEF LookupOf, IsLookup
  <2>4. \A m \in asked' : replies'[m] = 0 => LookupOf(m)'
    BY <1>1, <1>5, <2>2, <2>3 DEF RequestsKept
  <2>5. \A s \in TrackedTasks' : IsLookup(s) => OpenLookup(s)'
    BY <1>3, <1>4, <2>1 DEF RequestsKept
  <2>6. \A i \in StillBlocked' :
          IsLookup(blocked'[i]) => blocked'[i].n \in asked'
                                     /\ replies'[blocked'[i].n] = 0
    BY <1>1, <1>4, <1>7, <2>1 DEF RequestsKept, OpenLookup, IsLookup
  <2> QED
    BY <1>2, <1>6, <2>4, <2>5, <2>6 DEF RequestsKept, IsLookup, OpenLookup
<1>8. CASE blocked' = Append(blocked, t) /\ UNCHANGED <<pool, ongoing, rx>>
  <2>1. TrackedTasks' = TrackedTasks
    BY <1>8 DEF TrackedTasks, InFlight, IsScan
  <2> DEFINE k == Len(blocked) + 1
  <2>2. /\ DOMAIN blocked' = DOMAIN blocked \union {k}
        /\ k \notin DOMAIN blocked
        /\ blocked'[k] = t
        /\ \A i \in DOMAIN blocked : blocked'[i] = blocked[i]
    <3>1. blocked \in Seq(DocTask)
      BY DEF TypeOK
    <3> HIDE DEF DocTask
    <3> QED
      BY <1>8, <3>1
  <2> HIDE DEF k
  <2>3. /\ StillBlocked' = StillBlocked \union {k}
        /\ StillBlocked \subseteq DOMAIN blocked
    BY <1>1, <2>2 DEF StillBlocked
  <2>4. \A m : LookupOf(m) => LookupOf(m)'
    BY <2>1, <2>2, <2>3 DEF LookupOf, IsLookup
  <2>5. IsLookup(t) => LookupOf(t.n)'
    BY <2>2, <2>3 DEF LookupOf, IsLookup
  <2>6. \A m \in asked' : replies'[m] = 0 => LookupOf(m)'
    BY <1>1, <1>5, <2>4, <2>5 DEF RequestsKept
  <2>7. \A s \in TrackedTasks' : IsLookup(s) => OpenLookup(s)'
    BY <1>4, <2>1 DEF RequestsKept
  <2>8. \A i \in StillBlocked' :
          IsLookup(blocked'[i]) => blocked'[i].n \in asked'
                                     /\ replies'[blocked'[i].n] = 0
    BY <1>1, <1>3, <1>4, <2>2, <2>3 DEF RequestsKept, OpenLookup, IsLookup
  <2> QED
    BY <1>2, <1>6, <2>6, <2>7, <2>8 DEF RequestsKept, IsLookup, OpenLookup
<1> QED
  BY <1>7, <1>8, TakenTask

(* The lookup at the cursor goes from the list to the workers.             *)
LEMMA RequestsBegin ==
  ASSUME TypeOK, PassExact, RequestsKept, Begins
  PROVE  RequestsKept'
<1> DEFINE t == blocked[ii]
<1>1. /\ ii \in StillBlocked /\ ii \in DOMAIN blocked /\ t \in DocTask
      /\ Starts(t) /\ blocked' = blocked /\ exec' = exec \union {ii}
      /\ UNCHANGED <<next, asked, replies>>
  BY CursorWaits, TrackedTyped DEF Begins
<1>2. StillBlocked' = StillBlocked \ {ii}
  BY <1>1 DEF StillBlocked
<1> HIDE DEF t
<1>3. TrackedTasks' = TrackedTasks \union {t}
  BY <1>1, StartedTask
<1>4. \A s : OpenLookup(s)' <=> OpenLookup(s)
  BY <1>1 DEF OpenLookup, IsLookup
<1>5. \A m : LookupOf(m) => LookupOf(m)'
  BY <1>1, <1>2, <1>3 DEF LookupOf, IsLookup, t
<1>6. IsLookup(t) => OpenLookup(t)
  BY <1>1 DEF RequestsKept, t
<1>7. \A s \in TrackedTasks' : IsLookup(s) => OpenLookup(s)'
  BY <1>3, <1>4, <1>6 DEF RequestsKept
<1>8. \A m \in asked' : replies'[m] = 0 => LookupOf(m)'
  BY <1>1, <1>5 DEF RequestsKept
<1>9. \A i \in StillBlocked' :
        IsLookup(blocked'[i]) => blocked'[i].n \in asked'
                                   /\ replies'[blocked'[i].n] = 0
  BY <1>1, <1>2 DEF RequestsKept, OpenLookup
<1> QED
  BY <1>1, <1>7, <1>8, <1>9 DEF RequestsKept, OpenLookup, IsLookup

(* swap_remove moves the lookups that wait and drops none.                 *)
LEMMA RequestsTakeOut ==
  ASSUME TypeOK, RequestsKept, NEW e \in exec, TakesOut(e)
  PROVE  RequestsKept'
<1> DEFINE from(i) == IF i = e THEN Len(blocked) ELSE i
<1>1. /\ \A i \in DOMAIN blocked' : /\ from(i) \in DOMAIN blocked
                                    /\ blocked'[i] = blocked[from(i)]
      /\ \A i \in StillBlocked' : from(i) \in StillBlocked
      /\ \A k \in StillBlocked : \E i \in StillBlocked' : from(i) = k
  BY TakenFrom
<1> HIDE DEF from
<1>2. /\ UNCHANGED <<pool, rx, next, asked, replies>>
      /\ StillBlocked' \subseteq DOMAIN blocked'
  BY DEF TakesOut, StillBlocked
<1>3. TrackedTasks' = TrackedTasks
  BY <1>2 DEF TrackedTasks, InFlight, IsScan
<1>4. \A k \in StillBlocked : \E i \in StillBlocked' : blocked'[i] = blocked[k]
  <2> TAKE k \in StillBlocked
  <2>1. PICK i \in StillBlocked' : from(i) = k
    BY <1>1
  <2> QED
    BY <1>1, <1>2, <2>1
<1>5. \A m : LookupOf(m) => LookupOf(m)'
  BY <1>3, <1>4 DEF LookupOf, IsLookup
<1>6. \A i \in StillBlocked' :
        IsLookup(blocked'[i]) => blocked'[i].n \in asked
                                   /\ replies[blocked'[i].n] = 0
  BY <1>1, <1>2 DEF RequestsKept, OpenLookup
<1> QED
  BY <1>2, <1>3, <1>5, <1>6 DEF RequestsKept, OpenLookup, IsLookup

(* The response goes out once, when the lookup leaves the workers.         *)
LEMMA RequestsConclude ==
  ASSUME TypeOK, NumbersApart, RequestsKept, NEW t \in rx, Concludes(t)
  PROVE  RequestsKept'
<1>1. /\ t \in TrackedTasks /\ TrackedTasks' = TrackedTasks \ {t}
      /\ UNCHANGED <<exec, blocked, next, asked>>
      /\ StillBlocked' = StillBlocked
  BY ConcludedTask DEF Concludes, loopVars, StillBlocked
<1>2. replies \in [1..MaxMsgs -> Nat] /\ asked \subseteq 1..MaxMsgs
  BY DEF TypeOK
<1>3. CASE ~IsLookup(t)
  <2>1. replies' = replies
    BY <1>3 DEF Concludes
  <2>2. \A m : LookupOf(m) => LookupOf(m)'
    BY <1>1, <1>3 DEF LookupOf, IsLookup
  <2> QED
    BY <1>1, <2>1, <2>2 DEF RequestsKept, OpenLookup, IsLookup
<1>4. CASE IsLookup(t)
  <2>1. t.n \in asked /\ t.n \in 1..MaxMsgs /\ replies[t.n] = 0
    BY <1>1, <1>2, <1>4 DEF RequestsKept, OpenLookup
  <2>2. replies' = [replies EXCEPT ![t.n] = @ + 1]
    BY <1>4 DEF Concludes
  <2>3. /\ replies'[t.n] = 1
        /\ \A m \in 1..MaxMsgs : m # t.n => replies'[m] = replies[m]
    BY <1>2, <2>1, <2>2
  <2>4. \A m \in 1..MaxMsgs : replies'[m] \in {0, 1}
    BY <2>3 DEF RequestsKept
  <2>5. \A m \in 1..MaxMsgs : m \notin asked => replies'[m] = 0
    BY <2>1, <2>3 DEF RequestsKept
  <2>6. \A s \in TrackedTasks' : s.n # t.n
    BY <1>1 DEF NumbersApart
  <2>7. \A s \in TrackedTasks' : IsLookup(s) => OpenLookup(s)'
    BY <1>1, <1>2, <2>3, <2>6 DEF RequestsKept, OpenLookup, IsLookup
  <2>8. \A i \in StillBlocked : IsLookup(blocked[i]) => OpenLookup(blocked[i])'
    <3>1. \A i \in StillBlocked : blocked[i].n # t.n
      BY <1>1 DEF NumbersApart
    <3> QED
      BY <1>1, <1>2, <2>3, <3>1 DEF RequestsKept, OpenLookup, IsLookup
  <2>9. \A m \in asked : replies'[m] = 0 => LookupOf(m)'
    <3> SUFFICES ASSUME NEW m \in asked, replies'[m] = 0
                 PROVE  LookupOf(m)'
      OBVIOUS
    <3>1. m # t.n /\ replies[m] = 0
      BY <1>2, <2>3
    <3>2. LookupOf(m)
      BY <3>1 DEF RequestsKept
    <3> QED
      BY <1>1, <3>1, <3>2 DEF LookupOf, IsLookup
  <2> QED
    BY <1>1, <2>4, <2>5, <2>7, <2>8, <2>9 DEF RequestsKept, OpenLookup, IsLookup
<1> QED
  BY <1>3, <1>4

----------------------------------------------------------------------------
(* The inductive invariant and what follows from it.                       *)

(* When the main loop is entered there are no tasks and no requests.       *)
LEMMA TrackedInit == Init => Tracked
<1> SUFFICES ASSUME Init PROVE Tracked
  OBVIOUS
<1>1. /\ Apart /\ pool = {} /\ rx = {} /\ blocked = <<>> /\ ongoing = <<>>
      /\ exec = {} /\ pc = "recv" /\ asked = {}
      /\ replies = [m \in 1..MaxMsgs |-> 0]
  BY ApartInit DEF Init
<1>2. /\ TrackedTasks = {} /\ InFlight = {}
      /\ DOMAIN blocked = {} /\ DOMAIN ongoing = {}
  BY <1>1 DEF TrackedTasks, InFlight
<1>3. StillBlocked = {}
  BY <1>2 DEF StillBlocked
<1>4. NumbersApart /\ PassExact
  BY <1>1, <1>2, <1>3 DEF NumbersApart, PassExact
<1>5. EntriesKept
  BY <1>1, <1>2 DEF EntriesKept
<1>6. RequestsKept
  BY <1>1, <1>2, <1>3 DEF RequestsKept
<1> QED
  BY <1>1, <1>4, <1>5, <1>6 DEF Tracked

(* Every step keeps every task in one place.                               *)
LEMMA TrackedStep == Tracked /\ [Next]_vars => Tracked'
<1> SUFFICES ASSUME Tracked, [Next]_vars PROVE Tracked'
  OBVIOUS
<1>1. /\ Apart /\ TypeOK /\ NumbersApart /\ PassExact /\ EntriesKept
      /\ RequestsKept
  BY DEF Tracked, Apart
<1>2. Apart' /\ EntriesKept' /\ PassExact'
  BY <1>1, ApartStep, EntriesStep, StepShapes, PassKept
<1> SUFFICES NumbersApart' /\ RequestsKept'
  BY <1>2 DEF Tracked
<1>3. CASE Quiet
  <2>1. /\ TrackedTasks' = TrackedTasks /\ StillBlocked' = StillBlocked
        /\ (\A t \in pool' : ~IsScan(t) => t \notin rx')
        /\ exec' = exec /\ UNCHANGED <<blocked, next, asked, replies>>
    BY <1>3 DEF Quiet, StillBlocked
  <2>2. NumbersApart'
    BY <1>1, <2>1, NumbersKept
  <2>3. RequestsKept'
    BY <1>1, <2>1 DEF RequestsKept, LookupOf, OpenLookup, IsLookup
  <2> QED
    BY <2>2, <2>3
<1>4. CASE Begins
  BY <1>1, <1>4, NumbersBegin, RequestsBegin
<1>5. CASE TakesNone
  <2>1. /\ UNCHANGED <<pool, rx, blocked, exec>> /\ next' = next + 1
    BY <1>5 DEF TakesNone, taskVars, loopVars
  <2>2. TrackedTasks' = TrackedTasks
    BY <2>1 DEF TrackedTasks, InFlight, IsScan
  <2>3. \A t \in pool' : ~IsScan(t) => t \notin rx'
    BY <1>1, <2>1 DEF NumbersApart
  <2>4. NumbersApart'
    BY <1>1, <2>1, <2>2, <2>3, NumbersKept
  <2> QED
    BY <1>1, <1>5, <2>4, RequestsTakeNone
<1>6. ASSUME NEW t \in DocTask, Takes(t)
      PROVE  NumbersApart' /\ RequestsKept'
  BY <1>1, <1>6, NumbersTake, RequestsTake
<1>7. ASSUME NEW e \in exec, TakesOut(e)
      PROVE  NumbersApart' /\ RequestsKept'
  BY <1>1, <1>7, NumbersTakeOut, RequestsTakeOut
<1>8. ASSUME NEW t \in rx, Concludes(t)
      PROVE  NumbersApart' /\ RequestsKept'
  <2>1. /\ TrackedTasks' \subseteq TrackedTasks
        /\ rx' \subseteq rx /\ pool' = pool
        /\ UNCHANGED <<blocked, exec, next>>
    BY <1>1, <1>8, ConcludedTask DEF Concludes, Ends, loopVars
  <2>2. \A s \in pool' : ~IsScan(s) => s \notin rx'
    BY <1>1, <2>1 DEF NumbersApart
  <2>3. NumbersApart'
    BY <1>1, <2>1, <2>2, NumbersKept
  <2> QED
    BY <1>1, <1>8, <2>3, RequestsConclude
<1> QED
  BY <1>3, <1>4, <1>5, <1>6, <1>7, <1>8, StepShapes

(* Every task is in one place in every reachable state.                    *)
LEMMA TrackedAlways == Spec => []Tracked
BY TrackedInit, TrackedStep, PTL DEF Spec

(* mark_ongoing_task_completed finds the entry of the task and no other's, *)
(* no task is dropped or run twice by a pass over the blocked tasks, and a *)
(* request waits, runs or has its one response.                            *)
THEOREM TrackingStaysExact == Spec => []TrackingExact
<1>1. ASSUME Tracked PROVE EntriesExact
  <2>1. /\ TypeOK /\ OneUpdateAtATime /\ NumbersApart /\ EntriesKept
    BY <1>1 DEF Tracked, Apart, UpdatesApart
  <2>2. \A s, t \in TrackedTasks : EntryOf(s) = EntryOf(t) => s = t
    BY <2>1, EntryInjective
  <2> QED
    BY <2>1, <2>2 DEF EntriesKept, EntriesExact
<1>2. ASSUME Tracked PROVE TasksInOnePlace
  <2>1. /\ TypeOK /\ NumbersApart /\ RequestsKept /\ asked \subseteq 1..MaxMsgs
    BY <1>2 DEF Tracked, Apart, TypeOK
  <2>2. \A i, j \in DOMAIN blocked : blocked[i] = blocked[j] => i = j
    BY <2>1 DEF NumbersApart
  <2>3. \A i \in StillBlocked : blocked[i] \notin InFlight
    <3>1. \A i \in StillBlocked : ~IsScan(blocked[i])
      BY <2>1, TrackedTyped, DocTaskKinds DEF StillBlocked
    <3> QED
      BY <2>1, <3>1 DEF NumbersApart, TrackedTasks
  <2>4. ASSUME NEW m \in asked
        PROVE  Cardinality(WaitingFor(m)) + Cardinality(RunningFor(m))
                 + replies[m] = 1
    <3>1. /\ WaitingFor(m) = {i \in StillBlocked :
                                IsLookup(blocked[i]) /\ blocked[i].n = m}
          /\ RunningFor(m) = {t \in TrackedTasks : IsLookup(t) /\ t.n = m}
      BY DEF WaitingFor, RunningFor, StillBlocked, TrackedTasks, IsLookup,
             IsScan
    <3>2. /\ \A i, j \in WaitingFor(m) : i = j
          /\ \A s, t \in RunningFor(m) : s = t
          /\ WaitingFor(m) = {} \/ RunningFor(m) = {}
      BY <2>1, <3>1 DEF NumbersApart, StillBlocked
    <3>3. /\ replies[m] \in {0, 1}
          /\ replies[m] = 0 => WaitingFor(m) # {} \/ RunningFor(m) # {}
          /\ replies[m] = 1 => WaitingFor(m) = {} /\ RunningFor(m) = {}
      BY <2>1, <3>1 DEF RequestsKept, LookupOf, OpenLookup
    <3>4. Cardinality({}) = 0
      BY FS_EmptySet
    <3>5. ASSUME NEW S, \A x, y \in S : x = y, S # {}
          PROVE  Cardinality(S) = 1
      <4>1. PICK x \in S : S = {x}
        BY <3>5
      <4> QED
        BY <4>1, FS_Singleton
    <3>6. CASE replies[m] = 1
      <4>1. WaitingFor(m) = {} /\ RunningFor(m) = {}
        BY <3>3, <3>6
      <4> QED
        BY <3>4, <3>6, <4>1
    <3>7. CASE replies[m] = 0 /\ WaitingFor(m) # {}
      <4>1. Cardinality(WaitingFor(m)) = 1
        BY <3>2, <3>5, <3>7
      <4>2. RunningFor(m) = {}
        BY <3>2, <3>7
      <4> QED
        BY <3>4, <3>7, <4>1, <4>2
    <3>8. CASE replies[m] = 0 /\ RunningFor(m) # {}
      <4>1. Cardinality(RunningFor(m)) = 1
        BY <3>2, <3>5, <3>8
      <4>2. WaitingFor(m) = {}
        BY <3>2, <3>8
      <4> QED
        BY <3>4, <3>8, <4>1, <4>2
    <3> QED
      BY <3>3, <3>6, <3>7, <3>8
  <2> QED
    BY <2>2, <2>3, <2>4 DEF TasksInOnePlace, StillBlocked
<1>3. Tracked => TrackingExact
  BY <1>1, <1>2 DEF TrackingExact, Tracked, Apart
<1> QED
  BY <1>3, TrackedAlways, PTL

(* Nothing starts the loop again.                                          *)
LEMMA EndedStays ==
  ASSUME [Next]_vars, pc \in {"exited"} \union Crash
  PROVE  pc' = pc
<1>1. pc \notin {"recv", "blocked", "process", "progress"}
  BY DEF Crash
<1>2. ~MainLoop
  BY <1>1 DEF MainLoop, Receive, RecvUpdate, RecvLookup, RecvRename, RecvScan,
              RecvPanic, Received, RecvDiscovery, EndRecv, ScheduleBlocked,
              RemoveScheduled, EndProcess, Progress
<1>3. ~ProcessMsg
  BY <1>1 DEF ProcessMsg, DidOpen, DidChange, DidClose, LangRequest,
              DidRenameFiles, ShutdownRequest, ExitNotification, Change,
              Message
<1>4. ASSUME NEW t \in pool, Finish(t) PROVE pc' = pc
  BY <1>4 DEF Finish, loopVars
<1> QED
  BY <1>2, <1>3, <1>4 DEF Next, Done, vars, loopVars

(* The server as a source of responses: a message that asks, a lookup that *)
(* answers, a panic or an exit that ends it.                               *)
LEMMA PromiseStep ==
  ASSUME Tracked, [Next]_vars
  PROVE  [Promise!Next]_(Promise!vars)
<1> DEFINE up == pc \notin {"exited"} \union Crash
<1>1. /\ TypeOK /\ RequestsKept /\ NumbersApart
  BY DEF Tracked, Apart
<1>2. ASSUME UNCHANGED <<asked, replies>>, up' => up
      PROVE  [Promise!Next]_(Promise!vars)
  <2>1. up' = up \/ (up /\ up' = FALSE)
    BY <1>2
  <2> QED
    BY <1>2, <2>1 DEF Promise!Next, Promise!vars, Promise!Stop
<1>3. ASSUME pc = "process", pc' = pc, next <= MaxMsgs,
             asked' = asked \union {next},
             \/ replies' = replies
             \/ replies' = [replies EXCEPT ![next] = @ + 1]
      PROVE  [Promise!Next]_(Promise!vars)
  <2>1. next \in 1..MaxMsgs /\ next \notin asked /\ replies[next] = 0
    BY <1>1, <1>3, NumberIsNew
  <2>2. up /\ up' = up
    BY <1>3 DEF Crash
  <2>3. CASE replies' = replies
    <3>1. Promise!Ask(next)
      BY <1>3, <2>1, <2>2, <2>3 DEF Promise!Ask
    <3> QED
      BY <2>1, <3>1 DEF Promise!Next
  <2>4. CASE replies' = [replies EXCEPT ![next] = @ + 1]
    <3>1. replies' = [replies EXCEPT ![next] = 1]
      BY <1>1, <2>1, <2>4 DEF TypeOK
    <3>2. Promise!AskAndAnswer(next)
      BY <1>3, <2>1, <2>2, <3>1 DEF Promise!AskAndAnswer
    <3> QED
      BY <2>1, <3>2 DEF Promise!Next
  <2> QED
    BY <1>3, <2>3, <2>4
<1>4. ASSUME NEW t \in rx, Concludes(t)
      PROVE  [Promise!Next]_(Promise!vars)
  <2>1. pc = "recv" /\ pc' = pc /\ asked' = asked
    BY <1>4 DEF Concludes, loopVars
  <2>2. up /\ up' = up
    BY <2>1 DEF Crash
  <2>3. CASE ~IsLookup(t)
    BY <1>2, <1>4, <2>1, <2>2, <2>3 DEF Concludes
  <2>4. CASE IsLookup(t)
    <3>1. t \in TrackedTasks
      BY <1>1, <1>4, ConcludedTask
    <3>2. t.n \in asked /\ t.n \in 1..MaxMsgs /\ replies[t.n] = 0
      BY <1>1, <2>4, <3>1 DEF RequestsKept, OpenLookup, TypeOK
    <3>3. replies' = [replies EXCEPT ![t.n] = 1]
      BY <1>1, <1>4, <2>4, <3>2 DEF Concludes, TypeOK
    <3>4. Promise!Answer(t.n)
      BY <2>1, <2>2, <3>2, <3>3 DEF Promise!Answer
    <3> QED
      BY <3>2, <3>4 DEF Promise!Next
  <2> QED
    BY <2>3, <2>4
<1>5. up' => up
  BY EndedStays DEF Crash
<1>6. CASE Quiet \/ Begins
  BY <1>2, <1>5, <1>6 DEF Quiet, Begins
<1>7. ASSUME NEW e \in exec, TakesOut(e)
      PROVE  [Promise!Next]_(Promise!vars)
  BY <1>2, <1>5, <1>7 DEF TakesOut
<1>8. CASE TakesNone
  <2>1. pc = "process" /\ pc' = pc /\ next <= MaxMsgs
    BY <1>8 DEF TakesNone, loopVars
  <2>2. CASE UNCHANGED <<asked, replies>>
    BY <1>2, <1>5, <2>2
  <2>3. CASE /\ asked' = asked \union {next}
             /\ replies' = [replies EXCEPT ![next] = @ + 1]
    BY <1>3, <2>1, <2>3
  <2> QED
    BY <1>8, <2>2, <2>3 DEF TakesNone
<1>9. ASSUME NEW t \in DocTask, Takes(t)
      PROVE  [Promise!Next]_(Promise!vars)
  <2>1. pc = "process" /\ pc' = pc /\ next <= MaxMsgs /\ replies' = replies
    BY <1>9 DEF Takes, loopVars
  <2>2. CASE asked' = asked
    BY <1>2, <1>5, <2>1, <2>2
  <2>3. CASE asked' = asked \union {next}
    BY <1>3, <2>1, <2>3
  <2> QED
    BY <1>9, <2>2, <2>3 DEF Takes
<1> QED
  BY <1>4, <1>6, <1>7, <1>8, <1>9, StepShapes

(* Whatever is blocked, reordered or in flight, a request is answered at   *)
(* most once, and only after it was asked: the scheduler implements the    *)
(* safety part of RequestReply.                                            *)
THEOREM SchedulerKeepsPromise == Spec => Promise!Spec
<1>1. Init => Promise!Init
  BY DEF Init, Promise!Init, Crash
<1>2. Tracked /\ [Next]_vars => [Promise!Next]_(Promise!vars)
  BY PromiseStep
<1> QED
  BY <1>1, <1>2, TrackedAlways, PTL DEF Spec, Promise!Spec

----------------------------------------------------------------------------
(* The editor of a calm client and the server agree.                       *)

(* The kinds of the tasks that are not settled.                            *)
LEMMA UnsettledKinds ==
  ASSUME TypeOK
  PROVE  /\ Unsettled = {t \in TrackedTasks \union Waiting : ~IsLookup(t)}
         /\ \A t \in Unsettled : IsUpdate(t) => t \in UpdateTask
         /\ \A t \in Unsettled : IsRename(t) => t \in RenameTask
<1>1. \A t \in Waiting : t \in DocTask /\ ~IsScan(t)
  BY TrackedTyped, DocTaskKinds DEF Waiting
<1>2. Unsettled = {t \in TrackedTasks \union Waiting : ~IsLookup(t)}
  BY <1>1 DEF Unsettled, TrackedTasks
<1>3. \A t \in Unsettled : t \in DocTask
  BY <1>1, <1>2, TrackedTyped
<1> QED
  BY <1>2, <1>3
  DEF DocTask, UpdateTask, LookupTask, RenameTask, IsUpdate, IsRename

(* A task that is tried is unsettled, unless it is a lookup.               *)
LEMMA UnsettledTried ==
  ASSUME TypeOK, NEW t \in DocTask, TrySchedule(t), rx' = rx
  PROVE  Unsettled' = Unsettled \union {s \in {t} : ~IsLookup(s)}
<1>1. ~IsScan(t)
  BY DocTaskKinds
<1>2. CASE blocked' = Append(blocked, t) /\ UNCHANGED <<ongoing, pool>>
  <2> DEFINE k == Len(blocked) + 1
  <2>1. /\ DOMAIN blocked' = DOMAIN blocked \union {k}
        /\ k \notin DOMAIN blocked
        /\ blocked'[k] = t
        /\ \A i \in DOMAIN blocked : blocked'[i] = blocked[i]
    <3>1. blocked \in Seq(DocTask)
      BY DEF TypeOK
    <3> HIDE DEF DocTask
    <3> QED
      BY <1>2, <3>1
  <2> HIDE DEF k
  <2>2. Waiting' = Waiting \union {t}
    BY <2>1 DEF Waiting
  <2>3. InFlight' = InFlight
    BY <1>2 DEF InFlight
  <2> QED
    BY <1>1, <2>2, <2>3 DEF Unsettled, IsScan, IsLookup
<1>3. CASE Schedule(t) /\ UNCHANGED blocked
  <2>1. Waiting' = Waiting /\ InFlight' = InFlight \union {t}
    BY <1>3 DEF Schedule, Waiting, InFlight
  <2> QED
    BY <1>1, <2>1 DEF Unsettled, IsScan, IsLookup
<1> QED
  BY <1>2, <1>3 DEF TrySchedule

(* The lists of tasks stay as they are.                                    *)
LEMMA UnsettledSame ==
  ASSUME UNCHANGED <<pool, rx, blocked>>
  PROVE  Unsettled' = Unsettled
BY DEF Unsettled, InFlight, Waiting, IsScan, IsLookup

(* A task that goes from the waiting ones to the workers, or on to the     *)
(* results, is unsettled as before.                                        *)
LEMMA UnsettledLoop ==
  ASSUME Tracked, Quiet \/ Begins \/ \E e \in exec : TakesOut(e), TypeOK'
  PROVE  Unsettled' = Unsettled
<1>1. TypeOK /\ PassExact
  BY DEF Tracked, Apart
<1>2. /\ Unsettled = {t \in TrackedTasks \union Waiting : ~IsLookup(t)}
      /\ Unsettled' = {t \in TrackedTasks' \union Waiting' : ~IsLookup(t)}
  <2>1. \A t \in Waiting' : ~IsScan(t)
    <3>1. \A i \in DOMAIN blocked' : blocked'[i] \in DocTask
      BY DEF TypeOK
    <3> QED
      BY <3>1, DocTaskKinds DEF Waiting
  <2>2. Unsettled' = {t \in TrackedTasks' \union Waiting' : ~IsLookup(t)}
    BY <2>1 DEF Unsettled, TrackedTasks, IsScan, IsLookup
  <2> QED
    BY <1>1, <2>2, UnsettledKinds
<1>3. CASE Quiet
  <2>1. TrackedTasks' = TrackedTasks /\ Waiting' = Waiting
    BY <1>3 DEF Quiet, Waiting
  <2> QED
    BY <1>2, <2>1
<1>4. CASE Begins
  <2>1. /\ blocked[ii] \in DocTask /\ Starts(blocked[ii])
        /\ blocked[ii] \in Waiting /\ Waiting' = Waiting
    BY <1>1, <1>4, TrackedTyped DEF Begins, Waiting
  <2>2. TrackedTasks' = TrackedTasks \union {blocked[ii]}
    BY <2>1, StartedTask
  <2> QED
    BY <1>2, <2>1, <2>2
<1>5. ASSUME NEW e \in exec, TakesOut(e) PROVE Unsettled' = Unsettled
  <2>1. blocked[e] \in TrackedTasks /\ TrackedTasks' = TrackedTasks
    BY <1>1, <1>5 DEF PassExact, TakesOut, TrackedTasks, InFlight, IsScan
  <2> DEFINE from(i) == IF i = e THEN Len(blocked) ELSE i
  <2>2. /\ \A i \in DOMAIN blocked' : /\ from(i) \in DOMAIN blocked
                                      /\ blocked'[i] = blocked[from(i)]
        /\ \A k \in StillBlocked : \E i \in StillBlocked' : from(i) = k
    BY <1>1, <1>5, TakenFrom
  <2> HIDE DEF from
  <2>3. \A t \in Waiting' : t \in Waiting
    BY <2>2 DEF Waiting
  <2>4. \A t \in Waiting : t \in Waiting' \union TrackedTasks
    <3> SUFFICES ASSUME NEW k \in DOMAIN blocked
                 PROVE  blocked[k] \in Waiting' \union TrackedTasks
      BY DEF Waiting
    <3>1. CASE k \in exec
      BY <1>1, <3>1 DEF PassExact
    <3>2. CASE k \notin exec
      <4>1. PICK i \in StillBlocked' : from(i) = k
        BY <2>2, <3>2 DEF StillBlocked
      <4>2. i \in DOMAIN blocked' /\ blocked'[i] = blocked[k]
        BY <2>2, <4>1 DEF StillBlocked
      <4> QED
        BY <4>2 DEF Waiting
    <3> QED
      BY <3>1, <3>2
  <2> QED
    BY <1>2, <2>1, <2>3, <2>4
<1> QED
  BY <1>3, <1>4, <1>5

(* A task whose result was received is settled.                            *)
LEMMA UnsettledEnds ==
  ASSUME Tracked, NEW t \in rx, Concludes(t)
  PROVE  /\ Unsettled' = Unsettled \ {t}
         /\ ~IsLookup(t) => t \in Unsettled
<1>1. TypeOK /\ PassExact /\ NumbersApart /\ exec = {}
  BY DEF Tracked, Apart, PassExact, Concludes
<1>2. /\ rx' = rx \ {t} /\ pool' = pool /\ blocked' = blocked
      /\ ~IsScan(t) /\ t \in TrackedTasks
  BY <1>1, ConcludedTask DEF Concludes, Ends
<1>3. t \notin pool
  BY <1>1, <1>2 DEF NumbersApart
<1>4. t \notin Waiting /\ Waiting' = Waiting
  BY <1>1, <1>2 DEF NumbersApart, StillBlocked, Waiting
<1> QED
  BY <1>2, <1>3, <1>4 DEF Unsettled, InFlight, IsScan, IsLookup

(* What concerns neither the files nor the tasks on them.                  *)
LEMMA InStepSame ==
  ASSUME InStep, Unsettled' = Unsettled,
         UNCHANGED <<docs, files, editor, disk>>
  PROVE  InStep'
<1>1. ChangesLand'
  BY DEF InStep, ChangesLand, UpdateLands, RenameLands, Targets, IsUpdate,
         IsRename
<1>2. ChangesApart' /\ IndexOnDisk'
  BY DEF InStep, ChangesApart, IndexOnDisk, RenameUnsettled, IsUpdate,
         IsRename
<1>3. TextsAgree'
  BY DEF InStep, TextsAgree, UpdateOf, IsUpdate
<1> QED
  BY <1>1, <1>2, <1>3 DEF InStep

(* A scan stores nothing where a document is known.                        *)
LEMMA InStepScan ==
  ASSUME Tracked, InStep, NEW t \in rx, RecvScan(t), Unsettled' = Unsettled
  PROVE  InStep'
<1>1. /\ UNCHANGED <<files, editor, disk>> /\ StoreScan(t)
      /\ docs \in [Uri -> Doc]
  BY DEF RecvScan, clientVars, Tracked, Apart, TypeOK
<1>2. \A u \in Uri : docs[u].status # "absent" => docs'[u] = docs[u]
  BY <1>1 DEF StoreScan
<1>3. \A s \in Unsettled : IsUpdate(s) => s.uri \in Uri
  BY UnsettledKinds DEF Tracked, Apart, UpdateTask
<1>4. ASSUME NEW s \in Unsettled, IsUpdate(s) PROVE UpdateLands(s)'
  <2>1. UpdateLands(s) /\ s.uri \in Uri
    BY <1>3, <1>4 DEF InStep, ChangesLand
  <2>2. s.kind = "TextDocEdit" => docs'[s.uri].status = "open"
    BY <1>2, <2>1 DEF UpdateLands
  <2> QED
    BY <1>1, <2>1, <2>2 DEF UpdateLands
<1>5. ChangesLand'
  BY <1>1, <1>4
  DEF InStep, ChangesLand, RenameLands, Targets, IsUpdate, IsRename
<1>6. ChangesApart' /\ IndexOnDisk'
  BY <1>1 DEF InStep, ChangesApart, IndexOnDisk, RenameUnsettled, IsUpdate,
              IsRename
<1>7. TextsAgree'
  <2> SUFFICES ASSUME NEW u \in disk', editor'[u] # <<>>, ~UpdateOf(u)'
               PROVE  docs'[u] = [status |-> "open", text |-> editor'[u]]
    BY DEF TextsAgree
  <2>1. u \in disk /\ editor[u] # <<>> /\ ~UpdateOf(u) /\ u \in Uri
    BY <1>1 DEF UpdateOf, IsUpdate, Tracked, Apart, TypeOK
  <2>2. docs[u] = [status |-> "open", text |-> editor[u]]
    BY <2>1 DEF InStep, TextsAgree
  <2>3. docs[u].status # "absent"
    BY <2>2
  <2> QED
    BY <1>1, <1>2, <2>1, <2>2, <2>3
<1> QED
  BY <1>5, <1>6, <1>7 DEF InStep

(* The result of an update brings the text of the editor.                  *)
LEMMA InStepUpdate ==
  ASSUME Tracked, InStep, NEW t \in rx, RecvUpdate(t)
  PROVE  InStep'
<1> DEFINE u == t.uri
<1>1. /\ TypeOK /\ IsUpdate(t) /\ StoreUpdate(t) /\ ~IsLookup(t)
      /\ UNCHANGED <<files, editor, disk>>
      /\ docs \in [Uri -> Doc]
  BY DEF Tracked, Apart, RecvUpdate, clientVars, TypeOK, IsUpdate, IsLookup
<1>2. t \in Unsettled /\ Unsettled' = Unsettled \ {t}
  BY <1>1, ResultConcludes, UnsettledEnds
<1>3. t \in UpdateTask /\ u \in Uri
  BY <1>1, <1>2, UnsettledKinds DEF UpdateTask
<1>4. UpdateLands(t)
  BY <1>1, <1>2 DEF InStep, ChangesLand
<1>5. docs'[u] = [status |-> "open", text |-> editor[u]]
        /\ \A v \in Uri : v # u => docs'[v] = docs[v]
  <2>1. CASE t.kind = "TextDocNew"
    BY <1>1, <1>3, <1>4, <2>1 DEF StoreUpdate, UpdateLands
  <2>2. CASE t.kind = "TextDocEdit"
    BY <1>1, <1>3, <1>4, <2>2 DEF StoreUpdate, UpdateLands
  <2> QED
    BY <1>1, <2>1, <2>2 DEF IsUpdate
<1> HIDE DEF u
<1>6. ASSUME NEW s \in Unsettled', IsUpdate(s) PROVE UpdateLands(s)'
  <2>1. s \in Unsettled /\ s # t /\ UpdateLands(s) /\ s.uri \in Uri
    BY <1>1, <1>2, <1>6, UnsettledKinds DEF InStep, ChangesLand, UpdateTask
  <2>2. s.uri # u
    BY <1>1, <1>2, <1>6, <2>1 DEF InStep, ChangesApart, u
  <2> QED
    BY <1>1, <1>5, <2>1, <2>2 DEF UpdateLands
<1>7. ChangesLand'
  BY <1>1, <1>2, <1>6
  DEF InStep, ChangesLand, RenameLands, Targets, IsUpdate, IsRename
<1>8. ChangesApart'
  BY <1>2 DEF InStep, ChangesApart, IsUpdate, IsRename
<1>9. IndexOnDisk'
  <2>1. ~IsRename(t)
    BY <1>1, KindsOfTasks
  <2> QED
    BY <1>1, <1>2, <2>1 DEF InStep, IndexOnDisk, RenameUnsettled, IsRename
<1>10. TextsAgree'
  <2> SUFFICES ASSUME NEW v \in disk', editor'[v] # <<>>, ~UpdateOf(v)'
               PROVE  docs'[v] = [status |-> "open", text |-> editor'[v]]
    BY DEF TextsAgree
  <2>1. CASE v = u
    BY <1>1, <1>5, <2>1
  <2>2. CASE v # u
    <3>1. v \in disk /\ v \in Uri /\ editor[v] # <<>>
      BY <1>1 DEF TypeOK
    <3>2. ~UpdateOf(v)
      BY <1>2, <2>2 DEF UpdateOf, IsUpdate, u
    <3>3. docs[v] = [status |-> "open", text |-> editor[v]]
      BY <3>1, <3>2 DEF InStep, TextsAgree
    <3> QED
      BY <1>1, <1>5, <2>2, <3>1, <3>3
  <2> QED
    BY <2>1, <2>2
<1> QED
  BY <1>7, <1>8, <1>9, <1>10 DEF InStep

(* A rename moves nothing that is open on disk in the editor, and its      *)
(* index names what is there.                                              *)
LEMMA InStepRename ==
  ASSUME Tracked, InStep, NEW t \in rx, RecvRename(t)
  PROVE  InStep'
<1> DEFINE changes == Resolved(t.ops, t.files)
<1>1. /\ TypeOK /\ IsRename(t) /\ ~IsLookup(t)
      /\ UNCHANGED <<editor, disk>>
      /\ \/ DOMAIN changes = {} /\ UNCHANGED <<docs, files>>
         \/ /\ files' = FileIndexUpdate(t.files, changes)
            /\ docs' = RenamedDocs(changes)
  BY DEF Tracked, Apart, RecvRename, clientVars, IsRename, IsLookup
<1>2. t \in Unsettled /\ Unsettled' = Unsettled \ {t}
  BY <1>1, ResultConcludes, UnsettledEnds
<1>3. RenameLands(t)
  BY <1>1, <1>2 DEF InStep, ChangesLand
<1>4. /\ DOMAIN changes = DOMAIN t.ops \intersect files
      /\ Targets(changes) \subseteq Targets(t.ops)
  BY <1>3 DEF RenameLands, Resolved, Targets
<1> HIDE DEF changes
<1>5. files' \subseteq disk
  BY <1>1, <1>3, <1>4 DEF RenameLands, FileIndexUpdate
<1>6. \A u \in disk : editor[u] # <<>> => u \in Uri /\ docs'[u] = docs[u]
  <2> TAKE u \in disk
  <2> HAVE editor[u] # <<>>
  <2>1. /\ u \in Uri /\ u \notin DOMAIN changes
        /\ u \notin Targets(changes)
    BY <1>1, <1>3, <1>4 DEF RenameLands, TypeOK
  <2> QED
    BY <1>1, <2>1 DEF RenamedDocs
<1>7. \A s \in Unsettled' : s \in Unsettled /\ ~IsRename(s)
  BY <1>1, <1>2 DEF InStep, ChangesApart
<1>8. ASSUME NEW s \in Unsettled', IsUpdate(s) PROVE UpdateLands(s)'
  <2>1. UpdateLands(s)
    BY <1>7, <1>8 DEF InStep, ChangesLand
  <2>2. docs'[s.uri] = docs[s.uri]
    BY <1>6, <2>1 DEF UpdateLands
  <2> QED
    BY <1>1, <2>1, <2>2 DEF UpdateLands
<1>9. ChangesLand'
  BY <1>7, <1>8 DEF ChangesLand, IsUpdate, IsRename
<1>10. ChangesApart'
  BY <1>2 DEF InStep, ChangesApart, IsUpdate, IsRename
<1>11. IndexOnDisk'
  BY <1>1, <1>5 DEF IndexOnDisk
<1>12. TextsAgree'
  <2>1. \A u : UpdateOf(u) => UpdateOf(u)'
    BY <1>1, <1>2, KindsOfTasks DEF UpdateOf, IsUpdate
  <2> QED
    BY <1>1, <1>6, <2>1 DEF InStep, TextsAgree
<1> QED
  BY <1>9, <1>10, <1>11, <1>12 DEF InStep

(* A client that has waited: what is unsettled are updates of other files. *)
LEMMA WaitedFor ==
  ASSUME TypeOK, InStep, NEW us, Waited(us)
  PROVE  /\ \A t \in Unsettled : /\ IsUpdate(t) /\ ~IsRename(t)
                                 /\ t.uri \notin us /\ t.uri \in Uri
                                 /\ UpdateLands(t)
         /\ files \subseteq disk
         /\ \A u \in us \intersect disk : editor[u] # <<>>
              => docs[u] = [status |-> "open", text |-> editor[u]]
<1>1. \A t \in Unsettled : /\ IsUpdate(t) /\ ~IsRename(t)
                           /\ t.uri \notin us /\ t.uri \in Uri
                           /\ UpdateLands(t)
  BY UnsettledKinds, KindsOfTasks
  DEF Waited, UpdateTask, InStep, ChangesLand
<1>2. files \subseteq disk
  BY <1>1 DEF InStep, IndexOnDisk, RenameUnsettled
<1>3. \A u \in us : ~UpdateOf(u)
  BY <1>1 DEF UpdateOf
<1> QED
  BY <1>1, <1>2, <1>3 DEF InStep, TextsAgree

(* A new update of a file that the client has waited for.                  *)
LEMMA InStepNewUpdate ==
  ASSUME TypeOK, InStep, NEW u \in Uri, NEW t \in DocTask, Waited({u}),
         IsUpdate(t), t.uri = u, UpdateLands(t)',
         Unsettled' = Unsettled \union {t},
         \A v \in Uri : v # u => editor'[v] = editor[v],
         UNCHANGED <<docs, files, disk>>
  PROVE  InStep'
<1>1. /\ \A s \in Unsettled : /\ IsUpdate(s) /\ ~IsRename(s)
                              /\ s.uri # u /\ s.uri \in Uri
                              /\ UpdateLands(s)
      /\ files \subseteq disk
  BY WaitedFor
<1>2. ~IsRename(t)
  BY KindsOfTasks
<1>3. \A s \in Unsettled : UpdateLands(s)'
  BY <1>1 DEF UpdateLands
<1>4. ChangesLand'
  BY <1>1, <1>2, <1>3 DEF ChangesLand, IsUpdate, IsRename
<1>5. ChangesApart'
  BY <1>1, <1>2 DEF InStep, ChangesApart, IsUpdate, IsRename
<1>6. IndexOnDisk'
  BY <1>1 DEF IndexOnDisk
<1>7. TextsAgree'
  <2>1. UpdateOf(u)' /\ \A v : UpdateOf(v) => UpdateOf(v)'
    BY DEF UpdateOf, IsUpdate
  <2>2. disk \subseteq Uri
    BY DEF TypeOK
  <2> QED
    BY <2>1, <2>2 DEF InStep, TextsAgree
<1> QED
  BY <1>4, <1>5, <1>6, <1>7 DEF InStep

(* process_doc_open_notif: the task carries the text of the editor.        *)
LEMMA InStepOpen ==
  ASSUME TypeOK, InStep, NEW u \in Uri, DidOpen(u), Waited({u})
  PROVE  InStep'
<1>1. PICK t \in DocTask : t = [kind |-> "TextDocNew", n |-> next, uri |-> u,
                               text |-> <<next>>]
  BY CreatedTyped
<1>2. /\ TrySchedule(t) /\ u \in disk
      /\ editor' = [editor EXCEPT ![u] = <<next>>]
      /\ UNCHANGED <<rx, docs, files, disk>>
  BY <1>1 DEF DidOpen, envVars
<1>3. IsUpdate(t) /\ ~IsLookup(t)
  BY <1>1 DEF IsUpdate, IsLookup
<1>4. editor'[u] = <<next>> /\ \A v \in Uri : v # u => editor'[v] = editor[v]
  BY <1>2 DEF TypeOK
<1>5. UpdateLands(t)'
  BY <1>1, <1>2, <1>4 DEF UpdateLands
<1>6. t.uri = u
  BY <1>1
<1>7. Unsettled' = Unsettled \union {t}
  BY <1>1, <1>2, <1>3, UnsettledTried
<1> QED
  BY <1>1, <1>2, <1>3, <1>4, <1>5, <1>6, <1>7, InStepNewUpdate

(* A text that has grown is not empty.                                     *)
LEMMA AppendNotEmpty ==
  ASSUME NEW S, NEW s \in Seq(S), NEW x \in S
  PROVE  Append(s, x) # <<>>
<1>1. Len(Append(s, x)) = Len(s) + 1 /\ Len(s) \in Nat
  OBVIOUS
<1>2. Len(<<>>) = 0
  OBVIOUS
<1> QED
  BY <1>1, <1>2

(* process_doc_change_notif: the copy of the document that the task works  *)
(* on is the text before the change.                                       *)
LEMMA InStepChange ==
  ASSUME TypeOK, InStep, NEW u \in Uri, DidChange(u), Waited({u})
  PROVE  InStep'
<1>1. PICK t \in DocTask : t = [kind |-> "TextDocEdit", n |-> next, uri |-> u,
                               text |-> docs[u].text]
  BY CreatedTyped
<1>2. /\ editor[u] # <<>> /\ u \in disk
      /\ editor' = [editor EXCEPT ![u] = Append(editor[u], next)]
      /\ UNCHANGED <<rx, docs, files, disk>>
  BY DEF DidChange, envVars
<1>3. docs[u] = [status |-> "open", text |-> editor[u]]
  BY <1>2, WaitedFor
<1>4. TrySchedule(t)
  BY <1>1, <1>3 DEF DidChange
<1>5. IsUpdate(t) /\ ~IsLookup(t)
  BY <1>1 DEF IsUpdate, IsLookup
<1>6. /\ editor'[u] = Append(editor[u], next)
      /\ \A v \in Uri : v # u => editor'[v] = editor[v]
  BY <1>2 DEF TypeOK
<1>7. Append(editor[u], next) # <<>>
  <2>1. editor[u] \in Seq(Nat) /\ next \in Nat
    BY UriAssumption DEF TypeOK, Text
  <2> QED
    BY <2>1, AppendNotEmpty
<1>8. UpdateLands(t)'
  BY <1>1, <1>2, <1>3, <1>6, <1>7 DEF UpdateLands
<1>9. t.uri = u
  BY <1>1
<1>10. Unsettled' = Unsettled \union {t}
  BY <1>1, <1>2, <1>4, <1>5, UnsettledTried
<1> QED
  BY <1>1, <1>2, <1>5, <1>6, <1>8, <1>9, <1>10, InStepNewUpdate

(* process_doc_close_notif touches no document with an update on its way.  *)
LEMMA InStepClose ==
  ASSUME TypeOK, InStep, NEW u \in Uri, DidClose(u), Waited({u})
  PROVE  InStep'
<1>1. /\ editor' = [editor EXCEPT ![u] = <<>>]
      /\ UNCHANGED <<pool, rx, blocked, files, disk>>
      /\ \A v \in Uri : v # u => docs'[v] = docs[v]
  BY DEF DidClose, taskVars, TypeOK
<1>2. editor'[u] = <<>> /\ \A v \in Uri : v # u => editor'[v] = editor[v]
  BY <1>1 DEF TypeOK
<1>3. Unsettled' = Unsettled
  BY <1>1, UnsettledSame
<1>4. /\ \A s \in Unsettled : /\ IsUpdate(s) /\ ~IsRename(s)
                              /\ s.uri # u /\ s.uri \in Uri
                              /\ UpdateLands(s)
      /\ files \subseteq disk
  BY WaitedFor
<1>5. \A s \in Unsettled : UpdateLands(s)'
  BY <1>1, <1>2, <1>4 DEF UpdateLands
<1>6. ChangesLand'
  BY <1>3, <1>4, <1>5 DEF ChangesLand, IsUpdate, IsRename
<1>7. ChangesApart'
  BY <1>3 DEF InStep, ChangesApart, IsUpdate, IsRename
<1>8. IndexOnDisk'
  BY <1>1, <1>4 DEF IndexOnDisk
<1>9. TextsAgree'
  <2>1. \A v : UpdateOf(v) => UpdateOf(v)'
    BY <1>3 DEF UpdateOf, IsUpdate
  <2>2. disk \subseteq Uri
    BY DEF TypeOK
  <2> QED
    BY <1>1, <1>2, <2>1, <2>2 DEF InStep, TextsAgree
<1> QED
  BY <1>6, <1>7, <1>8, <1>9 DEF InStep

(* process_files_did_rename_notif: the index that the task copies is the   *)
(* one that will be there when it is done.                                 *)
LEMMA InStepMove ==
  ASSUME TypeOK, InStep, NEW ops \in Renames, DidRenameFiles(ops),
         Waited(DOMAIN ops \union Targets(ops)),
         \A u \in Targets(ops) : editor[u] = <<>>
  PROVE  InStep'
<1>1. PICK t \in DocTask : t = [kind |-> "DidRenameFiles", n |-> next,
                               ops |-> ops, files |-> files]
  BY RenameCreated
<1>2. /\ TrySchedule(t)
      /\ DOMAIN ops \subseteq disk /\ Targets(ops) \intersect disk = {}
      /\ disk' = (disk \ DOMAIN ops) \union Targets(ops)
      /\ UNCHANGED <<rx, docs, files, editor>>
  BY <1>1 DEF DidRenameFiles, envVars
<1>3. IsRename(t) /\ ~IsLookup(t) /\ t.ops = ops /\ t.files = files
  BY <1>1 DEF IsRename, IsLookup
<1>4. Unsettled' = Unsettled \union {t}
  BY <1>1, <1>2, <1>3, UnsettledTried
<1>5. /\ \A s \in Unsettled : /\ IsUpdate(s) /\ ~IsRename(s)
                              /\ s.uri \notin DOMAIN ops
                              /\ UpdateLands(s)
      /\ files \subseteq disk
  BY WaitedFor
<1>6. \A s \in Unsettled : UpdateLands(s)'
  BY <1>2, <1>5 DEF UpdateLands
<1>7. DOMAIN ops \intersect Targets(ops) = {}
  BY RenameTyped DEF Targets
<1>8. RenameLands(t)'
  BY <1>2, <1>3, <1>5, <1>7 DEF RenameLands, Targets
<1>9. ~IsUpdate(t)
  BY <1>3, KindsOfTasks
<1>10. ChangesLand'
  BY <1>4, <1>5, <1>6, <1>8, <1>9 DEF ChangesLand, IsUpdate, IsRename
<1>11. ChangesApart'
  BY <1>4, <1>5, <1>9 DEF InStep, ChangesApart, IsUpdate, IsRename
<1>12. IndexOnDisk'
  BY <1>3, <1>4 DEF IndexOnDisk, RenameUnsettled, IsRename
<1>13. TextsAgree'
  <2>1. \A v : UpdateOf(v) => UpdateOf(v)'
    BY <1>4 DEF UpdateOf, IsUpdate
  <2>2. \A v \in disk' : editor[v] # <<>> => v \in disk
    BY <1>2
  <2> QED
    BY <1>2, <2>1, <2>2 DEF InStep, TextsAgree
<1> QED
  BY <1>10, <1>11, <1>12, <1>13 DEF InStep

(* While the client is calm, every step keeps it in step with the server.  *)
LEMMA CalmStep ==
  ASSUME Tracked, CalmInStep, [Next]_vars, TypeOK'
  PROVE  CalmInStep'
<1>1. TypeOK /\ NumbersApart /\ PassExact /\ EntriesKept
  BY DEF Tracked, Apart
<1> SUFFICES ASSUME calm' PROVE InStep'
  BY DEF CalmInStep
<1>2. ASSUME calm, Quiet \/ Begins \/ (\E e \in exec : TakesOut(e)),
             UNCHANGED <<docs, files, editor, disk>>
      PROVE  InStep'
  BY <1>2, UnsettledLoop, InStepSame DEF CalmInStep
<1>3. CASE ScheduleBlocked \/ RemoveScheduled
  <2>1. UNCHANGED <<docs, files, editor, disk, calm>>
    BY <1>3 DEF ScheduleBlocked, RemoveScheduled, envVars, clientVars
  <2> QED
    BY <1>1, <1>2, <1>3, <2>1, ScheduleShape, RemoveShape
<1>4. CASE \/ \E t \in rx : RecvPanic(t)
           \/ RecvDiscovery \/ EndRecv \/ EndProcess \/ Progress
           \/ UNCHANGED vars
  <2>1. UNCHANGED <<docs, files, editor, disk, calm>>
    BY <1>4 DEF RecvPanic, RecvDiscovery, EndRecv, EndProcess, Progress,
                envVars, clientVars, vars
  <2> QED
    BY <1>2, <1>4, <2>1, OthersAreQuiet
<1>5. ASSUME NEW t \in pool, Finish(t) PROVE InStep'
  <2>1. UNCHANGED <<docs, files, editor, disk, calm>>
    BY <1>5 DEF Finish, envVars, clientVars
  <2> QED
    BY <1>1, <1>2, <1>5, <2>1, FinishIsQuiet DEF EntriesKept
<1>6. ASSUME NEW t \in rx, RecvScan(t) PROVE InStep'
  <2>1. calm
    BY <1>6 DEF RecvScan, clientVars
  <2>2. Unsettled' = Unsettled
    BY <1>6, OthersAreQuiet, UnsettledLoop
  <2> QED
    BY <1>6, <2>1, <2>2, InStepScan DEF CalmInStep
<1>7. ASSUME NEW t \in rx, RecvUpdate(t) PROVE InStep'
  <2>1. calm
    BY <1>7 DEF RecvUpdate, clientVars
  <2> QED
    BY <1>7, <2>1, InStepUpdate DEF CalmInStep
<1>8. ASSUME NEW t \in rx, RecvRename(t) PROVE InStep'
  <2>1. calm
    BY <1>8 DEF RecvRename, clientVars
  <2> QED
    BY <1>8, <2>1, InStepRename DEF CalmInStep
<1>9. ASSUME NEW t \in rx, RecvLookup(t) PROVE InStep'
  <2>1. calm /\ UNCHANGED <<docs, files, editor, disk>> /\ IsLookup(t)
    BY <1>9 DEF RecvLookup, envVars
  <2>2. t \notin Unsettled /\ Unsettled' = Unsettled \ {t}
    BY <1>9, <2>1, ResultConcludes, UnsettledEnds DEF Unsettled
  <2> QED
    BY <2>1, <2>2, InStepSame DEF CalmInStep
<1>10. ASSUME NEW u \in Uri, DidOpen(u) \/ DidChange(u) \/ DidClose(u)
       PROVE  InStep'
  <2>1. calm /\ Waited({u})
    BY <1>10 DEF DidOpen, DidChange, DidClose, Change
  <2> QED
    BY <1>1, <1>10, <2>1, InStepOpen, InStepChange, InStepClose DEF CalmInStep
<1>11. ASSUME NEW r \in Renames, DidRenameFiles(r) PROVE InStep'
  <2>1. /\ calm /\ Waited(DOMAIN r \union Targets(r))
        /\ \A u \in Targets(r) : editor[u] = <<>>
    BY <1>11 DEF DidRenameFiles
  <2> QED
    BY <1>1, <1>11, <2>1, InStepMove DEF CalmInStep
<1>12. ASSUME NEW u \in Uri, LangRequest(u) PROVE InStep'
  <2> DEFINE t == [kind |-> "Lookup", n |-> next, uri |-> u,
                   text |-> docs[u].text]
  <2>1. calm /\ UNCHANGED <<docs, files, editor, disk, rx>>
    BY <1>12 DEF LangRequest, envVars
  <2>2. Unsettled' = Unsettled
    <3>1. CASE TrySchedule(t)
      <4>1. t \in DocTask /\ IsLookup(t)
        BY <1>1, CreatedTyped DEF IsLookup
      <4> HIDE DEF t
      <4> QED
        BY <1>1, <2>1, <3>1, <4>1, UnsettledTried
    <3>2. CASE UNCHANGED taskVars
      BY <2>1, <3>2, UnsettledSame DEF taskVars
    <3> QED
      BY <1>12, <3>1, <3>2 DEF LangRequest
  <2> QED
    BY <2>1, <2>2, InStepSame DEF CalmInStep
<1>13. CASE ShutdownRequest \/ ExitNotification
  <2>1. calm /\ UNCHANGED <<docs, files, editor, disk, pool, rx, blocked>>
    BY <1>13 DEF ShutdownRequest, ExitNotification, envVars, taskVars
  <2> QED
    BY <2>1, UnsettledSame, InStepSame DEF CalmInStep
<1> QED
  BY <1>3, <1>4, <1>5, <1>6, <1>7, <1>8, <1>9, <1>10, <1>11, <1>12, <1>13
  DEF Next, MainLoop, Receive, ProcessMsg, Done

(* The documents that are open at the start are those of the editor.       *)
LEMMA CalmInit == Init => CalmInStep
<1> SUFFICES ASSUME Init PROVE InStep
  BY DEF CalmInStep
<1>1. /\ Unsettled = {}
      /\ files = Workspace /\ disk = Workspace \union InitOpen
      /\ editor = [u \in Uri |-> IF u \in InitOpen THEN <<0>> ELSE <<>>]
  BY DEF Init, Unsettled, InFlight, Waiting
<1>2. \A u \in InitOpen : docs[u] = [status |-> "open", text |-> <<0>>]
  BY UriAssumption DEF Init, InitSteady
<1>3. TextsAgree
  BY <1>1, <1>2, UriAssumption DEF TextsAgree
<1> QED
  BY <1>1, <1>3 DEF InStep, ChangesLand, ChangesApart, IndexOnDisk

(* A client that lets each change settle before the next one of the same   *)
(* file finds its text in the server, whatever the workers, the scans of   *)
(* the workspace and renames of other files did in between.                *)
THEOREM EditorStaysInSync == Spec => []EditorInSync
<1>1. Init => Tracked /\ CalmInStep
  BY TrackedInit, CalmInit
<1>2. Tracked /\ CalmInStep /\ [Next]_vars => Tracked' /\ CalmInStep'
  <2>1. Tracked' => TypeOK'
    BY DEF Tracked, Apart
  <2> QED
    BY <2>1, TrackedStep, CalmStep
<1>3. ASSUME CalmInStep PROVE EditorInSync
  BY <1>3 DEF CalmInStep, EditorInSync, Settled, InStep, IndexOnDisk,
              RenameUnsettled, TextsAgree, UpdateOf
<1>4. Tracked /\ CalmInStep => EditorInSync
  BY <1>3
<1> QED
  BY <1>1, <1>2, <1>4, PTL DEF Spec
=============================================================================
