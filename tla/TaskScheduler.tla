--------------------------- MODULE TaskScheduler ---------------------------
(***************************************************************************)
(* The main loop of the language server: ls/mainloop.rs drives the         *)
(* scheduler of ls/tasks.rs, the document notifications of                 *)
(* ls/tasks/docsync.rs, the language requests of ls/tasks/lang/ and the    *)
(* rename and file scan results of ls/tasks/workspace.rs.                  *)
(*                                                                         *)
(* One thread runs the loop.  A cycle receives the results of finished     *)
(* tasks, tries to schedule the tasks that had to wait, handles the        *)
(* messages of the client one by one and moves the workspace discovery     *)
(* forward.  Tasks are executed by the worker threads of ls/tasks/         *)
(* runners.rs, here a set of running tasks that finish in any order (the   *)
(* pool itself is module TaskSystem).  A task is a function of the data    *)
(* it captured when the message was handled.                               *)
(*                                                                         *)
(* The text of a document is the sequence of the numbers of the messages   *)
(* that made it: <<n>> after the didOpen with number n, Append(text, n)    *)
(* after the didChange with number n, <<0>> as read from disk.             *)
(*                                                                         *)
(* The definitions marked Deviation are faults a change of the code could  *)
(* bring; no behaviour of the specification uses them.                     *)
(***************************************************************************)
EXTENDS Integers, Sequences, FiniteSets

CONSTANTS
  Uri,          \* files the client and the workspace know
  Workspace,    \* files found when the server booted
  Unreadable,   \* files that exist and cannot be read, say no UTF-8
  InitOpen,     \* files the client has opened before the model starts
  Renames,      \* renames a client may ask for: functions from old to new files
  MaxMsgs       \* bound: messages the client sends

(* A rename moves files to new and distinct places.                        *)
ASSUME UriAssumption ==
  /\ Workspace \subseteq Uri /\ IsFiniteSet(Workspace)
  /\ Unreadable \subseteq Uri
  /\ InitOpen \subseteq Uri
  /\ MaxMsgs \in Nat
  /\ \A r \in Renames : \E S \in SUBSET Uri :
       /\ r \in [S -> Uri \ S]
       /\ \A o, p \in S : r[o] = r[p] => o = p

VARIABLES
  pc,         \* where the loop is
  ii,         \* cursor of try_schedule_blocked over blocked
  exec,       \* positions of blocked that this pass has scheduled
  blocked,    \* Tasks.blocked: tasks that have to wait, in order of arrival
  ongoing,    \* Tasks.ongoing: tasks and requests under way
  discovery,  \* the WorkspaceDiscovery entry of Tasks.ongoing, by progress
  unparsed,   \* files its TaskProgress has not counted yet
  pool,       \* tasks handed to TaskSystem and not finished
  rx,         \* finished tasks whose results the loop has not received
  docs,       \* EnvData.docs: the registry of TextDocs
  files,      \* EnvData.files: files known to the FileIndex
  shutdown,   \* RunState.shutdown_request_recv
  exit,       \* RunState.exit_requested
  editor,     \* client: text of each file open there, <<>> if it is not
  disk,       \* client: files that exist
  next,       \* client: number of the next message
  asked,      \* client: requests sent
  replies,    \* client: responses received per request
  calm        \* history: every message waited for those it depends on

loopVars   == <<pc, ii, exec>>
taskVars   == <<blocked, ongoing, pool>>
discVars   == <<discovery, unparsed>>
envVars    == <<docs, files>>
stateVars  == <<shutdown, exit>>
clientVars == <<editor, disk, next, asked, replies, calm>>
vars == <<loopVars, taskVars, discVars, rx, envVars, stateVars, clientVars>>

----------------------------------------------------------------------------
(* Tasks and the entries that track them.                                  *)

Text == Seq(Nat)
Absent == [status |-> "absent", text |-> <<>>]
Doc == [status : {"absent", "closed", "open"}, text : Text]

UpdateTask == [kind : {"TextDocNew", "TextDocEdit"}, n : Nat, uri : Uri,
               text : Text]
LookupTask == [kind : {"Lookup"}, n : Nat, uri : Uri, text : Text]
RenameTask == [kind : {"DidRenameFiles"}, n : Nat, ops : Renames,
               files : SUBSET Uri]
ScanTask   == [kind : {"WorkspaceFileScan"}, uri : Uri]
ScanResult == [kind : {"WorkspaceFileScan"}, uri : Uri, read : BOOLEAN]
DocTask == UpdateTask \union LookupTask \union RenameTask
Task == DocTask \union ScanTask
Result == DocTask \union ScanResult

IsUpdate(t) == t.kind \in {"TextDocNew", "TextDocEdit"}
IsLookup(t) == t.kind = "Lookup"
IsRename(t) == t.kind = "DidRenameFiles"
IsScan(t)   == t.kind = "WorkspaceFileScan"

Entry == [kind : {"TextDocUpdate"}, uri : Uri]
           \union [kind : {"Lookup", "DidRenameFiles"}, id : Nat]

(* The OngoingTask that add_task_status_tracking creates for a task: an    *)
(* update is known by its file, everything else by its identifier.         *)
EntryOf(t) == IF IsUpdate(t)
              THEN [kind |-> "TextDocUpdate", uri |-> t.uri]
              ELSE [kind |-> t.kind, id |-> t.n]

Tracks(kind) == \E i \in DOMAIN ongoing : ongoing[i].kind = kind
Updating(u) == \E i \in DOMAIN ongoing :
                 ongoing[i] = [kind |-> "TextDocUpdate", uri |-> u]

(* Deviation: renames do not wait for the discovery or for updates.        *)
RenameNeverWaits(t) ==
  \/ IsRename(t) /\ Tracks("DidRenameFiles")
  \/ /\ IsUpdate(t) \/ IsLookup(t)
     /\ Tracks("DidRenameFiles") \/ Updating(t.uri)

(* Deviation: only lookups wait for the update of their document.          *)
UpdatesNeverWait(t) ==
  \/ /\ IsRename(t)
     /\ \/ Tracks("DidRenameFiles")
        \/ discovery # "gone"
        \/ \E o \in DOMAIN t.ops : Updating(o)
  \/ (IsUpdate(t) \/ IsLookup(t)) /\ Tracks("DidRenameFiles")
  \/ IsLookup(t) /\ Updating(t.uri)

(* task_blocked: a rename waits for another rename, for the discovery and  *)
(* for an update of a file it moves.  Tasks on a document wait for a       *)
(* rename and for an update of that document.  File scans never wait.      *)
TaskBlocked(t) ==
  \/ /\ IsRename(t)
     /\ \/ Tracks("DidRenameFiles")
        \/ discovery # "gone"
        \/ \E o \in DOMAIN t.ops : Updating(o)
  \/ /\ IsUpdate(t) \/ IsLookup(t)
     /\ Tracks("DidRenameFiles") \/ Updating(t.uri)

(* TaskSystem::schedule and add_task_status_tracking.                      *)
Schedule(t) ==
  /\ pool' = pool \union {t}
  /\ ongoing' = IF IsScan(t) THEN ongoing ELSE Append(ongoing, EntryOf(t))

TrySchedule(t) ==
  \/ /\ TaskBlocked(t)
     /\ blocked' = Append(blocked, t)
     /\ UNCHANGED <<ongoing, pool>>
  \/ /\ ~TaskBlocked(t)
     /\ Schedule(t)
     /\ UNCHANGED blocked

(* Vec::swap_remove: the last element takes the place of the removed one.  *)
SwapRemove(s, i) ==
  [j \in 1..(Len(s) - 1) |-> IF j = i THEN s[Len(s)] ELSE s[j]]

Without(s, i) == [j \in 1..(Len(s) - 1) |-> IF j < i THEN s[j] ELSE s[j + 1]]

(* mark_ongoing_task_completed removes the first entry that matches.       *)
FirstEntry(e) == CHOOSE i \in DOMAIN ongoing :
                   /\ ongoing[i] = e
                   /\ \A j \in DOMAIN ongoing : ongoing[j] = e => i <= j

Registered(e) == \E i \in DOMAIN ongoing : ongoing[i] = e

(* Deviation: the oldest entry of the same kind is removed.                *)
MarkOldestOfKind(e) ==
  ongoing' = Without(ongoing, CHOOSE i \in DOMAIN ongoing :
                       /\ ongoing[i].kind = e.kind
                       /\ \A j \in DOMAIN ongoing :
                            ongoing[j].kind = e.kind => i <= j)

MarkCompleted(e) == ongoing' = Without(ongoing, FirstEntry(e))

----------------------------------------------------------------------------
(* Results of tasks.                                                       *)

(* resolve_rename_operations keeps the operations on indexed files.        *)
Resolved(ops, idx) == [o \in DOMAIN ops \intersect idx |-> ops[o]]

Targets(ops) == {ops[o] : o \in DOMAIN ops}

(* FileIndex::update.                                                      *)
FileIndexUpdate(idx, ops) == (idx \ DOMAIN ops) \union Targets(ops)

(* TextDocs::rename_files: what was stored under a new name is dropped,    *)
(* then the document moves with its status.                                *)
RenamedDocs(ops) ==
  [u \in Uri |->
     IF u \in Targets(ops) THEN docs[CHOOSE o \in DOMAIN ops : ops[o] = u]
     ELSE IF u \in DOMAIN ops THEN Absent
     ELSE docs[u]]

(* The state in which the main loop is entered: nothing is stored and the  *)
(* discovery, if there is a workspace, has its list of files.              *)
InitBooted ==
  /\ discovery \in IF Workspace = {} THEN {"ready", "gone"} ELSE {"ready"}
  /\ unparsed = Cardinality(Workspace)
  /\ docs = [u \in Uri |-> Absent]

(* A later state, with the discovery over and some documents open.         *)
InitSteady ==
  /\ discovery = "gone"
  /\ unparsed = 0
  /\ docs = [u \in Uri |->
               IF u \in InitOpen THEN [status |-> "open", text |-> <<0>>]
               ELSE IF u \in Workspace \ Unreadable
                    THEN [status |-> "closed", text |-> <<0>>]
               ELSE Absent]

Init ==
  /\ pc = "recv" /\ ii = 1 /\ exec = {}
  /\ blocked = <<>> /\ ongoing = <<>> /\ pool = {} /\ rx = {}
  /\ IF InitOpen = {} THEN InitBooted ELSE InitSteady
  /\ files = Workspace
  /\ shutdown = FALSE /\ exit = FALSE
  /\ editor = [u \in Uri |-> IF u \in InitOpen THEN <<0>> ELSE <<>>]
  /\ disk = Workspace \union InitOpen
  /\ next = 1
  /\ asked = {}
  /\ replies = [m \in 1..MaxMsgs |-> 0]
  /\ calm = TRUE

----------------------------------------------------------------------------
(* A worker thread finishes a task and sends its result.  A scan reads the *)
(* file now: it may be gone from its place, and it may not be readable.    *)
ResultOf(t) ==
  IF IsScan(t)
  THEN [kind |-> t.kind, uri |-> t.uri, read |-> t.uri \in disk \ Unreadable]
  ELSE t

Finish(t) ==
  /\ t \in pool
  /\ pool' = pool \ {t}
  /\ rx' = rx \union {ResultOf(t)}
  /\ UNCHANGED <<loopVars, blocked, ongoing, discVars, envVars, stateVars,
                 clientVars>>

(* One result in recv_completed_tasks is handled by process_completed_task *)
(* and, unless more results are to come, by mark_ongoing_task_completed.   *)
(* The loop panics if a changed document is gone ("Docs that are updated   *)
(* must already be present."), if a renamed document was never stored      *)
(* ("Must be called after rename operation.") or if the task has no entry  *)
(* ("Must be a registered task.").                                         *)
UpdateOfAbsent(t) == t.kind = "TextDocEdit" /\ docs[t.uri].status = "absent"

RenameOfUnread(t) ==
  IsRename(t) /\ \E o \in DOMAIN Resolved(t.ops, t.files) :
                   docs[o].status = "absent"

EntryMissing(t) ==
  IF IsScan(t) THEN discovery # "parsing" ELSE ~Registered(EntryOf(t))

Crash == {"update of absent", "rename of unread", "entry missing"}

CrashOf(t) == IF UpdateOfAbsent(t) THEN "update of absent"
              ELSE IF RenameOfUnread(t) THEN "rename of unread"
              ELSE "entry missing"

Fails(t) == UpdateOfAbsent(t) \/ RenameOfUnread(t) \/ EntryMissing(t)

Received(t) == /\ pc = "recv"
               /\ t \in rx
               /\ ~Fails(t)
               /\ rx' = rx \ {t}

RecvPanic(t) ==
  /\ pc = "recv"
  /\ t \in rx
  /\ Fails(t)
  /\ pc' = CrashOf(t)
  /\ UNCHANGED <<ii, exec, taskVars, discVars, rx, envVars, stateVars,
                 clientVars>>

(* TaskDone::TextDocNew and TaskDone::TextDocEdit.  TextDocs::add stores   *)
(* the document as open; TextDocs::update keeps the status it finds.       *)
StoreUpdate(t) ==
  docs' = IF t.kind = "TextDocNew"
          THEN [docs EXCEPT ![t.uri] = [status |-> "open", text |-> t.text]]
          ELSE [docs EXCEPT ![t.uri] = [status |-> docs[t.uri].status,
                                        text |-> Append(t.text, t.n)]]

RecvUpdate(t) ==
  /\ Received(t)
  /\ IsUpdate(t)
  /\ StoreUpdate(t)
  /\ MarkCompleted(EntryOf(t))
  /\ UNCHANGED <<loopVars, blocked, pool, discVars, files, stateVars,
                 clientVars>>

(* The responses of the single step requests: TaskDone::CodeFolds,         *)
(* SemanticTokensFull, SemanticTokensRange and the final GoToDefinition    *)
(* and FindReferences.                                                     *)
RecvLookup(t) ==
  /\ Received(t)
  /\ IsLookup(t)
  /\ replies' = [replies EXCEPT ![t.n] = @ + 1]
  /\ MarkCompleted(EntryOf(t))
  /\ UNCHANGED <<loopVars, blocked, pool, discVars, envVars, stateVars,
                 editor, disk, next, asked, calm>>

(* TaskDone::DidRenameFiles: process_rename_files_result installs the      *)
(* index that the task computed from its copy and renames the documents.   *)
RecvRename(t) ==
  /\ Received(t)
  /\ IsRename(t)
  /\ LET changes == Resolved(t.ops, t.files) IN
       IF DOMAIN changes = {}
       THEN UNCHANGED <<docs, files>>
       ELSE /\ files' = FileIndexUpdate(t.files, changes)
            /\ docs' = RenamedDocs(changes)
  /\ MarkCompleted(EntryOf(t))
  /\ UNCHANGED <<loopVars, blocked, pool, discVars, stateVars, clientVars>>

(* Deviation: what was read from disk replaces what is stored.             *)
StoreScanAlways(t) ==
  docs' = IF t.read
          THEN [docs EXCEPT ![t.uri] = [status |-> "closed", text |-> <<0>>]]
          ELSE docs

(* recv_workspace_file_parsing_sync stores what was read from disk unless  *)
(* the document is known already; a file that cannot be read only counts.  *)
StoreScan(t) ==
  docs' = IF t.read /\ docs[t.uri].status = "absent"
          THEN [docs EXCEPT ![t.uri] = [status |-> "closed", text |-> <<0>>]]
          ELSE docs

(* Deviation: files that cannot be read are not counted.                   *)
RecvScanIfRead(t) ==
  /\ Received(t)
  /\ IsScan(t)
  /\ unparsed' = IF t.read THEN unparsed - 1 ELSE unparsed
  /\ StoreScan(t)
  /\ UNCHANGED <<loopVars, taskVars, discovery, files, stateVars, clientVars>>

RecvScan(t) ==
  /\ Received(t)
  /\ IsScan(t)
  /\ unparsed' = unparsed - 1
  /\ StoreScan(t)
  /\ UNCHANGED <<loopVars, taskVars, discovery, files, stateVars, clientVars>>

(* TaskDone::WorkspaceFileDiscovery, from the list `completed`.            *)
RecvDiscovery ==
  /\ pc = "recv"
  /\ rx = {}
  /\ discovery = "finished"
  /\ discovery' = "gone"
  /\ UNCHANGED <<loopVars, taskVars, unparsed, rx, envVars, stateVars,
                 clientVars>>

(* All results are received; schedule_tasks begins.                        *)
EndRecv ==
  /\ pc = "recv"
  /\ rx = {}
  /\ discovery # "finished"
  /\ pc' = "blocked" /\ ii' = 1 /\ exec' = {}
  /\ UNCHANGED <<taskVars, discVars, rx, envVars, stateVars, clientVars>>

----------------------------------------------------------------------------
(* try_schedule_blocked: one pass over blocked, then the scheduled tasks   *)
(* are taken out from the back.                                            *)
ScheduleBlocked ==
  /\ pc = "blocked"
  /\ ii <= Len(blocked)
  /\ ii' = ii + 1
  /\ \/ /\ TaskBlocked(blocked[ii])
        /\ UNCHANGED <<ongoing, pool, exec>>
     \/ /\ ~TaskBlocked(blocked[ii])
        /\ Schedule(blocked[ii])
        /\ exec' = exec \union {ii}
  /\ UNCHANGED <<pc, blocked, discVars, rx, envVars, stateVars, clientVars>>

RemoveScheduled ==
  /\ pc = "blocked"
  /\ ii > Len(blocked)
  /\ \/ \E e \in exec :
          /\ \A f \in exec : f <= e
          /\ blocked' = SwapRemove(blocked, e)
          /\ exec' = exec \ {e}
          /\ ii' = ii - 1
          /\ UNCHANGED pc
     \/ /\ exec = {}
        /\ pc' = "process"
        /\ ii' = 1
        /\ UNCHANGED <<blocked, exec>>
  /\ UNCHANGED <<ongoing, pool, discVars, rx, envVars, stateVars, clientVars>>

----------------------------------------------------------------------------
(* process_msg: the client's next message.                                 *)

InFlight == pool \union rx
Waiting == {blocked[i] : i \in DOMAIN blocked}
Unsettled == {t \in InFlight \union Waiting : ~IsScan(t) /\ ~IsLookup(t)}

Message ==
  /\ pc = "process"
  /\ next <= MaxMsgs
  /\ next' = next + 1

(* A change of files.  A client may wait with it for the updates of these  *)
(* files and for any rename; whether it always has is remembered.          *)
Waited(us) == \A t \in Unsettled : IsUpdate(t) /\ t.uri \notin us

Change(us) ==
  /\ Message
  /\ calm' = (calm /\ Waited(us))

(* process_doc_open_notif *)
DidOpen(u) ==
  /\ Change({u})
  /\ editor[u] = <<>> /\ u \in disk
  /\ editor' = [editor EXCEPT ![u] = <<next>>]
  /\ TrySchedule([kind |-> "TextDocNew", n |-> next, uri |-> u,
                  text |-> <<next>>])
  /\ UNCHANGED <<loopVars, discVars, rx, envVars, stateVars, disk, asked,
                 replies>>

(* process_doc_change_notif: the task works on a copy of the document as   *)
(* it is now.  The change is refused if the document is not open.          *)
DidChange(u) ==
  /\ Change({u})
  /\ editor[u] # <<>> /\ u \in disk
  /\ editor' = [editor EXCEPT ![u] = Append(@, next)]
  /\ \/ /\ docs[u].status = "open"
        /\ TrySchedule([kind |-> "TextDocEdit", n |-> next, uri |-> u,
                        text |-> docs[u].text])
     \/ /\ docs[u].status # "open"
        /\ UNCHANGED taskVars
  /\ UNCHANGED <<loopVars, discVars, rx, envVars, stateVars, disk, asked,
                 replies>>

(* process_doc_close_notif is carried out at once, never as a task.        *)
DidClose(u) ==
  /\ Change({u})
  /\ editor[u] # <<>>
  /\ editor' = [editor EXCEPT ![u] = <<>>]
  /\ docs' = IF docs[u].status = "open"
             THEN [docs EXCEPT ![u] = [status |-> "closed",
                                       text |-> docs[u].text]]
             ELSE docs
  /\ UNCHANGED <<loopVars, taskVars, discVars, rx, files, stateVars, disk,
                 asked, replies>>

(* process_files_did_rename_notif: the task gets a copy of the index.  A   *)
(* client that has not closed a file under a name it moved away from may   *)
(* move another file there; that is no calm client either.                 *)
DidRenameFiles(ops) ==
  /\ Message
  /\ calm' = /\ calm /\ Waited(DOMAIN ops \union Targets(ops))
             /\ \A u \in Targets(ops) : editor[u] = <<>>
  /\ DOMAIN ops \subseteq disk /\ Targets(ops) \intersect disk = {}
  /\ disk' = (disk \ DOMAIN ops) \union Targets(ops)
  /\ TrySchedule([kind |-> "DidRenameFiles", n |-> next, ops |-> ops,
                  files |-> files])
  /\ UNCHANGED <<loopVars, discVars, rx, envVars, stateVars, editor, asked,
                 replies>>

(* Deviation: no response if the document is unknown.                      *)
AnswerKnownOnly(u) ==
  /\ Message
  /\ asked' = asked \union {next}
  /\ \/ /\ ~shutdown /\ docs[u].status # "absent"
        /\ TrySchedule([kind |-> "Lookup", n |-> next, uri |-> u,
                        text |-> docs[u].text])
        /\ UNCHANGED replies
     \/ /\ shutdown
        /\ replies' = [replies EXCEPT ![next] = @ + 1]
        /\ UNCHANGED taskVars
     \/ /\ ~shutdown /\ docs[u].status = "absent"
        /\ UNCHANGED <<taskVars, replies>>
  /\ UNCHANGED <<loopVars, discVars, rx, envVars, stateVars, editor, disk, calm>>

(* The language requests on a document: refused after a shutdown, answered *)
(* with null if the document is unknown.                                   *)
LangRequest(u) ==
  /\ Message
  /\ asked' = asked \union {next}
  /\ \/ /\ ~shutdown /\ docs[u].status # "absent"
        /\ TrySchedule([kind |-> "Lookup", n |-> next, uri |-> u,
                        text |-> docs[u].text])
        /\ UNCHANGED replies
     \/ /\ shutdown \/ docs[u].status = "absent"
        /\ replies' = [replies EXCEPT ![next] = @ + 1]
        /\ UNCHANGED taskVars
  /\ UNCHANGED <<loopVars, discVars, rx, envVars, stateVars, editor, disk, calm>>

ShutdownRequest ==
  /\ Message
  /\ shutdown' = TRUE
  /\ asked' = asked \union {next}
  /\ replies' = [replies EXCEPT ![next] = @ + 1]
  /\ UNCHANGED <<loopVars, taskVars, discVars, rx, envVars, exit, editor,
                 disk, calm>>

ExitNotification ==
  /\ Message
  /\ exit' = TRUE
  /\ UNCHANGED <<loopVars, taskVars, discVars, rx, envVars, shutdown, editor,
                 disk, asked, replies, calm>>

EndProcess ==
  /\ pc = "process"
  /\ pc' = "progress"
  /\ UNCHANGED <<ii, exec, taskVars, discVars, rx, envVars, stateVars,
                 clientVars>>

----------------------------------------------------------------------------
(* progress_multi_part_tasks for the discovery: the first pass sends every *)
(* file to the pool, the pass after the last result concludes it.          *)
StartScans ==
  /\ discovery = "ready" /\ unparsed > 0
  /\ discovery' = "parsing"
  /\ pool' = pool \union [kind : {"WorkspaceFileScan"}, uri : Workspace]

Progress ==
  /\ pc = "progress"
  /\ \/ StartScans
     \/ /\ discovery \in {"ready", "parsing"} /\ unparsed = 0
        /\ discovery' = "finished"
        /\ UNCHANGED pool
     \/ /\ discovery = "gone" \/ (discovery = "parsing" /\ unparsed > 0)
        /\ UNCHANGED <<discovery, pool>>
  /\ pc' = IF exit THEN "exited" ELSE "recv"
  /\ UNCHANGED <<ii, exec, blocked, ongoing, unparsed, rx, envVars, stateVars,
                 clientVars>>

Receive == \/ \E t \in rx : \/ RecvUpdate(t) \/ RecvLookup(t)
                            \/ RecvRename(t) \/ RecvScan(t)
                            \/ RecvPanic(t)
           \/ RecvDiscovery
           \/ EndRecv

ProcessMsg == \/ \E u \in Uri : \/ DidOpen(u) \/ DidChange(u)
                                \/ DidClose(u) \/ LangRequest(u)
              \/ \E r \in Renames : DidRenameFiles(r)
              \/ ShutdownRequest
              \/ ExitNotification

MainLoop == Receive \/ ScheduleBlocked \/ RemoveScheduled \/ EndProcess
              \/ Progress

Done == pc \in {"exited"} \union Crash /\ UNCHANGED vars

Next == MainLoop \/ ProcessMsg \/ (\E t \in pool : Finish(t)) \/ Done

(* Tasks terminate and the operating system runs every thread: the loop    *)
(* keeps cycling and every task handed to the pool finishes (module        *)
(* TaskSystem).  Nothing makes the client send a message.                  *)
Fairness == WF_vars(MainLoop) /\ WF_vars(\E t \in pool : Finish(t))

Spec == Init /\ [][Next]_vars
FairSpec == Spec /\ Fairness
----------------------------------------------------------------------------
(* Properties.                                                             *)

Kinds == {"TextDocUpdate", "Lookup", "DidRenameFiles"}

(* Type invariant of the main loop's state.                                *)
TypeOK ==
  /\ pc \in {"recv", "blocked", "process", "progress", "exited"} \union Crash
  /\ ii \in Nat \ {0}
  /\ exec \subseteq DOMAIN blocked
  /\ blocked \in Seq(DocTask)
  /\ ongoing \in Seq(Entry)
  /\ discovery \in {"ready", "parsing", "finished", "gone"}
  /\ unparsed \in Int
  /\ pool \subseteq Task
  /\ rx \subseteq Result
  /\ docs \in [Uri -> Doc]
  /\ files \subseteq Uri
  /\ shutdown \in BOOLEAN /\ exit \in BOOLEAN
  /\ editor \in [Uri -> Text]
  /\ disk \subseteq Uri
  /\ next \in 1..(MaxMsgs + 1)
  /\ asked \subseteq 1..MaxMsgs
  /\ replies \in [1..MaxMsgs -> Nat]
  /\ calm \in BOOLEAN

(* Updates of one document never run at the same time (task_blocked: "Some *)
(* requests like document updates can only be processed one at a time").   *)
(* try_schedule_blocked may start several tasks in one pass, and two tasks *)
(* that were free when they arrived must not meet later.                   *)
OneUpdateAtATime ==
  \A s, t \in InFlight :
    IsUpdate(s) /\ IsUpdate(t) /\ s.uri = t.uri => s = t

(* While files are being renamed, nothing else touches them: no second     *)
(* rename, no scan of the workspace, and no update of a file that is       *)
(* moved, whether it started before or after the rename.                   *)
RenameAlone ==
  \A r \in InFlight : IsRename(r) =>
    /\ discovery = "gone"
    /\ \A t \in InFlight : IsRename(t) => t = r
    /\ \A t \in InFlight : IsScan(t) => FALSE
    /\ \A t \in InFlight : IsUpdate(t) => t.uri \notin DOMAIN r.ops

TrackedTasks == {t \in InFlight : ~IsScan(t)}

EntriesExact ==
  /\ pc # "entry missing"
  /\ \A t \in TrackedTasks : Registered(EntryOf(t))
  /\ \A i \in DOMAIN ongoing : \E t \in TrackedTasks : ongoing[i] = EntryOf(t)
  /\ \A i, j \in DOMAIN ongoing : ongoing[i] = ongoing[j] => i = j
  /\ \A s, t \in TrackedTasks : EntryOf(s) = EntryOf(t) => s = t

WaitingFor(m) == {i \in DOMAIN blocked \ exec :
                    IsLookup(blocked[i]) /\ blocked[i].n = m}
RunningFor(m) == {t \in InFlight : IsLookup(t) /\ t.n = m}

TasksInOnePlace ==
  /\ \A m \in asked :
       Cardinality(WaitingFor(m)) + Cardinality(RunningFor(m)) + replies[m] = 1
  /\ \A i, j \in DOMAIN blocked : blocked[i] = blocked[j] => i = j
  /\ \A i \in DOMAIN blocked \ exec : blocked[i] \notin InFlight

(* The state is well typed, and the lists of tasks agree.                  *)
(* Every task in the hands of the workers has its own entry in ongoing,    *)
(* and every entry belongs to one: mark_ongoing_task_completed finds the   *)
(* entry ("Must be a registered task.") and removes no other task's.       *)
(* A request is in exactly one place: waiting, being worked on, or         *)
(* answered once; and no update or rename that waits is there twice or     *)
(* under way already: the swap_remove of a pass that scheduled several     *)
(* tasks neither drops a task nor leaves one to run twice.                 *)
TrackingExact == TypeOK /\ EntriesExact /\ TasksInOnePlace

(* TaskProgress of the discovery: the files not yet counted are the scans  *)
(* still under way, so the counter reaches zero with the last result and   *)
(* never before.                                                           *)
DiscoveryCounts ==
  discovery # "ready" =>
    unparsed = Cardinality({t \in InFlight : IsScan(t)})

(* A client that has waited before each change and has moved no file onto  *)
(* one it has open, and nothing is under way.                              *)
Settled == calm /\ Unsettled = {} /\ pc \notin Crash

(* A client that has let each update settle finds its text in the server:  *)
(* whatever ran in between (scans of the same files, lookups, renames of   *)
(* other files), a document that is open in the editor is open in the      *)
(* server with the same text, and the file index names no file that has    *)
(* been renamed.                                                           *)
EditorInSync ==
  Settled => /\ files \subseteq disk
             /\ \A u \in disk :
                  editor[u] # <<>> => docs[u] = [status |-> "open", text |-> editor[u]]

(* "Document updates need to be processed in the order in which they were  *)
(* received." (add_task_status_tracking): no update runs while an earlier  *)
(* one of the same document waits.                                         *)
UpdatesInOrder ==
  \A t \in InFlight : \A i \in DOMAIN blocked \ exec :
    IsUpdate(t) /\ IsUpdate(blocked[i]) /\ t.uri = blocked[i].uri
      => t.n < blocked[i].n

(* The scheduler keeps the promise of RequestReply: whatever is blocked,   *)
(* reordered or in flight, each request is answered once, and it is        *)
(* answered unless the client ends the server or the loop panics.          *)
Promise == INSTANCE RequestReply WITH
             Request <- 1..MaxMsgs, up <- pc \notin {"exited"} \union Crash

EveryRequestAnsweredOnce == Promise!FairSpec

(* After the last message the server comes to rest: no task waits for ever *)
(* for the tasks that block it, and the discovery ends.                    *)
ComesToRest ==
  <>[](\/ pc \in {"exited"} \union Crash
       \/ blocked = <<>> /\ InFlight = {} /\ ongoing = <<>> /\ discovery = "gone")
=====
