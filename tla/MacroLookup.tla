----------------------------- MODULE MacroLookup -----------------------------
(***************************************************************************)
(* Lookups of macros that take several rounds: GoToExternalMacroDef        *)
(* (ls/tasks/lang/definitions.rs) and FindMacroReferences                  *)
(* (ls/tasks/lang/references.rs), moved forward by the main loop           *)
(* (ls/tasks.rs).                                                          *)
(*                                                                         *)
(* A request starts as one task on its document.  If the macro may be      *)
(* defined elsewhere, the entry of the request in the list of ongoing      *)
(* tasks becomes a lookup with rounds: a round queues one task per script, *)
(* counts their results, collects the scripts to ask next, and is followed *)
(* by another round until nothing new is left.  Find References has up to  *)
(* three phases of rounds.  The tasks compete with edits, renames and the  *)
(* discovery of the workspace.                                             *)
(*                                                                         *)
(* One macro is looked at.  A text is what the tasks read of it:           *)
(*   calls     scripts it calls                                            *)
(*   search    outcome of the search for definitions: final, partial, open *)
(*             (MacroDefinitionResult::Indeterminate) or none              *)
(*   global    its definition is GLOBAL                                    *)
(*   after     scripts called where its definition is in force             *)
(*   inherits  scripts called where a definition of a caller is in force   *)
(*   uses      it refers to the macro where that is so                     *)
(*                                                                         *)
(* A task computes from what it captured, so its result is determined when *)
(* it is queued; the model receives it at any time later.                  *)
(*                                                                         *)
(* The definitions marked Deviation are faults a change of the code could  *)
(* bring; no behaviour of the specification uses them.                     *)
(***************************************************************************)
EXTENDS MacroReach, Sequences, FiniteSets

CONSTANTS
  Text,       \* texts
  Workspace,  \* files in the index of files
  Worlds,     \* initial texts of the files of Workspace that can be read
  EditTo,     \* texts a client may give a file
  Renames,    \* renames a client may ask for: functions from old to new files
  MaxMsgs     \* bound: messages of the client

(* A rename moves every name of a file in a text.                          *)
To(ops, u) == IF u \in DOMAIN ops THEN ops[u] ELSE u
Renamed(ops, S) == {To(ops, u) : u \in S}
RenamedText(ops, t) ==
  [t EXCEPT !.calls = Renamed(ops, @), !.after = Renamed(ops, @),
            !.inherits = Renamed(ops, @)]

ASSUME LookupAssumption ==
  /\ IsFiniteSet(Uri)
  /\ Text \subseteq [calls : SUBSET Uri, search : {"final", "partial", "open", "none"},
                     global : BOOLEAN, after : SUBSET Uri, inherits : SUBSET Uri,
                     uses : BOOLEAN]
  /\ \A t \in Text : t.after \subseteq t.calls /\ t.inherits \subseteq t.calls
  /\ Workspace \subseteq Uri
  /\ \A w \in Worlds : DOMAIN w \subseteq Workspace /\ w \in [DOMAIN w -> Text]
  /\ \A w \in Worlds : \A u \in DOMAIN w : w[u].calls \subseteq Workspace
  /\ EditTo \in [Uri -> SUBSET Text]
  /\ \A u \in Uri : \A t \in EditTo[u] : t.calls \subseteq Workspace
  /\ MaxMsgs \in Nat
  /\ \A r \in Renames : \E S \in SUBSET Uri :
       /\ r \in [S -> Uri \ S]
       /\ \A o, p \in S : r[o] = r[p] => o = p
  /\ \A r \in Renames, t \in Text : RenamedText(r, t) \in Text

VARIABLES
  pc,         \* where the loop is
  docs,       \* TextDocs: the stored files and their documents
  unscanned,  \* files the discovery has not read yet, with their texts
  discovery,  \* the WorkspaceDiscovery entry of Tasks.ongoing
  ongoing,    \* Tasks.ongoing
  blocked,    \* Tasks.blocked; its order is the subject of TaskScheduler
  pool,       \* tasks whose results have not been received
  completed,  \* Tasks.completed: concluded lookups
  next,       \* client: number of the next message
  asked,      \* client: requests sent
  replies,    \* client: responses received per request
  answers,    \* client: the files named in the response
  expected,   \* history: what the request had to find when it was sent
  steady      \* history: requests during which no document has changed

store  == <<docs, unscanned, discovery>>
tasks  == <<ongoing, blocked, pool, completed>>
client == <<next, asked, replies, answers>>
history == <<expected, steady>>
vars == <<pc, store, tasks, client, history>>

Phase == {"callers", "definitions", "subscripts"}
Crash == {"file unknown", "empty slot"}

Doc == [text : Text, listed : BOOLEAN, callers : SUBSET Uri]

(* Entries of lookups.  The names in a pair are the script to ask and the  *)
(* script it calls; in the later phases a script is asked for itself.      *)
Lookup == [kind : {"goto", "refs"}, id : Nat, phase : {"origin"} \union Phase,
           origin : Uri, ready : BOOLEAN, total : Nat, counted : Nat,
           undone : SUBSET (Uri \X Uri), visited : SUBSET (Uri \X Uri),
           found : SUBSET Uri, subs : SUBSET Uri, refs : SUBSET Uri]
Empty == [kind |-> "empty"]
Entry == Lookup \union [kind : {"update"}, uri : Uri]
           \union [kind : {"rename"}, id : Nat] \union {Empty}

LookupTask == [kind : {"goto", "refs"}, id : Nat, phase : {"origin"} \union Phase,
               uri : Uri, callee : Uri, text : Text, callers : SUBSET Uri]
UpdateTask == [kind : {"update"}, uri : Uri, text : Text]
RenameTask == [kind : {"rename"}, id : Nat, ops : Renames]
Task == LookupTask \union UpdateTask \union RenameTask

IsLookup(x) == x.kind \in {"goto", "refs"}
Known == DOMAIN docs
Alone(S) == {<<u, u>> : u \in S}

TypeOK ==
  /\ pc \in {"recv", "completed", "blocked", "process", "progress"} \union Crash
  /\ Known \subseteq Uri /\ docs \in [Known -> Doc]
  /\ DOMAIN unscanned \subseteq Workspace
  /\ unscanned \in [DOMAIN unscanned -> Text]
  /\ discovery \in {"parsing", "finished", "gone"}
  /\ ongoing \in Seq(Entry)
  /\ blocked \subseteq Task /\ pool \subseteq Task
  /\ completed \subseteq [id : Nat, files : SUBSET Uri]
  /\ next \in 1..(MaxMsgs + 1)
  /\ asked \subseteq 1..MaxMsgs
  /\ replies \in [1..MaxMsgs -> Nat]
  /\ answers \in [1..MaxMsgs -> SUBSET Uri]
  /\ expected \in [1..MaxMsgs -> SUBSET Uri]
  /\ steady \subseteq asked

(* The server has booted and reads the workspace, or it has read it all    *)
(* and the client may have reopened one of the files (Add of module        *)
(* TextDocs: that file is then missing in the lists of callers).           *)
CallersIn(texts, u) == {c \in DOMAIN texts : u \in texts[c].calls}

Stored(texts, reopened) ==
  [u \in DOMAIN texts |->
     [text |-> texts[u], listed |-> CallersIn(texts, u) # {},
      callers |-> CallersIn(texts, u) \ (reopened \ {u})]]

Init ==
  /\ pc = "recv"
  /\ \E w \in Worlds :
       \/ /\ docs = [u \in {} |-> Empty] /\ unscanned = w /\ discovery = "parsing"
       \/ /\ \E reopened \in {{}} \union {{u} : u \in Workspace} :
               docs = Stored(w, reopened)
          /\ unscanned = [u \in {} |-> Empty]
          /\ discovery = "gone"
  /\ ongoing = <<>> /\ blocked = {} /\ pool = {} /\ completed = {}
  /\ next = 1 /\ asked = {}
  /\ replies = [m \in 1..MaxMsgs |-> 0]
  /\ answers = [m \in 1..MaxMsgs |-> {}]
  /\ expected = [m \in 1..MaxMsgs |-> {}]
  /\ steady = {}

----------------------------------------------------------------------------
(* The list of ongoing tasks.                                              *)

(* find_ongoing_task_by_id, find_ongoing_task_by_doc and task_blocked go   *)
(* through the list until an entry fits; an empty slot before that entry   *)
(* ends the server ("No empty slots allowed.").                            *)
MeetsEmpty(list, fitting) ==
  \E i \in DOMAIN list : /\ list[i] = Empty
                         /\ \A j \in 1..(i - 1) : list[j] \notin fitting

Index(fitting) == CHOOSE i \in DOMAIN ongoing :
                    /\ ongoing[i] \in fitting
                    /\ \A j \in 1..(i - 1) : ongoing[j] \notin fitting

EntriesIn(list) == {list[i] : i \in DOMAIN list}
Entries == EntriesIn(ongoing)

WithId(id) == {e \in Entries : e.kind \in {"goto", "refs", "rename"} /\ e.id = id}

EntriesFor(t) == IF t.kind = "update"
                 THEN {e \in Entries : e.kind = "update" /\ e.uri = t.uri}
                 ELSE WithId(t.id)

Remove(i) == [j \in 1..(Len(ongoing) - 1) |->
                IF j < i THEN ongoing[j] ELSE ongoing[j + 1]]

(* task_blocked.  Rounds have no entry of their own and block nothing.     *)
Blocks(t, e) ==
  IF t.kind = "rename"
  THEN e.kind = "rename" \/ (e.kind = "update" /\ e.uri \in DOMAIN t.ops)
  ELSE e.kind = "rename" \/ (e.kind = "update" /\ e.uri = t.uri)

Blockers(t, list) == {e \in EntriesIn(list) : Blocks(t, e)}

TaskBlocked(t, list) ==
  \/ t.kind = "rename" /\ discovery # "gone"
  \/ Blockers(t, list) # {}

NewEntry(kind, id, u) ==
  [kind |-> kind, id |-> id, phase |-> "origin", origin |-> u, ready |-> TRUE,
   total |-> 0, counted |-> 0, undone |-> {}, visited |-> {}, found |-> {},
   subs |-> {}, refs |-> {}]

Track(t) == CASE t.kind = "update" -> [kind |-> "update", uri |-> t.uri]
              [] t.kind = "rename" -> [kind |-> "rename", id |-> t.id]
              [] OTHER -> NewEntry(t.kind, t.id, t.uri)

(* add_task_status_tracking: a task of a round is not tracked.             *)
Schedule(t) ==
  /\ pool' = pool \union {t}
  /\ ongoing' = IF IsLookup(t) /\ t.phase # "origin" THEN ongoing
                ELSE Append(ongoing, Track(t))

TrySchedule(t) ==
  \/ /\ TaskBlocked(t, ongoing)
     /\ blocked' = blocked \union {t}
     /\ UNCHANGED <<ongoing, pool>>
  \/ ~TaskBlocked(t, ongoing) /\ Schedule(t) /\ UNCHANGED blocked

Panic(cause) == /\ pc' = cause
                /\ UNCHANGED <<store, tasks, client, history>>

(* Responses, and what is remembered of the requests that have none when a *)
(* document changes.                                                       *)
Answer(id, files) ==
  /\ replies' = [replies EXCEPT ![id] = @ + 1]
  /\ answers' = [answers EXCEPT ![id] = files]
  /\ UNCHANGED <<next, asked>>

Answered == {m \in asked : replies[m] > 0}

DocsChange ==
  /\ steady' = steady \intersect Answered
  /\ expected' = [m \in 1..MaxMsgs |-> IF m \in Answered THEN expected[m] ELSE {}]

----------------------------------------------------------------------------
(* Rounds.                                                                 *)

(* TaskProgress::new with the scripts to ask first.                        *)
Start(e, phase, pairs, total) ==
  [e EXCEPT !.phase = phase, !.ready = TRUE, !.total = total, !.counted = 0,
            !.undone = pairs, !.visited = {}]

(* prepare_goto_external_macro_def_req and                                 *)
(* prepare_find_external_macro_definitions_req.                            *)
AskCallers(e, u, found) ==
  [Start(e, "callers", {<<c, u>> : c \in docs[u].callers},
         Cardinality(docs[u].callers)) EXCEPT !.found = found]

(* prepare_find_macro_references_req: for a global macro every script that *)
(* mentions it is asked as well.                                           *)
AskDefinitions(e, u, t) ==
  [Start(e, "definitions", Alone({u}), 1) EXCEPT
     !.subs = IF t.global THEN {v \in Known : Mentions(docs[v].text)} ELSE {}]

(* TaskProgress::advance, then mark_completed unless scripts are left.     *)
Advance(e) ==
  IF e.counted + 1 >= e.total
  THEN [e EXCEPT !.ready = TRUE, !.counted = 0,
                 !.total = IF e.undone = {} THEN 0 ELSE e.total]
  ELSE [e EXCEPT !.counted = e.counted + 1]

(* find_external_macro_definition and                                      *)
(* find_external_definitions_for_macro_ref: the search starts at the calls *)
(* of the script it came from, and ends if there are none.                 *)
CallersAsked(e, t) ==
  [e EXCEPT !.found = @ \union {u \in {t.uri} : DefinesFor(t.text, t.callee)},
            !.undone = @ \union IF UnresolvedFor(t.text, t.callee)
                                THEN {<<c, t.uri>> : c \in t.callers}
                                ELSE {}]

(* recv_find_macro_def_references_sync.                                    *)
DefinitionsAsked(e, t) ==
  [e EXCEPT !.refs = @ \union {t.uri}, !.subs = @ \union t.text.after]

(* recv_find_subscript_macro_references_sync.                              *)
SubscriptsAsked(e, t) ==
  [e EXCEPT !.refs = @ \union {u \in {t.uri} : t.text.uses},
            !.undone = @ \union Alone(t.text.inherits)]

Asked(e, t) == Advance(CASE e.phase = "callers" -> CallersAsked(e, t)
                         [] e.phase = "definitions" -> DefinitionsAsked(e, t)
                         [] e.phase = "subscripts" -> SubscriptsAsked(e, t))

IsRounds(e) == e.kind \in {"goto", "refs"} /\ e.phase \in Phase
Finished(e) == IsRounds(e) /\ e.total = 0
Ready(e) == IsRounds(e) /\ e.total > 0 /\ e.ready

(* Deviation: a script is asked once, whatever script it calls.            *)
NewByScript(e) == {p \in e.undone : \A q \in e.visited : q[1] # p[1]}

New(e) == e.undone \ e.visited

(* Deviation: nothing is done if there is nothing new to ask.              *)
QueueOnlyNew(e) ==
  IF New(e) = {} THEN e
  ELSE [e EXCEPT !.total = Cardinality(New(e)), !.ready = FALSE, !.counted = 0,
                 !.visited = @ \union New(e), !.undone = {}]

(* Deviation: the scripts that were asked before are waited for as well.   *)
QueueCountAll(e) ==
  IF e.undone = {} THEN e
  ELSE [e EXCEPT !.total = Cardinality(e.undone), !.ready = FALSE, !.counted = 0,
                 !.visited = @ \union New(e), !.undone = {}]

(* queue_goto_external_macro_definitions,                                  *)
(* queue_find_external_macro_definitions_req and the next_lookups          *)
(* functions of the other phases.  If nothing is new the total is zero,    *)
(* and the lookup is finished in the next pass.                            *)
Queue(e) ==
  IF e.undone = {} THEN e
  ELSE [e EXCEPT !.total = Cardinality(New(e)), !.ready = FALSE, !.counted = 0,
                 !.visited = @ \union New(e), !.undone = {}]

QueuedBy(e) == IF Ready(e) THEN New(e) ELSE {}

TaskFor(e, p) ==
  [kind |-> e.kind, id |-> e.id, phase |-> e.phase, uri |-> p[1], callee |-> p[2],
   text |-> docs[p[1]].text,
   callers |-> IF e.phase = "callers" THEN docs[p[1]].callers ELSE {}]

(* find_global_macro_definitions.                                          *)
Globals(o) == {u \in Known \ {o} : docs[u].text.global}

(* A phase has finished: the next one begins or the results are handed     *)
(* over.  The entry stays until they have been received, but for a lookup  *)
(* that found no definition it is taken and not put back                   *)
(* (progress_find_external_macro_definitions).                             *)
Conclude(e) ==
  IF e.kind = "goto" THEN [e EXCEPT !.found = {}]
  ELSE CASE e.phase = "callers" /\ e.found = {} -> Empty
         [] e.phase = "callers" /\ e.found # {} ->
              Start(e, "definitions", Alone(e.found), Cardinality(e.found))
         [] e.phase = "definitions" ->
              Start(e, "subscripts", Alone(e.subs), Cardinality(e.subs))
         [] e.phase = "subscripts" -> [e EXCEPT !.refs = {}]

DoneBy(e) ==
  IF ~Finished(e) THEN {}
  ELSE IF e.kind = "goto"
  THEN {[id |-> e.id, files |-> e.found \union Globals(e.origin)]}
  ELSE CASE e.phase = "callers" /\ e.found = {} ->
              {[id |-> e.id, files |-> {e.origin}]}
         [] e.phase = "subscripts" -> {[id |-> e.id, files |-> e.refs]}
         [] OTHER -> {}

Progressed(e) == IF Finished(e) THEN Conclude(e)
                 ELSE IF Ready(e) THEN Queue(e)
                 ELSE e

----------------------------------------------------------------------------
(* recv_completed_tasks, process_completed_task.                           *)
At(t) == Index(EntriesFor(t))

RecvPanic(t) ==
  /\ pc = "recv"
  /\ t \in pool
  /\ MeetsEmpty(ongoing, EntriesFor(t))
  /\ Panic("empty slot")

Received(t) ==
  /\ pc = "recv"
  /\ t \in pool
  /\ ~MeetsEmpty(ongoing, EntriesFor(t))
  /\ pool' = pool \ {t}
  /\ UNCHANGED <<pc, unscanned, discovery, blocked, completed>>

Convert(t, e) == /\ ongoing' = [ongoing EXCEPT ![At(t)] = e]
                 /\ UNCHANGED client

Respond(t, files) == /\ ongoing' = Remove(At(t))
                     /\ Answer(t.id, files)

HasCallers(u) == u \in Known /\ docs[u].listed

(* process_goto_definition_result, after find_definition.                  *)
GoToDefinitionResult(t) ==
  LET here == {u \in {t.uri} : Defines(t.text)} IN
  IF Unresolved(t.text) /\ HasCallers(t.uri)
  THEN Convert(t, AskCallers(ongoing[At(t)], t.uri, here))
  ELSE Respond(t, here)

(* process_find_references_result, after find_references.                  *)
FindReferencesResult(t) ==
  LET here == {u \in {t.uri} : Defines(t.text)} IN
  IF Unresolved(t.text) /\ HasCallers(t.uri)
  THEN Convert(t, AskCallers(ongoing[At(t)], t.uri, here))
  ELSE IF here # {}
  THEN Convert(t, AskDefinitions(ongoing[At(t)], t.uri, t.text))
  ELSE Respond(t, IF t.text.search = "none" THEN {} ELSE {t.uri})

RecvOrigin(t) ==
  /\ Received(t)
  /\ IsLookup(t) /\ t.phase = "origin"
  /\ IF t.kind = "goto" THEN GoToDefinitionResult(t) ELSE FindReferencesResult(t)
  /\ UNCHANGED <<docs, history>>

(* recv_goto_external_macro_def_sync and                                   *)
(* recv_find_external_definitions_for_macro_reference_sync,                *)
(* recv_find_macro_def_references_sync,                                    *)
(* recv_find_subscript_macro_references_sync.                              *)
RecvRound(t) ==
  /\ Received(t)
  /\ IsLookup(t) /\ t.phase \in Phase
  /\ Convert(t, Asked(ongoing[At(t)], t))
  /\ UNCHANGED <<docs, history>>

(* TaskDone::TextDocEdit: callers are left alone.                          *)
RecvUpdate(t) ==
  /\ Received(t)
  /\ t.kind = "update"
  /\ docs' = [docs EXCEPT ![t.uri].text = t.text]
  /\ ongoing' = Remove(At(t))
  /\ DocsChange
  /\ UNCHANGED client

(* TaskDone::DidRenameFiles, TextDocs::rename_files: the documents move    *)
(* and every name in a document changes.  Lookups keep the names they have *)
(* collected.                                                              *)
RenamedDoc(ops, d) ==
  [text |-> RenamedText(ops, d.text), listed |-> d.listed,
   callers |-> Renamed(ops, d.callers)]

RecvRename(t) ==
  /\ Received(t)
  /\ t.kind = "rename"
  /\ docs' = [u \in Renamed(t.ops, Known) |->
                RenamedDoc(t.ops, docs[CHOOSE v \in Known : To(t.ops, v) = u])]
  /\ ongoing' = Remove(At(t))
  /\ DocsChange
  /\ UNCHANGED client

(* TaskDone::WorkspaceFileParseSync, TextDocs::add: callers of the new     *)
(* document are looked up; the documents it calls do not learn of it until *)
(* the discovery ends.  A scan that fails stores nothing.                  *)
Texts == [u \in Known |-> docs[u].text]

RecvScan(u) ==
  /\ pc = "recv"
  /\ u \in DOMAIN unscanned
  /\ unscanned' = [v \in DOMAIN unscanned \ {u} |-> unscanned[v]]
  /\ docs' = LET all == [v \in Known \union {u} |->
                            IF v = u THEN unscanned[u] ELSE docs[v].text]
             IN [v \in Known \union {u} |->
                   IF v = u
                   THEN [text |-> all[u], listed |-> CallersIn(all, u) # {},
                         callers |-> CallersIn(all, u)]
                   ELSE docs[v]]
  /\ DocsChange
  /\ UNCHANGED <<pc, discovery, tasks, client>>

EndRecv == /\ pc = "recv"
           /\ pc' = "completed"
           /\ UNCHANGED <<store, tasks, client, history>>

(* From the list `completed`: the results of a lookup become the response  *)
(* and its entry is removed, or TaskDone::WorkspaceFileDiscovery.          *)
RecvCompleted(d) ==
  /\ pc = "completed"
  /\ d \in completed
  /\ IF MeetsEmpty(ongoing, WithId(d.id))
     THEN Panic("empty slot")
     ELSE /\ completed' = completed \ {d}
          /\ ongoing' = Remove(Index(WithId(d.id)))
          /\ Answer(d.id, d.files)
          /\ UNCHANGED <<pc, store, blocked, pool, history>>

RecvDiscovery ==
  /\ pc = "completed"
  /\ discovery = "finished"
  /\ discovery' = "gone"
  /\ docs' = [u \in Known |->
                [docs[u] EXCEPT !.listed = @ \/ CallersIn(Texts, u) # {},
                                !.callers = @ \union CallersIn(Texts, u)]]
  /\ DocsChange
  /\ UNCHANGED <<pc, unscanned, tasks, client>>

EndCompleted ==
  /\ pc = "completed"
  /\ completed = {} /\ discovery # "finished"
  /\ pc' = "blocked"
  /\ UNCHANGED <<store, tasks, client, history>>

----------------------------------------------------------------------------
(* try_schedule_blocked.                                                   *)
ScheduleBlocked(t) ==
  /\ pc = "blocked"
  /\ t \in blocked
  /\ ~TaskBlocked(t, ongoing)
  /\ Schedule(t)
  /\ blocked' = blocked \ {t}
  /\ UNCHANGED <<pc, store, completed, client, history>>

EndBlocked ==
  /\ pc = "blocked"
  /\ \A t \in blocked : TaskBlocked(t, ongoing)
  /\ pc' = "process"
  /\ UNCHANGED <<store, tasks, client, history>>

----------------------------------------------------------------------------
(* process_msg.                                                            *)
Message == pc = "process" /\ next <= MaxMsgs /\ next' = next + 1

LangRequest(kind, u, files) ==
  /\ Message
  /\ u \in Known
  /\ asked' = asked \union {next}
  /\ TrySchedule([kind |-> kind, id |-> next, phase |-> "origin", uri |-> u,
                  callee |-> u, text |-> docs[u].text, callers |-> {}])
  /\ expected' = [expected EXCEPT ![next] = files]
  /\ steady' = steady \union {next}
  /\ UNCHANGED <<pc, store, completed, replies, answers>>

(* process_goto_definition_req and process_find_references_req; a request  *)
(* for a document that is not known is answered at once, see TaskScheduler.*)
GoToDefinition(u) == LangRequest("goto", u, FoundDefinitions(docs, u))
FindReferences(u) == LangRequest("refs", u, FoundReferences(docs, u))

(* Changes and renames come from a client that waits for the one before    *)
(* (for others see TaskScheduler), but not for lookups.                    *)
Unsettled == {t \in pool \union blocked : ~IsLookup(t)}

DidChange(u, t) ==
  /\ Message
  /\ u \in Known /\ docs[u].text # t /\ Unsettled = {}
  /\ TrySchedule([kind |-> "update", uri |-> u, text |-> t])
  /\ UNCHANGED <<pc, store, completed, asked, replies, answers, history>>

DidRenameFiles(ops) ==
  /\ Message
  /\ Unsettled = {}
  /\ DOMAIN ops \subseteq Known
  /\ {ops[o] : o \in DOMAIN ops} \intersect Known = {}
  /\ TrySchedule([kind |-> "rename", id |-> next, ops |-> ops])
  /\ UNCHANGED <<pc, store, completed, asked, replies, answers, history>>

EndProcess == /\ pc = "process"
              /\ pc' = "progress"
              /\ UNCHANGED <<store, tasks, client, history>>

----------------------------------------------------------------------------
(* progress_multi_part_tasks: every entry moves on, then the tasks of the  *)
(* new rounds are scheduled.  The lookups unwrap the documents they ask    *)
(* ("File must be known at this point.").                                  *)
Queued == UNION {{<<e, p>> : p \in QueuedBy(e)} : e \in Entries}
Progressing == [i \in DOMAIN ongoing |-> Progressed(ongoing[i])]

Progress ==
  /\ pc = "progress"
  /\ \A q \in Queued : q[2][1] \in Known
  /\ LET new == {TaskFor(q[1], q[2]) : q \in Queued}
         held == {t \in new : TaskBlocked(t, Progressing)}
     IN /\ \A t \in new : ~MeetsEmpty(Progressing, Blockers(t, Progressing))
        /\ pool' = pool \union (new \ held)
        /\ blocked' = blocked \union held
  /\ ongoing' = Progressing
  /\ completed' = completed \union UNION {DoneBy(e) : e \in Entries}
  /\ discovery' = IF discovery = "parsing" /\ DOMAIN unscanned = {}
                  THEN "finished" ELSE discovery
  /\ pc' = "recv"
  /\ UNCHANGED <<docs, unscanned, client, history>>

ProgressPanic ==
  /\ pc = "progress"
  /\ IF \E q \in Queued : q[2][1] \notin Known
     THEN Panic("file unknown")
     ELSE /\ \E q \in Queued :
               MeetsEmpty(Progressing, Blockers(TaskFor(q[1], q[2]), Progressing))
          /\ Panic("empty slot")

Receive ==
  \/ \E t \in pool : \/ RecvOrigin(t) \/ RecvRound(t) \/ RecvUpdate(t)
                     \/ RecvRename(t) \/ RecvPanic(t)
  \/ \E u \in DOMAIN unscanned : RecvScan(u)

Loop == \/ EndRecv
        \/ \E d \in completed : RecvCompleted(d)
        \/ RecvDiscovery \/ EndCompleted
        \/ \E t \in blocked : ScheduleBlocked(t)
        \/ EndBlocked \/ EndProcess \/ Progress \/ ProgressPanic

ProcessMsg == \/ \E u \in Uri : \/ GoToDefinition(u) \/ FindReferences(u)
                                \/ \E t \in EditTo[u] : DidChange(u, t)
              \/ \E ops \in Renames : DidRenameFiles(ops)

Done == pc \in Crash /\ UNCHANGED vars

Next == Receive \/ Loop \/ ProcessMsg \/ Done

Spec == Init /\ [][Next]_vars

(* The loop keeps cycling, every task the workers have finishes, and what  *)
(* has finished is received in one of the next cycles.  There are finitely *)
(* many tasks, so that strong fairness for all of them together is enough. *)
FairSpec == Spec /\ WF_vars(Loop) /\ SF_vars(Receive)

----------------------------------------------------------------------------
(* Properties.                                                             *)

RoundsOf(e) == {t \in pool \union blocked :
                  IsLookup(t) /\ t.id = e.id /\ t.phase # "origin"}

(* While a round is on, TaskProgress waits for exactly the tasks of the    *)
(* lookup that run or are held back by an edit or a rename, all of them of *)
(* its current phase; between rounds there are none, so that no round is   *)
(* ended early, and none waits for a result that does not come.            *)
CountersExact ==
  /\ TypeOK
  /\ \A e \in Entries : IsRounds(e) =>
       /\ \A t \in RoundsOf(e) : t.phase = e.phase
       /\ Cardinality(RoundsOf(e)) = IF e.ready THEN 0 ELSE e.total - e.counted

PanicCauses ==
  /\ pc = "file unknown" =>
       \/ ~(Workspace \subseteq Known)
       \/ \E q \in Queued : q[2][1] \notin Known /\ q[1].id \notin steady
  /\ pc = "empty slot" =>
       \/ ~(asked \subseteq steady)
       \/ \E u \in Known : docs[u].listed /\ Definitions(docs, u) = {}

(* A lookup during which no document changes answers with exactly the      *)
(* files the closures of MacroReach name: no caller and no called script   *)
(* is forgotten between the rounds, none is counted that does not belong,  *)
(* in whatever order the results of a round arrive and with any number of  *)
(* other lookups, on call graphs with cycles too.  Only two things end the *)
(* server in a lookup: a script that is not stored (in the index of files, *)
(* but not read yet or not readable, or renamed since its name was         *)
(* collected), and a search for references that found no definition        *)
(* anywhere.                                                               *)
AnswersExact ==
  /\ \A m \in steady : replies[m] = 1 => answers[m] = expected[m]
  /\ PanicCauses

(* Every request is answered once, after however many rounds, unless the   *)
(* loop panics.                                                            *)
Promise == INSTANCE RequestReply WITH
             Request <- 1..MaxMsgs, up <- pc \notin Crash

EveryRequestAnsweredOnce == Promise!FairSpec

=============================================================================
