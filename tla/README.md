# TLA+ models of t32-language-server

A verification development kept beside the language server for TRACE32
PRACTICE scripts (`src/ls`).  The server is one main thread that reads messages
of an editor, keeps the documents and an index of the workspace, and hands work
to a pool of threads whose results come back over a channel.  The modules here
model how messages are cut out of the byte stream and decoded, how the work is
ordered, blocked, tracked and answered, how the pool passes it on, how the server
boots and how it ends; and what the work computes: texts under changes, semantic
tokens, folds, and the definitions and references of macros, subroutines and labels.

Contents: the system and its parts, the modules, the runs, fairness, the proofs,
the disagreements between code and comments, what is not modelled, the plan.

## 1. The system

| Component | Source (under `src/ls/src`) | State | Operations | Talks to |
|---|---|---|---|---|
| Process life | `ls.rs`, `ls/bootloop.rs`, `ls/mainloop.rs`, `ls/proc.rs` | `InitState`/`RunState` (shutdown and exit flags), incoming and postponed messages | handshake, boot loop, main loop, exit codes, check of the parent process | transport (channel), scheduler |
| Transport | `ls/transport.rs`, `stdiotrans.rs`, `ls/lsp.rs`, `ls/lsp/header.rs` | reader process, worker thread with read buffer and decoder, channel | read and split the stream, heartbeat, drop | process life, client |
| Messages | `ls/lsp/jsonrpc.rs`, `ls/request.rs`, `ls/response.rs` | none | decode, refuse, encode | transport, process life |
| Task scheduler | `ls/tasks.rs`, `ls/tasks/docsync.rs`, `ls/tasks/lang.rs` | `Tasks {runner, ongoing, completed, blocked}` | `process_msg`, `try_schedule`, `try_schedule_blocked`, `recv_completed_tasks`, `progress_multi_part_tasks` | pool, document store, file index, client |
| Worker pool | `ls/tasks/runners.rs` | a queue per worker, job counter, running flag, condition variable | `schedule`, `run`, `try_push`, `try_pop`, `aborted`, `drop` | scheduler (jobs in, results out) |
| Start, discovery, progress | `ls/tasks/startup.rs`, `ls/tasks/workspace.rs`, `ls/tasks/progress.rs` | entries `WorkspaceDiscovery` and `WindowWorkDoneProgress` of `ongoing`, `TaskProgress` | locate, index and parse the files; create, begin, end or abort the report | scheduler, client |
| Document store | `ls/doc.rs`, `ls/doc/store.rs` | slots of open and closed documents, registry, free lists, callers, macro, call target and command indices | `add`, `update`, `close`, `sync`, `rename_files`, `get_call_relations` | scheduler |
| Text documents | `ls/doc/textdoc.rs` | text and line table | conversion of positions, `update` by ranges | document store, all tasks |
| File index | `ls/workspace.rs` | files by name and directory | `index_files`, `update`, resolution of partial paths | scheduler, lookups |
| Lookups of macros | `ls/tasks/lang/definitions.rs`, `references.rs` | entries with rounds of partial results | definition and reference searches along callers and callees | scheduler, document store |
| Folds, semantic tokens | `ls/tasks/lang/folds.rs`, `semantic.rs`, `t32/query.rs` | tokens or folds of one run of a query | capture, split, flatten, encode | text documents |
| Script analysis | `t32.rs`, `t32/` | facts stored with a document (subroutines, calls, macros) | extraction, definitions and references | tasks, lookups of macros |
| Configuration, utilities | `config.rs`, `utils.rs`, `ug.rs` | none | command line, tables | all |

What makes it hard:

- **Data captured early.** A task works on the clones its handler made when the
  message came; it may run after other tasks changed the original.
- **Blocking without locks.** Two tasks are kept apart only by `task_blocked`,
  which looks at `ongoing`. One pass schedules several waiting tasks and removes
  them afterwards by position with `swap_remove`.
- **Wake-ups without the mutex.** `schedule` and `drop` notify a condition
  variable whose mutex they do not hold; the job counter is changed after the
  push and after the pop, so it is wrong, and even wraps, for a moment.
- **Two loops for one protocol.** Results, answers and messages that belong to
  the boot loop may arrive in the main loop and the other way round.
- **A client that need not cooperate.** It can answer the request for a progress
  token late, with an error or never, and cancel it at any time.
- **A stream without frames.** A read may end anywhere: in a content, between
  messages, inside a header section that is scanned with a look at its last token.
- **Patched tables.** The line table is not rebuilt but patched after a change, with
  offsets of old and new text, bytes and UTF-16 units.
- **Dynamic scoping.** The macro a line of a script uses depends on the path of
  calls, blocks and jumps that led to it; the analysis looks at the text only.
- **Ends in every phase.** `exit` without `shutdown`, before `initialize`, while
  booting; a parent process that disappears; a worker that panics.

What must hold, by component, is what the properties in section 3 say; the list
of hazards with their lines is in `PROJECT.json`.

## 2. The modules

| Module | Models |
|---|---|
| `TaskScheduler` | the main loop: messages, blocking, tracking, results, documents, renames, scans |
| `RequestReply` | what a client is promised: every request is answered exactly once |
| `TaskSystem` | the worker pool, one step per operation on shared memory |
| `JobPool` | what the pool promises the scheduler |
| `TextDocs` | the document store: slots, free lists, registry, callers, indexes |
| `LocationIndex` | the sorted location maps behind two of the indexes, as operators |
| `TextStore` | what the store promises: a map from files to a status and a text |
| `WorkspaceStartup` | boot loop, hand-over, stages of the discovery, progress report |
| `MacroLookup` | the lookups of macros that take several rounds, beside edits, renames and the discovery |
| `MacroReach` | what such a lookup has to find: closures over the calls, without rounds |
| `Lifecycle` | handshake to exit: what becomes of a message, how the process ends |
| `Framing` | scanner, assembly, validation and recovery of header sections, as operators |
| `JsonRpc` | what is made of the content of a message, and what is written, as operators |
| `Transport` | reader process, worker thread, channel, receiving, answering and dropping |
| `LineMap` | line table, conversion and normalisation of positions, as operators |
| `TextDocument` | a text under changes by ranges, beside the text of the editor |
| `SemanticTokens`, `CodeFolds` | what captures of the queries are turned into, as operators |
| `DocumentQueries` | the requests for tokens and folds, capture by capture |
| `PracticeTree` | the tree of a script as the analysis walks it |
| `ScriptAnalysis` | subroutines, labels, calls and macro definitions extracted from a tree |
| `MacroScopes` | definitions and references found in one script and at its calls of others |
| `ScriptRuns` | what TRACE32 does when it executes a script, beside what the analysis says of it |
| `TaskSchedulerProofs` | theorems about `TaskScheduler` |
| `TaskSystemProofs` | theorems about `TaskSystem` |
| `WorkspaceStartupProofs` | theorems about `WorkspaceStartup` |
| `LifecycleProofs` | theorems about `Lifecycle` |
| `MacroLookupProofs` | theorems about `MacroLookup` |
| `TextDocsProofs` | what each operation does to the slots; theorems about `TextDocs` |
| `TextDocumentProofs` | lemmas about the line table; theorems about `TextDocument` |
| `DocumentQueriesProofs` | theorems about `DocumentQueries` |
| `MC...` | instances for TLC |

How they fit together: `TaskScheduler` treats the pool as a set of jobs that
finish in any order. That is `JobPool`, and `TaskSystem` is checked and proved to
implement it (`ImplementsJobPool`, `PoolIsJobPool`). `WorkspaceStartup` ends in the state in which
`TaskScheduler` begins (`InitBooted`): the discovery has its list of files and
nothing is stored. The `docs` of `TaskScheduler` are the map of `TextStore`, and
`TextDocs` is checked and proved to implement it. `MacroLookup` has the documents and
callers of `TextDocs` and the blocking of `TaskScheduler`, both reduced to what a lookup
sees; its promise to the client is `RequestReply` again. What a text yields in it
(the result of a search, what is passed on to scripts that are called) is what
`MacroScopes` computes. `Transport` delivers the messages that `Lifecycle` and
`TaskScheduler` begin with; `TextDocument` is the change that is one message number in
`TaskScheduler`, and `LineMap` serves it and `DocumentQueries`. `Lifecycle` leaves open when the boot loop ends and when an
accepted request is answered; `WorkspaceStartup` (`DiscoveryEnds`) and
`TaskScheduler` (`EveryRequestAnsweredOnce`) answer that.

Some modules hold definitions marked `Deviation`. They are plausible faults of
the code (a forgotten guard, a wrong element removed). No specification uses
them; `PROJECT.json` ("mutants") names for every property the deviation that
breaks it.

### TaskScheduler

`pc` is the place in the cycle of `handle_requests`: `recv` (results), `blocked`
(`try_schedule_blocked`), `process` (`process_msg`), `progress`
(`progress_multi_part_tasks`).

| In the model | In the code |
|---|---|
| `blocked`, `ongoing` | `Tasks.blocked`, `Tasks.ongoing` (updates by file, all else by identifier) |
| `discovery`, `unparsed` | the `WorkspaceDiscovery` entry and its `TaskProgress` |
| `pool`, `rx` | tasks with the workers; results in the channel |
| `docs` | the registry of `TextDocs`: absent, closed or open, and the text |
| `files` | `FileIndex` |
| `exec`, `ii` | the list of scheduled positions and the cursor of `try_schedule_blocked` |
| `editor`, `disk`, `asked`, `replies` | the client and the file system |

A text is the sequence of numbers of the messages that made it: this is all the
properties compare, and it shows every lost, repeated or reordered edit. The four
kinds of language requests that are answered by a single task are one kind,
`Lookup`: they have the same guards in `task_blocked` and capture the same
document. Panics of the loop are values of `pc` (`Crash`), so that a run can ask
whether they are reached. The results that wait in the channel are taken in any
order: the workers send them concurrently.

### TextDocs

| In the model | In the code |
|---|---|
| `slots[s]`, `len[s]` | the vectors `docs`, `trees`, `t32` and `callers` of status `s`, which always have the same length and the same empty places: one function on the occupied slots |
| `free[s]` | `free_list`, as a set: which free slot is taken makes no difference to what is stored |
| `registry` | `TextDocs.registry` |
| `macroIndex`, `targets`, `commands` | `macro_index`, `file_target_index`, `command_index` |
| `Add`, `Edit`, `Close`, `Sync`, `RenameFiles` | `add`, `update`, `close`, `sync`, `rename_files`, each with all the private functions it calls |
| `Open`, `Scan` | the places that call `add`: `TaskDone::TextDocNew`, and a scan, which does not overwrite |

A text is what the operations read of it: the scripts it calls in order, its
macros, its commands. A caller list is kept as a count for each file (the
code can only append, remove one and rename), together with whether the list exists. Spans are left
out of the location maps. `FileLocationMap::rename` writes the new name where the
old one stood and so can leave a vector unsorted that is bisected later; what
that finds is not specified, so the model calls the map `Spoiled` and says
nothing of it any more. `clean` is a history variable: no rename went to a name
in use.

### MacroLookup

A request for a macro starts as one task on its document. If the search leaves the
document, its entry in `Tasks.ongoing` becomes a lookup with rounds. A round queues one
task per script, counts results, collects the scripts of the next round.

| In the model | In the code |
|---|---|
| `ongoing`, with `Empty` | `Vec<Option<OngoingTask>>` and a `None` that `progress_find_external_macro_definitions` leaves |
| an entry's `phase` | `GoToExternalMacroDef` and `FindMacroReferencesPhase` |
| `total`, `counted`, `ready` | `TaskProgress` |
| `undone`, `visited` | `ExtMacroDefLookups`, `FileCallMap`: pairs of a script and the script it calls |
| `found`, `subs`, `refs` | results, the subscripts to ask and the references, as files |
| `RecvOrigin`, `RecvRound` | the `process_..._result` and `recv_..._sync` functions |
| `Progress` | `progress_multi_part_tasks`: all entries move on, then the new tasks are scheduled |
| `docs[u].listed`, `.callers` | whether the list of callers exists, and its files |

What a task finds in a syntax tree is an attribute of the text (the head of the module
lists them): whether a search ends with a final definition, with one that need not
hold (partial), with nothing yet (open) or is aborted; for which calls a definition is in
force; to which scripts it is passed on. One macro is looked at. Edits and renames come
from a client that waits for the one before, but not for its lookups. `expected` records
what `MacroReach` demands when the request is sent, `steady` the requests during which
no document changed; `PanicCauses` tells what `pc` shows if the loop panics. Changes of files that scans bring count as changes.

### TaskSystem

One step is one operation on shared memory: a look at the counter, a locked
queue, a counter change, a notification. Mutex and condition variable have the
semantics of the standard library, spurious wake-ups included. The counter has
`Modulus` values, 2^32 in the code. The atomics are relaxed in the code; the model shows their
operations to all threads in one order, which is a simplification.

### WorkspaceStartup

The cycle of `bootloop::start` and of the main loop with the discovery's entry
(`discovery`: phase, whether its jobs are scheduled, results it waits for) and the
progress entry (`progress`: phase, notifications still due). `chan` is what the
client sent, `sent` what it got. The progress phases are those of
`WindowWorkDoneProgress`. Reports between begin and end are left out, because
`completed / total` is an integer division that is 0 until the last file, and the
code sends nothing for 0.

### Lifecycle

`phase` is the function that runs (`wait_for_initialize_req`, boot loop, main
loop); `chan`, `incoming`, `postponed` are the places of a message; `answer` and
`handled` record its fate. The client initializes once and is silent after `exit`.
Everything else it may send at any time, in any order.

### Transport

The client's stream is a sequence of units: a character of a header section each,
three for a content (a colon and a space, which begin a value wherever they stand, and
one that stands for the document). A script is what the client sends: a document, the
shape of its header section, and what stands in front of it. Six kinds of that are
modelled (`Junk`): nothing; text without the mark of a message start; letters that run into
the name of the first field (`lsp.rs:7`); a value that runs into its line; the line of a
field nobody knows; the line of another length, as the remains of a broken message.

| In the model | In the code |
|---|---|
| `Listen` | the child process that copies standard input (`stdiotrans.rs`); it ends a piece anywhere |
| `Read`, `ReadEnd`, `Decode` | the loop of the worker thread: `read_stdin`, one call of `lsp::parse`, one `send` |
| `decoder` | `Decoder`: state, rest of the buffer, tokens kept between reads |
| `ReadMsg`, `Answer`, `ReadDisconnected` | `read_msg` and `recv_msg` of the main loop, `make_response` |
| `Close`, `Kill`, `Join` | the drop of `StdioChannel` |

A panic of the parser is a buffer called `Panicked`, one of the validation (an index behind
the tokens that recovery has left, `header.rs:133`) the length `Panic`. A document of `JsonRpc` is the
record of the fields the code branches on. `cut` is a history variable: a read has
ended behind the mark of a header section and before its end.

### TextDocument, LineMap

A text is a sequence of characters: a letter of one byte, a wide one of four bytes
and two UTF-16 units, CR, LF. `lines` is the `LineMap` (offsets of the lines, last
column of each), `edit` the `InputEdit` for Tree-sitter, `editor` the text as the
editor has it. An offset that underflows is `Top`; a slice outside of the text or
inside a character is a panic (`Applicable`).

### DocumentQueries, SemanticTokens, CodeFolds

`seen` are the captures so far and `found` the tokens or folds made of them with the
last capture, as in `capture_semantic_tokens` and `capture_code_folds`. The query and
the tree are Tree-sitter's: the captures are any nodes in document order, nested
in any way (`Follows`). `answer` is the array of integers or the folding ranges after
splitting, flattening and encoding for what the client supports.

### PracticeTree, ScriptAnalysis, MacroScopes, ScriptRuns

A script is a sequence of lines, each a statement (one node) or the start of a block;
blocks are indented, which gives nodes the byte ranges the code compares. The
two analysis modules follow `t32/expressions.rs`, `t32/macros.rs` and the entry points in
`t32.rs` and `references.rs` function by function; walks over the tree with
a cursor are recursions over nodes. What
`import_doc` stores with a document is `t32`. `ScriptRuns` is the reference
they are compared with: an interpreter with a stack of frames (`stack`), one for each
block and each call, with the macros each defines, as the notes in
`t32/macros.rs` describe scopes and lifetimes. It is not code of the repository and its definitions
are marked external.

## 3. The runs

Passing runs.

| Run | Bounds | Why they are enough |
|---|---|---|
| `scheduler` | three files, two of them in the workspace, one of these unreadable, one rename (to the third), four messages of any kind; 838,712 states | Scans race the messages; an update, a rename and two further tasks are needed to have two tasks waiting at once for different reasons and a pass that starts both, which four messages give. The bound on messages is the only bound on behaviours; scans and the rename are complete. |
| `pool` | two workers, three jobs, one panics, counter of 8 values, may stop at any time; 93,715 states | Two workers are needed to steal and to be asleep together; three jobs to have one queued while both work. Eight values are enough for the wrap, since the counter is off by at most one job per thread. |
| `startup` | up to two files, all answers of the client; 22,645 states | No files, one, and more than one file are the cases of `TaskProgress`. |
| `text_docs` | three files (two in the workspace, the third only as a target of renames), two texts for one and one for the other, one rename, also over the other file; 242,923 states | Two documents are needed to take each other's slots and to call each other, a text that calls itself and one that calls the same script twice for the counts of callers. Open, close, scan and edit are not bounded. |
| `macro_lookup` | three files and a place to move one of them to, six call graphs, two messages (requests, one edit, one rename), discovery still reading or done, a file that was reopened; 861,973 states | The graphs have cycles, a script reached by two calls of which one has a definition, a definition that is redefined on the way, a global definition elsewhere and a missing file. Three scripts give four rounds. Two messages give two lookups at once or a lookup beside a change. |
| `lifecycle` | four messages; 25,175 states | `initialize`, `shutdown`, `exit` and one other message in every order and phase. |
| `transport` | scripts of two messages with every shape of a header section and every kind of junk, and of one document of each of 36 kinds; a read buffer that some of them overflow, three pieces; 324,883 states | A piece may end at every unit of the stream, so that a read ends at each place of header, content and gap. A second message shows what is left of the first, and what is in front of one whether recovery finds it. |
| `text_edit` | texts of up to four characters with all kinds of line breaks, two changes; 5,614 states | A change can start and end in the first, a middle and the last line, and the second one meets the table the first one left. |
| `queries` | texts of two lines, up to four captures (tokens) or of five lines with three (folds); 482,142 states | Three tokens nest two deep or lie beside each other in one, a fourth in one line; comments need a run of two and one more node. |
| `macro_scopes` | About 30,000 scripts of one to twelve lines: all main parts of up to three lines with all subroutines of up to two, calls in blocks, jumps, two subroutines that call each other, calls of a script; one macro; four frames; recursion breaker 3; 185,781 states | A use, its definition and one thing between them (block, call, jump, redefinition) in every order. The breaker (50 in the code) must exceed the depth a run needs, and recursion is cut at four frames. |

What they check.

- `scheduler`: `RenameAlone` (a rename runs beside no scan, no other rename and no
  update of a file it moves), `OneUpdateAtATime`, `DiscoveryCounts` (the
  discovery's counter is the number of scans under way, also for files that
  cannot be read), `TrackingExact` (the types, and each task has its own entry in `ongoing`,
  each entry its task, and `swap_remove` neither loses nor repeats a task),
  `EditorInSync` (once all is quiet the server has the editor's text of every open
  document and its index no file that was renamed, for a client that is `calm`, a
  history variable: every change came when no change of the same document and no rename
  was under way, and no file is moved to a name its editor still shows; for other clients
  it does not hold), `EveryRequestAnsweredOnce` (the scheduler
  implements `RequestReply`, with fairness) and `ComesToRest`.
- `pool`: `JobsAccounted` (no job is lost or taken twice; the counter is the number of
  queued jobs up to the operations under way, modulo `Modulus`), `SomebodyAwake` (a lost
  notification never leaves a queued job with every worker asleep),
  `ImplementsJobPool`. `SomebodyAwake` needs two workers and the code
  starts at least four; it is the reason why notifications without the mutex do no harm in
  `schedule`.
- `startup`: `ResultsExpected` (no result reaches a loop that holds it for
  unreachable, and other panics need a client that refuses, cancels or answers
  late), `ProgressInOrder`, `DiscoveryEnds`.
- `text_docs`: `SlotsExact` (a file is registered at exactly the slot of its document
  and the free slots are exactly the empty ones), `CallersKnown` (caller lists
  name stored scripts only; the lookups unwrap them), `MacrosFound` (no document is
  missing from the macro index), `ReferencesExact` (the other two indexes are
  exact while no rename goes to a name in use and as long as a map is in order),
  `SyncCompletes` (the end of the discovery completes every caller list, in
  whatever order files were scanned, opened and edited), `ImplementsTextStore`.
- `macro_lookup`: `AnswersExact` (a lookup during which no document changes answers
  with exactly the files the closures name, in whatever order results arrive; it ends
  the server only if a script it
  collected is not stored, which takes a file of the index that was not read or a document
  that changed since, or if a search for references finds no definition),
  `CountersExact` (`TaskProgress` counts exactly the tasks of the round that are
  outstanding), `EveryRequestAnsweredOnce`.
- `lifecycle`: `HandledInOrder` (work takes effect in the order it was sent and nothing
  is lost between channel, incoming, postponed and carried out),
  `EveryRequestServed`, `ExitEnds` (with the right exit code).
- `transport`: `FramesExact` (as long as no read ends inside a header section the messages
  of the client come through whole and in order, whatever the reads, past the junk that
  recovery can deal with, `Recovers`; the worker panics only at a header section
  where it cannot),
  `RequestsKeepTheirId`, `AllDelivered`, `DropReturns`.
- `text_edit`: `ChangesLand` (a change that meets an exact table replaces what the editor
  replaced, and Tree-sitter is told so), `TableKeptAtEnds` (changes in the
  first and the last line keep the table exact), `RoundTrip`.
- `queries`: `HighestCaptureShown` (a span has one token, that of the first of the captures with the
  highest index), `InnermostShown` (a decoded answer shows every
  character once, in the type of the innermost token), `CommentsFoldOnce` (comments
  without a gap are one fold, and no other fold of comments starts in its lines).
- `macro_scopes`: `ActiveDefinitionFound` (the definition that is in force on the path a run
  took is among the answers; also at a call of another script), `ActiveUseListed` (the
  use is among the references of the definition), `DefinitionsRegistered`,
  `TargetsAnswered` (calls and jumps under way are answered and listed),
  `CallersSearched` (what a script uses and does not define stays open for its callers).
  Premises (`SpacedCalls`, `GlobalsFirst`, `DefinedAlike`, `NeverPrivate`,
  `BlocksCalled`) name the scripts for which the analysis is known to differ; what
  happens to the others is listed below.

Runs that end in a violation. Each quotes a comment of the code and shows what the code
does:

| Run | What happens |
|---|---|
| `updates_in_order` | `swap_remove` moves the last waiting task to the front; of three waiting changes of one document the last overtakes the second. |
| `text_kept` | The part of the text that is scanned again after a change ends at an offset counted from the wrong place (`textdoc.rs:369`, `434`); behind the first line the table gets lines twice, and the next change lands elsewhere. |

### Other things met

The models contain what follows; no run is spent on it.

*Main loop.* A lookup that waits for an update of its document runs on the copy made
before it (`folds.rs:70`; `tasks.rs:1275` wants "the latest document version"). A file that vanishes
before its scan reads it is indexed and not stored; renaming it panics in
`rename_macro_index_refs` (`store.rs:927`, "Must be called after rename operation."). A change that waits for
a rename of its document completes under the old name and panics in
`TextDocs::update`. `add` takes a known script that is opened out of the caller lists of the scripts it
calls and does not put it back (`store.rs:277`), and lookups then miss it. `drop` of the pool
stores the flag and notifies between a worker's look and its wait; `join` waits for
ever (`runners.rs:492`; the test `does_not_deadlock` expects it to return). A search for
references asks callers, none defines the macro: the entry is taken and not put back, and the
next pass over the list panics (`references.rs:519`, "No empty slots allowed."). After two renames, one of
them over a file in use, the macro index can name a file that is not stored, which
the search for references unwraps (`references.rs:857`); a rename to a name that is
already called replaces its references (`rename_key`). A job that panics makes `drop` panic in
`join().expect()` (`runners.rs:500`). A client that refuses the token while the server boots
reaches `unreachable!` in the boot loop (`startup.rs:134`), an abort in the pass that
completes the discovery the one at `workspace.rs:159`, and a client that confirms the
token after the report is over an `unwrap` of `None` in `recv_responses`, without
tracing (all three named by `ResultsExpected`). A lookup that collected a script and is
overtaken by a rename of it, or reaches one that is not read, unwraps a document that
is not stored. An aborted progress still gets an end status without a begin
(`workspace.rs:157`); the boot loop drops the user guide data (`startup.rs:115`), which
nothing reads yet; a postponed request is refused if a shutdown request was read
after it (`tasks.rs:1107`).

*Transport.* A read that ends inside a header section can panic the worker: the parser
drains an end it has not read yet (`lsp.rs:185`,
`202`). `recv_msg` then panics too ("The channel's send half in the worker thread must
not disconnect first."). Recovery is meant to try "the remaining tokens until they all are used
up" (`lsp.rs:239`), but behind a length that is followed by neither a type nor the end of the header
section (a second length, or a field nobody knows) the validation drops tokens to recover and then
names one of them in its refusal, which is no longer there (`header.rs:133`): the worker
panics. The line of a length in front of a header that begins with the length, or with the type, is
enough; in front of a length and a type it is skipped, and so is an unknown field in front of any
header. A header value at the end of the buffer loses its last character (`header.rs:264`);
if that was the type behind a length, the validation panics in the same way. A value in front of a header in its line, such as the rest of a content
with a colon and a space behind a letter C, takes the first field with it; the message is refused without
an id, its content is scanned as a header section and takes the next header line
with it in turn. Neither `FramesExact` nor `AllDelivered` says anything of such a client
(`Recovers`), or of one whose header section is cut. Behind a content that is refused the worker waits for the
next read before it looks at the messages it already has (`transport.rs:144`), so that
`AllDelivered` speaks of clients that send nothing that is refused.
A response with a wrong version is answered with an error response
(`jsonrpc.rs:331`).

*Text documents.* A change that brings a CR and an LF together, or parts them, leaves
the line between them in the table or out of it. Two legal changes can make
the worker slice outside the text or inside a character, or drain lines from a table that has become
shorter (`Drainable`, `textdoc.rs:453`). The editor of the model sends positions up to the end
of their line; one behind it, which the protocol allows, is normalised by the code
(`textdoc.rs:501`) and not exercised. A range that ends behind
the last line is left there in the description for Tree-sitter. In a text without
a final line break a position past the end of the last line is moved to the end of
the text although the comment at `textdoc.rs:511` says otherwise.

*Queries.* `Range::contains` (`protocol.rs:2678`) compares columns of different lines, so
that tokens inside a token that crosses a line are lost when they are flattened. A
comment of one line that a statement follows stays a fold (`query.rs:788` wants at least three lines).
The note at `query.rs:74` on overlapping captures speaks of the pattern index, the code
compares capture indexes.

*Definitions.* A definition in the line behind a `GOSUB`, in its column, is taken to be
covered by the call (`SpacedCalls`). An assignment to a `PRIVATE` macro is taken for the definition of a
`LOCAL` one by the search of called subroutines, and the walk to references stops at a
`PRIVATE` redefinition although subroutines see the `LOCAL` macro below it
(`NeverPrivate`, `DefinedAlike`). A `GLOBAL` behind another definition is answered as the definition in
force, and one in a block hides from lines outside (`GlobalsFirst`). The lines of
a subroutine without a block are not reached when a block or the search of the
stack goes through its callers (`BlocksCalled`). Implicit definitions that are found at a call of another
script are not registered, which ends in `unreachable!("Retrieved macro definition must
already have been registered.")` (`references.rs:1179`): `&a=1` before `DO b.cmm`
is enough. `entry` and `parameters` in small letters are recognised and then reach `unreachable!`
(`macros.rs:1019`, `1421`). `ENTRY` and `PARAMETERS` outside of subroutines define nothing. In
a script without any `GOSUB` nothing is found from inside a subroutine. Definitions that a jump
skips or repeats count by their place in the text.

*Subroutines and labels.* A subroutine without a block is found if its `RETURN` is among the
next eleven statements; the code counts parentheses and comments of the blocks on the way
among them (`expressions.rs:1001`), the model statements only, and no script of the
run comes near the limit. A label with a command in its line is taken for a
label of that command's name and ends the scan. A script without subroutines has no
answer to a request for the references of a label. Macros in the
arguments of a `GOSUB` are never among references. The recursion breaker bounds the
depth of a walk along calls and not the number of its visits (`macros.rs:1889`).

## 4. Fairness

- *The loops* (`WF_vars(MainLoop)`, `WF_vars(Loop)`, `WF_vars(Serve)`): each is a
  `while` of one thread that never blocks; it sleeps for a bounded time only.
- *Results of lookups* (`SF_vars(Receive)` in `MacroLookup`): tasks finish and the loop
  receives what has finished in one of its next cycles. Strong, because receiving
  is enabled in a part of the cycle only; for all tasks together, because they are finitely many.
- *Workers* (`WF_vars(Run(w))`, `WF_vars(\E t \in pool : Finish(t))`): the operating
  system runs every thread; the jobs are terminating functions. The scheduler
  asks less than the pool gives: some job finishes, and the pool is finite.
- *`WF_vars(Finished # {} /\ Drop)`*: the main loop looks at `aborted()` in
  every cycle. Nothing else obliges it to stop.
- *End of the boot loop* (`SF_vars(EndCycle /\ ...)` in `Lifecycle`): what
  `DiscoveryEnds` shows in `WorkspaceStartup`; strong, because the end of a cycle is
  not enabled all the time.
- *Transport* (`WF_vars` of `Listen`, of the worker's steps, of the main loop's
  receiving and of the drop once it has begun): three threads of two processes that
  block on each other's data only. That the main loop answers or drops the channel is
  owed to nobody.
- `TextDocument`, `DocumentQueries` and `ScriptRuns` are functions and runs of a script and
  have safety properties only.
- *The client owes nothing*: no fairness on messages, answers or cancellation, and
  none on spurious wake-ups.

## 5. The proofs

`TaskSchedulerProofs` proves about `TaskScheduler`, for every
set of files, every set of renames that meets `UriAssumption`, any number of
messages:

| Theorem | States |
|---|---|
| `TypeCorrect` | `Spec => []TypeOK` |
| `UpdatesOneAtATime` | `Spec => []OneUpdateAtATime` |
| `RenamesRunAlone` | `Spec => []RenameAlone` |
| `DiscoveryCountsScans` | `Spec => []DiscoveryCounts` |
| `TrackingStaysExact` | `Spec => []TrackingExact` |
| `SchedulerKeepsPromise` | `Spec => Promise!Spec`, the refinement of `RequestReply` |
| `EditorStaysInSync` | `Spec => []EditorInSync` |

*Assumption.* `UriAssumption`: the workspace is finite and is, like the unreadable
and the open files, a set of files the client can name; a rename maps a set of files to distinct
files outside it. TLC evaluates it in the runs of `MCTaskScheduler`.

*Type correctness* is inductive as it stands. Its lemmas are about the operators
on sequences: what `Without` and `SwapRemove` return and keep, that the entry
`FirstEntry` chooses exists when the code marks a task completed, that the tasks
the handlers create are tasks.

*Safety.* None of the invariants of mutual exclusion is inductive: that two updates are apart
follows from `task_blocked` only if every update under way has its entry in
`ongoing`. The inductive invariant is

    Apart == TypeOK /\ UpdatesApart /\ RenamesApart /\ ScansCounted

`UpdatesApart` adds the entry of every update and that no update is with a worker
and in the channel at once; `RenamesApart` the same for renames; `ScansCounted` that a
file is scanned at most once and that scans exist only while the discovery
is parsing, which is what a waiting rename looks at. `StepKinds` reduces
`[Next]_vars` to seven kinds of steps as these invariants see them (nothing, a
task starts, finishes, ends, a scan is counted, the discovery ends, the
progress of the discovery), and one lemma per invariant and kind does the
rest. A starting task is the interesting case: `TaskBlocked` was false, so
`AppendKeeps` gives it an entry of its own. An ending one removes one entry:
`EndsKeeps` shows that all others stay.

*Tracking and answers.* These build on `Apart`. The inductive invariant is

    Tracked == Apart /\ NumbersApart /\ PassExact /\ EntriesKept /\ RequestsKept

A task keeps the number of its message, so that `NumbersApart` can say it is in
one list, once. `PassExact` is about the list that a pass cleans up by position: what is
scheduled lies behind the cursor and is with the workers; `RemoveScheduled` takes positions from
the last, so that `swap_remove` never moves one of them (the order of the rest is what
`updates_in_order` refutes, its contents are what is proved). `EntriesKept` is that each
task finds its entry and each entry has its task, `RequestsKept` that a request waits, runs
or has its one answer.

*The editor.* `CalmInStep == calm => InStep` is inductive together with `Tracked`. `InStep`
tells what a client that waits for its changes relies on meanwhile: the one update under
way leaves behind the text the editor shows, the one rename works on the index as it is,
the index holds files on disk only, and a document that no update is under way for has
the editor's text. The proof needed the premise on names that are still open in the editor: with two
renames, `a` to `b` and `c` to `a`, and an editor that never closed `a`, the property fails.

`TaskSystemProofs` proves about `TaskSystem`, for any number of workers and jobs and any
size of the counter (`PoolAssumption`):

| Theorem | States |
|---|---|
| `JobsStayAccounted` | `Spec => []JobsAccounted` |
| `WorkersStayAwake` | `NumWorkers > 1` implies `Spec /\ []CounterHasRoom => []SomebodyAwake` |
| `PoolIsJobPool` | `Spec => Abstract!Spec`, the refinement of `JobPool` |

*Argument.* `PoolInv` is inductive: each scheduled job is in a queue, with a worker or done
(`JobsPlaced`), in one place only (`JobsApart`), unanswered until then (`JobsPending`); the
counter is the number of queued jobs, less the one not yet counted, plus those popped and
still counted (`JobsCounted`). The locks of the queues play no part, since a push or a pop is one
step. `AwakeInv` strengthens `SomebodyAwake` to the steps between a push and its notification. A
worker only goes to sleep when the counter is 0; when the main loop is not inside
`schedule`, that means that nothing is queued (`ParkingSeesNoJobs`).
Both premises of `WorkersStayAwake` are the code's: `TaskSystem` is built with at least four
workers, and jobs that wrap a counter of 32 bits do not fit into memory
(`CounterHasRoom`). With one worker the lost notification is real.

`WorkspaceStartupProofs` proves about `WorkspaceStartup`, for any number of files and each kind
of client (`StartupAssumption`):

| Theorem | States |
|---|---|
| `ResultsStayExpected` | `Spec => []ResultsExpected` |
| `ProgressStaysInOrder` | `Spec => []ProgressInOrder` |

*Argument.* What a response may find depends on who read the messages before it, and whether a
report may end without having begun on how it was given up. The inductive invariant is

    StartupInv == TypeOK /\ Mail /\ Report /\ Drained /\ Stages /\ PanicCauses

`Mail` tells where the client's answer and its cancel notification are, `Report` what has been
sent in each phase of the report, `Drained` that completed tasks are gone before others are
completed, `Stages` that the jobs under way are those the discovery waits for. The
count of files parsed is exact by `JobsFinite`: one job for each file (`ResultCounted` counts
them down).

`LifecycleProofs` proves about `Lifecycle`, for any number of messages
(`LifecycleAssumption`):

| Theorem | States |
|---|---|
| `HandledStaysInOrder` | `Spec => []HandledInOrder` |
| `ExitCodeStaysRight` | `Spec => []ExitCodeRight`, the safety part of `ExitEnds` |

*Argument.* A message passes through channel, incoming and postponed. `LifeInv` orders the
lists at once (`MessagesOrdered`, `HandledFirst`): each is in the order of sending, postponed
before incoming before channel, what was carried out before all of them. `PhasesApart` says
which lists a phase has not begun to use, `RequestsPending` and `NotificationsKept` what became
of a message that is in none. The exit code follows from what the flag of the shutdown
request remembers (`EndAgreed`).

`TextDocsProofs` proves about `TextDocs`, for every set of files and
texts and any number of renames:

| Theorem | States |
|---|---|
| `SlotsStayExact` | `Spec => []SlotsExact` |
| `CallersStayKnown` | `Spec => []CallersKnown` |
| `MacrosStayFound` | `Spec => []MacrosFound` |
| `ReferencesStayExact` | `Spec => []ReferencesExact` |
| `SyncStaysComplete` | `Spec => SyncCompletes` |
| `StoreIsMap` | `Spec => ImplementsTextStore`, the refinement of `TextStore` |

*Assumption.* `StoreAssumption`: texts are over the given files, macros and
commands, a command is no file (the code gives them types of their own), and a rename maps a
set of files to distinct files outside it.

*Argument.* `StoreInv`, the types of registry, slots and free lists with
`SlotsExact`, is inductive. One lemma per operation tells
where each document is afterwards, and with which text and callers
(`AddEffect`, `EditEffect`, `CloseEffect`, `SyncEffect`, `RenameEffect`); the last follows a
document back to its old name (`Source`). The other theorems rest on these lemmas:
`CallersListed` and `MacrosListed` are the two invariants told by file instead of by
slot, each inductive together with `StoreInv`; the end of the discovery lists the callers
of every document anew (`ListingEffect`), so that `SyncListsCallers` owes nothing to the
steps before; in the refinement an operation
changes the entry of one file (`Entry`), a rename permutes entries, and `Sync` stutters.

`ReferencesExact` concerns what whole passes over a text or over the renamed files leave in an
index. `RefInv` adds to the invariant that the set of known files is finite and that, while
`clean` holds, each index *represents* the pairs of a file and what it names. A pass is a
fold; `FoldExists` gives it the sequence of its intermediate results, and what a step does
(`InsertedSeq`, `RemovedSeq`, `RenameLists`) is carried along that sequence
(`InsertChain`, `RemoveChain`, `RenameChain`) by `AllNumbers`, which argues with the least
number that fails. A new text is then the pairs of the old one, less what it
no longer names, and more what it names now (`UpdateRepresents`). A rename replaces one name after the other in all
pairs (`RenameStepRepresents`), in the order of the names (`Ordered`); `clean` is what makes each
new name one that no pair holds yet, so that no entry is overwritten and none is merged.

`MacroLookupProofs` proves about `MacroLookup`, for every finite set of files and any number
of messages:

| Theorem | States |
|---|---|
| `CountersStayExact` | `Spec => []CountersExact` |
| `LookupsKeepPromise` | `Spec => Promise!Spec`, the safety part of `EveryRequestAnsweredOnce` |
| `AnswersStayExact` | `Spec => []AnswersExact` |

*Assumption.* `LookupAssumption`: finitely many files; a rename maps a set of files to distinct
files outside it; texts stay texts when their scripts are renamed; a definition is inherited by
scripts the text calls, and a call names files of the index (`locate_script` in `t32/path.rs`
looks nowhere else). The finite set is what
the rounds are counted with (`Cardinality` of the pairs to ask).

*Argument.* A result of a round finds its lookup by the identifier of the request only, so that a
counter is right only if no identifier is used twice. The inductive invariant is

    LookupInv == TypeOK /\ IdsApart /\ IdsUsed /\ Tracking /\ Counting /\ Requests /\ Concluding

`IdsApart` and `IdsUsed`: an identifier belongs to one entry and to one task outside of rounds;
the tasks of a round share that of their lookup. `Tracking`: each task finds its entry, a task of a round
finds a lookup that is in the task's phase and waits for it (`Asks`), each waiting entry has
its task. `Counting` is `CountersExact` for the tasks that run or are blocked: a pass
of `Progress` adds a task for each new pair (`New`), a result takes one task and advances one counter,
and the phase changes only when none is left. `Requests`: a request waits, runs, is in rounds, is
concluded, or has its one answer; `Concluding`: a lookup that is done has no task. The
proof asked for guards of `Conclude` and `DoneBy` that exclude each other, as the returns of the code
do; the model had left that to the order of the cases.

`AnswersExact` compares what several rounds collect, one result after the other, with closures
over the documents. Its inductive invariant is

    ExactInv == LookupInv /\ StoreFits /\ LookupsFit /\ PanicCauses

The closures of `MacroReach` are recursive functions that grow a set until it no longer does. That
they are the least closed sets is shown once (`ChainsOf`, `InheritingOf`): iterates
grow or stay, and have settled after as many steps as there are pairs, by `Cardinality`. From there on
a closure is used by its two properties only. `RoundFits` says of a lookup in its rounds, and of the
tasks it waits for, that its pairs lie between the first ones and the closure and hold what each
answered pair named (`Covering`), and that what it has collected is what the answered
pairs give (`Collected`). When no pair is left to ask, the pairs are closed, which makes them
the closure; neither the order of results nor other lookups matter on the way. `AskCallers`,
`AskDefinitions` and `Conclude`, which begin phases, start from another closure in the same way. All
this holds of *steady* lookups: a change of a document takes every unanswered one out of `steady`, the
others need no documents any more (`DoneFit`, `AnswersFit`).

`PanicCauses` rests on where the names in a text come from: `StoreFits` says that they are files of the
index or stored ones that were renamed. If all files of the index are stored, a steady lookup asks for
stored documents only (`ReachKnown`); `EmptySlots` gives each empty slot the
search for references that left it. The proof showed the property to be wrong as it stood before: it
said that a file can be unknown only if some file of the index is not stored. TLC confirmed
with three messages, a rename and the one back, that a lookup
can keep the new name in between and ask for it when all files have their names
again. `PanicCauses` now names that case: the lookup is not steady.

`TextDocumentProofs` proves about `TextDocument`, for all texts a document is opened with, all
texts a change puts in and any number of changes; the lemmas about the line table come first:

| Theorem | States |
|---|---|
| `OffsetsRoundTrip` | `Spec => []RoundTrip` |
| `ChangesReachServer` | `Spec => ChangesLand` |
| `TableStaysExactAtEnds` | `Spec => TableKeptAtEnds` |

*Assumption.* `TextsAssumption`: texts are sequences of characters. The state invariant is
no more than that (`TextsTyped`); all else is about one change of a document whose table is exact.

*Argument.* Everything is told by characters instead of by offsets: `FullTable` says that the lines
of a table start behind the line breaks, `OffsetsGrow` that offsets are in the order of characters,
`LineAtFinds` that the bisection finds the last line that starts no later.
It is a recursive function, so what it computes follows only after some function is
shown to satisfy its equation: `SearchExists` builds one from the least depth at which each span
is settled: a least number takes the place of an induction. `RangeFound` and `ChangeDone` take a
change of the editor to the same two characters in the text of the server. After it,
`TableAfter` says of the new table what is true of it in every line (`Relisted`): up to the end of the new
text it lists the lines of the new text, each once and in order; the lines behind it follow, in order, but
the scan may have listed them before as well. That is why the end of the edit is always found
(`EndFound`), although the table as a whole is right in the first and in the last line only
(`TableKept`), and `text_kept` finds it wrong in between.

`DocumentQueriesProofs` proves about `DocumentQueries`, for all documents, any nesting of captures
and any number of them:

| Theorem | States |
|---|---|
| `HighestCaptureStaysShown` | `Spec => []HighestCaptureShown` |
| `CommentsStayFoldedOnce` | `Spec => []CommentsFoldOnce` |

*Assumption.* `DocsAssumption`: nodes start and end between characters, a capture has an index in
its query, and the folds query has three captures, one of them for comments only. The order of the
captures is that of `Follows`: outer nodes first, and a comment ends with a line.

*Argument.* The code looks at nothing but the last token or fold and the last capture. That this is enough
is a matter of order: `PositionsOrdered`, a lemma about line tables, turns the order of offsets into that of
positions, so that equal spans are equal nodes (`SameSpan`). All used captures of one node come in a row
(`SameInRow`): a node between them would have to be in it and around it. Hence `TokensFit` is inductive:
each token shows the capture on top of its node (`Top`), each used capture has its token, the last token
is that of the last used capture.

For the folds, runs of comments that cannot be made longer share no comment (`RunsApart`) and their
folds do not touch (`FoldsApart`), because a comment ends in a later line than it starts in. `FoldsFit` says that the
list holds folds of whole runs only, one of each and every long one, and that after a comment the last
fold is that of the run which the comment belongs to (`PriorFits`). A capture either
goes on with no run, and then the other runs are as they were (`WholeRunsKept`), or with the last one
(`WholeRunGrown`); what the code puts into the list is the same case by case (`FoldPut`, `FoldTakesPlace`,
`FoldGrows`, `FoldsStay`). Folds that are lost are too short.

`HighestCaptureShown` is stated more sharply for the proof than it was for the check: which of several
captures with the same index is shown, and with which of its types.

*Only model-checked.* All liveness, since liveness under fairness is out of the prover's
reach: `ComesToRest`, `DiscoveryEnds`, `EveryRequestServed`, `ExitEnds`, `AllDelivered`,
`DropReturns` and the fairness of `ImplementsJobPool` and `EveryRequestAnsweredOnce`, whose
safety parts are proved. Of `Transport`, what the scanner makes of
every stream of bytes, since it is a recursive function of several arguments, which the
prover does not read. Of `ScriptRuns`, the analysis, which is recursive over trees: its proof would
be an induction over data. Of `DocumentQueries`, `InnermostShown`: splitting, flattening and encoding are folds over
the tokens with a stack, and the client's decoding is one over their result. A fold over
a sequence is within reach, as `ReferencesExact` shows; these are left.

## 6. Not modelled

- The syntax of PRACTICE, the patterns of the queries and the parser, which are
  Tree-sitter's and lie outside `src`; docstrings; commands and their arguments as texts.
- Resolution of partial paths (`t32/path.rs`, `ls/workspace.rs`) and the search for files
  on disk: the files a call may mean are a constant (`Located`).
- The fields of the parameters of each LSP method, which serde derives, and the
  requests the server sends itself (`serialize_request`).
- Configuration and command line, user guide compiler and editor extension:
  functions without state, separate programs.
- In lookups: more than one macro; the locations within a file.
- Identifiers of the server's own requests, which count from 0 like those of a client
  (`find_ongoing_task_by_id` takes the first match, `tasks.rs:1654`).
- Time: the duty cycle, back-off and the interval of the parent check. A missing parent
  may be noticed at any empty read.
- The WASI build, which reads without the reader process. In native builds the end of the input is
  read as zero bytes for ever.
- Renames with two sources for one target or with a target that is a source.

## 7. Plan

1. Resolution of script calls and partial paths, which gives `Located`; identifiers of the
   server's requests; the duty cycle and its back-off.
2. Proofs: `RequestsKeepTheirId`; `InnermostShown`.
3. A composition of `TextDocument` with the scheduler: changes of a waiting document are
   applied in the order `UpdatesInOrder` asks for.
