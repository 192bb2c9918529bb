-------------------------- MODULE WorkspaceStartup --------------------------
(***************************************************************************)
(* From the end of the initialize handshake to the end of the workspace    *)
(* discovery: the boot loop (ls/bootloop.rs, ls/tasks/startup.rs), its     *)
(* hand-over to the main loop, the stages of the discovery (ls/tasks/      *)
(* workspace.rs) and the progress report to the client that goes with it   *)
(* (ls/tasks/progress.rs).                                                 *)
(*                                                                         *)
(* Both loops have the same cycle: read what the client sent and evaluate  *)
(* its responses, receive the results of finished jobs and then the tasks  *)
(* that the last cycle completed, process the other messages, and move the *)
(* entries of `ongoing` forward.  The boot loop locates and indexes the    *)
(* files; the main loop is entered with the index and has them parsed.     *)
(*                                                                         *)
(* The percentages that the main loop would report between begin and end   *)
(* are left out: completed / total is an integer division, and             *)
(* report_progress_workspace_discovery returns None for what it yields.    *)
(*                                                                         *)
(* The definitions marked Deviation are faults a change of the code could  *)
(* bring; no behaviour of the specification uses them.                     *)
(***************************************************************************)
EXTENDS Integers, Sequences, FiniteSets

CONSTANTS
  MaxFiles,    \* bound: files found in the workspace
  Supported,   \* the client takes part in progress reporting
  Refuses,     \* it may answer the request for a token with an error
  Cancels,     \* it may cancel the token
  Tracing      \* Config.trace_level is not TraceValue::Off

ASSUME StartupAssumption ==
  /\ MaxFiles \in Nat
  /\ {Supported, Refuses, Cancels, Tracing} \subseteq BOOLEAN

VARIABLES
  stage,       \* the loop that runs: "boot" or "main"
  pc,          \* where its cycle is, or why it panicked
  chan,        \* messages of the client the loop has not read
  cancels,     \* cancel notifications read in this cycle
  sent,        \* the requests and notifications on progress the client got
  answered,    \* what the client answered: "none", "confirm" or "refuse"
  canceled,    \* the client has sent the cancel notification
  guide,       \* the user guide: "loading", "loaded" or "lost"
  found,       \* files that were located
  discovery,   \* entry WorkspaceDiscovery of Tasks.ongoing
  progress,    \* entry WindowWorkDoneProgress of Tasks.ongoing
  pool,        \* jobs the workers have not finished
  rx,          \* results the loop has not received
  completed    \* Tasks.completed

clientVars == <<chan, sent, answered, canceled>>
vars == <<stage, pc, clientVars, cancels, guide, found, discovery, progress,
          pool, rx, completed>>

Crash == {"unknown response", "progress while booting", "concluded twice"}

Job(kind) == [kind |-> kind, file |-> 0]
ScanJobs(n) == [kind : {"scan"}, file : 1..n]
Jobs == {Job("guide"), Job("locate"), Job("index")} \union ScanJobs(MaxFiles)

InFlight == pool \union rx

(* A step of the discovery, TaskProgress::new(n).with_limit(1): it waits   *)
(* for its jobs to be scheduled, then for n results.                       *)
Step(phase, n) == [phase |-> phase, started |-> FALSE, left |-> n]
Gone == [phase |-> "gone", started |-> FALSE, left |-> 0]

Progress(phase) == [phase |-> phase, owed |-> <<>>]

(* bootloop::start.  Without a workspace the main loop is entered at once. *)
Init ==
  /\ pc = "incoming" /\ chan = <<>> /\ cancels = 0
  /\ sent = <<>> /\ answered = "none" /\ canceled = FALSE
  /\ guide = "loading" /\ found = 0
  /\ pool = {Job("guide")} /\ rx = {} /\ completed = <<>>
  /\ \/ /\ stage = "boot"
        /\ discovery = Step("scanning", 1)
        /\ progress = Progress(IF Supported THEN "ready" ELSE "none")
     \/ /\ stage = "main"
        /\ discovery = Gone
        /\ progress = Progress("none")

----------------------------------------------------------------------------
(* The client.  It answers the request for the token once.                 *)

SentAny(m) == \E i \in DOMAIN sent : sent[i] = m

ClientAnswers ==
  /\ SentAny("create") /\ answered = "none"
  /\ answered' \in {"confirm"} \union IF Refuses THEN {"refuse"} ELSE {}
  /\ chan' = Append(chan, answered')
  /\ UNCHANGED <<stage, pc, cancels, sent, canceled, guide, found, discovery,
                 progress, pool, rx, completed>>

ClientCancels ==
  /\ Cancels /\ SentAny("create") /\ ~canceled
  /\ canceled' = TRUE
  /\ chan' = Append(chan, "cancel")
  /\ UNCHANGED <<stage, pc, cancels, sent, answered, guide, found, discovery,
                 progress, pool, rx, completed>>

----------------------------------------------------------------------------
(* recv_incoming and recv_responses.  A cancel notification is kept for    *)
(* process_msg.  A response without an entry in ongoing is ignored with a  *)
(* warning if there is tracing; without it, idx.unwrap() panics.           *)
Read(m) == /\ pc = "incoming"
           /\ chan # <<>> /\ Head(chan) = m
           /\ chan' = Tail(chan)

ReadCancel ==
  /\ Read("cancel")
  /\ cancels' = cancels + 1
  /\ UNCHANGED <<stage, pc, sent, answered, canceled, guide, found, discovery,
                 progress, pool, rx, completed>>

(* confirm_server_workdone_progress *)
Confirmed == IF progress.phase = "announced" THEN Progress("initialized")
             ELSE progress

Response(m) ==
  /\ Read(m)
  /\ \/ /\ progress.phase # "none"
        /\ progress' = IF m = "confirm" THEN Confirmed ELSE Progress("aborted")
        /\ UNCHANGED pc
     \/ /\ progress.phase = "none"
        /\ pc' = IF Tracing THEN pc ELSE "unknown response"
        /\ UNCHANGED progress
  /\ UNCHANGED <<stage, cancels, sent, answered, canceled, guide, found,
                 discovery, pool, rx, completed>>

EndIncoming ==
  /\ pc = "incoming" /\ chan = <<>>
  /\ pc' = "recv"
  /\ UNCHANGED <<stage, clientVars, cancels, guide, found, discovery,
                 progress, pool, rx, completed>>

----------------------------------------------------------------------------
(* recv_completed_tasks: first the results in the channel.                 *)

Received(j) == /\ pc = "recv"
               /\ j \in rx
               /\ rx' = rx \ {j}

(* TaskProgress::advance *)
Advance == discovery' = [discovery EXCEPT !.left = @ - 1]

RecvLocated ==
  /\ stage = "boot" /\ Received(Job("locate"))
  /\ \E n \in 0..MaxFiles : found' = n
  /\ Advance
  /\ UNCHANGED <<stage, pc, clientVars, cancels, guide, progress, pool,
                 completed>>

RecvIndexed ==
  /\ stage = "boot" /\ Received(Job("index"))
  /\ Advance
  /\ UNCHANGED <<stage, pc, clientVars, cancels, guide, found, progress, pool,
                 completed>>

RecvScan(i) ==
  /\ stage = "main" /\ Received([kind |-> "scan", file |-> i])
  /\ Advance
  /\ UNCHANGED <<stage, pc, clientVars, cancels, guide, found, progress, pool,
                 completed>>

(* The boot loop takes the user guide out of the channel and does nothing. *)
RecvGuide ==
  /\ Received(Job("guide"))
  /\ guide' = IF stage = "boot" THEN "lost" ELSE "loaded"
  /\ UNCHANGED <<stage, pc, clientVars, cancels, found, discovery, progress,
                 pool, completed>>

EndResults ==
  /\ pc = "recv" /\ rx = {}
  /\ pc' = "completed"
  /\ UNCHANGED <<stage, clientVars, cancels, guide, found, discovery,
                 progress, pool, rx, completed>>

(* Then the tasks of `completed`.  The boot loop expects none.  When the   *)
(* discovery is done, conclude_workspace_file_parsing_progress has its     *)
(* progress ended: with the begin notification, if that is still due.      *)

Concluded ==
  IF progress.phase \in {"ready", "announced", "initialized"}
  THEN [phase |-> "finished", owed |-> <<"begin", "end">>]
  ELSE [phase |-> "finished", owed |-> <<"end">>]

NextCompleted(t) == /\ pc = "completed"
                    /\ completed # <<>> /\ Head(completed) = t
                    /\ completed' = Tail(completed)

DiscoveryDone ==
  /\ stage = "main" /\ NextCompleted("discovery")
  /\ \/ /\ progress.phase # "finished"
        /\ discovery' = Gone
        /\ progress' = IF progress.phase = "none" THEN progress ELSE Concluded
        /\ UNCHANGED pc
     \/ /\ progress.phase = "finished"
        /\ pc' = "concluded twice"
        /\ UNCHANGED <<discovery, progress>>
  /\ UNCHANGED <<stage, clientVars, cancels, guide, found, pool, rx>>

ProgressDone ==
  /\ NextCompleted("progress")
  /\ \/ /\ stage = "main"
        /\ progress' = Progress("none")
        /\ UNCHANGED pc
     \/ /\ stage = "boot"
        /\ pc' = "progress while booting"
        /\ UNCHANGED progress
  /\ UNCHANGED <<stage, clientVars, cancels, guide, found, discovery, pool,
                 rx>>

EndCompleted ==
  /\ pc = "completed" /\ completed = <<>>
  /\ pc' = "process"
  /\ UNCHANGED <<stage, clientVars, cancels, guide, found, discovery,
                 progress, pool, rx, completed>>

----------------------------------------------------------------------------
(* process_msg: cancel_server_workdone_progress.                           *)
Cancel ==
  /\ pc = "process" /\ cancels > 0
  /\ cancels' = cancels - 1
  /\ progress' = IF progress.phase = "none" THEN progress
                 ELSE Progress("aborted")
  /\ UNCHANGED <<stage, pc, clientVars, guide, found, discovery, pool, rx,
                 completed>>

EndProcess ==
  /\ pc = "process" /\ cancels = 0
  /\ pc' = "progress"
  /\ UNCHANGED <<stage, clientVars, cancels, guide, found, discovery,
                 progress, pool, rx, completed>>

----------------------------------------------------------------------------
(* progress_multi_part_tasks: one pass over ongoing, where the discovery   *)
(* comes before the progress that belongs to it.                           *)

Started == [discovery EXCEPT !.started = TRUE]
Ready(phase) == /\ discovery.phase = phase
                /\ discovery.left > 0 /\ ~discovery.started
Finished(phase) == discovery.phase = phase /\ discovery.left = 0

JobsOf(phase) == CASE phase = "scanning" -> {Job("locate")}
                   [] phase = "indexing" -> {Job("index")}
                   [] phase = "parsing"  -> ScanJobs(found)

(* Deviation: ack_ready is not called.                                     *)
StartNoAck(phase) ==
  /\ Ready(phase)
  /\ pool' = pool \union JobsOf(phase)
  /\ UNCHANGED <<stage, discovery>>

(* The move_to_..._stage functions.                                        *)
Start(phase) ==
  /\ Ready(phase)
  /\ pool' = pool \union JobsOf(phase)
  /\ discovery' = Started
  /\ UNCHANGED stage

(* The stages of the boot loop; the main loop is entered with the index.   *)
NextStage ==
  /\ UNCHANGED pool
  /\ \/ /\ Finished("scanning")
        /\ discovery' = Step("indexing", 1)
        /\ UNCHANGED stage
     \/ /\ Finished("indexing")
        /\ discovery' = Step("parsing", found)
        /\ stage' = "main"

(* Deviation: the last stage ends only if it had something to do.          *)
DoneIfStarted == IF Finished("parsing") /\ discovery.started
                 THEN <<"discovery">> ELSE <<>>

(* progress_workspace_file_parsing completes the discovery.                *)
DiscoveryResult == IF Finished("parsing") THEN <<"discovery">> ELSE <<>>

Waits == /\ ~\E phase \in {"scanning", "indexing", "parsing"} : Ready(phase)
         /\ ~Finished("scanning") /\ ~Finished("indexing")
         /\ UNCHANGED <<stage, discovery, pool>>

(* Deviation: the phase is not left when begin has been sent.              *)
BroadcastAgain ==
  CASE progress.phase = "ready" ->
         [to |-> Progress("announced"), out |-> <<"create">>, done |-> <<>>]
    [] progress.phase = "initialized" ->
         [to |-> progress, out |-> <<"begin">>, done |-> <<>>]
    [] progress.phase = "finished" /\ progress.owed # <<>> ->
         [to |-> Progress("finished"), out |-> progress.owed,
          done |-> <<"progress">>]
    [] progress.phase = "aborted" ->
         [to |-> Progress("finished"), out |-> <<>>, done |-> <<"progress">>]
    [] OTHER -> [to |-> progress, out |-> <<>>, done |-> <<>>]

(* broadcast_work_done: the next phase, what is sent, what is completed.   *)
Broadcast ==
  CASE progress.phase = "ready" ->
         [to |-> Progress("announced"), out |-> <<"create">>, done |-> <<>>]
    [] progress.phase = "initialized" ->
         [to |-> Progress("reporting"), out |-> <<"begin">>, done |-> <<>>]
    [] progress.phase = "finished" /\ progress.owed # <<>> ->
         [to |-> Progress("finished"), out |-> progress.owed,
          done |-> <<"progress">>]
    [] progress.phase = "aborted" ->
         [to |-> Progress("finished"), out |-> <<>>, done |-> <<"progress">>]
    [] OTHER -> [to |-> progress, out |-> <<>>, done |-> <<>>]

ProgressTasks ==
  /\ pc = "progress"
  /\ \/ \E phase \in {"scanning", "indexing", "parsing"} : Start(phase)
     \/ NextStage
     \/ Waits
  /\ progress' = Broadcast.to
  /\ sent' = sent \o Broadcast.out
  /\ completed' = completed \o DiscoveryResult \o Broadcast.done
  /\ pc' = "incoming"
  /\ UNCHANGED <<chan, answered, canceled, cancels, guide, found, rx>>

----------------------------------------------------------------------------
(* A worker finishes a job.                                                *)
Finish(j) ==
  /\ j \in pool
  /\ pool' = pool \ {j}
  /\ rx' = rx \union {j}
  /\ UNCHANGED <<stage, pc, clientVars, cancels, guide, found, discovery,
                 progress, completed>>

Receive == RecvLocated \/ RecvIndexed \/ RecvGuide
             \/ (\E i \in 1..MaxFiles : RecvScan(i))

Loop == \/ ReadCancel \/ Response("confirm") \/ Response("refuse")
        \/ EndIncoming
        \/ Receive \/ EndResults
        \/ DiscoveryDone \/ ProgressDone \/ EndCompleted
        \/ Cancel \/ EndProcess
        \/ ProgressTasks

Done == pc \in Crash /\ UNCHANGED vars

Next == Loop \/ (\E j \in pool : Finish(j)) \/ ClientAnswers \/ ClientCancels
          \/ Done

(* The loop keeps cycling and the workers finish their jobs (module        *)
(* TaskSystem).  Nothing makes the client answer.                          *)
Fairness == WF_vars(Loop) /\ WF_vars(\E j \in pool : Finish(j))

Spec == Init /\ [][Next]_vars
FairSpec == Spec /\ Fairness
----------------------------------------------------------------------------
(* Properties.                                                             *)

(* Type invariant.                                                         *)
TypeOK ==
  /\ stage \in {"boot", "main"}
  /\ pc \in {"incoming", "recv", "completed", "process", "progress"}
              \union Crash
  /\ chan \in Seq({"confirm", "refuse", "cancel"}) /\ cancels \in 0..1
  /\ sent \in Seq({"create", "begin", "end"})
  /\ answered \in {"none", "confirm", "refuse"} /\ canceled \in BOOLEAN
  /\ guide \in {"loading", "loaded", "lost"} /\ found \in 0..MaxFiles
  /\ discovery \in [phase : {"scanning", "indexing", "parsing", "gone"},
                    started : BOOLEAN, left : 0..(MaxFiles + 1)]
  /\ progress \in [phase : {"none", "ready", "announced", "initialized",
                            "reporting", "aborted", "finished"},
                   owed : {<<>>, <<"end">>, <<"begin", "end">>}]
  /\ pool \subseteq Jobs /\ rx \subseteq Jobs
  /\ completed \in Seq({"discovery", "progress"})

DiscoveryJobs == {j \in InFlight : j.kind # "guide"}

StagesInStep ==
  /\ \A j \in DiscoveryJobs : j \in JobsOf(discovery.phase)
  /\ discovery.started => discovery.left = Cardinality(DiscoveryJobs)
  /\ ~discovery.started => DiscoveryJobs = {}
  /\ stage = "boot" <=> discovery.phase \in {"scanning", "indexing"}

(* What the client sees of a token: the request to create it, at most one  *)
(* begin and at most one end, in this order, and nothing after the end.    *)
(* An end without a begin is only sent to a client that gave the token up; *)
(* one that was merely slow gets both (CHANGELOG.md:45).                   *)
Unwilling == answered = "refuse" \/ canceled

ProgressInOrder ==
  /\ sent \in {<<>>, <<"create">>, <<"create", "begin">>, <<"create", "end">>,
               <<"create", "begin", "end">>}
  /\ sent = <<"create", "end">> => Unwilling

CompletedRegistered ==
  /\ \A i, j \in DOMAIN completed : completed[i] = completed[j] => i = j
  /\ \A i \in DOMAIN completed :
       /\ completed[i] = "discovery" => discovery.phase = "parsing"
       /\ completed[i] = "progress" => progress.phase # "none"

PanicCauses ==
  /\ pc \in {"progress while booting", "concluded twice"} => Unwilling
  /\ pc = "unknown response" => canceled \/ SentAny("end")

(* The results that arrive belong to the stage the discovery is in and are *)
(* as many as it waits for: no result of the boot phase reaches the main   *)
(* loop ("These tasks have already been completed before main loop         *)
(* entry."), no file is parsed before ("Must not retrieve any other        *)
(* variant."), and a stage ends with its last result.  What is completed   *)
(* is registered ("Must be a registered task.") and not completed twice.   *)
(* The arms of broadcast_work_done, of the boot loop and of the conclusion *)
(* that the code calls unreachable are reached only after the client has   *)
(* refused or canceled the token, and an answer without an entry only      *)
(* comes when the report was over before it.                               *)
ResultsExpected == TypeOK /\ StagesInStep /\ CompletedRegistered /\ PanicCauses

(* Whatever the client answers, and when, the discovery ends and its       *)
(* progress is done with, unless the loop panics; and a client that was    *)
(* told that the indexing begins is told that it ends, unless it cancels   *)
(* the report.                                                             *)
DiscoveryEnds ==
  /\ <>[](\/ /\ stage = "main" /\ discovery = Gone
             /\ progress.phase = "none" /\ completed = <<>>
          \/ pc \in Crash)
  /\ SentAny("begin") ~> (SentAny("end") \/ canceled \/ pc \in Crash)
=============================================================================
