------------------------------ MODULE Lifecycle ------------------------------
(***************************************************************************)
(* The life of the server process: ls::serve with the wait for the         *)
(* initialize request (ls.rs), the boot loop (ls/bootloop.rs and           *)
(* startup::process_msg) and the main loop (ls/mainloop.rs and             *)
(* tasks::process_msg), as far as it decides what becomes of a message of  *)
(* the client and how the process ends.                                    *)
(*                                                                         *)
(* The client is free to send what it likes, in any order; it initializes  *)
(* the server once and exit is its last word.  When the boot loop ends is  *)
(* the business of WorkspaceStartup, how an accepted request is answered   *)
(* that of TaskScheduler; here both are left open.                         *)
(*                                                                         *)
(* A drain of the channel may stop early, at a heartbeat of the transport  *)
(* thread.  A message behind the heartbeat is read in the next cycle, as   *)
(* one that is sent later.                                                 *)
(*                                                                         *)
(* The definitions marked Deviation are faults a change of the code could  *)
(* bring; no behaviour of the specification uses them.                     *)
(***************************************************************************)
EXTENDS Integers, Sequences

CONSTANT MaxMsgs   \* bound: messages the client sends

ASSUME LifecycleAssumption == MaxMsgs \in Nat

VARIABLES
  phase,      \* "uninit", "boot", "main" or "down"
  pc,         \* where the cycle of the boot or main loop is
  chan,       \* messages sent and not read
  incoming,   \* messages read in this cycle
  postponed,  \* messages the boot loop keeps for the main loop
  shutdown,   \* a shutdown request has been received
  exit,       \* InitState.exit_requested, RunState.exit_requested
  workers,    \* FALSE when a worker thread has panicked
  parent,     \* FALSE when the parent process is gone
  sent,       \* messages the client has sent
  answer,     \* by number of the message: its answer
  handled,    \* numbers of the messages the main loop has carried out
  code        \* exit code of the process

envVars == <<workers, parent>>
vars == <<phase, pc, chan, incoming, postponed, shutdown, exit, envVars, sent,
          answer, handled, code>>

Kind == {"initialize", "shutdown", "exit",
         "request",       \* a language request
         "notification"}  \* of an opened, changed, closed or renamed file
Message == [kind : Kind, n : 1..MaxMsgs]
IsRequest(m) == m.kind \in {"initialize", "shutdown", "request"}

Answer == {"none", "result", "not initialized", "invalid request",
           "invalid params", "accepted"}
Code == {"none", "OkExit", "ErrExit", "ProtocolErr", "UnavailableErr",
         "SoftwareErr"}

Init ==
  /\ phase = "uninit" /\ pc = "idle"
  /\ chan = <<>> /\ incoming = <<>> /\ postponed = <<>>
  /\ shutdown = FALSE /\ exit = FALSE
  /\ workers = TRUE /\ parent = TRUE
  /\ sent = <<>>
  /\ answer = [n \in 1..MaxMsgs |-> "none"]
  /\ handled = <<>>
  /\ code = "none"

Answered(m, a) == answer' = [answer EXCEPT ![m.n] = a]

End(c) == phase' = "down" /\ code' = c

----------------------------------------------------------------------------
(* The surroundings.                                                       *)

SentKind(k) == \E i \in DOMAIN sent : sent[i].kind = k

ClientSends(k) ==
  /\ Len(sent) < MaxMsgs
  /\ ~SentKind("exit")
  /\ k = "initialize" => ~SentKind("initialize")
  /\ LET m == [kind |-> k, n |-> Len(sent) + 1]
     IN  sent' = Append(sent, m) /\ chan' = Append(chan, m)
  /\ UNCHANGED <<phase, pc, incoming, postponed, shutdown, exit, envVars,
                 answer, handled, code>>

ParentDies ==
  /\ parent /\ parent' = FALSE
  /\ UNCHANGED <<phase, pc, chan, incoming, postponed, shutdown, exit,
                 workers, sent, answer, handled, code>>

WorkerPanics ==
  /\ phase \in {"boot", "main"} /\ workers
  /\ workers' = FALSE
  /\ UNCHANGED <<phase, pc, chan, incoming, postponed, shutdown, exit,
                 parent, sent, answer, handled, code>>

----------------------------------------------------------------------------
(* wait_for_initialize_req and process_initialize_params.                  *)

Take(k) == /\ phase = "uninit"
           /\ chan # <<>> /\ Head(chan).kind = k
           /\ chan' = Tail(chan)
           /\ UNCHANGED <<incoming, postponed, exit, envVars, sent, handled>>

(* The parameters are accepted, or refused for a wrong process id.  Then   *)
(* InitState::new starts with no shutdown request.  Without a workspace    *)
(* the boot loop is skipped.                                               *)
Initialize ==
  /\ Take("initialize")
  /\ \/ /\ Answered(Head(chan), "result")
        /\ phase' \in {"boot", "main"}
        /\ pc' = "start"
        /\ shutdown' = FALSE
        /\ UNCHANGED code
     \/ /\ Answered(Head(chan), "invalid params")
        /\ End("ProtocolErr")
        /\ UNCHANGED <<pc, shutdown>>

(* Deviation: a request that comes too early is dropped.                   *)
DropRequest ==
  /\ Take("request") \/ Take("shutdown")
  /\ shutdown' = (shutdown \/ Head(chan).kind = "shutdown")
  /\ UNCHANGED <<phase, pc, answer, code>>

NotInitialized ==
  /\ Take("request") \/ Take("shutdown")
  /\ Answered(Head(chan), "not initialized")
  /\ shutdown' = (shutdown \/ Head(chan).kind = "shutdown")
  /\ UNCHANGED <<phase, pc, code>>

DropNotification ==
  /\ Take("notification")
  /\ UNCHANGED <<phase, pc, shutdown, answer, code>>

ExitUninitialized ==
  /\ Take("exit")
  /\ End(IF shutdown THEN "OkExit" ELSE "ErrExit")
  /\ UNCHANGED <<pc, shutdown, answer>>

----------------------------------------------------------------------------
(* The cycle of the boot and the main loop.                                *)

Running == phase \in {"boot", "main"}

(* TaskSystem::aborted is looked at when a cycle begins.                   *)
StartCycle ==
  /\ Running /\ pc = "start"
  /\ \/ /\ workers
        /\ pc' = "read"
        /\ UNCHANGED <<phase, code>>
     \/ /\ ~workers
        /\ End("SoftwareErr")
        /\ UNCHANGED pc
  /\ UNCHANGED <<chan, incoming, postponed, shutdown, exit, envVars, sent,
                 answer, handled>>

(* recv_incoming and read_msg.  The parent process is only looked for when *)
(* there is no message.                                                    *)
ReadMsg ==
  /\ Running /\ pc = "read" /\ chan # <<>>
  /\ incoming' = Append(incoming, Head(chan))
  /\ chan' = Tail(chan)
  /\ UNCHANGED <<phase, pc, postponed, shutdown, exit, envVars, sent, answer,
                 handled, code>>

EndRead ==
  /\ Running /\ pc = "read" /\ chan = <<>>
  /\ pc' = "process"
  /\ UNCHANGED <<phase, chan, incoming, postponed, shutdown, exit, envVars,
                 sent, answer, handled, code>>

ParentMissing ==
  /\ phase = "uninit" \/ (Running /\ pc = "read")
  /\ chan = <<>> /\ ~parent
  /\ End("UnavailableErr")
  /\ UNCHANGED <<pc, chan, incoming, postponed, shutdown, exit, envVars, sent,
                 answer, handled>>

(* process_msg of both loops, for the message m that is next.              *)
Process(m) ==
  /\ Running /\ pc = "process"
  /\ incoming # <<>> /\ m = Head(incoming)
  /\ incoming' = Tail(incoming)
  /\ UNCHANGED <<phase, pc, chan, envVars, sent, code>>

Refuse(m) ==
  /\ Process(m)
  /\ shutdown /\ IsRequest(m)
  /\ Answered(m, "invalid request")
  /\ UNCHANGED <<postponed, shutdown, exit, handled>>

Shutdown(m) ==
  /\ Process(m)
  /\ ~shutdown /\ m.kind = "shutdown"
  /\ shutdown' = TRUE
  /\ Answered(m, "result")
  /\ UNCHANGED <<postponed, exit, handled>>

(* Deviation: the boot loop does not keep the exit for the main loop.      *)
ExitWhenBooted(m) ==
  /\ Process(m)
  /\ m.kind = "exit"
  /\ exit' = (phase = "main")
  /\ UNCHANGED <<postponed, shutdown, answer, handled>>

Exit(m) ==
  /\ Process(m)
  /\ m.kind = "exit"
  /\ exit' = TRUE
  /\ UNCHANGED <<postponed, shutdown, answer, handled>>

IsWork(m) == m.kind = "notification" \/ (m.kind = "request" /\ ~shutdown)

Postpone(m) ==
  /\ phase = "boot" /\ Process(m)
  /\ IsWork(m)
  /\ postponed' = Append(postponed, m)
  /\ UNCHANGED <<shutdown, exit, answer, handled>>

Handle(m) ==
  /\ phase = "main" /\ Process(m)
  /\ IsWork(m)
  /\ handled' = Append(handled, m.n)
  /\ IF IsRequest(m) THEN Answered(m, "accepted") ELSE UNCHANGED answer
  /\ UNCHANGED <<postponed, shutdown, exit>>

(* Deviation: the messages of the boot phase are handled last.             *)
EnterMainLast ==
  /\ phase' = "main"
  /\ incoming' = chan \o postponed
  /\ chan' = <<>>
  /\ postponed' = <<>>

(* The main loop starts with the postponed messages as its incoming ones.  *)
EnterMain ==
  /\ phase' = "main"
  /\ incoming' = postponed
  /\ postponed' = <<>>
  /\ UNCHANGED chan

ExitCode == End(IF shutdown THEN "OkExit" ELSE "ErrExit")

EndCycle ==
  /\ Running /\ pc = "process" /\ incoming = <<>>
  /\ \/ /\ exit
        /\ ExitCode
        /\ UNCHANGED <<chan, incoming, postponed>>
     \/ /\ ~exit /\ phase = "boot"
        /\ EnterMain
        /\ UNCHANGED code
     \/ /\ ~exit
        /\ UNCHANGED <<phase, chan, incoming, postponed, code>>
  /\ pc' = "start"
  /\ UNCHANGED <<shutdown, exit, envVars, sent, answer, handled>>

ProcessMsg == \E m \in Message : Refuse(m) \/ Shutdown(m) \/ Exit(m)
                                   \/ Postpone(m) \/ Handle(m)

Serve == \/ Initialize \/ NotInitialized \/ DropNotification
         \/ ExitUninitialized
         \/ StartCycle \/ ReadMsg \/ EndRead \/ ParentMissing
         \/ ProcessMsg \/ EndCycle

(* The process has ended; nobody reads what is still sent.                 *)
Down == phase = "down" /\ UNCHANGED vars

Next == Serve \/ (\E k \in Kind : ClientSends(k)) \/ ParentDies
          \/ WorkerPanics \/ Down

(* The thread keeps running; the boot loop ends (WorkspaceStartup).        *)
Fairness ==
  /\ WF_vars(Serve)
  /\ SF_vars(EndCycle /\ (phase = "boot" => phase' # "boot"))

Spec == Init /\ [][Next]_vars
FairSpec == Spec /\ Fairness
----------------------------------------------------------------------------
(* Properties.                                                             *)

(* Type invariant.  Only requests are answered, and a process that has     *)
(* ended has an exit code.                                                 *)
TypeOK ==
  /\ phase \in {"uninit", "boot", "main", "down"}
  /\ pc \in {"idle", "start", "read", "process"}
  /\ chan \in Seq(Message) /\ incoming \in Seq(Message)
  /\ postponed \in Seq(Message) /\ sent \in Seq(Message)
  /\ {shutdown, exit, workers, parent} \subseteq BOOLEAN
  /\ answer \in [1..MaxMsgs -> Answer]
  /\ handled \in Seq(1..MaxMsgs)
  /\ code \in Code /\ (code = "none" <=> phase # "down")
  /\ \A n \in 1..MaxMsgs :
       answer[n] # "none" => n \in DOMAIN sent /\ IsRequest(sent[n])

Numbers(s) == {s[i].n : i \in DOMAIN s}
Pending == Numbers(chan) \union Numbers(incoming) \union Numbers(postponed)

WorkAccounted ==
  Running =>
    \A i \in DOMAIN sent :
      /\ sent[i].kind = "request"
           => (i \in Pending <=> answer[i] = "none")
      /\ sent[i].kind = "notification"
           => i \in Pending \/ (\E j \in DOMAIN handled : handled[j] = i)
                \/ (\E j \in i..Len(sent) :
                      sent[j].kind = "initialize" /\ answer[j] = "result")
      /\ (\E j \in DOMAIN handled : handled[j] = i) => i \notin Pending

(* Messages on documents and language requests take effect in the order    *)
(* they were sent, the ones that had to wait for the end of the boot phase *)
(* included: an edit is never overtaken by what was sent after it.         *)
(* Nothing is lost on the way: a message that the initialized server was   *)
(* sent is waiting, carried out or answered, and it is in one place.       *)
HandledInOrder ==
  /\ \A i, j \in DOMAIN handled : i < j => handled[i] < handled[j]
  /\ TypeOK /\ WorkAccounted

Granted == \E i \in DOMAIN sent :
             sent[i].kind = "shutdown" /\ answer[i] = "result"

ExitCodeRight ==
  /\ code = "OkExit" => SentKind("shutdown") /\ SentKind("exit")
  /\ code = "ErrExit" => ~Granted /\ SentKind("exit")

(* Every request is answered or accepted unless the process ends.          *)
EveryRequestServed ==
  \A n \in 1..MaxMsgs :
    (n \in DOMAIN sent /\ IsRequest(sent[n]))
      ~> (answer[n] # "none" \/ phase = "down")

(* A client that exits gets rid of the server, in whatever phase it is,    *)
(* and the exit code tells whether it asked for the shutdown first: "Exit  *)
(* notifications without prior shutdown request result should trigger an   *)
(* error exit code", and after a shutdown request the server granted the   *)
(* exit is in order.                                                       *)
ExitEnds == SentKind("exit") ~> phase = "down" /\ ExitCodeRight
==============================================================================
