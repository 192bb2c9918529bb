----------------------------- MODULE TaskSystem -----------------------------
(***************************************************************************)
(* The thread pool of ls/tasks/runners.rs.  Every worker has a queue       *)
(* behind a mutex that is only ever taken with try_lock; schedule() puts a *)
(* job in the first queue it can lock, counts it and notifies a condition  *)
(* variable whose mutex it does not hold; a worker takes a job from the    *)
(* first queue that it can lock and that has one.  Drop stops the workers  *)
(* and joins them.                                                         *)
(*                                                                         *)
(* One step is one operation on shared memory.  The atomics are relaxed in *)
(* the code; here all threads see their operations in one order.  A look   *)
(* at the counter and then at the flag is one step: the flag only falls,   *)
(* so the two are as good as one look at the first or at the second time.  *)
(*                                                                         *)
(* The definitions marked Deviation are faults a change of the code could  *)
(* bring; no behaviour of the specification uses them.                     *)
(***************************************************************************)
EXTENDS Integers, Sequences, FiniteSets

CONSTANTS
  NumWorkers,  \* worker threads and queues
  Job,         \* jobs the main loop may schedule
  Faulty,      \* jobs whose execution panics
  Modulus,     \* values of the job counter (2^32 in the code)
  MayStop,     \* TRUE if the pool may be dropped
  NoJob        \* no job at all

ASSUME PoolAssumption ==
  /\ NumWorkers \in Nat \ {0}
  /\ Modulus \in Nat \ {0}
  /\ Faulty \subseteq Job
  /\ MayStop \in BOOLEAN
  /\ NoJob \notin Job

Worker == 0..(NumWorkers - 1)
Main == NumWorkers                 \* the thread of the main loop
Nobody == NumWorkers + 1

VARIABLES
  queue,    \* JobQueue.queue of each worker
  holder,   \* the thread that holds the mutex of each queue, or Nobody
  numJobs,  \* TaskSystem.work.0
  running,  \* TaskSystem.work.1
  mutex,    \* the holder of the mutex of the condition variable, or Nobody
  wpc,      \* what each worker does next
  scan,     \* queues each worker has tried in this round
  job,      \* the job each worker has taken, or NoJob
  sent,     \* results sent to the main loop per job
  mpc,      \* what the main loop does next
  slot,     \* TaskSystem.slot, modulo the number of queues
  tried,    \* queues that schedule() has tried in this round
  todo,     \* the job schedule() was called with, or NoJob
  scheduled \* jobs that schedule() has pushed

queueVars  == <<queue, holder>>
atomicVars == <<numJobs, running>>
workerVars == <<wpc, scan, job>>
mainVars   == <<mpc, slot, tried, todo, scheduled>>
vars == <<queueVars, atomicVars, mutex, workerVars, sent, mainVars>>

Wrap(n) == n % Modulus

Init ==
  /\ queue = [w \in Worker |-> <<>>]
  /\ holder = [w \in Worker |-> Nobody]
  /\ numJobs = 0 /\ running = TRUE
  /\ mutex = Nobody
  /\ wpc = [w \in Worker |-> "top"]
  /\ scan = [w \in Worker |-> 0]
  /\ job = [w \in Worker |-> NoJob]
  /\ sent = [j \in Job |-> 0]
  /\ mpc = "idle" /\ slot = 0 /\ tried = 0 /\ todo = NoJob
  /\ scheduled = {}

----------------------------------------------------------------------------
(* TaskSystem::run.                                                        *)

Goto(w, from, to) == wpc[w] = from /\ wpc' = [wpc EXCEPT ![w] = to]

(* while running.load(..) *)
Loop(w) ==
  /\ Goto(w, "top", IF running THEN "lock" ELSE "finished")
  /\ UNCHANGED <<queueVars, atomicVars, mutex, scan, job, sent, mainVars>>

MustWait == numJobs = 0 /\ running

(* Deviation: wait() instead of wait_while().                              *)
WaitAlways(w) ==
  /\ mutex = Nobody
  /\ Goto(w, "lock", "parking")
  /\ mutex' = w
  /\ UNCHANGED <<queueVars, atomicVars, scan, job, sent, mainVars>>

(* wait_while locks the mutex and evaluates the condition.                 *)
Evaluate(w) ==
  /\ mutex = Nobody
  /\ \/ /\ MustWait
        /\ Goto(w, "lock", "parking")
        /\ mutex' = w
        /\ UNCHANGED scan
     \/ /\ ~MustWait
        /\ Goto(w, "lock", "scan")
        /\ scan' = [scan EXCEPT ![w] = 0]
        /\ UNCHANGED mutex
  /\ UNCHANGED <<queueVars, atomicVars, job, sent, mainVars>>

(* Condvar::wait: the worker is in the wait set from here on and the mutex *)
(* is free.  A notification before this step does not reach the worker.    *)
Park(w) ==
  /\ Goto(w, "parking", "waiting")
  /\ mutex' = Nobody
  /\ UNCHANGED <<queueVars, atomicVars, scan, job, sent, mainVars>>

(* Condition variables may wake up a thread without a notification.        *)
SpuriousWakeup(w) ==
  /\ Goto(w, "waiting", "lock")
  /\ UNCHANGED <<queueVars, atomicVars, mutex, scan, job, sent, mainVars>>

QueueOf(w) == (w + scan[w]) % NumWorkers

(* Deviation: the job is copied from the queue and left there.             *)
TryPeek(w) ==
  /\ wpc[w] = "scan" /\ scan[w] < NumWorkers
  /\ LET q == QueueOf(w) IN
       \/ /\ holder[q] # Nobody
          /\ scan' = [scan EXCEPT ![w] = @ + 1]
          /\ UNCHANGED <<queueVars, wpc, job>>
       \/ /\ holder[q] = Nobody
          /\ holder' = [holder EXCEPT ![q] = w]
          /\ wpc' = [wpc EXCEPT ![w] = "unlock"]
          /\ job' = IF queue[q] = <<>>
                    THEN job ELSE [job EXCEPT ![w] = Head(queue[q])]
          /\ UNCHANGED <<queue, scan>>
  /\ UNCHANGED <<atomicVars, mutex, sent, mainVars>>

(* JobQueue::try_pop: WouldBlock counts as empty.                          *)
TryPop(w) ==
  /\ wpc[w] = "scan" /\ scan[w] < NumWorkers
  /\ LET q == QueueOf(w) IN
       \/ /\ holder[q] # Nobody
          /\ scan' = [scan EXCEPT ![w] = @ + 1]
          /\ UNCHANGED <<queueVars, wpc, job>>
       \/ /\ holder[q] = Nobody
          /\ holder' = [holder EXCEPT ![q] = w]
          /\ wpc' = [wpc EXCEPT ![w] = "unlock"]
          /\ IF queue[q] = <<>>
             THEN UNCHANGED <<queue, job>>
             ELSE /\ job' = [job EXCEPT ![w] = Head(queue[q])]
                  /\ queue' = [queue EXCEPT ![q] = Tail(@)]
          /\ UNCHANGED scan
  /\ UNCHANGED <<atomicVars, mutex, sent, mainVars>>

Unlock(w) ==
  /\ holder' = [holder EXCEPT ![QueueOf(w)] = Nobody]
  /\ IF job[w] = NoJob
     THEN /\ Goto(w, "unlock", "scan")
          /\ scan' = [scan EXCEPT ![w] = @ + 1]
     ELSE /\ Goto(w, "unlock", "uncount")
          /\ UNCHANGED scan
  /\ UNCHANGED <<queue, atomicVars, mutex, job, sent, mainVars>>

(* num_jobs.fetch_sub *)
Uncount(w) ==
  /\ Goto(w, "uncount", "execute")
  /\ numJobs' = Wrap(numJobs - 1)
  /\ UNCHANGED <<queueVars, running, mutex, scan, job, sent, mainVars>>

(* Self::execute and tx.send, or the thread dies with the job.             *)
Execute(w) ==
  /\ \/ /\ job[w] \notin Faulty
        /\ Goto(w, "execute", "decide")
        /\ sent' = [sent EXCEPT ![job[w]] = @ + 1]
        /\ job' = [job EXCEPT ![w] = NoJob]
     \/ /\ job[w] \in Faulty
        /\ Goto(w, "execute", "dead")
        /\ UNCHANGED <<sent, job>>
  /\ UNCHANGED <<queueVars, atomicVars, mutex, scan, mainVars>>

(* The end of the inner loop, also when no queue had a job.                *)
Decide(w) ==
  /\ wpc[w] = "decide" \/ (wpc[w] = "scan" /\ scan[w] = NumWorkers)
  /\ wpc' = [wpc EXCEPT ![w] = IF numJobs = 0 \/ ~running
                               THEN "top" ELSE "scan"]
  /\ scan' = [scan EXCEPT ![w] = 0]
  /\ UNCHANGED <<queueVars, atomicVars, mutex, job, sent, mainVars>>

Run(w) == \/ Loop(w) \/ Evaluate(w) \/ Park(w) \/ TryPop(w) \/ Unlock(w)
          \/ Uncount(w) \/ Execute(w) \/ Decide(w)

----------------------------------------------------------------------------
(* TaskSystem::schedule.                                                   *)

Dead == {w \in Worker : wpc[w] = "dead"}
Finished == {w \in Worker : wpc[w] \in {"dead", "finished"}}

(* The main loop calls schedule().  It checks aborted() once per cycle, so *)
(* a worker may already have died.                                         *)
Call(j) ==
  /\ mpc = "idle"
  /\ j \notin scheduled
  /\ todo' = j
  /\ mpc' = "push"
  /\ UNCHANGED <<queueVars, atomicVars, mutex, workerVars, sent, slot, tried,
                 scheduled>>

(* JobQueue::try_push.  If every queue is locked, the next round starts    *)
(* one queue further.                                                      *)
TryPush ==
  /\ mpc = "push"
  /\ LET q == (slot + tried) % NumWorkers IN
       \/ /\ holder[q] = Nobody
          /\ holder' = [holder EXCEPT ![q] = Main]
          /\ queue' = [queue EXCEPT ![q] = Append(@, todo)]
          /\ scheduled' = scheduled \union {todo}
          /\ mpc' = "release"
          /\ UNCHANGED <<slot, tried>>
       \/ /\ holder[q] # Nobody
          /\ tried' = (tried + 1) % NumWorkers
          /\ slot' = IF tried' = 0 THEN (slot + 1) % NumWorkers ELSE slot
          /\ UNCHANGED <<queueVars, scheduled, mpc>>
  /\ UNCHANGED <<atomicVars, mutex, workerVars, sent, todo>>

Release ==
  /\ mpc = "release"
  /\ holder' = [holder EXCEPT ![(slot + tried) % NumWorkers] = Nobody]
  /\ mpc' = "count"
  /\ UNCHANGED <<queue, atomicVars, mutex, workerVars, sent, slot, tried, todo,
                 scheduled>>

(* num_jobs.fetch_add *)
Count ==
  /\ mpc = "count"
  /\ numJobs' = Wrap(numJobs + 1)
  /\ mpc' = "notify"
  /\ UNCHANGED <<queueVars, running, mutex, workerVars, sent, slot, tried, todo,
                 scheduled>>

WaitSet == {w \in Worker : wpc[w] = "waiting"}

(* Deviation: nobody is notified.                                          *)
NotifyNobody ==
  /\ mpc = "notify"
  /\ mpc' = "idle"
  /\ slot' = (slot + 1) % NumWorkers
  /\ tried' = 0
  /\ todo' = NoJob
  /\ UNCHANGED <<queueVars, atomicVars, mutex, workerVars, sent, scheduled>>

(* enqueued.notify_one wakes one of the waiting threads, if there is one.  *)
NotifyOne ==
  /\ mpc = "notify"
  /\ IF WaitSet = {}
     THEN UNCHANGED wpc
     ELSE \E w \in WaitSet : wpc' = [wpc EXCEPT ![w] = "lock"]
  /\ mpc' = "idle"
  /\ slot' = (slot + 1) % NumWorkers
  /\ tried' = 0
  /\ todo' = NoJob
  /\ UNCHANGED <<queueVars, atomicVars, mutex, scan, job, sent, scheduled>>

----------------------------------------------------------------------------
(* The end: the main loop leaves because the server is told to exit or     *)
(* because aborted() found a thread that is gone; Drop runs.               *)

Drop ==
  /\ mpc = "idle"
  /\ MayStop \/ Finished # {}
  /\ running' = FALSE
  /\ mpc' = "notify_all"
  /\ UNCHANGED <<queueVars, numJobs, mutex, workerVars, sent, slot, tried, todo,
                 scheduled>>

NotifyAll ==
  /\ mpc = "notify_all"
  /\ wpc' = [w \in Worker |-> IF w \in WaitSet THEN "lock" ELSE wpc[w]]
  /\ mpc' = "join"
  /\ UNCHANGED <<queueVars, atomicVars, mutex, scan, job, sent, slot, tried,
                 todo, scheduled>>

(* The threads are joined in order; a thread that panicked makes expect    *)
(* ("Stopping the task queue must not fail.") panic as well.               *)
Join ==
  /\ mpc = "join"
  /\ \/ /\ Finished = Worker /\ Dead = {}
        /\ mpc' = "stopped"
     \/ /\ \E w \in Dead : \A v \in Worker : v < w => wpc[v] = "finished"
        /\ mpc' = "panicked"
  /\ UNCHANGED <<queueVars, atomicVars, mutex, workerVars, sent, slot, tried,
                 todo, scheduled>>

MainStep == TryPush \/ Release \/ Count \/ NotifyOne \/ NotifyAll \/ Join

Done == mpc \in {"stopped", "panicked"} /\ UNCHANGED vars

Next == \/ \E w \in Worker : Run(w) \/ SpuriousWakeup(w)
        \/ \E j \in Job : Call(j)
        \/ MainStep \/ Drop \/ Done

(* Every thread that can run is run by the operating system, and jobs      *)
(* terminate.  Nobody has to schedule a job or to stop the pool, but a     *)
(* main loop that sees a dead worker does.                                 *)
Fairness == /\ \A w \in Worker : WF_vars(Run(w))
            /\ WF_vars(MainStep)
            /\ WF_vars(Finished # {} /\ Drop)

Spec == Init /\ [][Next]_vars
FairSpec == Spec /\ Fairness
----------------------------------------------------------------------------
(* Properties.                                                             *)

(* Type invariant of the pool.                                             *)
TypeOK ==
  /\ queue \in [Worker -> Seq(Job)]
  /\ holder \in [Worker -> Worker \union {Main, Nobody}]
  /\ numJobs \in 0..(Modulus - 1)
  /\ running \in BOOLEAN
  /\ mutex \in Worker \union {Nobody}
  /\ wpc \in [Worker -> {"top", "lock", "parking", "waiting", "scan", "unlock",
                         "uncount", "execute", "decide", "dead", "finished"}]
  /\ scan \in [Worker -> 0..NumWorkers]
  /\ job \in [Worker -> Job \union {NoJob}]
  /\ sent \in [Job -> Nat]
  /\ mpc \in {"idle", "push", "release", "count", "notify", "notify_all",
              "join", "stopped", "panicked"}
  /\ slot \in Worker /\ tried \in Worker
  /\ todo \in Job \union {NoJob}
  /\ scheduled \subseteq Job

QueuedJobs == UNION {{<<w, i>> : i \in DOMAIN queue[w]} : w \in Worker}
JobAt(p) == queue[p[1]][p[2]]
Queued(j) == {p \in QueuedJobs : JobAt(p) = j}
TakenBy(j) == {w \in Worker : job[w] = j}

EachJobOnce ==
  \A j \in scheduled :
    Cardinality(Queued(j)) + Cardinality(TakenBy(j)) + sent[j] = 1

StillCounted == {w \in Worker : wpc[w] \in {"unlock", "uncount"} /\ job[w] # NoJob}
NotYetCounted == IF mpc \in {"release", "count"} THEN 1 ELSE 0

CounterExact ==
  numJobs = Wrap(Cardinality(QueuedJobs) + Cardinality(StillCounted)
                   - NotYetCounted)

(* A scheduled job is in one queue, with one worker or done: no job is     *)
(* lost or executed twice, although workers steal from every queue.        *)
(* The counter is the number of queued jobs, give or take the operations   *)
(* under way: a job that is pushed and not yet counted, jobs that are      *)
(* popped and still counted.  A job popped before it is counted wraps the  *)
(* counter to its maximum, which the next fetch_add undoes.                *)
JobsAccounted == TypeOK /\ EachJobOnce /\ CounterExact

(* With at least two workers, a notification that comes between a worker's *)
(* look at the counter and its wait is not missed: once schedule() has     *)
(* returned, some worker is on its way to the queued job.                  *)
SomebodyAwake ==
  running /\ Dead = {} /\ mpc = "idle" /\ QueuedJobs # {}
    => \E w \in Worker : wpc[w] \notin {"waiting", "parking"}

(* The pool implements JobPool.                                            *)
Abstract == INSTANCE JobPool WITH
              given <- scheduled, results <- sent, up <- running /\ Dead = {}

(* Every step of the threads is a step of JobPool or none: a result is     *)
(* sent only for a job that was scheduled, and only once.  And a job that  *)
(* was scheduled is executed, while no worker has died and the pool is not *)
(* stopped.                                                                *)
ImplementsJobPool == Abstract!FairSpec

=============================================================================
