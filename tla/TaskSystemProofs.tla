-------------------------- MODULE TaskSystemProofs --------------------------
(***************************************************************************)
(* The pool of TaskSystem keeps its jobs, proved for any number of workers *)
(* and jobs: each is in one place, the counter is exact, some worker is    *)
(* awake when a job waits, and every step is one of JobPool or none.       *)
(*                                                                         *)
(* The locks of the queues play no part in it.  They keep a job from being *)
(* pushed and popped at once, and in the model a push or a pop is one      *)
(* step; what can go wrong lies between the steps: a job is in a queue and *)
(* not counted, with a worker and still counted, notified too early.       *)
(***************************************************************************)
EXTENDS TaskSystem, FiniteSetTheorems, TLAPS

(* Where a worker and the main loop hold a job.                            *)
JobsHeld ==
  /\ \A w \in Worker :
       /\ job[w] # NoJob => wpc[w] \in {"unlock", "uncount", "execute", "dead"}
       /\ wpc[w] \in {"uncount", "execute", "dead"} => job[w] # NoJob
  /\ mpc \in {"push", "release", "count", "notify"} => todo # NoJob
  /\ mpc = "push" => todo \notin scheduled

(* A worker that holds the lock of a queue has not tried them all.         *)
ScanGoesOn == \A w \in Worker : wpc[w] = "unlock" => scan[w] < NumWorkers

(* Every scheduled job is in a queue, with a worker or done, in one place  *)
(* only.                                                                   *)
JobsApart ==
  /\ \A p, q \in QueuedJobs : JobAt(p) = JobAt(q) => p = q
  /\ \A v, w \in Worker : job[v] = job[w] /\ job[v] # NoJob => v = w
  /\ \A p \in QueuedJobs : \A w \in Worker : job[w] # JobAt(p)

JobsPending ==
  /\ \A p \in QueuedJobs : JobAt(p) \in scheduled /\ sent[JobAt(p)] = 0
  /\ \A w \in Worker : job[w] # NoJob => job[w] \in scheduled /\ sent[job[w]] = 0
  /\ \A j \in Job : sent[j] = 0 \/ (sent[j] = 1 /\ j \in scheduled)

JobsPlaced ==
  \A j \in scheduled : \/ sent[j] = 1
                       \/ \E w \in Worker : job[w] = j
                       \/ \E p \in QueuedJobs : JobAt(p) = j

JobsCounted == IsFiniteSet(QueuedJobs) /\ CounterExact

(* Only the holder of the mutex is on its way into the wait set.           *)
OneParks == \A w \in Worker : wpc[w] = "parking" => mutex = w

PoolInv == /\ TypeOK /\ JobsHeld /\ ScanGoesOn
           /\ JobsApart /\ JobsPending /\ JobsPlaced
           /\ JobsCounted
           /\ OneParks
----------------------------------------------------------------------------
(* Arithmetic of the queues and of the counter.                            *)

LEMMA RemainderType ==
  ASSUME NEW a \in Int, NEW m \in Nat \ {0}
  PROVE  a % m \in 0..(m - 1)
OBVIOUS

LEMMA RemainderUnique ==
  ASSUME NEW m \in Nat \ {0}, NEW a \in Int, NEW q \in Int,
         NEW r \in 0..(m - 1), a = m * q + r
  PROVE  a % m = r
OBVIOUS

LEMMA DivisionRule ==
  ASSUME NEW a \in Int, NEW m \in Nat \ {0}
  PROVE  a \div m \in Int /\ a = m * (a \div m) + (a % m)
OBVIOUS

(* A counter that wraps may be counted up or down before or after it does. *)
LEMMA WrapSteps ==
  ASSUME NEW n \in Int, NEW d \in {-1, 1}
  PROVE  Wrap(Wrap(n) + d) = Wrap(n + d)
<1> DEFINE q == n \div Modulus
<1> DEFINE r == n % Modulus
<1>1. Modulus \in Nat \ {0}
  BY PoolAssumption
<1>2. q \in Int /\ r \in 0..(Modulus - 1) /\ n = Modulus * q + r
  BY <1>1, DivisionRule, RemainderType
<1> DEFINE p == (r + d) \div Modulus
<1> DEFINE s == (r + d) % Modulus
<1>3. p \in Int /\ s \in 0..(Modulus - 1) /\ r + d = Modulus * p + s
  <2>1. r + d \in Int
    BY <1>2
  <2> HIDE DEF r
  <2> QED
    BY <1>1, <2>1, DivisionRule, RemainderType
<1>4. n + d = Modulus * (q + p) + s
  <2> HIDE DEF q, r, p, s
  <2> QED
    BY <1>1, <1>2, <1>3
<1>5. (n + d) % Modulus = s
  <2> HIDE DEF q, r, p, s
  <2>1. n + d \in Int /\ q + p \in Int
    BY <1>2, <1>3
  <2> QED
    BY <1>1, <1>3, <1>4, <2>1, RemainderUnique
<1> QED
  BY <1>5 DEF Wrap

LEMMA Threads ==
  /\ NumWorkers \in Nat \ {0} /\ Worker \subseteq Nat
  /\ Main \notin Worker /\ Nobody \notin Worker /\ Main # Nobody
  /\ \A n \in Int : n % NumWorkers \in Worker
  /\ 0 \in Worker /\ 0 \in 0..NumWorkers
BY PoolAssumption, RemainderType DEF Worker, Main, Nobody

LEMMA WorkersFinite == IsFiniteSet(Worker) /\ Cardinality(Worker) = NumWorkers
BY PoolAssumption, FS_Interval DEF Worker

LEMMA NextScan ==
  ASSUME TypeOK, NEW w \in Worker, scan[w] < NumWorkers
  PROVE  scan[w] + 1 \in 0..NumWorkers
<1>1. scan[w] \in 0..NumWorkers
  BY DEF TypeOK
<1>2. NumWorkers \in Nat
  BY PoolAssumption
<1> QED
  BY <1>1, <1>2

LEMMA QueueOfType == TypeOK => \A w \in Worker : QueueOf(w) \in Worker
<1> SUFFICES ASSUME TypeOK, NEW w \in Worker PROVE QueueOf(w) \in Worker
  OBVIOUS
<1>1. w + scan[w] \in Int
  <2>1. scan[w] \in 0..NumWorkers /\ w \in Nat
    BY Threads DEF TypeOK
  <2> QED
    BY <2>1
<1> QED
  BY <1>1, Threads DEF QueueOf
----------------------------------------------------------------------------
(* Type correctness.                                                       *)

(* What pop and push do to the queues.                                     *)
LEMMA PopType ==
  ASSUME NEW S, NEW s \in Seq(S), s # <<>>
  PROVE  Head(s) \in S /\ Tail(s) \in Seq(S)
OBVIOUS

LEMMA InitTyped == Init => TypeOK
BY Threads, PoolAssumption DEF Init, TypeOK

LEMMA WorkerTyped ==
  ASSUME TypeOK, ScanGoesOn, JobsHeld, NEW w \in Worker, Run(w) \/ SpuriousWakeup(w)
  PROVE  TypeOK'
<1> USE DEF TypeOK, queueVars, atomicVars, mainVars
<1>1. CASE Loop(w)
  BY <1>1 DEF Loop, Goto
<1>2. CASE Evaluate(w)
  <2>1. scan' \in [Worker -> 0..NumWorkers]
    BY <1>2, Threads DEF Evaluate
  <2>2. wpc' = [wpc EXCEPT ![w] = "parking"] \/ wpc' = [wpc EXCEPT ![w] = "scan"]
    BY <1>2 DEF Evaluate, Goto
  <2> QED
    BY <1>2, <2>1, <2>2 DEF Evaluate
<1>3. CASE Park(w)
  BY <1>3 DEF Park, Goto
<1>4. CASE SpuriousWakeup(w)
  BY <1>4 DEF SpuriousWakeup, Goto
<1>5. CASE TryPop(w)
  <2>1. QueueOf(w) \in Worker
    BY QueueOfType
  <2>2. queue' \in [Worker -> Seq(Job)] /\ job' \in [Worker -> Job \union {NoJob}]
    <3>1. CASE UNCHANGED <<queue, job>>
      BY <3>1
    <3>2. CASE /\ queue[QueueOf(w)] # <<>>
               /\ job' = [job EXCEPT ![w] = Head(queue[QueueOf(w)])]
               /\ queue' = [queue EXCEPT ![QueueOf(w)] = Tail(@)]
      <4>1. queue[QueueOf(w)] \in Seq(Job)
        BY <2>1
      <4>2. /\ Head(queue[QueueOf(w)]) \in Job
            /\ Tail(queue[QueueOf(w)]) \in Seq(Job)
        BY <3>2, <4>1, PopType
      <4> QED
        BY <2>1, <3>2, <4>2
    <3> QED
      BY <1>5, <3>1, <3>2 DEF TryPop
  <2>3. scan' \in [Worker -> 0..NumWorkers]
    <3>1. wpc[w] = "scan" /\ scan[w] < NumWorkers => scan[w] + 1 \in 0..NumWorkers
      BY NextScan
    <3> QED
      BY <1>5, <3>1 DEF TryPop
  <2> QED
    BY <1>5, <2>1, <2>2, <2>3 DEF TryPop
<1>6. CASE Unlock(w)
  <2>1. scan' \in [Worker -> 0..NumWorkers]
    <3>1. wpc[w] = "unlock" => scan[w] + 1 \in 0..NumWorkers
      BY NextScan DEF ScanGoesOn
    <3> QED
      BY <1>6, <3>1 DEF Unlock, Goto
  <2> QED
    BY <1>6, <2>1, QueueOfType DEF Unlock, Goto
<1>7. CASE Uncount(w)
  <2>1. numJobs' \in 0..(Modulus - 1)
    BY <1>7, PoolAssumption, RemainderType DEF Uncount, Wrap
  <2> QED
    BY <1>7, <2>1 DEF Uncount, Goto
<1>8. CASE Execute(w)
  <2>1. job[w] \in Job
    BY <1>8 DEF Execute, Goto, JobsHeld
  <2>2. sent' \in [Job -> Nat]
    <3>1. sent[job[w]] + 1 \in Nat
      BY <2>1
    <3> QED
      BY <1>8, <2>1, <3>1 DEF Execute
  <2> QED
    BY <1>8, <2>2 DEF Execute, Goto
<1>9. CASE Decide(w)
  <2>1. scan' \in [Worker -> 0..NumWorkers]
    BY <1>9, Threads DEF Decide
  <2>2. wpc' = [wpc EXCEPT ![w] = "top"] \/ wpc' = [wpc EXCEPT ![w] = "scan"]
    BY <1>9 DEF Decide
  <2> QED
    BY <1>9, <2>1, <2>2 DEF Decide
<1> QED
  BY <1>1, <1>2, <1>3, <1>4, <1>5, <1>6, <1>7, <1>8, <1>9 DEF Run

LEMMA MainTyped ==
  ASSUME TypeOK, JobsHeld, (\E j \in Job : Call(j)) \/ MainStep \/ Drop
  PROVE  TypeOK'
<1> USE DEF TypeOK, queueVars, atomicVars, workerVars
<1>1. ASSUME NEW j \in Job, Call(j) PROVE TypeOK'
  BY <1>1 DEF Call
<1>2. CASE TryPush
  <2> DEFINE q == (slot + tried) % NumWorkers
  <2>1. q \in Worker /\ tried' \in Worker /\ slot' \in Worker
    <3>1. slot + tried \in Int /\ tried + 1 \in Int /\ slot + 1 \in Int
      BY Threads
    <3> QED
      BY <1>2, <3>1, Threads DEF TryPush
  <2>2. todo \in Job
    BY <1>2 DEF TryPush, JobsHeld
  <2>3. queue' \in [Worker -> Seq(Job)]
    <3>1. Append(queue[q], todo) \in Seq(Job)
      BY <2>1, <2>2
    <3>2. queue' = queue \/ queue' = [queue EXCEPT ![q] = Append(queue[q], todo)]
      BY <1>2 DEF TryPush
    <3> HIDE DEF q
    <3> QED
      BY <2>1, <3>1, <3>2
  <2>4. holder' \in [Worker -> Worker \union {Main, Nobody}]
    BY <1>2, <2>1 DEF TryPush
  <2>5. scheduled' \subseteq Job
    BY <1>2, <2>2 DEF TryPush
  <2> QED
    BY <1>2, <2>1, <2>3, <2>4, <2>5 DEF TryPush
<1>3. CASE Release
  BY <1>3 DEF Release
<1>4. CASE Count
  <2>1. numJobs' \in 0..(Modulus - 1)
    BY <1>4, PoolAssumption, RemainderType DEF Count, Wrap
  <2> QED
    BY <1>4, <2>1 DEF Count
<1>5. CASE NotifyOne
  <2>1. slot + 1 \in Int
    BY Threads
  <2>2. slot' \in Worker /\ tried' \in Worker
    BY <1>5, <2>1, Threads DEF NotifyOne
  <2> QED
    BY <1>5, <2>2 DEF NotifyOne
<1>6. CASE NotifyAll
  BY <1>6 DEF NotifyAll
<1>7. CASE Join
  BY <1>7 DEF Join
<1>8. CASE Drop
  BY <1>8 DEF Drop
<1> QED
  BY <1>1, <1>2, <1>3, <1>4, <1>5, <1>6, <1>7, <1>8 DEF MainStep

----------------------------------------------------------------------------
(* Where the threads are.                                                  *)

LEMMA WorkerHeld ==
  ASSUME TypeOK, JobsHeld, ScanGoesOn, OneParks,
         NEW w \in Worker, Run(w) \/ SpuriousWakeup(w)
  PROVE  JobsHeld' /\ ScanGoesOn' /\ OneParks'
<1> USE DEF JobsHeld, ScanGoesOn, OneParks, queueVars, atomicVars, mainVars
<1> SUFFICES \A v \in Worker :
               /\ job'[v] # NoJob
                    => wpc'[v] \in {"unlock", "uncount", "execute", "dead"}
               /\ wpc'[v] \in {"uncount", "execute", "dead"} => job'[v] # NoJob
               /\ wpc'[v] = "unlock" => scan'[v] < NumWorkers
               /\ wpc'[v] = "parking" => mutex' = v
  BY DEF Run, Loop, Evaluate, Park, TryPop, Unlock, Uncount, Execute, Decide,
         SpuriousWakeup
<1> TAKE v \in Worker
<1>1. CASE Loop(w)
  BY <1>1 DEF Loop, Goto, TypeOK
<1>2. CASE Evaluate(w)
  <2>1. wpc[v] # "parking"
    BY <1>2, Threads DEF Evaluate
  <2> QED
    BY <1>2, <2>1 DEF Evaluate, Goto, TypeOK
<1>3. CASE Park(w)
  BY <1>3 DEF Park, Goto, TypeOK
<1>4. CASE SpuriousWakeup(w)
  BY <1>4 DEF SpuriousWakeup, Goto, TypeOK
<1>5. CASE TryPop(w)
  <2>1. CASE wpc' = wpc
    BY <1>5, <2>1 DEF TryPop, TypeOK
  <2>2. CASE wpc' = [wpc EXCEPT ![w] = "unlock"]
    BY <1>5, <2>2 DEF TryPop, TypeOK
  <2> QED
    BY <1>5, <2>1, <2>2 DEF TryPop
<1>6. CASE Unlock(w)
  BY <1>6 DEF Unlock, Goto, TypeOK
<1>7. CASE Uncount(w)
  BY <1>7 DEF Uncount, Goto, TypeOK
<1>8. CASE Execute(w)
  BY <1>8 DEF Execute, Goto, TypeOK
<1>9. CASE Decide(w)
  BY <1>9 DEF Decide, TypeOK
<1> QED
  BY <1>1, <1>2, <1>3, <1>4, <1>5, <1>6, <1>7, <1>8, <1>9 DEF Run

LEMMA MainHeld ==
  ASSUME TypeOK, JobsHeld, ScanGoesOn, OneParks,
         (\E j \in Job : Call(j)) \/ MainStep \/ Drop
  PROVE  JobsHeld' /\ ScanGoesOn' /\ OneParks'
<1> USE DEF JobsHeld, ScanGoesOn, OneParks, queueVars, atomicVars, workerVars
<1>1. ASSUME NEW j \in Job, Call(j) PROVE JobsHeld' /\ ScanGoesOn' /\ OneParks'
  BY <1>1, PoolAssumption DEF Call
<1>2. CASE TryPush
  BY <1>2 DEF TryPush
<1>3. CASE Release
  BY <1>3 DEF Release
<1>4. CASE Count
  BY <1>4 DEF Count
<1>5. CASE NotifyOne
  BY <1>5 DEF NotifyOne, WaitSet, TypeOK
<1>6. CASE NotifyAll
  BY <1>6 DEF NotifyAll, WaitSet, TypeOK
<1>7. CASE Join
  BY <1>7 DEF Join
<1>8. CASE Drop
  BY <1>8 DEF Drop
<1> QED
  BY <1>1, <1>2, <1>3, <1>4, <1>5, <1>6, <1>7, <1>8 DEF MainStep

----------------------------------------------------------------------------
(* What a step does to the jobs.                                           *)

Keeps == UNCHANGED <<queue, job, sent, scheduled>>

Pops(w, q) ==
  /\ queue[q] # <<>> /\ job[w] = NoJob
  /\ job' = [job EXCEPT ![w] = Head(queue[q])]
  /\ queue' = [queue EXCEPT ![q] = Tail(@)]
  /\ UNCHANGED <<sent, scheduled>>

Pushes(q) ==
  /\ todo \in Job \ scheduled
  /\ queue' = [queue EXCEPT ![q] = Append(@, todo)]
  /\ scheduled' = scheduled \union {todo}
  /\ UNCHANGED <<job, sent>>

Completes(w) ==
  /\ job[w] # NoJob
  /\ sent' = [sent EXCEPT ![job[w]] = @ + 1]
  /\ job' = [job EXCEPT ![w] = NoJob]
  /\ UNCHANGED <<queue, scheduled>>

(* What the steps do to the counter and to what it stands for.             *)
CountsNothing == /\ numJobs' = numJobs
                 /\ StillCounted' = StillCounted
                 /\ NotYetCounted' = NotYetCounted

(* The steps of the workers, as the invariants see them.                   *)
LEMMA WorkerKinds ==
  ASSUME TypeOK, JobsHeld, NEW w \in Worker, Run(w) \/ SpuriousWakeup(w)
  PROVE  \/ Keeps /\ CountsNothing
         \/ /\ \E q \in Worker : Pops(w, q)
            /\ numJobs' = numJobs /\ NotYetCounted' = NotYetCounted
            /\ StillCounted' = StillCounted \union {w} /\ w \notin StillCounted
         \/ /\ Keeps
            /\ numJobs' = Wrap(numJobs - 1) /\ NotYetCounted' = NotYetCounted
            /\ StillCounted' = StillCounted \ {w} /\ w \in StillCounted
         \/ Completes(w) /\ CountsNothing
<1> USE DEF queueVars, atomicVars, mainVars
<1>1. CASE \/ Loop(w) \/ Evaluate(w) \/ Park(w) \/ SpuriousWakeup(w)
           \/ Unlock(w) \/ Decide(w)
  <2>1. Keeps /\ numJobs' = numJobs /\ mpc' = mpc
    BY <1>1 DEF Loop, Evaluate, Park, SpuriousWakeup, Unlock, Decide, Keeps
  <2>2. job' = job
    BY <2>1 DEF Keeps
  <2>3. /\ \A v \in Worker \ {w} : wpc'[v] = wpc[v]
        /\ job[w] = NoJob \/ (wpc[w] = "unlock" /\ wpc'[w] = "uncount")
    BY <1>1 DEF Loop, Evaluate, Park, SpuriousWakeup, Unlock, Decide, Goto,
                JobsHeld, TypeOK
  <2>4. StillCounted' = StillCounted
    BY <2>2, <2>3 DEF StillCounted
  <2> QED
    BY <2>1, <2>4 DEF CountsNothing, NotYetCounted
<1>2. CASE TryPop(w)
  <2>1. numJobs' = numJobs /\ NotYetCounted' = NotYetCounted /\ job[w] = NoJob
    BY <1>2 DEF TryPop, NotYetCounted, JobsHeld
  <2>2. CASE UNCHANGED <<queue, job>>
    <3>1. Keeps /\ \A v \in Worker \ {w} : wpc'[v] = wpc[v]
      BY <1>2, <2>2 DEF TryPop, Keeps, TypeOK
    <3>2. StillCounted' = StillCounted
      BY <2>1, <2>2, <3>1 DEF StillCounted
    <3> QED
      BY <2>1, <3>1, <3>2 DEF CountsNothing
  <2>3. CASE ~UNCHANGED <<queue, job>>
    <3>1. Pops(w, QueueOf(w)) /\ wpc' = [wpc EXCEPT ![w] = "unlock"]
      BY <1>2, <2>1, <2>3 DEF TryPop, Pops
    <3>2. Head(queue[QueueOf(w)]) # NoJob
      <4>1. queue[QueueOf(w)] \in Seq(Job)
        BY QueueOfType DEF TypeOK
      <4>2. Head(queue[QueueOf(w)]) \in Job
        BY <3>1, <4>1, PopType DEF Pops
      <4> QED
        BY <4>2, PoolAssumption
    <3>3. StillCounted' = StillCounted \union {w}
      BY <3>1, <3>2 DEF Pops, StillCounted, TypeOK
    <3>4. w \notin StillCounted
      BY <2>1 DEF StillCounted
    <3> QED
      BY <2>1, <3>1, <3>3, <3>4, QueueOfType
  <2> QED
    BY <2>2, <2>3
<1>3. CASE Uncount(w)
  <2>1. Keeps /\ NotYetCounted' = NotYetCounted /\ numJobs' = Wrap(numJobs - 1)
    BY <1>3 DEF Uncount, Keeps, NotYetCounted
  <2>2. StillCounted' = StillCounted \ {w}
    BY <1>3 DEF Uncount, Goto, StillCounted, TypeOK
  <2>3. w \in StillCounted
    BY <1>3 DEF Uncount, Goto, StillCounted, JobsHeld
  <2> QED
    BY <2>1, <2>2, <2>3
<1>4. CASE Execute(w)
  <2>1. numJobs' = numJobs /\ NotYetCounted' = NotYetCounted
    BY <1>4 DEF Execute, NotYetCounted
  <2>2. StillCounted' = StillCounted
    BY <1>4 DEF Execute, Goto, StillCounted, TypeOK
  <2>3. Keeps \/ Completes(w)
    BY <1>4 DEF Execute, Goto, Keeps, Completes, JobsHeld
  <2> QED
    BY <2>1, <2>2, <2>3 DEF CountsNothing
<1> QED
  BY <1>1, <1>2, <1>3, <1>4 DEF Run

(* The steps of the main loop.                                             *)
LEMMA MainKinds ==
  ASSUME TypeOK, JobsHeld, (\E j \in Job : Call(j)) \/ MainStep \/ Drop
  PROVE  \/ Keeps /\ CountsNothing
         \/ /\ \E q \in Worker : Pushes(q)
            /\ numJobs' = numJobs /\ StillCounted' = StillCounted
            /\ NotYetCounted = 0 /\ NotYetCounted' = 1
         \/ /\ Keeps
            /\ numJobs' = Wrap(numJobs + 1) /\ StillCounted' = StillCounted
            /\ NotYetCounted = 1 /\ NotYetCounted' = 0
<1> USE DEF queueVars, atomicVars, workerVars
<1>1. CASE (\E j \in Job : Call(j)) \/ Release \/ Join \/ Drop
  BY <1>1 DEF Call, Release, Join, Drop, Keeps, CountsNothing, StillCounted,
              NotYetCounted
<1>2. CASE NotifyOne \/ NotifyAll
  <2>1. Keeps /\ numJobs' = numJobs /\ NotYetCounted' = NotYetCounted
    BY <1>2 DEF NotifyOne, NotifyAll, Keeps, NotYetCounted
  <2>2. \A v \in Worker : \/ wpc'[v] = wpc[v]
                          \/ wpc[v] = "waiting" /\ wpc'[v] = "lock"
    BY <1>2 DEF NotifyOne, NotifyAll, WaitSet, TypeOK
  <2>3. StillCounted' = StillCounted
    BY <2>1, <2>2 DEF StillCounted, Keeps
  <2> QED
    BY <2>1, <2>3 DEF CountsNothing
<1>3. CASE Count
  BY <1>3 DEF Count, Keeps, StillCounted, NotYetCounted
<1>4. CASE TryPush
  <2> DEFINE q == (slot + tried) % NumWorkers
  <2>1. StillCounted' = StillCounted /\ numJobs' = numJobs
    BY <1>4 DEF TryPush, StillCounted
  <2>2. CASE mpc' = "push"
    BY <1>4, <2>1, <2>2 DEF TryPush, Keeps, CountsNothing, NotYetCounted
  <2>3. CASE mpc' # "push"
    <3>1. Pushes(q) /\ mpc = "push" /\ mpc' = "release"
      BY <1>4, <2>3 DEF TryPush, Pushes, JobsHeld, TypeOK
    <3>2. q \in Worker
      <4>1. slot + tried \in Int
        BY Threads DEF TypeOK
      <4> QED
        BY <4>1, Threads
    <3> QED
      BY <2>1, <3>1, <3>2 DEF NotYetCounted
  <2> QED
    BY <2>2, <2>3
<1> QED
  BY <1>1, <1>2, <1>3, <1>4 DEF MainStep

----------------------------------------------------------------------------
(* The places of the jobs in the queues.                                   *)

LEMMA PlaceRule ==
  /\ \A w \in Worker : \A i \in DOMAIN queue[w] :
       <<w, i>> \in QueuedJobs /\ JobAt(<<w, i>>) = queue[w][i]
  /\ \A p \in QueuedJobs :
       p[1] \in Worker /\ p[2] \in DOMAIN queue[p[1]] /\ p = <<p[1], p[2]>>
BY DEF QueuedJobs, JobAt

LEMMA JobAtType == TypeOK => \A p \in QueuedJobs : JobAt(p) \in Job
<1> SUFFICES ASSUME TypeOK, NEW p \in QueuedJobs PROVE JobAt(p) \in Job
  OBVIOUS
<1>1. p[1] \in Worker /\ p[2] \in DOMAIN queue[p[1]]
  BY PlaceRule
<1>2. queue[p[1]] \in Seq(Job)
  BY <1>1 DEF TypeOK
<1> QED
  BY <1>1, <1>2 DEF JobAt

(* A push adds one place and leaves the others alone.                      *)
LEMMA PushPlaces ==
  ASSUME TypeOK, NEW q \in Worker, Pushes(q)
  PROVE  \E new : /\ QueuedJobs' = QueuedJobs \union {new}
                  /\ new \notin QueuedJobs
                  /\ JobAt(new)' = todo
                  /\ \A p \in QueuedJobs : JobAt(p)' = JobAt(p)
<1>0. PICK new : new = <<q, Len(queue[q]) + 1>>
  OBVIOUS
<1>1. /\ queue[q] \in Seq(Job) /\ todo \in Job
      /\ queue'[q] = Append(queue[q], todo)
      /\ \A w \in Worker \ {q} : queue'[w] = queue[w]
  BY DEF Pushes, TypeOK
<1>2. /\ DOMAIN queue'[q] = DOMAIN queue[q] \union {Len(queue[q]) + 1}
      /\ Len(queue[q]) + 1 \notin DOMAIN queue[q]
      /\ queue'[q][Len(queue[q]) + 1] = todo
      /\ \A i \in DOMAIN queue[q] : queue'[q][i] = queue[q][i]
  BY <1>1
<1>3. QueuedJobs' = QueuedJobs \union {new}
  BY <1>0, <1>1, <1>2 DEF QueuedJobs
<1>4. new \notin QueuedJobs
  BY <1>0, <1>2 DEF QueuedJobs
<1>5. JobAt(new)' = todo
  BY <1>0, <1>2 DEF JobAt
<1>6. \A p \in QueuedJobs : JobAt(p)' = JobAt(p)
  BY <1>1, <1>2, PlaceRule DEF JobAt
<1> QED
  BY <1>3, <1>4, <1>5, <1>6

(* A pop takes the last place of a queue away; every job behind the first  *)
(* moves up by one.                                                        *)
Before(q, p) == IF p[1] = q THEN <<q, p[2] + 1>> ELSE p

LEMMA PopPlaces ==
  ASSUME TypeOK, NEW w \in Worker, NEW q \in Worker, Pops(w, q)
  PROVE  /\ <<q, Len(queue[q])>> \in QueuedJobs
         /\ QueuedJobs' = QueuedJobs \ {<<q, Len(queue[q])>>}
         /\ <<q, 1>> \in QueuedJobs
         /\ JobAt(<<q, 1>>) = Head(queue[q])
         /\ \A p \in QueuedJobs' : /\ Before(q, p) \in QueuedJobs \ {<<q, 1>>}
                                   /\ JobAt(p)' = JobAt(Before(q, p))
         /\ \A o \in QueuedJobs \ {<<q, 1>>} :
              \E p \in QueuedJobs' : Before(q, p) = o
<1>1. /\ queue[q] \in Seq(Job) /\ queue[q] # <<>>
      /\ queue'[q] = Tail(queue[q])
      /\ \A v \in Worker \ {q} : queue'[v] = queue[v]
  BY DEF Pops, TypeOK
<1> DEFINE n == Len(queue[q])
<1>2. /\ n \in Nat \ {0} /\ DOMAIN queue[q] = 1..n
      /\ DOMAIN queue'[q] = 1..(n - 1)
      /\ \A i \in 1..(n - 1) : queue'[q][i] = queue[q][i + 1]
      /\ queue[q][1] = Head(queue[q])
  BY <1>1
<1> HIDE DEF n
<1>3. /\ <<q, n>> \in QueuedJobs
      /\ <<q, 1>> \in QueuedJobs /\ JobAt(<<q, 1>>) = Head(queue[q])
  BY <1>2, PlaceRule
<1>4. QueuedJobs' = QueuedJobs \ {<<q, n>>}
  <2>1. 1..(n - 1) = (1..n) \ {n}
    BY <1>2
  <2>2. \A v \in Worker : \A i : i \in DOMAIN queue'[v]
          <=> i \in DOMAIN queue[v] /\ <<v, i>> # <<q, n>>
    BY <1>1, <1>2, <2>1
  <2>3. \A p : p \in QueuedJobs' <=> p \in QueuedJobs /\ p # <<q, n>>
    BY <2>2 DEF QueuedJobs
  <2> QED
    BY <2>3
<1>5. ASSUME NEW p \in QueuedJobs'
      PROVE  /\ Before(q, p) \in QueuedJobs \ {<<q, 1>>}
             /\ JobAt(p)' = JobAt(Before(q, p))
  <2>1. p[1] \in Worker /\ p[2] \in DOMAIN queue[p[1]] /\ p = <<p[1], p[2]>>
    BY <1>4, PlaceRule
  <2>2. CASE p[1] # q
    BY <1>1, <1>4, <2>1, <2>2 DEF Before, JobAt
  <2>3. CASE p[1] = q
    <3>1. p[2] \in 1..(n - 1)
      BY <1>2, <1>4, <2>1, <2>3
    <3>2. p[2] + 1 \in 1..n /\ p[2] + 1 # 1
      BY <1>2, <3>1
    <3>3. Before(q, p) = <<q, p[2] + 1>>
      BY <2>3 DEF Before
    <3> QED
      BY <1>2, <2>3, <3>1, <3>2, <3>3, PlaceRule DEF JobAt
  <2> QED
    BY <2>2, <2>3
<1>6. ASSUME NEW o \in QueuedJobs \ {<<q, 1>>}
      PROVE  \E p \in QueuedJobs' : Before(q, p) = o
  <2>1. o[1] \in Worker /\ o[2] \in DOMAIN queue[o[1]] /\ o = <<o[1], o[2]>>
    BY PlaceRule
  <2>2. CASE o[1] # q
    BY <1>4, <2>1, <2>2 DEF Before
  <2>3. CASE o[1] = q
    <3>1. o[2] \in 1..n /\ o[2] # 1
      BY <1>2, <2>1, <2>3
    <3>2. o[2] - 1 \in 1..n /\ o[2] - 1 # n /\ (o[2] - 1) + 1 = o[2]
      BY <1>2, <3>1
    <3>3. <<q, o[2] - 1>> \in QueuedJobs'
      BY <1>2, <1>4, <3>2, PlaceRule
    <3>4. Before(q, <<q, o[2] - 1>>) = o
      BY <2>1, <2>3, <3>2 DEF Before
    <3> QED
      BY <3>3, <3>4
  <2> QED
    BY <2>2, <2>3
<1> QED
  BY <1>3, <1>4, <1>5, <1>6 DEF n

----------------------------------------------------------------------------
(* No job is lost and none is doubled.                                     *)

Placed == JobsApart /\ JobsPending /\ JobsPlaced

LEMMA KeepsPlaced ==
  ASSUME Placed, Keeps PROVE Placed'
<1>1. QueuedJobs' = QueuedJobs /\ \A p : JobAt(p)' = JobAt(p)
  BY DEF Keeps, QueuedJobs, JobAt
<1> QED
  BY <1>1 DEF Keeps, Placed, JobsApart, JobsPending, JobsPlaced

LEMMA PushPlaced ==
  ASSUME TypeOK, Placed, NEW q \in Worker, Pushes(q) PROVE Placed'
<1>1. PICK new : /\ QueuedJobs' = QueuedJobs \union {new}
                 /\ new \notin QueuedJobs
                 /\ JobAt(new)' = todo
                 /\ \A p \in QueuedJobs : JobAt(p)' = JobAt(p)
  BY PushPlaces
<1>2. /\ todo \in Job \ scheduled /\ todo # NoJob
      /\ scheduled' = scheduled \union {todo}
      /\ job' = job /\ sent' = sent
  BY PoolAssumption DEF Pushes
<1>3. sent[todo] = 0
  BY <1>2 DEF Placed, JobsPending
<1>4. JobsApart'
  <2>1. \A p \in QueuedJobs : JobAt(p) # todo
    BY <1>2 DEF Placed, JobsPending
  <2>2. \A w \in Worker : job[w] # todo
    BY <1>2 DEF Placed, JobsPending
  <2> QED
    BY <1>1, <1>2, <2>1, <2>2 DEF Placed, JobsApart
<1>5. JobsPending'
  BY <1>1, <1>2, <1>3 DEF Placed, JobsPending
<1>6. JobsPlaced'
  BY <1>1, <1>2 DEF Placed, JobsPlaced
<1> QED
  BY <1>4, <1>5, <1>6 DEF Placed

LEMMA PopPlaced ==
  ASSUME TypeOK, Placed, NEW w \in Worker, NEW q \in Worker, Pops(w, q)
  PROVE  Placed'
<1> DEFINE first == <<q, 1>>
<1>1. /\ first \in QueuedJobs /\ JobAt(first) = Head(queue[q])
      /\ \A p \in QueuedJobs' : /\ Before(q, p) \in QueuedJobs \ {first}
                                /\ JobAt(p)' = JobAt(Before(q, p))
      /\ \A o \in QueuedJobs \ {first} :
           \E p \in QueuedJobs' : Before(q, p) = o
  BY PopPlaces
<1>2. \A p, r \in QueuedJobs' : Before(q, p) = Before(q, r) => p = r
  <2> SUFFICES ASSUME NEW p \in QueuedJobs', NEW r \in QueuedJobs',
                      Before(q, p) = Before(q, r)
               PROVE  p = r
    OBVIOUS
  <2>1. p \in QueuedJobs /\ r \in QueuedJobs
    BY PopPlaces
  <2>2. /\ p[2] \in DOMAIN queue[p[1]] /\ p = <<p[1], p[2]>> /\ p[1] \in Worker
        /\ r[2] \in DOMAIN queue[r[1]] /\ r = <<r[1], r[2]>> /\ r[1] \in Worker
    BY <2>1, PlaceRule
  <2>3. p[2] \in Nat /\ r[2] \in Nat
    <3>1. queue[p[1]] \in Seq(Job) /\ queue[r[1]] \in Seq(Job)
      BY <2>2 DEF TypeOK
    <3> QED
      BY <2>2, <3>1
  <2> QED
    BY <2>2, <2>3 DEF Before
<1> DEFINE j == JobAt(first)
<1>3. /\ j \in Job /\ j # NoJob /\ j \in scheduled /\ sent[j] = 0
      /\ job[w] = NoJob /\ job' = [job EXCEPT ![w] = j]
      /\ scheduled' = scheduled /\ sent' = sent
  BY <1>1, JobAtType, PoolAssumption DEF Pops, Placed, JobsPending
<1>4. job'[w] = j /\ \A v \in Worker \ {w} : job'[v] = job[v]
  BY <1>3 DEF TypeOK
<1>5. \A p \in QueuedJobs \ {first} : JobAt(p) # j
  BY <1>1 DEF Placed, JobsApart
<1>6. \A v \in Worker : job[v] # j
  BY <1>1 DEF Placed, JobsApart
<1> HIDE DEF first
<1>7. JobsApart'
  <2>1. \A p, r \in QueuedJobs' : JobAt(p)' = JobAt(r)' => p = r
    BY <1>1, <1>2 DEF Placed, JobsApart
  <2>2. \A v, u \in Worker : job'[v] = job'[u] /\ job'[v] # NoJob => v = u
    BY <1>4, <1>6 DEF Placed, JobsApart
  <2>3. \A p \in QueuedJobs' : \A v \in Worker : job'[v] # JobAt(p)'
    BY <1>1, <1>4, <1>5 DEF Placed, JobsApart
  <2> QED
    BY <2>1, <2>2, <2>3 DEF JobsApart
<1>8. JobsPending'
  <2>1. \A p \in QueuedJobs' : JobAt(p)' \in scheduled /\ sent[JobAt(p)'] = 0
    BY <1>1 DEF Placed, JobsPending
  <2>2. \A v \in Worker :
          job'[v] # NoJob => job'[v] \in scheduled /\ sent[job'[v]] = 0
    BY <1>3, <1>4 DEF Placed, JobsPending
  <2> QED
    BY <1>3, <2>1, <2>2 DEF Placed, JobsPending
<1>9. JobsPlaced'
  <2> SUFFICES ASSUME NEW k \in scheduled, sent[k] # 1
               PROVE  \/ \E v \in Worker : job'[v] = k
                      \/ \E p \in QueuedJobs' : JobAt(p)' = k
    BY <1>3 DEF JobsPlaced
  <2>1. CASE \E v \in Worker : job[v] = k
    <3>1. PICK v \in Worker : job[v] = k
      BY <2>1
    <3>2. k # NoJob
      BY PoolAssumption DEF TypeOK
    <3> QED
      BY <1>3, <1>4, <3>1, <3>2
  <2>2. CASE \E o \in QueuedJobs : JobAt(o) = k
    <3>1. PICK o \in QueuedJobs : JobAt(o) = k
      BY <2>2
    <3>2. CASE o = first
      BY <1>4, <3>1, <3>2
    <3>3. CASE o # first
      BY <1>1, <3>1, <3>3
    <3> QED
      BY <3>2, <3>3
  <2> QED
    BY <2>1, <2>2 DEF Placed, JobsPlaced
<1> QED
  BY <1>7, <1>8, <1>9 DEF Placed

LEMMA CompletePlaced ==
  ASSUME TypeOK, Placed, NEW w \in Worker, Completes(w)
  PROVE  Placed'
<1> DEFINE j == job[w]
<1>1. /\ j \in Job /\ j # NoJob /\ j \in scheduled /\ sent[j] = 0
      /\ scheduled' = scheduled
      /\ sent' = [sent EXCEPT ![j] = sent[j] + 1]
  BY DEF Completes, Placed, JobsPending, TypeOK
<1>2. job'[w] = NoJob /\ \A v \in Worker \ {w} : job'[v] = job[v]
  BY DEF Completes, TypeOK
<1>3. QueuedJobs' = QueuedJobs /\ \A p : JobAt(p)' = JobAt(p)
  BY DEF Completes, QueuedJobs, JobAt
<1>4. sent'[j] = 1 /\ \A k \in Job \ {j} : sent'[k] = sent[k]
  <2>1. sent[j] + 1 = 1
    BY <1>1
  <2> HIDE DEF j
  <2> QED
    BY <1>1, <2>1 DEF TypeOK
<1>5. JobsApart'
  <2>1. \A v, u \in Worker : job'[v] = job'[u] /\ job'[v] # NoJob => v = u
    BY <1>2 DEF Placed, JobsApart
  <2>2. \A p \in QueuedJobs : \A v \in Worker : job'[v] # JobAt(p)
    <3>1. \A p \in QueuedJobs : JobAt(p) # NoJob
      BY JobAtType, PoolAssumption
    <3> QED
      BY <1>2, <3>1 DEF Placed, JobsApart
  <2> QED
    BY <1>3, <2>1, <2>2 DEF Placed, JobsApart
<1>6. JobsPending'
  <2>1. \A p \in QueuedJobs : JobAt(p) \in scheduled /\ sent'[JobAt(p)] = 0
    <3>1. \A p \in QueuedJobs : JobAt(p) \in Job \ {j}
      BY JobAtType DEF Placed, JobsApart
    <3> QED
      BY <1>4, <3>1 DEF Placed, JobsPending
  <2>2. \A v \in Worker :
          job'[v] # NoJob => job'[v] \in scheduled /\ sent'[job'[v]] = 0
    <3>1. \A v \in Worker \ {w} : job[v] # NoJob => job[v] \in Job \ {j}
      BY <1>1 DEF Placed, JobsApart, TypeOK
    <3> QED
      BY <1>2, <1>4, <3>1 DEF Placed, JobsPending
  <2>3. \A k \in Job : sent'[k] = 0 \/ (sent'[k] = 1 /\ k \in scheduled)
    BY <1>1, <1>4 DEF Placed, JobsPending
  <2> QED
    BY <1>1, <1>3, <2>1, <2>2, <2>3 DEF JobsPending
<1>7. JobsPlaced'
  <2> SUFFICES ASSUME NEW k \in scheduled
               PROVE  \/ sent'[k] = 1
                      \/ \E v \in Worker : job'[v] = k
                      \/ \E p \in QueuedJobs : JobAt(p) = k
    BY <1>1, <1>3 DEF JobsPlaced
  <2>1. k \in Job
    BY DEF TypeOK
  <2> QED
    BY <1>2, <1>4, <2>1 DEF Placed, JobsPlaced
<1> QED
  BY <1>5, <1>6, <1>7 DEF Placed

----------------------------------------------------------------------------
(* The counter.                                                            *)

Outstanding == Cardinality(QueuedJobs) + Cardinality(StillCounted) - NotYetCounted

LEMMA StillCountedFinite ==
  IsFiniteSet(StillCounted) /\ Cardinality(StillCounted) \in 0..NumWorkers
<1>1. StillCounted \in SUBSET Worker
  BY DEF StillCounted
<1>2. IsFiniteSet(StillCounted) /\ Cardinality(StillCounted) <= Cardinality(Worker)
  BY <1>1, WorkersFinite, FS_Subset
<1>3. Cardinality(StillCounted) \in Nat
  BY <1>2, FS_CardinalityType
<1> QED
  BY <1>2, <1>3, WorkersFinite, Threads

LEMMA OutstandingType == IsFiniteSet(QueuedJobs) => Outstanding \in Int
BY StillCountedFinite, FS_CardinalityType DEF Outstanding, NotYetCounted

(* Pushing and popping move a job from one part of the sum to another; the *)
(* counter follows the sum.                                                *)
LEMMA WorkerCounted ==
  ASSUME TypeOK, JobsHeld, JobsCounted, NEW w \in Worker,
         Run(w) \/ SpuriousWakeup(w)
  PROVE  JobsCounted'
<1>0. /\ Cardinality(QueuedJobs) \in Nat /\ Cardinality(StillCounted) \in Nat
      /\ IsFiniteSet(QueuedJobs) /\ IsFiniteSet(StillCounted)
      /\ NotYetCounted \in {0, 1} /\ numJobs = Wrap(Outstanding)
  BY StillCountedFinite, FS_CardinalityType
  DEF JobsCounted, CounterExact, NotYetCounted, Outstanding
<1>1. CASE (Keeps \/ Completes(w)) /\ CountsNothing
  <2>1. QueuedJobs' = QueuedJobs
    BY <1>1 DEF Keeps, Completes, QueuedJobs
  <2> QED
    BY <1>1, <2>1 DEF CountsNothing, JobsCounted, CounterExact, Wrap
<1>2. ASSUME NEW q \in Worker, Pops(w, q),
             numJobs' = numJobs, NotYetCounted' = NotYetCounted,
             StillCounted' = StillCounted \union {w}, w \notin StillCounted
      PROVE  JobsCounted'
  <2>1. /\ <<q, Len(queue[q])>> \in QueuedJobs
        /\ QueuedJobs' = QueuedJobs \ {<<q, Len(queue[q])>>}
    BY <1>2, PopPlaces
  <2>2. /\ IsFiniteSet(QueuedJobs')
        /\ Cardinality(QueuedJobs') = Cardinality(QueuedJobs) - 1
    BY <1>0, <2>1, FS_RemoveElement
  <2>3. Cardinality(StillCounted') = Cardinality(StillCounted) + 1
    BY <1>0, <1>2, FS_AddElement
  <2>4. Outstanding' = Outstanding
    BY <1>0, <1>2, <2>2, <2>3 DEF Outstanding
  <2> QED
    BY <1>0, <1>2, <2>2, <2>4 DEF JobsCounted, CounterExact, Outstanding, Wrap
<1>3. CASE /\ Keeps
           /\ numJobs' = Wrap(numJobs - 1) /\ NotYetCounted' = NotYetCounted
           /\ StillCounted' = StillCounted \ {w} /\ w \in StillCounted
  <2>1. QueuedJobs' = QueuedJobs
    BY <1>3 DEF Keeps, QueuedJobs
  <2>2. Cardinality(StillCounted') = Cardinality(StillCounted) - 1
    BY <1>0, <1>3, FS_RemoveElement
  <2>3. Outstanding' = Outstanding - 1
    BY <1>0, <1>3, <2>1, <2>2 DEF Outstanding
  <2>4. Wrap(Wrap(Outstanding) + (-1)) = Wrap(Outstanding + (-1))
    BY <1>0, OutstandingType, WrapSteps
  <2>5. numJobs + (-1) = numJobs - 1 /\ Outstanding + (-1) = Outstanding - 1
    BY <1>0, OutstandingType DEF TypeOK
  <2>6. numJobs' = Wrap(Outstanding')
    BY <1>0, <1>3, <2>3, <2>4, <2>5
  <2> QED
    BY <1>0, <2>1, <2>6 DEF JobsCounted, CounterExact, Outstanding, Wrap
<1> QED
  BY <1>1, <1>2, <1>3, WorkerKinds

LEMMA MainCounted ==
  ASSUME TypeOK, JobsHeld, JobsCounted,
         (\E j \in Job : Call(j)) \/ MainStep \/ Drop
  PROVE  JobsCounted'
<1>0. /\ Cardinality(QueuedJobs) \in Nat /\ Cardinality(StillCounted) \in Nat
      /\ IsFiniteSet(QueuedJobs) /\ numJobs = Wrap(Outstanding)
  BY StillCountedFinite, FS_CardinalityType
  DEF JobsCounted, CounterExact, Outstanding
<1>1. CASE Keeps /\ CountsNothing
  <2>1. QueuedJobs' = QueuedJobs
    BY <1>1 DEF Keeps, QueuedJobs
  <2> QED
    BY <1>1, <2>1 DEF CountsNothing, JobsCounted, CounterExact, Wrap
<1>2. ASSUME NEW q \in Worker, Pushes(q),
             numJobs' = numJobs, StillCounted' = StillCounted,
             NotYetCounted = 0, NotYetCounted' = 1
      PROVE  JobsCounted'
  <2>1. PICK new : QueuedJobs' = QueuedJobs \union {new} /\ new \notin QueuedJobs
    BY <1>2, PushPlaces
  <2>2. /\ IsFiniteSet(QueuedJobs')
        /\ Cardinality(QueuedJobs') = Cardinality(QueuedJobs) + 1
    BY <1>0, <2>1, FS_AddElement
  <2>3. Outstanding' = Outstanding
    BY <1>0, <1>2, <2>2 DEF Outstanding
  <2> QED
    BY <1>0, <1>2, <2>2, <2>3 DEF JobsCounted, CounterExact, Outstanding, Wrap
<1>3. CASE /\ Keeps
           /\ numJobs' = Wrap(numJobs + 1) /\ StillCounted' = StillCounted
           /\ NotYetCounted = 1 /\ NotYetCounted' = 0
  <2>1. QueuedJobs' = QueuedJobs
    BY <1>3 DEF Keeps, QueuedJobs
  <2>2. Outstanding' = Outstanding + 1
    BY <1>0, <1>3, <2>1 DEF Outstanding
  <2>3. Wrap(Wrap(Outstanding) + 1) = Wrap(Outstanding + 1)
    BY <1>0, OutstandingType, WrapSteps
  <2>4. numJobs' = Wrap(Outstanding')
    BY <1>0, <1>3, <2>2, <2>3
  <2> QED
    BY <1>0, <2>1, <2>4 DEF JobsCounted, CounterExact, Outstanding, Wrap
<1> QED
  BY <1>1, <1>2, <1>3, MainKinds

----------------------------------------------------------------------------
(* The invariant.                                                          *)

LEMMA InitInv == Init => PoolInv
<1> SUFFICES ASSUME Init PROVE PoolInv
  OBVIOUS
<1>1. TypeOK
  BY InitTyped
<1>2. QueuedJobs = {} /\ StillCounted = {} /\ NotYetCounted = 0
  BY DEF Init, QueuedJobs, StillCounted, NotYetCounted
<1>3. Outstanding = 0 /\ IsFiniteSet(QueuedJobs)
  BY <1>2, FS_EmptySet DEF Outstanding
<1>4. Wrap(0) = 0
  <2>1. 0 = Modulus * 0 + 0 /\ 0 \in 0..(Modulus - 1)
    BY PoolAssumption
  <2> QED
    BY <2>1, PoolAssumption, RemainderUnique DEF Wrap
<1>5. JobsCounted
  BY <1>3, <1>4 DEF Init, JobsCounted, CounterExact, Outstanding
<1>6. JobsHeld /\ ScanGoesOn /\ OneParks
  BY DEF Init, JobsHeld, ScanGoesOn, OneParks
<1>7. JobsApart /\ JobsPending /\ JobsPlaced
  BY <1>2 DEF Init, JobsApart, JobsPending, JobsPlaced
<1> QED
  BY <1>1, <1>5, <1>6, <1>7 DEF PoolInv

LEMMA StepInv == PoolInv /\ [Next]_vars => PoolInv'
<1> SUFFICES ASSUME PoolInv, [Next]_vars PROVE PoolInv'
  OBVIOUS
<1>1. /\ TypeOK /\ JobsHeld /\ ScanGoesOn /\ JobsCounted /\ OneParks
      /\ Placed
  BY DEF PoolInv, Placed
<1>2. ASSUME NEW w \in Worker, Run(w) \/ SpuriousWakeup(w)
      PROVE  PoolInv'
  <2>1. TypeOK' /\ JobsHeld' /\ ScanGoesOn' /\ OneParks'
    BY <1>1, <1>2, WorkerTyped, WorkerHeld
  <2>2. Placed'
    BY <1>1, <1>2, WorkerKinds, KeepsPlaced, PopPlaced, CompletePlaced
  <2>3. JobsCounted'
    BY <1>1, <1>2, WorkerCounted
  <2> QED
    BY <2>1, <2>2, <2>3 DEF PoolInv, Placed
<1>3. CASE (\E j \in Job : Call(j)) \/ MainStep \/ Drop
  <2>1. TypeOK' /\ JobsHeld' /\ ScanGoesOn' /\ OneParks'
    BY <1>1, <1>3, MainTyped, MainHeld
  <2>2. Placed'
    BY <1>1, <1>3, MainKinds, KeepsPlaced, PushPlaced
  <2>3. JobsCounted'
    BY <1>1, <1>3, MainCounted
  <2> QED
    BY <2>1, <2>2, <2>3 DEF PoolInv, Placed
<1>4. CASE UNCHANGED vars
  BY <1>1, <1>4
  DEF PoolInv, Placed, vars, queueVars, atomicVars, workerVars, mainVars,
      TypeOK, JobsHeld, ScanGoesOn, OneParks, JobsApart, JobsPending,
      JobsPlaced, JobsCounted, CounterExact, QueuedJobs, JobAt, StillCounted,
      NotYetCounted, Wrap
<1> QED
  BY <1>2, <1>3, <1>4 DEF Next, Done

LEMMA InvAlways == Spec => []PoolInv
BY InitInv, StepInv, PTL DEF Spec

(* One place, one worker or one result: the sum of the code's promise.     *)
LEMMA OnceFromPlaced == PoolInv => EachJobOnce
<1> SUFFICES ASSUME PoolInv, NEW j \in scheduled
             PROVE  Cardinality(Queued(j)) + Cardinality(TakenBy(j)) + sent[j] = 1
  BY DEF EachJobOnce
<1>1. j \in Job /\ j # NoJob
  BY PoolAssumption DEF PoolInv, TypeOK
<1>2. CASE \E o \in QueuedJobs : JobAt(o) = j
  <2>1. PICK o \in QueuedJobs : JobAt(o) = j
    BY <1>2
  <2>2. Queued(j) = {o} /\ TakenBy(j) = {} /\ sent[j] = 0
    BY <2>1 DEF PoolInv, JobsApart, JobsPending, Queued, TakenBy
  <2>3. Cardinality({o}) = 1 /\ Cardinality({}) = 0
    BY FS_Singleton, FS_EmptySet
  <2> QED
    BY <2>2, <2>3
<1>3. CASE \E w \in Worker : job[w] = j
  <2>1. PICK w \in Worker : job[w] = j
    BY <1>3
  <2>2. Queued(j) = {} /\ TakenBy(j) = {w} /\ sent[j] = 0
    BY <1>1, <2>1 DEF PoolInv, JobsApart, JobsPending, Queued, TakenBy
  <2>3. Cardinality({w}) = 1 /\ Cardinality({}) = 0
    BY FS_Singleton, FS_EmptySet
  <2> QED
    BY <2>2, <2>3
<1>4. CASE /\ \A o \in QueuedJobs : JobAt(o) # j
           /\ \A w \in Worker : job[w] # j
  <2>1. Queued(j) = {} /\ TakenBy(j) = {} /\ sent[j] = 1
    BY <1>4 DEF PoolInv, JobsPlaced, Queued, TakenBy
  <2> QED
    BY <2>1, FS_EmptySet
<1> QED
  BY <1>2, <1>3, <1>4

(* A scheduled job is in one queue, with one worker or done, however the   *)
(* threads interleave, and the counter is the number of queued jobs up to  *)
(* the operations under way: schedule, try_pop and run keep the books of   *)
(* TaskSystem for any number of workers and jobs.                          *)
THEOREM JobsStayAccounted == Spec => []JobsAccounted
<1>1. PoolInv => JobsAccounted
  BY OnceFromPlaced DEF PoolInv, JobsCounted, JobsAccounted
<1> QED
  BY <1>1, InvAlways, PTL

----------------------------------------------------------------------------
(* Somebody is awake.                                                      *)

(* The counter of the code has 32 bits: no number of jobs that fits into   *)
(* memory wraps it upwards.                                                *)
CounterHasRoom == Cardinality(QueuedJobs) + NumWorkers < Modulus

Awake == \E w \in Worker : wpc[w] \notin {"waiting", "parking"}

(* Until the next notification is due, too.                                *)
AwakeInv == running /\ Dead = {} /\ mpc \in {"idle", "push"} /\ QueuedJobs # {}
              => Awake

(* A worker that goes to sleep has seen a counter that was exact.          *)
LEMMA ParkingSeesNoJobs ==
  ASSUME PoolInv, CounterHasRoom, numJobs = 0, mpc \in {"idle", "push"}
  PROVE  QueuedJobs = {}
<1>1. /\ Cardinality(QueuedJobs) \in Nat /\ IsFiniteSet(QueuedJobs)
      /\ Cardinality(StillCounted) \in 0..NumWorkers
  BY StillCountedFinite, FS_CardinalityType DEF PoolInv, JobsCounted
<1> DEFINE n == Cardinality(QueuedJobs) + Cardinality(StillCounted)
<1>2. n \in 0..(Modulus - 1) /\ Cardinality(QueuedJobs) <= n
  BY <1>1, PoolAssumption DEF CounterHasRoom
<1>3. numJobs = Wrap(n)
  <2>1. NotYetCounted = 0
    BY DEF NotYetCounted
  <2>2. Cardinality(QueuedJobs) + Cardinality(StillCounted) - NotYetCounted = n
    BY <1>1, <2>1
  <2> HIDE DEF n
  <2> QED
    BY <2>2 DEF PoolInv, JobsCounted, CounterExact
<1> HIDE DEF n
<1>4. n = Modulus * 0 + n
  BY <1>2, PoolAssumption
<1>5. Wrap(n) = n
  BY <1>2, <1>4, PoolAssumption, RemainderUnique DEF Wrap
<1> QED
  BY <1>1, <1>2, <1>3, <1>5, FS_EmptySet

LEMMA AwakeStep ==
  ASSUME NumWorkers > 1, PoolInv, CounterHasRoom, AwakeInv, [Next]_vars
  PROVE  AwakeInv'
<1> USE DEF queueVars, atomicVars, workerVars, mainVars
<1> SUFFICES ASSUME running', Dead' = {}, mpc' \in {"idle", "push"},
                    QueuedJobs' # {}
             PROVE  Awake'
  BY DEF AwakeInv, Awake
<1>0. TypeOK /\ JobsHeld /\ OneParks
  BY DEF PoolInv
<1>1. ASSUME NEW w \in Worker, Run(w) \/ SpuriousWakeup(w)
      PROVE  Awake'
  <2>1. mpc' = mpc /\ running' = running
    BY <1>1 DEF Run, Loop, Evaluate, Park, TryPop, Unlock, Uncount, Execute,
                Decide, SpuriousWakeup
  <2>2. \A v \in Worker \ {w} : wpc'[v] = wpc[v]
    BY <1>0, <1>1
    DEF Run, Loop, Evaluate, Park, TryPop, Unlock, Uncount, Execute, Decide,
        SpuriousWakeup, Goto, TypeOK
  <2>3. wpc[w] # "dead"
    BY <1>1 DEF Run, Loop, Evaluate, Park, TryPop, Unlock, Uncount, Execute,
                Decide, SpuriousWakeup, Goto
  <2>4. Dead = {}
    BY <2>2, <2>3 DEF Dead
  <2>5. QueuedJobs # {}
    <3>1. CASE Keeps \/ Completes(w)
      BY <3>1 DEF Keeps, Completes, QueuedJobs
    <3>2. ASSUME NEW q \in Worker, Pops(w, q) PROVE QueuedJobs # {}
      BY <1>0, <3>2, PopPlaces
    <3> QED
      BY <1>0, <1>1, <3>1, <3>2, WorkerKinds
  <2>6. PICK v \in Worker : wpc[v] \notin {"waiting", "parking"}
    BY <2>1, <2>4, <2>5 DEF AwakeInv, Awake
  <2>7. CASE v # w
    BY <2>2, <2>6, <2>7 DEF Awake
  <2>8. CASE v = w /\ wpc'[w] \in {"waiting", "parking"}
    <3>1. numJobs = 0
      BY <1>0, <1>1, <2>6, <2>8
      DEF Run, Loop, Evaluate, Park, TryPop, Unlock, Uncount, Execute, Decide,
          SpuriousWakeup, Goto, MustWait, TypeOK
    <3> QED
      BY <2>1, <2>5, <3>1, ParkingSeesNoJobs
  <2> QED
    BY <2>7, <2>8 DEF Awake
<1>2. CASE NotifyOne
  <2>1. CASE WaitSet # {}
    <3>1. PICK w \in WaitSet : wpc' = [wpc EXCEPT ![w] = "lock"]
      BY <1>2, <2>1 DEF NotifyOne
    <3>2. w \in Worker /\ wpc'[w] = "lock"
      BY <1>0, <3>1 DEF WaitSet, TypeOK
    <3> QED
      BY <3>2 DEF Awake
  <2>2. CASE WaitSet = {}
    <3>1. wpc' = wpc
      BY <1>2, <2>2 DEF NotifyOne
    <3>2. 0 \in Worker /\ 1 \in Worker
      BY PoolAssumption DEF Worker
    <3>3. wpc[0] # "parking" \/ wpc[1] # "parking"
      BY <1>0, <3>2 DEF OneParks
    <3> QED
      BY <2>2, <3>1, <3>2, <3>3 DEF WaitSet, Awake
  <2> QED
    BY <2>1, <2>2
<1>3. CASE UNCHANGED vars \/ (\E j \in Job : Call(j)) \/ TryPush
  <2>1. /\ wpc' = wpc /\ running' = running /\ queue' = queue
        /\ mpc \in {"idle", "push"}
    BY <1>3 DEF vars, Call, TryPush
  <2>2. Dead = {} /\ QueuedJobs # {}
    BY <2>1 DEF Dead, QueuedJobs
  <2> QED
    BY <2>1, <2>2 DEF AwakeInv, Awake
<1>4. ~(Release \/ Count \/ NotifyAll \/ Join \/ Drop)
  BY DEF Release, Count, NotifyAll, Join, Drop
<1> QED
  BY <1>1, <1>2, <1>3, <1>4 DEF Next, MainStep, Done

(* A notification that comes between the look at the counter and the wait  *)
(* is lost, since schedule does not hold the mutex.  With two workers or   *)
(* more and a counter that does not wrap upwards, a queued job never finds *)
(* all of them asleep when schedule has returned.                          *)
THEOREM WorkersStayAwake ==
  ASSUME NumWorkers > 1
  PROVE  Spec /\ []CounterHasRoom => []SomebodyAwake
<1>1. Init => AwakeInv
  BY DEF Init, AwakeInv, QueuedJobs
<1>2. PoolInv /\ CounterHasRoom /\ AwakeInv /\ [Next]_vars => AwakeInv'
  BY AwakeStep
<1>3. AwakeInv => SomebodyAwake
  BY DEF AwakeInv, Awake, SomebodyAwake
<1> QED
  BY <1>1, <1>2, <1>3, InvAlways, PTL DEF Spec

----------------------------------------------------------------------------
(* The pool implements JobPool.                                            *)

LEMMA StepImplements ==
  ASSUME PoolInv, [Next]_vars
  PROVE  [Abstract!Next]_(Abstract!vars)
<1> USE DEF queueVars, atomicVars, workerVars, mainVars
<1> DEFINE up == running /\ Dead = {}
<1>0. TypeOK /\ JobsHeld /\ JobsPending
  BY DEF PoolInv
<1>1. ASSUME NEW w \in Worker, Execute(w), job[w] \notin Faulty
      PROVE  [Abstract!Next]_(Abstract!vars)
  <2>1. /\ job[w] \in Job /\ job[w] \in scheduled /\ sent[job[w]] = 0
        /\ wpc' = [wpc EXCEPT ![w] = "decide"] /\ wpc[w] = "execute"
        /\ sent' = [sent EXCEPT ![job[w]] = @ + 1]
        /\ scheduled' = scheduled /\ running' = running
    BY <1>0, <1>1 DEF Execute, Goto, JobsHeld, JobsPending, TypeOK
  <2>2. sent' = [sent EXCEPT ![job[w]] = 1]
    <3>1. sent[job[w]] + 1 = 1
      BY <2>1
    <3> QED
      BY <2>1, <3>1
  <2>3. Dead' = Dead
    BY <1>0, <2>1 DEF Dead, TypeOK
  <2>4. Abstract!Finish(job[w])
    BY <2>1, <2>2, <2>3 DEF Abstract!Finish
  <2> QED
    BY <2>1, <2>4 DEF Abstract!Next
<1>2. CASE /\ UNCHANGED <<sent, scheduled>>
           /\ (up' <=> up) \/ (up /\ ~up')
  <2>1. up' = up \/ (up = TRUE /\ up' = FALSE)
    BY <1>2
  <2> QED
    BY <1>2, <2>1 DEF Abstract!Next, Abstract!Stop, Abstract!vars
<1>3. CASE TryPush /\ scheduled' # scheduled
  <2>1. /\ todo \in Job /\ todo \notin scheduled
        /\ scheduled' = scheduled \union {todo}
        /\ sent' = sent /\ running' = running /\ wpc' = wpc
    BY <1>0, <1>3 DEF TryPush, JobsHeld, TypeOK
  <2>2. Abstract!Submit(todo)
    BY <2>1 DEF Abstract!Submit, Dead
  <2> QED
    BY <2>1, <2>2 DEF Abstract!Next
<1>4. ASSUME NEW w \in Worker, Run(w) \/ SpuriousWakeup(w),
             ~(Execute(w) /\ job[w] \notin Faulty)
      PROVE  [Abstract!Next]_(Abstract!vars)
  <2>1. UNCHANGED <<sent, scheduled, running>>
    BY <1>4 DEF Run, Loop, Evaluate, Park, TryPop, Unlock, Uncount, Execute,
                Decide, SpuriousWakeup
  <2>2. Dead \subseteq Dead'
    BY <1>0, <1>4
    DEF Run, Loop, Evaluate, Park, TryPop, Unlock, Uncount, Execute, Decide,
        SpuriousWakeup, Goto, Dead, TypeOK
  <2> QED
    BY <1>2, <2>1, <2>2
<1>5. CASE \/ (\E j \in Job : Call(j)) \/ Release \/ Count \/ Join \/ Drop
           \/ UNCHANGED vars \/ (TryPush /\ scheduled' = scheduled)
  <2>1. UNCHANGED <<sent, scheduled, wpc>> /\ running' \in {running, FALSE}
    BY <1>5 DEF Call, Release, Count, Join, Drop, TryPush, vars
  <2>2. Dead' = Dead
    BY <2>1 DEF Dead
  <2> QED
    BY <1>2, <2>1, <2>2
<1>6. CASE NotifyOne \/ NotifyAll
  <2>1. UNCHANGED <<sent, scheduled, running>>
    BY <1>6 DEF NotifyOne, NotifyAll
  <2>2. Dead' = Dead
    BY <1>0, <1>6 DEF NotifyOne, NotifyAll, WaitSet, Dead, TypeOK
  <2> QED
    BY <1>2, <2>1, <2>2
<1> QED
  BY <1>1, <1>3, <1>4, <1>5, <1>6 DEF Next, MainStep, Done

(* Every step of main loop and workers hands a job over, sends the result  *)
(* of a job once, stops the pool, or is none of the main loop's business:  *)
(* what TaskScheduler takes the pool to be.                                *)
THEOREM PoolIsJobPool == Spec => Abstract!Spec
<1>1. Init => Abstract!Init
  BY DEF Init, Abstract!Init, Dead
<1>2. PoolInv /\ [Next]_vars => [Abstract!Next]_(Abstract!vars)
  BY StepImplements
<1> QED
  BY <1>1, <1>2, InvAlways, PTL DEF Spec, Abstract!Spec

=============================================================================
