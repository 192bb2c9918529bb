------------------------------ MODULE JobPool ------------------------------
(***************************************************************************)
(* What ls/tasks/runners.rs promises to the main loop: a job that was      *)
(* handed over is executed once and its result is sent, in any order.      *)
(* Module TaskScheduler relies on exactly this (its pool, rx and Finish);  *)
(* module TaskSystem is shown to implement it.                             *)
(***************************************************************************)
EXTENDS Naturals

CONSTANT Job

VARIABLES
  given,    \* jobs handed over
  results,  \* results sent per job
  up        \* FALSE once the pool is being stopped or a worker has died

vars == <<given, results, up>>

Init == given = {} /\ results = [j \in Job |-> 0] /\ up = TRUE

Submit(j) == /\ j \notin given
             /\ given' = given \union {j}
             /\ UNCHANGED <<results, up>>

Finish(j) == /\ j \in given
             /\ results[j] = 0
             /\ results' = [results EXCEPT ![j] = 1]
             /\ UNCHANGED <<given, up>>

Stop == up /\ up' = FALSE /\ UNCHANGED <<given, results>>

Next == Stop \/ \E j \in Job : Submit(j) \/ Finish(j)

Spec == Init /\ [][Next]_vars
FairSpec == Spec /\ \A j \in Job : WF_vars(up /\ Finish(j))
=============================================================================
