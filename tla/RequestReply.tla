---------------------------- MODULE RequestReply ----------------------------
(***************************************************************************)
(* What the server promises for requests (ls/mainloop.rs, ls/tasks.rs): a  *)
(* request is answered exactly once, in any order, as long as the server   *)
(* runs.  An answer may come in the step that takes the request (an error  *)
(* or null response) or any time later.                                    *)
(***************************************************************************)
EXTENDS Naturals

CONSTANT Request

VARIABLES
  asked,    \* requests received
  replies,  \* responses sent per request
  up        \* FALSE once the server has ended

vars == <<asked, replies, up>>

Init == /\ asked = {}
        /\ replies = [m \in Request |-> 0]
        /\ up = TRUE

Ask(m) == /\ up /\ m \notin asked
          /\ asked' = asked \union {m}
          /\ UNCHANGED <<replies, up>>

AskAndAnswer(m) == /\ up /\ m \notin asked
                   /\ asked' = asked \union {m}
                   /\ replies' = [replies EXCEPT ![m] = 1]
                   /\ UNCHANGED up

Answer(m) == /\ up /\ m \in asked /\ replies[m] = 0
             /\ replies' = [replies EXCEPT ![m] = 1]
             /\ UNCHANGED <<asked, up>>

Stop == up /\ up' = FALSE /\ UNCHANGED <<asked, replies>>

Next == \/ \E m \in Request : Ask(m) \/ AskAndAnswer(m) \/ Answer(m)
        \/ Stop

Spec == Init /\ [][Next]_vars
FairSpec == Spec /\ \A m \in Request : WF_vars(Answer(m))
=============================================================================
