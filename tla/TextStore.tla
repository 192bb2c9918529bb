----------------------------- MODULE TextStore -----------------------------
(***************************************************************************)
(* What doc/store.rs promises to the main loop about the documents         *)
(* themselves: a map from files to a status and a text.  TaskScheduler     *)
(* keeps exactly this map as its docs; module TextDocs, with its slots,    *)
(* free lists and indexes, is shown to implement it.                       *)
(***************************************************************************)
EXTENDS Naturals

CONSTANTS Uri, Text, Renames

VARIABLE texts

Absent == [status |-> "absent"]
Stored == [status : {"open", "closed"}, text : Text]

Init == texts = [u \in Uri |-> Absent]

(* A text from the client is stored whatever was there before.             *)
Open(u, t) == texts' = [texts EXCEPT ![u] = [status |-> "open", text |-> t]]

(* A text read from disk is stored only if the file is not known yet.      *)
Scan(u, t) == /\ texts[u] = Absent
              /\ texts' = [texts EXCEPT ![u] = [status |-> "closed", text |-> t]]

Edit(u, t) == /\ texts[u] # Absent
              /\ texts' = [texts EXCEPT ![u].text = t]

Close(u) == /\ texts[u].status = "open"
            /\ texts' = [texts EXCEPT ![u].status = "closed"]

(* Documents move with their status; what was at the new place is lost.    *)
Rename(ops) ==
  /\ \A o \in DOMAIN ops : texts[o] # Absent
  /\ texts' = [u \in Uri |->
       IF \E o \in DOMAIN ops : ops[o] = u
       THEN texts[CHOOSE o \in DOMAIN ops : ops[o] = u]
       ELSE IF u \in DOMAIN ops THEN Absent
       ELSE texts[u]]

Next == \/ \E u \in Uri, t \in Text : Open(u, t) \/ Scan(u, t) \/ Edit(u, t)
        \/ \E u \in Uri : Close(u)
        \/ \E ops \in Renames : Rename(ops)

Spec == Init /\ [][Next]_texts
=============================================================================
