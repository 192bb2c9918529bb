----------------------- MODULE WorkspaceStartupProofs -----------------------
(***************************************************************************)
(* Theorems about WorkspaceStartup, for any number of files and whatever   *)
(* the client may do: results and completed tasks are expected             *)
(* (ResultsExpected), and the client sees a report in order                *)
(* (ProgressInOrder).                                                      *)
(*                                                                         *)
(* Neither is inductive.  Whether an answer still has an entry in ongoing  *)
(* depends on who read the messages before it, and whether a report may    *)
(* end without having begun depends on how it was given up; the invariant  *)
(* tells where each message of the client is (Mail), what was sent in each *)
(* phase of the report (Report) and what the discovery waits for (Stages). *)
(***************************************************************************)
EXTENDS WorkspaceStartup, FiniteSetTheorems, FunctionTheorems,
        SequenceTheorems, TLAPS

Ended == sent \in {<<"create", "end">>, <<"create", "begin", "end">>}

(* What the client sent is in the channel once, or has been read.          *)
Mail ==
  /\ chan \in {<<>>, <<answered>>, <<"cancel">>, <<answered, "cancel">>,
               <<"cancel", answered>>}
  /\ answered = "none" => chan \in {<<>>, <<"cancel">>}
  /\ ~canceled => cancels = 0
  /\ ~canceled \/ cancels = 1 => chan \in {<<>>, <<answered>>}
  /\ sent = <<>> => answered = "none" /\ ~canceled

(* The client has given the token up, and the loop has seen the refusal.   *)
GivenUp == \/ canceled
           \/ answered = "refuse" /\ chan \in {<<>>, <<"cancel">>}

(* What has been sent in each phase of the report.                         *)
Report ==
  /\ ProgressInOrder
  /\ progress.phase = "none" => sent = <<>> \/ GivenUp \/ Ended
  /\ progress.phase = "ready" => sent = <<>> /\ stage = "boot"
  /\ progress.phase \in {"announced", "initialized"} => sent = <<"create">>
  /\ progress.phase = "reporting" => sent = <<"create", "begin">>
  /\ progress.phase = "aborted" => sent # <<>> /\ GivenUp
  /\ progress.phase = "finished" => sent # <<>>
  /\ progress.phase = "finished" /\ progress.owed = <<>> => GivenUp \/ Ended
  /\ progress.phase # "finished" => progress.owed = <<>>
  /\ progress.owed = <<"begin", "end">> => sent = <<"create">>
  /\ progress.owed = <<"end">> => \/ sent = <<"create", "begin">>
                                  \/ sent = <<"create">> /\ GivenUp
  /\ progress.owed # <<>> \/ Ended => discovery.phase = "gone"

(* What is completed is drained before the loop completes anything else.   *)
Drained ==
  /\ completed \in {<<>>, <<"discovery">>, <<"progress">>,
                    <<"discovery", "progress">>}
  /\ pc \in {"process", "progress"} => completed = <<>>
  /\ completed \in {<<"discovery">>, <<"discovery", "progress">>}
       => discovery.phase = "parsing" /\ discovery.left = 0
  /\ completed \in {<<"progress">>, <<"discovery", "progress">>}
       => /\ progress.phase \in {"finished", "aborted"}
          /\ GivenUp \/ Ended

(* The jobs of the discovery that are under way are those it waits for.    *)
Stages ==
  /\ StagesInStep
  /\ pool \cap rx = {}
  /\ discovery.phase = "gone" => ~discovery.started
  /\ ~discovery.started =>
       discovery.left = CASE discovery.phase = "parsing" -> found
                          [] discovery.phase = "gone"    -> 0
                          [] OTHER                       -> 1

StartupInv == TypeOK /\ Mail /\ Report /\ Drained /\ Stages /\ PanicCauses
----------------------------------------------------------------------------
(* Lists of at most three elements.                                        *)

LEMMA AppendSecond ==
  ASSUME NEW S, NEW a \in S, NEW b \in S
  PROVE  Append(<<a>>, b) = <<a, b>>
<1> DEFINE s == Append(<<a>>, b)
<1> DEFINE t == <<a, b>>
<1>1. s \in Seq(S) /\ Len(s) = 2 /\ s[1] = a /\ s[2] = b
  OBVIOUS
<1>2. t \in Seq(S) /\ Len(t) = 2 /\ t[1] = a /\ t[2] = b
  OBVIOUS
<1> HIDE DEF s, t
<1>3. \A i \in 1..Len(s) : s[i] = t[i]
  BY <1>1, <1>2
<1>4. s = t
  BY <1>1, <1>2, <1>3, SeqEqual
<1> QED
  BY <1>4 DEF s, t

LEMMA ShortLists ==
  ASSUME NEW S, NEW a \in S, NEW b \in S
  PROVE  /\ Append(<<>>, a) = <<a>> /\ Append(<<a>>, b) = <<a, b>>
         /\ Head(<<a>>) = a /\ Tail(<<a>>) = <<>>
         /\ Head(<<a, b>>) = a /\ Tail(<<a, b>>) = <<b>>
         /\ <<a>> # <<>> /\ <<a, b>> # <<>>
<1>1. Append(<<>>, a) = <<a>>
  OBVIOUS
<1>2. Head(<<a>>) = a /\ Tail(<<a>>) = <<>>
  OBVIOUS
<1>3. Head(<<a, b>>) = a
  OBVIOUS
<1>4. Tail(<<a, b>>) = <<b>>
  OBVIOUS
<1>5. <<a>> # <<>> /\ <<a, b>> # <<>>
  OBVIOUS
<1> QED
  BY <1>1, <1>2, <1>3, <1>4, <1>5, AppendSecond

LEMMA ConcatShort ==
  ASSUME NEW S, NEW a \in S, NEW b \in S, NEW c \in S
  PROVE  /\ <<>> \o <<a>> = <<a>> /\ <<a>> \o <<b>> = <<a, b>>
         /\ <<a>> \o <<b, c>> = <<a, b, c>>
         /\ <<a, b>> \o <<c>> = <<a, b, c>>
<1> DEFINE abc == <<a, b, c>>
<1> DEFINE left == <<a>> \o <<b, c>>
<1> DEFINE right == <<a, b>> \o <<c>>
<1>1. abc \in Seq(S) /\ Len(abc) = 3 /\ abc[1] = a /\ abc[2] = b /\ abc[3] = c
  OBVIOUS
<1>2. left \in Seq(S) /\ Len(left) = 3
        /\ left[1] = a /\ left[2] = b /\ left[3] = c
  OBVIOUS
<1>3. right \in Seq(S) /\ Len(right) = 3
        /\ right[1] = a /\ right[2] = b /\ right[3] = c
  OBVIOUS
<1>4. <<>> \o <<a>> = <<a>>
  OBVIOUS
<1>5. <<a>> \o <<b>> = <<a, b>>
  <2>1. <<a>> \in Seq(S)
    OBVIOUS
  <2> QED
    BY <2>1, AppendIsConcat, AppendSecond
<1> HIDE DEF abc, left, right
<1>6. left = abc
  <2>1. \A i \in 1..Len(left) : left[i] = abc[i]
    BY <1>1, <1>2
  <2> QED
    BY <1>1, <1>2, <2>1, SeqEqual
<1>7. right = abc
  <2>1. \A i \in 1..Len(right) : right[i] = abc[i]
    BY <1>1, <1>3
  <2> QED
    BY <1>1, <1>3, <2>1, SeqEqual
<1> QED
  BY <1>4, <1>5, <1>6, <1>7 DEF abc, left, right

(* What is sent by one pass of the loop.                                   *)
SentLists == {<<>>, <<"create">>, <<"create", "begin">>, <<"create", "end">>,
              <<"create", "begin", "end">>}

LEMMA SendFacts ==
  /\ \A s \in SentLists : s \in Seq({"create", "begin", "end"}) /\ s \o <<>> = s
  /\ <<>> \o <<"create">> = <<"create">>
  /\ <<"create">> \o <<"begin">> = <<"create", "begin">>
  /\ <<"create">> \o <<"end">> = <<"create", "end">>
  /\ <<"create">> \o <<"begin", "end">> = <<"create", "begin", "end">>
  /\ <<"create", "begin">> \o <<"end">> = <<"create", "begin", "end">>
<1> DEFINE S == {"create", "begin", "end"}
<1>1. /\ <<>> \in Seq(S) /\ <<"create">> \in Seq(S)
      /\ <<"create", "begin">> \in Seq(S) /\ <<"create", "end">> \in Seq(S)
      /\ <<"create", "begin", "end">> \in Seq(S)
  OBVIOUS
<1>2. "create" \in S /\ "begin" \in S /\ "end" \in S
  OBVIOUS
<1>3. \A s \in SentLists : s \in Seq(S)
  BY <1>1 DEF SentLists
<1> HIDE DEF S
<1>4. \A s \in Seq(S) : s \o <<>> = s
  BY ConcatEmptySeq
<1>5. /\ <<>> \o <<"create">> = <<"create">>
      /\ <<"create">> \o <<"begin">> = <<"create", "begin">>
      /\ <<"create">> \o <<"end">> = <<"create", "end">>
      /\ <<"create">> \o <<"begin", "end">> = <<"create", "begin", "end">>
      /\ <<"create", "begin">> \o <<"end">> = <<"create", "begin", "end">>
  BY <1>2, ConcatShort
<1> QED
  BY <1>3, <1>4, <1>5 DEF S

LEMMA EndSent == Report => (SentAny("end") <=> Ended)
BY DEF Report, SentAny, Ended, ProgressInOrder

LEMMA CreateSent == Report => (SentAny("create") <=> sent # <<>>)
BY DEF Report, SentAny, ProgressInOrder

(* The first of the completed tasks, and what is left.                     *)
LEMMA CompletedFirst ==
  ASSUME Drained, NEW t, NextCompleted(t)
  PROVE  \/ /\ t = "discovery" /\ completed = <<"discovery">>
            /\ completed' = <<>>
         \/ /\ t = "discovery" /\ completed = <<"discovery", "progress">>
            /\ completed' = <<"progress">>
         \/ /\ t = "progress" /\ completed = <<"progress">>
            /\ completed' = <<>>
<1> DEFINE S == {"discovery", "progress"}
<1>1. \A a, b \in S :
        /\ Head(<<a>>) = a /\ Tail(<<a>>) = <<>>
        /\ Head(<<a, b>>) = a /\ Tail(<<a, b>>) = <<b>>
  BY ShortLists
<1> QED
  BY <1>1 DEF Drained, NextCompleted

LEMMA OwedDiffer ==
  <<"begin", "end">> # <<"end">> /\ <<"begin", "end">> # <<>> /\ <<"end">> # <<>>
OBVIOUS

LEMMA NotEnded ==
  sent \in {<<>>, <<"create">>, <<"create", "begin">>} => ~Ended
BY DEF Ended

----------------------------------------------------------------------------
(* The messages of the client.                                             *)

Messages == {"confirm", "refuse", "cancel"}

LEMMA MailLists ==
  \A a, b \in Messages :
    /\ Append(<<>>, a) = <<a>> /\ Append(<<a>>, b) = <<a, b>>
    /\ Head(<<a>>) = a /\ Tail(<<a>>) = <<>>
    /\ Head(<<a, b>>) = a /\ Tail(<<a, b>>) = <<b>>
    /\ <<a>> # <<>> /\ <<a, b>> # <<>>
BY ShortLists

LEMMA MailsDiffer ==
  \A a, b, c, d \in Messages \union {"none"} :
    /\ <<a>> # <<>> /\ <<a, b>> # <<>> /\ <<a>> # <<c, d>>
    /\ <<a>> = <<c>> => a = c
    /\ <<a, b>> = <<c, d>> => a = c /\ b = d
OBVIOUS

(* What the loop reads first, and what is left.                            *)
LEMMA ReadFirst ==
  ASSUME Mail, TypeOK, NEW m \in Messages, Read(m)
  PROVE  \/ m = answered /\ chan = <<m>> /\ chan' = <<>>
         \/ m = answered /\ chan = <<m, "cancel">> /\ chan' = <<"cancel">>
         \/ m = "cancel" /\ chan = <<m>> /\ chan' = <<>>
         \/ m = "cancel" /\ chan = <<m, answered>> /\ chan' = <<answered>>
<1>1. answered = "none" \/ answered \in Messages
  BY DEF TypeOK, Messages
<1>2. CASE answered = "none"
  BY <1>2, MailLists DEF Mail, Read, Messages
<1>3. CASE answered \in Messages
  BY <1>3, MailLists DEF Mail, Read, Messages
<1> QED
  BY <1>1, <1>2, <1>3

LEMMA MailStep ==
  ASSUME TypeOK, Mail, Report, [Next]_vars
  PROVE  Mail' /\ (GivenUp => GivenUp')
<1>1. CASE ClientAnswers
  <2>1. /\ answered' \in Messages /\ answered' # "cancel" /\ answered = "none"
        /\ chan' = Append(chan, answered') /\ sent # <<>>
        /\ UNCHANGED <<cancels, sent, canceled>>
    BY <1>1, CreateSent DEF ClientAnswers, Messages
  <2>2. PICK a \in Messages : a = answered'
    BY <2>1
  <2>3. \/ chan = <<>> /\ chan' = <<a>>
        \/ chan = <<"cancel">> /\ chan' = <<"cancel", a>>
    BY <2>1, <2>2, MailLists DEF Mail, Messages
  <2> QED
    BY <2>1, <2>2, <2>3, MailsDiffer DEF Mail, GivenUp, Messages
<1>2. CASE ClientCancels
  <2>1. /\ ~canceled /\ canceled' /\ sent # <<>>
        /\ chan' = Append(chan, "cancel")
        /\ UNCHANGED <<cancels, sent, answered>>
    BY <1>2, CreateSent DEF ClientCancels
  <2>2. \/ chan = <<>> /\ chan' = <<"cancel">>
        \/ answered # "none" /\ chan = <<answered>> /\ chan' = <<answered, "cancel">>
    <3>1. CASE answered = "none"
      <4>1. chan = <<>>
        BY <2>1, <3>1, MailsDiffer DEF Mail, Messages
      <4> QED
        BY <2>1, <4>1, MailLists DEF Messages
    <3>2. CASE answered \in Messages
      <4>1. chan = <<>> \/ chan = <<answered>>
        BY <2>1 DEF Mail
      <4>2. answered # "none" /\ "cancel" \in Messages
        BY <3>2 DEF Messages
      <4>3. Append(<<answered>>, "cancel") = <<answered, "cancel">>
        BY <3>2, <4>2, MailLists
      <4> QED
        BY <2>1, <4>1, <4>2, <4>3, MailLists
    <3> QED
      BY <3>1, <3>2 DEF TypeOK, Messages
  <2> QED
    BY <2>1, <2>2 DEF Mail, GivenUp
<1>3. CASE ReadCancel
  <2>1. "cancel" \in Messages /\ Read("cancel")
    BY <1>3 DEF ReadCancel, Messages
  <2>2. answered # "cancel"
    BY DEF TypeOK
  <2>3. /\ chan = <<"cancel">> \/ chan = <<"cancel", answered>>
        /\ answered # "none" \/ chan = <<"cancel">>
        /\ answered # "none" => answered \in Messages
    BY <2>1, <2>2, ReadFirst, MailsDiffer DEF Mail, TypeOK, Messages
  <2>4. chan \notin {<<>>, <<answered>>}
    <3>1. CASE answered = "none"
      BY <2>1, <2>3, <3>1
    <3>2. CASE answered \in Messages
      BY <2>1, <2>2, <2>3, <3>2, MailsDiffer
    <3> QED
      BY <2>3, <3>1, <3>2
  <2>5. canceled /\ cancels = 0
    BY <2>4 DEF Mail, TypeOK
  <2>6. chan' = <<>> \/ (answered # "none" /\ chan' = <<answered>>)
    BY <2>1, <2>2, <2>3, ReadFirst, MailsDiffer
  <2> QED
    <3>1. UNCHANGED <<answered, canceled, sent>> /\ cancels' = 1
      BY <1>3, <2>5 DEF ReadCancel
    <3>2. sent # <<>>
      BY <2>5 DEF Mail
    <3> QED
      BY <2>5, <2>6, <3>1, <3>2 DEF Mail, GivenUp
<1>4. ASSUME NEW m \in {"confirm", "refuse"}, Response(m)
      PROVE  Mail' /\ (GivenUp => GivenUp')
  <2>1. m \in Messages /\ Read(m) /\ m # "cancel"
    BY <1>4 DEF Response, Messages
  <2>2. /\ answered = m
        /\ \/ chan = <<m>> /\ chan' = <<>>
           \/ chan = <<m, "cancel">> /\ chan' = <<"cancel">>
    BY <2>1, ReadFirst
  <2>3. chan = <<m, "cancel">> => canceled /\ cancels # 1
    BY <2>1, <2>2, MailsDiffer DEF Mail, Messages
  <2>4. UNCHANGED <<answered, canceled, cancels, sent>> /\ m # "none"
    BY <1>4 DEF Response
  <2> QED
    BY <2>2, <2>3, <2>4 DEF Mail, GivenUp
<1>5. CASE Cancel
  BY <1>5 DEF Cancel, TypeOK, clientVars, Mail, GivenUp
<1>6. CASE ProgressTasks
  <2>1. sent' = <<>> => sent = <<>>
    BY <1>6, SendFacts DEF ProgressTasks, Broadcast, Report, SentLists, ProgressInOrder
  <2> QED
    BY <1>6, <2>1 DEF ProgressTasks, Mail, GivenUp
<1>7. CASE UNCHANGED <<clientVars, cancels>>
  BY <1>7 DEF clientVars, Mail, GivenUp
<1>8. CASE UNCHANGED vars
  BY <1>8, <1>7 DEF vars
<1> QED
  BY <1>1, <1>2, <1>3, <1>4, <1>5, <1>6, <1>7, <1>8
     DEF Next, Loop, Receive, Done, EndIncoming, RecvLocated, RecvIndexed,
         RecvGuide, RecvScan, EndResults, DiscoveryDone, ProgressDone,
         EndCompleted, EndProcess, Finish
----------------------------------------------------------------------------
(* The report.                                                             *)

(* The client takes nothing back.                                          *)
LEMMA UnwillingStays ==
  ASSUME TypeOK, [Next]_vars
  PROVE  (Unwilling => Unwilling') /\ (canceled => canceled')
<1>1. CASE ClientAnswers
  BY <1>1 DEF ClientAnswers, Unwilling
<1>2. CASE ClientCancels
  BY <1>2 DEF ClientCancels, Unwilling
<1>3. CASE UNCHANGED <<answered, canceled>>
  BY <1>3 DEF Unwilling
<1> QED
  BY <1>1, <1>2, <1>3
     DEF Next, Loop, Receive, Done, ReadCancel, Response, EndIncoming,
         RecvLocated, RecvIndexed, RecvGuide, RecvScan, EndResults,
         DiscoveryDone, ProgressDone, EndCompleted, Cancel, EndProcess,
         ProgressTasks, Finish, vars, clientVars

LEMMA ReportKept ==
  ASSUME Report, GivenUp => GivenUp', Unwilling => Unwilling',
         UNCHANGED <<progress, sent, stage>>,
         discovery'.phase = discovery.phase
  PROVE  Report'
BY DEF Report, Ended, ProgressInOrder

LEMMA ReportStep ==
  ASSUME TypeOK, Mail, Report, Drained, Stages, [Next]_vars
  PROVE  Report'
<1>1. (GivenUp => GivenUp') /\ (Unwilling => Unwilling')
  BY MailStep, UnwillingStays
<1>2. CASE UNCHANGED <<progress, sent, stage>> /\ discovery'.phase = discovery.phase
  BY <1>1, <1>2, ReportKept
<1>3. ASSUME NEW m \in {"confirm", "refuse"}, Response(m) PROVE Report'
  <2>1. m \in Messages /\ m # "cancel" /\ Read(m)
    BY <1>3 DEF Response, Messages
  <2>2. answered = m /\ chan' \in {<<>>, <<"cancel">>}
    BY <2>1, ReadFirst
  <2>3. sent # <<>>
    BY <2>2 DEF Mail
  <2>4. UNCHANGED <<sent, stage, discovery, answered>>
    BY <1>3 DEF Response
  <2>5. CASE progress' = Progress("aborted") /\ m = "refuse"
    <3>1. GivenUp'
      BY <2>2, <2>4, <2>5 DEF GivenUp
    <3>2. progress'.phase = "aborted" /\ progress'.owed = <<>>
      BY <2>5 DEF Progress
    <3> QED
      BY <1>1, <2>3, <2>4, <3>1, <3>2 DEF Report, Ended, ProgressInOrder
  <2>6. CASE progress' = Progress("initialized") /\ progress.phase = "announced"
    <3>1. progress'.phase = "initialized" /\ progress'.owed = <<>>
      BY <2>6 DEF Progress
    <3> QED
      BY <1>1, <2>4, <2>6, <3>1 DEF Report, Ended, ProgressInOrder
  <2> QED
    BY <1>2, <1>3, <2>4, <2>5, <2>6 DEF Response, Confirmed
<1>4. CASE DiscoveryDone
  <2>1. /\ discovery.phase = "parsing" /\ stage = "main"
        /\ UNCHANGED <<sent, stage>>
    BY <1>4, CompletedFirst DEF DiscoveryDone, clientVars, Drained
  <2>2. ~Ended /\ progress.owed = <<>>
    BY <2>1 DEF Report
  <2>3. CASE progress' = Concluded /\ discovery' = Gone
               /\ progress.phase \in {"announced", "initialized"}
    <3>1. progress'.phase = "finished" /\ progress'.owed = <<"begin", "end">>
      BY <2>3 DEF Concluded
    <3>2. discovery'.phase = "gone" /\ sent = <<"create">>
      BY <2>3 DEF Gone, Report
    <3> QED
      BY <1>1, <2>1, <3>1, <3>2, OwedDiffer DEF Report, Ended, ProgressInOrder
  <2>4. CASE progress' = Concluded /\ discovery' = Gone
               /\ progress.phase \in {"reporting", "aborted"}
    <3>1. progress'.phase = "finished" /\ progress'.owed = <<"end">>
      BY <2>4 DEF Concluded
    <3>2. discovery'.phase = "gone"
      BY <2>4 DEF Gone
    <3>3. sent = <<"create", "begin">> \/ (sent = <<"create">> /\ GivenUp)
      BY <2>2, <2>4 DEF Report, Ended, ProgressInOrder
    <3> QED
      BY <1>1, <2>1, <3>1, <3>2, <3>3, OwedDiffer DEF Report, Ended, ProgressInOrder
  <2>5. CASE progress' = progress /\ progress.phase = "none" /\ discovery' = Gone
    <3>1. discovery'.phase = "gone"
      BY <2>5 DEF Gone
    <3> QED
      BY <1>1, <2>1, <2>2, <2>5, <3>1 DEF Report, Ended, ProgressInOrder
  <2> QED
    BY <1>2, <1>4, <2>1, <2>3, <2>4, <2>5 DEF DiscoveryDone, Report, TypeOK
<1>5. CASE ProgressDone
  <2>1. /\ GivenUp \/ Ended
        /\ UNCHANGED <<sent, stage, discovery>>
    BY <1>5, CompletedFirst DEF ProgressDone, clientVars, Drained
  <2>2. CASE progress' = Progress("none")
    <3>1. progress'.phase = "none" /\ progress'.owed = <<>>
      BY <2>2 DEF Progress
    <3> QED
      BY <1>1, <2>1, <3>1 DEF Report, Ended, ProgressInOrder
  <2> QED
    BY <1>2, <1>5, <2>1, <2>2 DEF ProgressDone
<1>6. CASE Cancel
  <2>1. canceled /\ UNCHANGED <<sent, stage, discovery>>
    BY <1>6 DEF Cancel, Mail, TypeOK, clientVars
  <2>2. sent # <<>> /\ GivenUp
    BY <2>1 DEF Mail, GivenUp
  <2>3. CASE progress' = Progress("aborted")
    <3>1. progress'.phase = "aborted" /\ progress'.owed = <<>>
      BY <2>3 DEF Progress
    <3> QED
      BY <1>1, <2>1, <2>2, <3>1 DEF Report, Ended, ProgressInOrder
  <2> QED
    BY <1>2, <1>6, <2>1, <2>3 DEF Cancel
<1>7. CASE ProgressTasks
  <2> DEFINE b == Broadcast
  <2>1. progress' = b.to /\ sent' = sent \o b.out
    BY <1>7 DEF ProgressTasks
  <2>2. /\ discovery.phase = "gone" => discovery'.phase = "gone"
        /\ stage' \in {"boot", "main"}
    BY <1>7 DEF ProgressTasks, Start, NextStage, Waits, Ready, Finished,
                Started, Step, TypeOK
  <2>3. CASE progress.phase = "ready"
    BY <1>1, <2>1, <2>2, <2>3, SendFacts
       DEF Broadcast, Progress, Report, Ended, ProgressInOrder, SentLists
  <2>4. CASE progress.phase = "initialized"
    <3>1. progress' = Progress("reporting") /\ sent' = sent \o <<"begin">>
      BY <2>1, <2>4 DEF Broadcast
    <3>2. progress'.phase = "reporting" /\ progress'.owed = <<>>
      BY <3>1 DEF Progress
    <3>3. sent' = <<"create", "begin">>
      BY <2>4, <3>1, SendFacts DEF Report
    <3>4. ProgressInOrder' /\ ~Ended'
      BY <3>3 DEF ProgressInOrder, Ended
    <3> QED
      BY <3>2, <3>3, <3>4 DEF Report
  <2>5. CASE progress.phase = "finished" /\ progress.owed # <<>>
    <3>1. /\ progress' = Progress("finished")
          /\ sent' = sent \o progress.owed
          /\ discovery'.phase = "gone"
      BY <2>1, <2>2, <2>5 DEF Broadcast, Report
    <3>2. \/ sent' = <<"create", "begin", "end">>
          \/ sent' = <<"create", "end">> /\ GivenUp
      BY <2>5, <3>1, SendFacts DEF Report, TypeOK
    <3>3. GivenUp => Unwilling
      BY DEF GivenUp, Unwilling
    <3>4. Ended' /\ ProgressInOrder' /\ sent' # <<>>
      BY <1>1, <3>2, <3>3 DEF Ended, ProgressInOrder
    <3>5. progress'.phase = "finished" /\ progress'.owed = <<>>
      BY <3>1 DEF Progress
    <3> QED
      BY <3>1, <3>4, <3>5, OwedDiffer DEF Report
  <2>6. CASE progress.phase = "aborted"
    BY <1>1, <2>1, <2>2, <2>6, SendFacts
       DEF Broadcast, Progress, Report, Ended, ProgressInOrder, SentLists
  <2>7. CASE /\ progress.phase \notin {"ready", "initialized", "aborted"}
             /\ ~(progress.phase = "finished" /\ progress.owed # <<>>)
    <3>1. progress' = progress /\ sent' = sent \o <<>>
      BY <2>1, <2>7 DEF Broadcast
    <3>2. sent' = sent
      BY <3>1, SendFacts DEF Report, ProgressInOrder, SentLists
    <3> QED
      BY <1>1, <2>2, <2>7, <3>1, <3>2 DEF Report, Ended, ProgressInOrder
  <2> QED
    BY <2>3, <2>4, <2>5, <2>6, <2>7
<1>8. CASE Receive
  <2>1. Advance \/ UNCHANGED discovery
    BY <1>8 DEF Receive, RecvLocated, RecvIndexed, RecvGuide, RecvScan
  <2>2. discovery'.phase = discovery.phase
    BY <2>1 DEF Advance, TypeOK
  <2>3. UNCHANGED <<progress, sent, stage>>
    BY <1>8 DEF Receive, RecvLocated, RecvIndexed, RecvGuide, RecvScan, clientVars
  <2> QED
    BY <1>2, <2>2, <2>3
<1>9. CASE UNCHANGED <<progress, sent, stage, discovery>>
  BY <1>2, <1>9
<1> QED
  BY <1>3, <1>4, <1>5, <1>6, <1>7, <1>8, <1>9
     DEF Next, Loop, Done, ReadCancel, EndIncoming, EndResults, EndCompleted,
         EndProcess, Finish, ClientAnswers, ClientCancels, vars, clientVars

----------------------------------------------------------------------------
(* The stages of the discovery.                                            *)

LEMMA JobsFinite ==
  ASSUME TypeOK, NEW phase \in {"scanning", "indexing", "parsing"}
  PROVE  /\ IsFiniteSet(JobsOf(phase))
         /\ Cardinality(JobsOf(phase)) = IF phase = "parsing" THEN found ELSE 1
<1>1. CASE phase = "scanning"
  BY <1>1, FS_Singleton DEF JobsOf
<1>2. CASE phase = "indexing"
  BY <1>2, FS_Singleton DEF JobsOf
<1>3. CASE phase = "parsing"
  <2>1. found \in Nat
    BY StartupAssumption DEF TypeOK, StartupAssumption
  <2>2. IsFiniteSet(1..found) /\ Cardinality(1..found) = found
    BY <2>1, FS_Interval
  <2> DEFINE scan == [i \in 1..found |-> [kind |-> "scan", file |-> i]]
  <2>3. scan \in Bijection(1..found, ScanJobs(found))
    <3>1. scan \in [1..found -> ScanJobs(found)]
      BY DEF ScanJobs
    <3>2. \A i, j \in 1..found : scan[i] = scan[j] => i = j
      OBVIOUS
    <3>3. \A t \in ScanJobs(found) : \E i \in 1..found : scan[i] = t
      BY DEF ScanJobs
    <3> QED
      BY <3>1, <3>2, <3>3, Fun_IsBij
  <2>4. ExistsBijection(1..found, ScanJobs(found))
    BY <2>3 DEF ExistsBijection
  <2>5. /\ IsFiniteSet(ScanJobs(found))
        /\ Cardinality(ScanJobs(found)) = Cardinality(1..found)
    BY <2>2, <2>4, FS_Bijection
  <2> QED
    BY <1>3, <2>2, <2>5 DEF JobsOf
<1> QED
  BY <1>1, <1>2, <1>3

(* No job of the discovery is a job for the user guide.                    *)
LEMMA KindsApart ==
  ASSUME NEW phase \in {"scanning", "indexing", "parsing"},
         NEW j \in JobsOf(phase)
  PROVE  /\ j.kind # "guide"
         /\ phase = "scanning" => j = Job("locate")
         /\ phase = "indexing" => j = Job("index")
         /\ phase = "parsing" => j.kind = "scan"
BY DEF JobsOf, Job, ScanJobs

(* A result of the discovery is one the discovery waits for.               *)
LEMMA ResultCounted ==
  ASSUME TypeOK, Stages, NEW j \in rx, j.kind # "guide",
         rx' = rx \ {j}, UNCHANGED pool
  PROVE  /\ discovery.phase # "gone" /\ discovery.started
         /\ j \in JobsOf(discovery.phase)
         /\ DiscoveryJobs' = DiscoveryJobs \ {j}
         /\ discovery.left - 1 \in Nat
         /\ discovery.left - 1 = Cardinality(DiscoveryJobs')
<1>1. j \in DiscoveryJobs /\ j \notin pool /\ DiscoveryJobs # {}
  BY DEF DiscoveryJobs, InFlight, Stages
<1>2. discovery.started /\ discovery.left = Cardinality(DiscoveryJobs)
  BY <1>1 DEF Stages, StagesInStep
<1>3. j \in JobsOf(discovery.phase)
  BY <1>1 DEF Stages, StagesInStep
<1>4. discovery.phase # "gone"
  BY <1>2 DEF Stages
<1>5. discovery.phase \in {"scanning", "indexing", "parsing"}
  BY <1>4 DEF TypeOK
<1>6. IsFiniteSet(DiscoveryJobs)
  <2>1. DiscoveryJobs \subseteq JobsOf(discovery.phase)
    BY DEF Stages, StagesInStep
  <2> QED
    BY <1>5, <2>1, JobsFinite, FS_Subset
<1>7. DiscoveryJobs' = DiscoveryJobs \ {j}
  BY <1>1 DEF DiscoveryJobs, InFlight
<1>8. /\ Cardinality(DiscoveryJobs') = Cardinality(DiscoveryJobs) - 1
      /\ Cardinality(DiscoveryJobs') \in Nat
      /\ Cardinality(DiscoveryJobs) \in Nat
  BY <1>1, <1>6, <1>7, FS_RemoveElement, FS_CardinalityType
<1> QED
  BY <1>2, <1>3, <1>4, <1>7, <1>8

(* Jobs move from the workers to the channel; nothing else changes.        *)
LEMMA StagesKept ==
  ASSUME TypeOK, Stages, UNCHANGED <<stage, found, discovery>>,
         pool' \cap rx' = {}, DiscoveryJobs' = DiscoveryJobs
  PROVE  Stages'
<1>1. \A phase \in {"scanning", "indexing", "parsing", "gone"} :
        JobsOf(phase)' = JobsOf(phase)
  BY DEF JobsOf
<1> QED
  BY <1>1 DEF Stages, StagesInStep, TypeOK

(* A result has been received.                                             *)
LEMMA StagesAdvance ==
  ASSUME TypeOK, Stages, NEW j \in rx, j.kind # "guide",
         rx' = rx \ {j}, UNCHANGED <<pool, stage>>, Advance,
         found' = found \/ discovery.phase = "scanning"
  PROVE  Stages'
<1>1. /\ discovery.started /\ discovery.phase # "gone"
      /\ DiscoveryJobs' = DiscoveryJobs \ {j}
      /\ discovery.left - 1 = Cardinality(DiscoveryJobs')
  BY ResultCounted
<1>2. /\ discovery'.phase = discovery.phase
      /\ discovery'.started = discovery.started
      /\ discovery'.left = discovery.left - 1
  BY DEF Advance, TypeOK
<1>3. JobsOf(discovery.phase)' = JobsOf(discovery.phase)
  BY <1>1, <1>2 DEF JobsOf, TypeOK
<1>4. pool' \cap rx' = {}
  BY DEF Stages
<1> QED
  BY <1>1, <1>2, <1>3, <1>4 DEF Stages, StagesInStep

LEMMA StagesStart ==
  ASSUME TypeOK, Stages, NEW phase \in {"scanning", "indexing", "parsing"},
         Start(phase), UNCHANGED <<found, rx>>
  PROVE  Stages'
<1>1. /\ discovery.phase = phase /\ ~discovery.started
      /\ pool' = pool \union JobsOf(phase) /\ stage' = stage
      /\ discovery' = Started
  BY DEF Start, Ready
<1>2. /\ discovery'.phase = phase /\ discovery'.started
      /\ discovery'.left = discovery.left
  BY <1>1 DEF Started, TypeOK
<1>3. DiscoveryJobs = {} /\ \A j \in InFlight : j.kind = "guide"
  BY <1>1 DEF Stages, StagesInStep, DiscoveryJobs
<1>4. DiscoveryJobs' = JobsOf(phase) /\ pool' \cap rx' = {}
  <2>1. InFlight' = InFlight \union JobsOf(phase)
    BY <1>1 DEF InFlight
  <2>2. \A j \in JobsOf(phase) : j.kind # "guide"
    BY KindsApart
  <2>3. DiscoveryJobs' = JobsOf(phase)
    BY <1>3, <2>1, <2>2 DEF DiscoveryJobs
  <2>4. pool' \cap rx' = {}
    BY <1>1, <1>3, <2>2 DEF Stages, InFlight
  <2> QED
    BY <2>3, <2>4
<1>5. discovery.left = Cardinality(JobsOf(phase))
  BY <1>1, JobsFinite DEF Stages
<1>6. JobsOf(phase)' = JobsOf(phase)
  BY DEF JobsOf
<1>7. stage = "boot" <=> phase \in {"scanning", "indexing"}
  BY <1>1 DEF Stages, StagesInStep
<1> QED
  BY <1>1, <1>2, <1>4, <1>5, <1>6, <1>7 DEF Stages, StagesInStep

LEMMA StagesStep ==
  ASSUME TypeOK, Drained, Stages, [Next]_vars
  PROVE  Stages'
<1>1. CASE Receive
  <2>1. CASE RecvGuide
    <3>1. /\ rx' = rx \ {Job("guide")}
          /\ UNCHANGED <<stage, found, discovery, pool>>
      BY <2>1 DEF RecvGuide, Received
    <3>2. pool' \cap rx' = {} /\ DiscoveryJobs' = DiscoveryJobs
      BY <3>1 DEF Stages, DiscoveryJobs, InFlight, Job
    <3> QED
      BY <3>1, <3>2, StagesKept
  <2>2. CASE RecvLocated
    <3>1. /\ Job("locate") \in rx /\ Job("locate").kind # "guide"
          /\ rx' = rx \ {Job("locate")} /\ Advance
          /\ UNCHANGED <<stage, pool>>
      BY <2>2 DEF RecvLocated, Received, Job
    <3>2. /\ Job("locate") \in JobsOf(discovery.phase)
          /\ discovery.phase \in {"scanning", "indexing", "parsing"}
      BY <3>1, ResultCounted DEF TypeOK
    <3>3. discovery.phase = "scanning"
      BY <3>2 DEF JobsOf, Job, ScanJobs
    <3> QED
      BY <3>1, <3>3, StagesAdvance
  <2>3. CASE RecvIndexed
    <3>1. /\ Job("index") \in rx /\ Job("index").kind # "guide"
          /\ rx' = rx \ {Job("index")} /\ Advance
          /\ UNCHANGED <<stage, pool, found>>
      BY <2>3 DEF RecvIndexed, Received, Job
    <3> QED
      BY <3>1, StagesAdvance
  <2>4. ASSUME NEW i \in 1..MaxFiles, RecvScan(i) PROVE Stages'
    <3> DEFINE j == [kind |-> "scan", file |-> i]
    <3>1. /\ j \in rx /\ j.kind # "guide" /\ rx' = rx \ {j} /\ Advance
          /\ UNCHANGED <<stage, pool, found>>
      BY <2>4 DEF RecvScan, Received
    <3> HIDE DEF j
    <3> QED
      BY <3>1, StagesAdvance
  <2> QED
    BY <1>1, <2>1, <2>2, <2>3, <2>4 DEF Receive
<1>2. ASSUME NEW j \in pool, Finish(j) PROVE Stages'
  <2>1. /\ pool' = pool \ {j} /\ rx' = rx \union {j}
        /\ UNCHANGED <<stage, found, discovery>>
    BY <1>2 DEF Finish
  <2>2. InFlight' = InFlight
    BY <1>2, <2>1 DEF InFlight
  <2>3. pool' \cap rx' = {} /\ DiscoveryJobs' = DiscoveryJobs
    BY <2>1, <2>2 DEF Stages, DiscoveryJobs
  <2> QED
    BY <2>1, <2>3, StagesKept
<1>3. CASE DiscoveryDone
  <2>1. /\ discovery.phase = "parsing" /\ discovery.left = 0
        /\ UNCHANGED <<stage, found, pool, rx>>
        /\ discovery' = Gone \/ discovery' = discovery
    BY <1>3, CompletedFirst DEF DiscoveryDone, Drained
  <2>2. pool' \cap rx' = {} /\ DiscoveryJobs' = DiscoveryJobs
    BY <2>1 DEF Stages, DiscoveryJobs, InFlight
  <2>3. CASE discovery' = Gone
    <3>1. DiscoveryJobs = {}
      <4>1. IsFiniteSet(DiscoveryJobs)
        <5>1. DiscoveryJobs \subseteq JobsOf("parsing")
          BY <2>1 DEF Stages, StagesInStep
        <5> QED
          BY <5>1, JobsFinite, FS_Subset
      <4> QED
        BY <2>1, <4>1, FS_EmptySet DEF Stages, StagesInStep, TypeOK
    <3>2. stage = "main"
      BY <2>1 DEF Stages, StagesInStep, TypeOK
    <3> QED
      BY <2>1, <2>2, <2>3, <3>1, <3>2 DEF Stages, StagesInStep, Gone
  <2> QED
    BY <2>1, <2>2, <2>3, StagesKept
<1>4. CASE ProgressTasks
  <2>0. UNCHANGED <<found, rx>>
    BY <1>4 DEF ProgressTasks
  <2>1. ASSUME NEW phase \in {"scanning", "indexing", "parsing"}, Start(phase)
        PROVE  Stages'
    BY <2>0, <2>1, StagesStart
  <2>2. CASE NextStage
    <3>1. /\ pool' = pool /\ discovery.left = 0
          /\ discovery.phase \in {"scanning", "indexing"}
          /\ discovery.phase = "scanning" => /\ discovery' = Step("indexing", 1)
                                             /\ stage' = stage
          /\ discovery.phase = "indexing" => /\ discovery' = Step("parsing", found)
                                             /\ stage' = "main"
      BY <2>2 DEF NextStage, Finished
    <3>2. /\ DiscoveryJobs' = DiscoveryJobs
          /\ pool' \cap rx' = {}
      BY <2>0, <3>1 DEF DiscoveryJobs, InFlight, Stages
    <3>3. DiscoveryJobs = {}
      <4>1. IsFiniteSet(DiscoveryJobs)
        <5>1. DiscoveryJobs \subseteq JobsOf(discovery.phase)
          BY DEF Stages, StagesInStep
        <5> QED
          BY <3>1, <5>1, JobsFinite, FS_Subset
      <4> QED
        BY <3>1, <4>1, FS_EmptySet DEF Stages, StagesInStep, TypeOK
    <3>4. stage = "boot"
      BY <3>1 DEF Stages, StagesInStep
    <3> QED
      BY <2>0, <3>1, <3>2, <3>3, <3>4 DEF Stages, StagesInStep, Step
  <2>3. CASE Waits
    <3>1. UNCHANGED <<stage, found, discovery, pool, rx>>
      BY <2>0, <2>3 DEF Waits
    <3>2. pool' \cap rx' = {} /\ DiscoveryJobs' = DiscoveryJobs
      BY <3>1 DEF Stages, DiscoveryJobs, InFlight
    <3> QED
      BY <3>1, <3>2, StagesKept
  <2> QED
    BY <1>4, <2>1, <2>2, <2>3 DEF ProgressTasks
<1>5. CASE UNCHANGED <<stage, found, discovery, pool, rx>>
  <2>1. pool' \cap rx' = {} /\ DiscoveryJobs' = DiscoveryJobs
    BY <1>5 DEF Stages, DiscoveryJobs, InFlight
  <2> QED
    BY <1>5, <2>1, StagesKept
<1> QED
  BY <1>1, <1>2, <1>3, <1>4, <1>5
     DEF Next, Loop, Done, ReadCancel, EndIncoming, EndResults, EndCompleted,
         EndProcess, ClientAnswers, ClientCancels, vars, clientVars, Response,
         ProgressDone, Cancel

----------------------------------------------------------------------------
(* What is completed, and the panics.                                      *)

LEMMA CompleteFacts ==
  /\ <<>> \o <<>> \o <<>> = <<>>
  /\ <<>> \o <<>> \o <<"progress">> = <<"progress">>
  /\ <<>> \o <<"discovery">> \o <<>> = <<"discovery">>
  /\ <<>> \o <<"discovery">> \o <<"progress">> = <<"discovery", "progress">>
<1> DEFINE S == {"discovery", "progress"}
<1>1. "discovery" \in S /\ "progress" \in S
  OBVIOUS
<1>2. <<>> \in Seq(S) /\ <<"discovery">> \in Seq(S) /\ <<"progress">> \in Seq(S)
  OBVIOUS
<1> HIDE DEF S
<1>3. \A s \in Seq(S) : s \o <<>> = s /\ <<>> \o s = s
  BY ConcatEmptySeq
<1>4. <<"discovery">> \o <<"progress">> = <<"discovery", "progress">>
  BY <1>1, ConcatShort
<1> QED
  BY <1>2, <1>3, <1>4

LEMMA CompletedDiffer ==
  /\ <<"discovery">> # <<>> /\ <<"progress">> # <<>>
  /\ <<"discovery", "progress">> # <<>> /\ <<"discovery">> # <<"progress">>
  /\ <<"discovery">> # <<"discovery", "progress">>
  /\ <<"progress">> # <<"discovery", "progress">>
OBVIOUS

LEMMA EndedStays ==
  ASSUME TypeOK, Report, [Next]_vars
  PROVE  Ended => Ended'
<1>1. CASE ProgressTasks
  <2>1. sent' = sent \o Broadcast.out
    BY <1>1 DEF ProgressTasks
  <2>2. Ended => Broadcast.out = <<>>
    <3>1. ASSUME Ended PROVE Broadcast.out = <<>>
      <4>1. progress.phase \notin {"ready", "initialized"}
        BY <3>1 DEF Ended, Report
      <4>2. progress.owed = <<>>
        BY <3>1, NotEnded DEF Report, TypeOK
      <4> QED
        BY <4>1, <4>2 DEF Broadcast
    <3> QED
      BY <3>1
  <2> QED
    BY <2>1, <2>2, SendFacts DEF Ended, SentLists
<1>2. CASE UNCHANGED sent
  BY <1>2 DEF Ended
<1> QED
  BY <1>1, <1>2
     DEF Next, Loop, Receive, Done, ReadCancel, Response, EndIncoming,
         RecvLocated, RecvIndexed, RecvGuide, RecvScan, EndResults,
         DiscoveryDone, ProgressDone, EndCompleted, Cancel, EndProcess,
         ClientAnswers, ClientCancels, Finish, vars, clientVars

(* Nothing is completed, and what waits is still as it was.                *)
LEMMA DrainedKept ==
  ASSUME Drained, GivenUp => GivenUp', Ended => Ended', UNCHANGED completed,
         pc' = pc \/ pc' \notin {"process", "progress"} \/ completed = <<>>,
         discovery' = discovery \/ completed \in {<<>>, <<"progress">>},
         \/ progress' = progress
         \/ progress'.phase \in {"finished", "aborted"}
         \/ completed \in {<<>>, <<"discovery">>}
  PROVE  Drained'
BY CompletedDiffer DEF Drained

LEMMA DrainedStep ==
  ASSUME TypeOK, Mail, Report, Drained, Stages, [Next]_vars
  PROVE  Drained'
<1>1. (GivenUp => GivenUp') /\ (Ended => Ended')
  BY MailStep, EndedStays
<1>2. CASE ProgressTasks
  <2>1. /\ completed = <<>> /\ pc' = "incoming"
        /\ completed' = completed \o DiscoveryResult \o Broadcast.done
        /\ progress' = Broadcast.to
    BY <1>2 DEF ProgressTasks, Drained
  <2>2. \/ DiscoveryResult = <<>>
        \/ /\ DiscoveryResult = <<"discovery">> /\ Finished("parsing")
           /\ discovery' = discovery
    BY <1>2 DEF DiscoveryResult, Finished, ProgressTasks, Start, Ready,
                NextStage, Waits
  <2>3. \/ Broadcast.done = <<>>
        \/ /\ Broadcast.done = <<"progress">>
           /\ progress'.phase = "finished"
           /\ GivenUp' \/ Ended'
    <3>1. CASE progress.phase = "finished" /\ progress.owed # <<>>
      <4>0. Broadcast = [to |-> Progress("finished"), out |-> progress.owed,
                         done |-> <<"progress">>]
        BY <3>1 DEF Broadcast
      <4>1. /\ Broadcast.done = <<"progress">> /\ progress'.phase = "finished"
            /\ sent' = sent \o progress.owed
        BY <1>2, <2>1, <4>0 DEF Progress, ProgressTasks
      <4>2. Ended'
        BY <3>1, <4>1, SendFacts DEF Report, TypeOK, Ended
      <4> QED
        BY <4>1, <4>2
    <3>2. CASE progress.phase = "aborted"
      <4>1. Broadcast.done = <<"progress">> /\ progress'.phase = "finished"
        BY <2>1, <3>2 DEF Broadcast, Progress
      <4>2. GivenUp'
        BY <1>1, <3>2 DEF Report
      <4> QED
        BY <4>1, <4>2
    <3>3. CASE /\ progress.phase # "aborted"
               /\ ~(progress.phase = "finished" /\ progress.owed # <<>>)
      BY <3>3 DEF Broadcast
    <3> QED
      BY <3>1, <3>2, <3>3
  <2>4. \/ completed' = <<>>
        \/ completed' = <<"discovery">> /\ DiscoveryResult = <<"discovery">>
        \/ completed' = <<"progress">> /\ Broadcast.done = <<"progress">>
        \/ /\ completed' = <<"discovery", "progress">>
           /\ DiscoveryResult = <<"discovery">>
           /\ Broadcast.done = <<"progress">>
    BY <2>1, <2>2, <2>3, CompleteFacts
  <2>5. DiscoveryResult = <<"discovery">>
          => discovery'.phase = "parsing" /\ discovery'.left = 0
    BY <2>2, CompletedDiffer DEF Finished
  <2>6. Broadcast.done = <<"progress">>
          => progress'.phase = "finished" /\ (GivenUp' \/ Ended')
    BY <2>3, CompletedDiffer
  <2> QED
    BY <2>1, <2>4, <2>5, <2>6, CompletedDiffer DEF Drained
<1>3. CASE DiscoveryDone
  <2>1. /\ completed \in {<<"discovery">>, <<"discovery", "progress">>}
        /\ completed = <<"discovery">> => completed' = <<>>
        /\ completed = <<"discovery", "progress">> => completed' = <<"progress">>
        /\ pc = "completed"
    BY <1>3, CompletedFirst, CompletedDiffer DEF DiscoveryDone, NextCompleted
  <2>2. pc' \notin {"process", "progress"}
    BY <1>3, <2>1 DEF DiscoveryDone
  <2>3. CASE completed' = <<>>
    BY <2>2, <2>3, CompletedDiffer DEF Drained
  <2>4. CASE completed' = <<"progress">> /\ completed = <<"discovery", "progress">>
    <3>1. progress.phase \in {"finished", "aborted"} /\ (GivenUp \/ Ended)
      BY <2>4 DEF Drained
    <3>2. progress'.phase \in {"finished", "aborted"}
      <4>1. CASE progress.phase = "finished"
        BY <1>3, <4>1 DEF DiscoveryDone
      <4>2. CASE progress.phase = "aborted"
        <5>1. progress' = Concluded
          BY <1>3, <4>2 DEF DiscoveryDone
        <5> QED
          BY <5>1 DEF Concluded
      <4> QED
        BY <3>1, <4>1, <4>2
    <3> QED
      BY <1>1, <2>2, <2>4, <3>1, <3>2, CompletedDiffer DEF Drained
  <2> QED
    BY <2>1, <2>3, <2>4
<1>4. CASE ProgressDone
  <2>1. completed' = <<>> /\ pc' \notin {"process", "progress"}
    BY <1>4, CompletedFirst DEF ProgressDone, NextCompleted
  <2> QED
    BY <2>1, CompletedDiffer DEF Drained
<1>5. ASSUME NEW m \in {"confirm", "refuse"}, Response(m) PROVE Drained'
  <2>1. /\ UNCHANGED <<completed, discovery>>
        /\ pc' = pc \/ pc' \notin {"process", "progress"}
    BY <1>5 DEF Response
  <2>2. progress' = progress \/ progress'.phase = "aborted"
          \/ progress.phase = "announced"
    <3>1. progress' \in {progress, Confirmed, Progress("aborted")}
      BY <1>5 DEF Response
    <3>2. Progress("aborted").phase = "aborted"
      BY DEF Progress
    <3>3. Confirmed = progress \/ progress.phase = "announced"
      BY DEF Confirmed
    <3> QED
      BY <3>1, <3>2, <3>3
  <2>3. progress.phase = "announced" => completed \in {<<>>, <<"discovery">>}
    BY DEF Drained
  <2> QED
    BY <1>1, <2>1, <2>2, <2>3, DrainedKept
<1>6. CASE Receive
  <2>1. /\ UNCHANGED <<completed, progress, pc>>
        /\ UNCHANGED discovery \/ \E j \in rx : /\ j.kind # "guide"
                                               /\ rx' = rx \ {j} /\ UNCHANGED pool
    BY <1>6 DEF Receive, RecvLocated, RecvIndexed, RecvGuide, RecvScan,
                Received, Job, clientVars
  <2>2. discovery' = discovery \/ discovery.left # 0
    <3>1. ASSUME NEW j \in rx, j.kind # "guide", rx' = rx \ {j}, UNCHANGED pool
          PROVE  discovery.left # 0
      BY <3>1, ResultCounted DEF TypeOK
    <3> QED
      BY <2>1, <3>1
  <2>3. discovery.left # 0 => completed \in {<<>>, <<"progress">>}
    BY DEF Drained
  <2> QED
    BY <1>1, <2>1, <2>2, <2>3, DrainedKept
<1>7. CASE Cancel
  <2>1. UNCHANGED <<completed, discovery, pc>> /\ completed = <<>>
    BY <1>7 DEF Cancel, Drained
  <2> QED
    BY <1>1, <2>1, DrainedKept
<1>8. CASE EndCompleted
  BY <1>1, <1>8, DrainedKept DEF EndCompleted
<1>9. CASE EndProcess
  BY <1>1, <1>9, DrainedKept DEF EndProcess, Drained
<1>10. CASE /\ UNCHANGED <<completed, discovery, progress>>
            /\ pc' = pc \/ pc' \notin {"process", "progress"}
  BY <1>1, <1>10, DrainedKept
<1> QED
  BY <1>2, <1>3, <1>4, <1>5, <1>6, <1>7, <1>8, <1>9, <1>10
     DEF Next, Loop, Done, ReadCancel, EndIncoming, EndResults,
         ClientAnswers, ClientCancels, Finish, vars, clientVars

LEMMA PanicStep ==
  ASSUME TypeOK, Mail, Report, Drained, Stages, PanicCauses, [Next]_vars
  PROVE  PanicCauses'
<1>1. /\ Unwilling => Unwilling'
      /\ canceled => canceled'
      /\ Ended => Ended'
      /\ GivenUp => GivenUp'
  BY UnwillingStays, EndedStays, MailStep
<1>2. Ended' => SentAny("end")'
  BY DEF Ended, SentAny
<1>3. SentAny("end") <=> Ended
  BY EndSent
<1>4. CASE pc' = pc
  <2>1. SentAny("end") => SentAny("end")'
    BY <1>1, <1>2, <1>3
  <2> QED
    BY <1>1, <1>4, <2>1 DEF PanicCauses
<1>5. CASE pc' \in {"incoming", "recv", "completed", "process", "progress"}
  BY <1>5 DEF PanicCauses
<1>6. ASSUME NEW m \in {"confirm", "refuse"}, Read(m), progress.phase = "none"
      PROVE  canceled \/ Ended
  <2>1. m \in Messages /\ m # "cancel"
    BY DEF Messages
  <2>2. answered = m /\ (chan = <<m>> \/ chan = <<m, "cancel">>)
    BY <1>6, <2>1, ReadFirst
  <2>3. sent # <<>>
    BY <2>2 DEF Mail
  <2>4. ~(chan = <<>> \/ chan = <<"cancel">>)
    BY <2>1, <2>2, MailsDiffer DEF Messages
  <2> QED
    BY <1>6, <2>3, <2>4 DEF Report, GivenUp
<1>7. NextCompleted("discovery") /\ progress.phase = "finished" => GivenUp
  <2> SUFFICES ASSUME NextCompleted("discovery"), progress.phase = "finished"
               PROVE  GivenUp
    OBVIOUS
  <2>1. discovery.phase = "parsing"
    BY CompletedFirst DEF Drained
  <2> QED
    BY <2>1 DEF Report
<1>8. NextCompleted("progress") /\ stage = "boot" => GivenUp
  <2> SUFFICES ASSUME NextCompleted("progress"), stage = "boot"
               PROVE  GivenUp
    OBVIOUS
  <2>1. GivenUp \/ Ended
    BY CompletedFirst DEF Drained
  <2>2. discovery.phase # "gone"
    BY DEF Stages, StagesInStep
  <2> QED
    BY <2>1, <2>2 DEF Report
<1>9. GivenUp => Unwilling
  BY DEF GivenUp, Unwilling
<1>10. ASSUME NEW m \in {"confirm", "refuse"}, Response(m) PROVE PanicCauses'
  <2>1. CASE progress.phase = "none" /\ pc' = "unknown response"
    <3>1. Read(m)
      BY <1>10 DEF Response
    <3>2. canceled \/ Ended
      BY <1>6, <2>1, <3>1
    <3>3. canceled' \/ SentAny("end")'
      BY <1>1, <1>2, <3>2
    <3> QED
      BY <2>1, <3>3 DEF PanicCauses
  <2> QED
    BY <1>4, <1>10, <2>1 DEF Response
<1>11. CASE DiscoveryDone
  <2>1. CASE pc' = "concluded twice" /\ progress.phase = "finished"
    <3>1. NextCompleted("discovery") /\ progress.phase = "finished"
      BY <1>11, <2>1 DEF DiscoveryDone
    <3>2. Unwilling'
      BY <1>1, <1>7, <1>9, <3>1
    <3> QED
      BY <2>1, <3>2 DEF PanicCauses
  <2> QED
    BY <1>4, <1>11, <2>1 DEF DiscoveryDone
<1>12. CASE ProgressDone
  <2>1. CASE pc' = "progress while booting" /\ stage = "boot"
    <3>1. NextCompleted("progress") /\ stage = "boot"
      BY <1>12, <2>1 DEF ProgressDone
    <3>2. Unwilling'
      BY <1>1, <1>8, <1>9, <3>1
    <3> QED
      BY <2>1, <3>2 DEF PanicCauses
  <2> QED
    BY <1>4, <1>12, <2>1 DEF ProgressDone
<1> QED
  BY <1>4, <1>5, <1>10, <1>11, <1>12
     DEF Next, Loop, Receive, Done, ReadCancel, EndIncoming, RecvLocated,
         RecvIndexed, RecvGuide, RecvScan, EndResults, EndCompleted, Cancel,
         EndProcess, ProgressTasks, ClientAnswers, ClientCancels, Finish, vars

----------------------------------------------------------------------------
(* Types.                                                                  *)

Discoveries == [phase : {"scanning", "indexing", "parsing", "gone"},
                started : BOOLEAN, left : 0..(MaxFiles + 1)]

Reports == [phase : {"none", "ready", "announced", "initialized", "reporting",
                     "aborted", "finished"},
            owed : {<<>>, <<"end">>, <<"begin", "end">>}]

LEMMA StepType ==
  /\ Gone \in Discoveries
  /\ Step("scanning", 1) \in Discoveries /\ Step("indexing", 1) \in Discoveries
  /\ \A n \in 0..MaxFiles : Step("parsing", n) \in Discoveries
<1>1. /\ 0 \in 0..(MaxFiles + 1) /\ 1 \in 0..(MaxFiles + 1)
      /\ \A n \in 0..MaxFiles : n \in 0..(MaxFiles + 1)
  BY StartupAssumption DEF StartupAssumption
<1>2. \A n \in 0..(MaxFiles + 1) :
        /\ [phase |-> "scanning", started |-> FALSE, left |-> n] \in Discoveries
        /\ [phase |-> "indexing", started |-> FALSE, left |-> n] \in Discoveries
        /\ [phase |-> "parsing", started |-> FALSE, left |-> n] \in Discoveries
        /\ [phase |-> "gone", started |-> FALSE, left |-> n] \in Discoveries
  BY DEF Discoveries
<1> QED
  BY <1>1, <1>2 DEF Step, Gone

LEMMA TypeStep ==
  ASSUME TypeOK, Mail, Report, Drained, Stages, [Next]_vars
  PROVE  TypeOK'
<1> DEFINE Places == {"incoming", "recv", "completed", "process", "progress"}
                       \union Crash
<1>1. answered' \in {"none", "confirm", "refuse"} /\ canceled' \in BOOLEAN
  BY DEF TypeOK, Next, Loop, Receive, Done, ReadCancel, Response,
         EndIncoming, RecvLocated, RecvIndexed, RecvGuide, RecvScan,
         EndResults, DiscoveryDone, ProgressDone, EndCompleted, Cancel,
         EndProcess, ProgressTasks, ClientAnswers, ClientCancels, Finish,
         vars, clientVars
<1>2. chan' \in Seq({"confirm", "refuse", "cancel"})
  <2>1. Mail' /\ (answered' \in Messages \/ answered' = "none")
    BY <1>1, MailStep DEF Messages
  <2>2. \A a \in Messages : /\ <<>> \in Seq(Messages) /\ <<a>> \in Seq(Messages)
                            /\ <<a, "cancel">> \in Seq(Messages)
                            /\ <<"cancel", a>> \in Seq(Messages)
    BY DEF Messages
  <2>3. "cancel" \in Messages
    BY DEF Messages
  <2> QED
    BY <2>1, <2>2, <2>3 DEF Mail, Messages
<1>3. sent' \in Seq({"create", "begin", "end"})
  BY ReportStep, SendFacts DEF Report, ProgressInOrder, SentLists
<1>4. completed' \in Seq({"discovery", "progress"})
  <2>1. Drained'
    BY DrainedStep
  <2>2. /\ <<>> \in Seq({"discovery", "progress"})
        /\ <<"discovery">> \in Seq({"discovery", "progress"})
        /\ <<"progress">> \in Seq({"discovery", "progress"})
        /\ <<"discovery", "progress">> \in Seq({"discovery", "progress"})
    OBVIOUS
  <2> QED
    BY <2>1, <2>2 DEF Drained
<1>5. stage' \in {"boot", "main"} /\ pc' \in Places /\ found' \in 0..MaxFiles
        /\ guide' \in {"loading", "loaded", "lost"}
  BY DEF TypeOK, Next, Loop, Receive, Done, ReadCancel, Response, Crash,
         EndIncoming, RecvLocated, RecvIndexed, RecvGuide, RecvScan,
         EndResults, DiscoveryDone, ProgressDone, EndCompleted, Cancel,
         EndProcess, ProgressTasks, Start, NextStage, Waits,
         ClientAnswers, ClientCancels, Finish, vars, clientVars
<1>6. cancels' \in 0..1
  <2>1. CASE ReadCancel
    <3>1. Read("cancel") /\ cancels' = cancels + 1
      BY <2>1 DEF ReadCancel
    <3>2. cancels # 1
      <4>1. answered # "cancel" /\ answered \in Messages \union {"none"}
        BY DEF TypeOK, Messages
      <4>2. chan \notin {<<>>, <<answered>>}
        BY <3>1, <4>1, MailsDiffer, ReadFirst DEF Messages
      <4> QED
        BY <4>2 DEF Mail
    <3> QED
      BY <3>1, <3>2 DEF TypeOK
  <2>2. CASE Cancel
    BY <2>2 DEF Cancel, TypeOK
  <2> QED
    BY <2>1, <2>2
       DEF TypeOK, Next, Loop, Receive, Done, Response, EndIncoming,
           RecvLocated, RecvIndexed, RecvGuide, RecvScan, EndResults,
           DiscoveryDone, ProgressDone, EndCompleted, EndProcess,
           ProgressTasks, ClientAnswers, ClientCancels, Finish, vars
<1>7. discovery' \in Discoveries
  <2>0. discovery \in Discoveries
    BY DEF TypeOK, Discoveries
  <2>1. CASE Receive
    <3>1. \/ UNCHANGED discovery
          \/ Advance /\ \E j \in rx : /\ j.kind # "guide"
                                      /\ rx' = rx \ {j} /\ UNCHANGED pool
      BY <2>1 DEF Receive, RecvLocated, RecvIndexed, RecvGuide, RecvScan,
                  Received, Job
    <3>2. ASSUME Advance, NEW j \in rx, j.kind # "guide", rx' = rx \ {j},
                 UNCHANGED pool
          PROVE  discovery' \in Discoveries
      <4>1. discovery.left - 1 \in Nat
        BY <3>2, ResultCounted
      <4>2. discovery.left \in 0..(MaxFiles + 1) /\ MaxFiles \in Nat
        BY StartupAssumption DEF StartupAssumption, TypeOK
      <4>3. discovery.left - 1 \in 0..(MaxFiles + 1)
        BY <4>1, <4>2
      <4> QED
        BY <2>0, <3>2, <4>3 DEF Advance, Discoveries
    <3> QED
      BY <2>0, <3>1, <3>2
  <2>2. CASE ProgressTasks
    <3>1. discovery' \in {discovery, Started, Step("indexing", 1), Step("parsing", found)}
      BY <2>2 DEF ProgressTasks, Start, NextStage, Waits
    <3>2. Started \in Discoveries
      BY <2>0 DEF Started, Discoveries
    <3> QED
      BY <2>0, <3>1, <3>2, StepType DEF TypeOK
  <2>3. CASE DiscoveryDone
    BY <2>0, <2>3, StepType DEF DiscoveryDone
  <2>4. CASE UNCHANGED discovery
    BY <2>0, <2>4
  <2> QED
    BY <2>1, <2>2, <2>3, <2>4
       DEF Next, Loop, Done, ReadCancel, Response, EndIncoming, EndResults,
           ProgressDone, EndCompleted, Cancel, EndProcess, ClientAnswers,
           ClientCancels, Finish, vars
<1>8. progress' \in Reports
  <2>1. progress \in Reports /\ Concluded \in Reports
          /\ \A phase \in {"none", "announced", "initialized", "reporting",
                            "aborted", "finished"} : Progress(phase) \in Reports
    BY DEF TypeOK, Concluded, Progress, Reports
  <2>2. Confirmed \in {progress, Progress("initialized")}
    BY DEF Confirmed
  <2>3. Broadcast.to \in {progress, Progress("announced"), Progress("reporting"),
                          Progress("finished")}
    BY DEF Broadcast
  <2>5. \/ progress' \in {progress, Confirmed, Concluded, Progress("aborted"),
                          Progress("none")}
        \/ ProgressTasks
    BY DEF Next, Loop, Receive, Done, ReadCancel, Response, EndIncoming,
           RecvLocated, RecvIndexed, RecvGuide, RecvScan, EndResults,
           DiscoveryDone, ProgressDone, EndCompleted, Cancel, EndProcess,
           ClientAnswers, ClientCancels, Finish, vars
  <2>6. /\ Progress("none") \in Reports /\ Progress("announced") \in Reports
        /\ Progress("initialized") \in Reports /\ Progress("reporting") \in Reports
        /\ Progress("aborted") \in Reports /\ Progress("finished") \in Reports
    BY <2>1
  <2>7. CASE progress' \in {progress, Confirmed, Concluded, Progress("aborted"),
                            Progress("none")}
    BY <2>1, <2>2, <2>6, <2>7
  <2>8. CASE ProgressTasks
    <3>1. progress' = Broadcast.to
      BY <2>8 DEF ProgressTasks
    <3> QED
      BY <2>1, <2>3, <2>6, <3>1
  <2> QED
    BY <2>5, <2>7, <2>8
<1>9. pool' \subseteq Jobs /\ rx' \subseteq Jobs
  <2>1. \A phase \in {"scanning", "indexing", "parsing"} : JobsOf(phase) \subseteq Jobs
    <3>1. MaxFiles \in Nat /\ found \in 0..MaxFiles
      BY StartupAssumption DEF StartupAssumption, TypeOK
    <3>2. 1..found \subseteq 1..MaxFiles
      BY <3>1
    <3>3. ScanJobs(found) \subseteq ScanJobs(MaxFiles)
      BY <3>2 DEF ScanJobs
    <3> QED
      BY <3>3 DEF JobsOf, Jobs
  <2>2. pool \subseteq Jobs /\ rx \subseteq Jobs
    BY DEF TypeOK
  <2>3. CASE ProgressTasks
    BY <2>1, <2>2, <2>3 DEF ProgressTasks, Start, NextStage, Waits
  <2>4. ASSUME NEW j \in pool, Finish(j) PROVE pool' \subseteq Jobs /\ rx' \subseteq Jobs
    BY <2>2, <2>4 DEF Finish
  <2>5. CASE Receive
    BY <2>2, <2>5 DEF Receive, RecvLocated, RecvIndexed, RecvGuide, RecvScan,
                      Received
  <2>6. CASE UNCHANGED <<pool, rx>>
    BY <2>2, <2>6
  <2> QED
    BY <2>3, <2>4, <2>5, <2>6
       DEF Next, Loop, Done, ReadCancel, Response, EndIncoming, EndResults,
           DiscoveryDone, ProgressDone, EndCompleted, Cancel, EndProcess,
           ClientAnswers, ClientCancels, vars
<1> QED
  BY <1>1, <1>2, <1>3, <1>4, <1>5, <1>6, <1>7, <1>8, <1>9
     DEF TypeOK, Discoveries, Reports

----------------------------------------------------------------------------
LEMMA StartupInit ==
  ASSUME Init
  PROVE  StartupInv
<1>0. MaxFiles \in Nat /\ Supported \in BOOLEAN
  BY StartupAssumption DEF StartupAssumption
<1>1. DiscoveryJobs = {} /\ pool \cap rx = {}
  BY DEF Init, DiscoveryJobs, InFlight, Job
<1>2. TypeOK
  <2>1. discovery \in Discoveries
    BY StepType DEF Init
  <2>2. progress \in Reports
    BY <1>0 DEF Init, Progress, Reports
  <2>3. found \in 0..MaxFiles /\ cancels \in 0..1
    BY <1>0 DEF Init
  <2>4. /\ chan \in Seq({"confirm", "refuse", "cancel"})
        /\ sent \in Seq({"create", "begin", "end"})
        /\ completed \in Seq({"discovery", "progress"})
        /\ pool \subseteq Jobs /\ rx \subseteq Jobs
    BY DEF Init, Jobs
  <2> QED
    BY <2>1, <2>2, <2>3, <2>4 DEF Init, TypeOK, Discoveries, Reports
<1>3. Mail
  BY DEF Init, Mail
<1>4. Report
  BY <1>0, NotEnded DEF Init, Report, ProgressInOrder, Progress, Unwilling
<1>5. Drained
  BY CompletedDiffer DEF Init, Drained
<1>6. Stages
  BY <1>1 DEF Init, Stages, StagesInStep, Step, Gone
<1>7. PanicCauses
  BY DEF Init, PanicCauses
<1> QED
  BY <1>2, <1>3, <1>4, <1>5, <1>6, <1>7 DEF StartupInv

LEMMA StartupStep ==
  ASSUME StartupInv, [Next]_vars
  PROVE  StartupInv'
BY TypeStep, MailStep, ReportStep, DrainedStep, StagesStep, PanicStep
   DEF StartupInv

LEMMA StartupInductive == Spec => []StartupInv
<1>1. Init => StartupInv
  BY StartupInit
<1>2. StartupInv /\ [Next]_vars => StartupInv'
  BY StartupStep
<1> QED
  BY <1>1, <1>2, PTL DEF Spec

(* The results that arrive and the tasks that are completed are those the  *)
(* loop expects, and it panics for no other reason than a client that gave *)
(* up the token or answered it late, for any number of files.              *)
THEOREM ResultsStayExpected == Spec => []ResultsExpected
<1>1. StartupInv => ResultsExpected
  <2> SUFFICES ASSUME StartupInv PROVE ResultsExpected
    OBVIOUS
  <2>1. CompletedRegistered
    BY DEF StartupInv, Drained, CompletedRegistered
  <2> QED
    BY <2>1 DEF StartupInv, Stages, ResultsExpected
<1> QED
  BY <1>1, StartupInductive, PTL

(* The client sees one report at most, from its begin to its end, and an   *)
(* end without a begin only if it gave the token up.                       *)
THEOREM ProgressStaysInOrder == Spec => []ProgressInOrder
<1>1. StartupInv => ProgressInOrder
  BY DEF StartupInv, Report
<1> QED
  BY <1>1, StartupInductive, PTL
=============================================================================
