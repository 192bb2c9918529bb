-------------------------- MODULE LifecycleProofs ---------------------------
(***************************************************************************)
(* What becomes of the messages of the client in Lifecycle, proved for any *)
(* number of them: work takes effect in the order it was sent, nothing is  *)
(* lost on the way from the channel to the main loop, and the exit code    *)
(* tells whether the client asked for the shutdown.                        *)
(*                                                                         *)
(* A message passes through up to four lists: channel, incoming, postponed *)
(* by the boot loop, and incoming again in the main loop.  The invariant   *)
(* orders all of them at once.                                             *)
(***************************************************************************)
EXTENDS Lifecycle, SequenceTheorems, TLAPS

(* Messages are numbered as they are sent.                                 *)
Known(s) == \A i \in DOMAIN s : s[i].n \in DOMAIN sent /\ sent[s[i].n] = s[i]

MessagesKnown ==
  /\ \A i \in DOMAIN sent : sent[i].n = i
  /\ Known(chan) /\ Known(incoming) /\ Known(postponed)

(* What was sent first is ahead.                                           *)
Rising(s) == \A i, j \in DOMAIN s : i < j => s[i].n < s[j].n
Ahead(M, N) == \A m \in M, n \in N : m < n

MessagesOrdered ==
  /\ Rising(chan) /\ Rising(incoming) /\ Rising(postponed)
  /\ Ahead(Numbers(incoming), Numbers(chan))
  /\ Ahead(Numbers(postponed), Numbers(incoming))
  /\ Ahead(Numbers(postponed), Numbers(chan))

HandledFirst ==
  /\ \A i \in DOMAIN handled : handled[i] \in DOMAIN sent
  /\ \A i, j \in DOMAIN handled : i < j => handled[i] < handled[j]
  /\ \A i \in DOMAIN handled : \A n \in Pending : handled[i] < n

(* What each phase has not begun to use.                                   *)
PhasesApart ==
  /\ phase = "uninit" => incoming = <<>>
  /\ phase \in {"uninit", "main"} => postponed = <<>>
  /\ phase \in {"uninit", "boot"} => handled = <<>>

(* A request is answered when it is taken.  Before the initialize request  *)
(* messages are taken, and dropped, in order.                              *)
RequestsPending ==
  phase # "down" =>
    \A i \in DOMAIN sent :
      IsRequest(sent[i]) => (i \in Pending <=> answer[i] = "none")

Initialized(i) == \E j \in i..Len(sent) :
                    sent[j].kind = "initialize" /\ answer[j] = "result"

NotificationsKept ==
  /\ phase = "uninit" =>
       \A i \in DOMAIN sent : i \in Pending \/ \A n \in Pending : i < n
  /\ Running =>
       \A i \in DOMAIN sent :
         sent[i].kind = "notification"
           => i \in Pending \/ (\E j \in DOMAIN handled : handled[j] = i)
                \/ Initialized(i)

(* The flag of the shutdown request and the exit.                          *)
EndAgreed ==
  /\ shutdown => SentKind("shutdown")
  /\ exit => SentKind("exit")
  /\ phase = "uninit" => \A n \in 1..MaxMsgs : answer[n] # "result"
  /\ Granted => shutdown

LifeInv == /\ TypeOK /\ MessagesKnown /\ MessagesOrdered /\ HandledFirst
           /\ PhasesApart /\ RequestsPending /\ NotificationsKept
           /\ EndAgreed /\ ExitCodeRight
----------------------------------------------------------------------------
(* Lists of messages.                                                      *)

LEMMA NumbersOfEmpty == Numbers(<<>>) = {}
BY DEF Numbers

LEMMA AppendMessage ==
  ASSUME NEW s \in Seq(Message), NEW m \in Message
  PROVE  /\ Append(s, m) \in Seq(Message)
         /\ Numbers(Append(s, m)) = Numbers(s) \union {m.n}
         /\ Rising(s) /\ Ahead(Numbers(s), {m.n}) => Rising(Append(s, m))
<1> DEFINE t == Append(s, m)
<1>1. /\ t \in Seq(Message)
      /\ DOMAIN t = DOMAIN s \union {Len(s) + 1}
      /\ \A i \in DOMAIN s : t[i] = s[i] /\ i <= Len(s) /\ i \in Nat
      /\ t[Len(s) + 1] = m /\ Len(s) \in Nat
  OBVIOUS
<1> HIDE DEF t
<1>2. Numbers(t) = Numbers(s) \union {m.n}
  BY <1>1 DEF Numbers
<1>3. ASSUME Rising(s), Ahead(Numbers(s), {m.n}) PROVE Rising(t)
  <2> SUFFICES ASSUME NEW i \in DOMAIN t, NEW j \in DOMAIN t, i < j
               PROVE  t[i].n < t[j].n
    BY DEF Rising
  <2>1. i \in DOMAIN s
    BY <1>1
  <2>2. s[i].n \in Numbers(s)
    BY <2>1 DEF Numbers
  <2> QED
    BY <1>1, <1>3, <2>1, <2>2 DEF Rising, Ahead
<1> QED
  BY <1>1, <1>2, <1>3 DEF t

LEMMA TailMessages ==
  ASSUME NEW s \in Seq(Message), s # <<>>
  PROVE  /\ Head(s) \in Message /\ Tail(s) \in Seq(Message)
         /\ Numbers(s) = Numbers(Tail(s)) \union {Head(s).n}
         /\ Known(s) => /\ Known(Tail(s))
                        /\ Head(s).n \in DOMAIN sent /\ sent[Head(s).n] = Head(s)
         /\ Rising(s) => /\ Rising(Tail(s))
                         /\ Ahead({Head(s).n}, Numbers(Tail(s)))
<1> DEFINE t == Tail(s)
<1> DEFINE h == Head(s)
<1>1. /\ t \in Seq(Message) /\ h \in Message /\ h = s[1]
      /\ Len(s) \in Nat \ {0} /\ DOMAIN s = 1..Len(s)
      /\ DOMAIN t = 1..(Len(s) - 1)
      /\ \A i \in DOMAIN t : t[i] = s[i + 1] /\ i + 1 \in DOMAIN s /\ 1 < i + 1
  OBVIOUS
<1> HIDE DEF t, h
<1>2. \A k \in DOMAIN s : k = 1 \/ (k - 1 \in DOMAIN t /\ t[k - 1] = s[k])
  BY <1>1
<1>3. 1 \in DOMAIN s
  BY <1>1
<1>4. Numbers(s) = Numbers(t) \union {h.n}
  <2>1. Numbers(s) \subseteq Numbers(t) \union {h.n}
    BY <1>1, <1>2 DEF Numbers
  <2>2. Numbers(t) \union {h.n} \subseteq Numbers(s)
    BY <1>1, <1>3 DEF Numbers
  <2> QED
    BY <2>1, <2>2
<1>5. Known(s) => Known(t) /\ h.n \in DOMAIN sent /\ sent[h.n] = h
  BY <1>1, <1>3 DEF Known
<1>6. Rising(s) => Rising(t)
  BY <1>1 DEF Rising
<1>7. Rising(s) => Ahead({h.n}, Numbers(t))
  BY <1>1, <1>3 DEF Rising, Ahead, Numbers
<1> QED
  BY <1>1, <1>4, <1>5, <1>6, <1>7 DEF t, h

LEMMA NumbersType ==
  ASSUME NEW s \in Seq(Message) PROVE Numbers(s) \subseteq 1..MaxMsgs
<1>1. \A i \in DOMAIN s : s[i] \in Message
  OBVIOUS
<1> QED
  BY <1>1 DEF Numbers, Message

(* Everything in a known list has been sent.                               *)
LEMMA NumbersKnown ==
  ASSUME NEW s, Known(s) PROVE Numbers(s) \subseteq DOMAIN sent
BY DEF Numbers, Known

LEMMA SentGrows ==
  ASSUME sent \in Seq(Message), NEW m \in Message, sent' = Append(sent, m)
  PROVE  /\ DOMAIN sent' = DOMAIN sent \union {Len(sent) + 1}
         /\ Len(sent') = Len(sent) + 1 /\ Len(sent) \in Nat
         /\ DOMAIN sent = 1..Len(sent)
         /\ sent'[Len(sent) + 1] = m
         /\ \A i \in DOMAIN sent : sent'[i] = sent[i]
OBVIOUS

----------------------------------------------------------------------------
(* What a step does to the lists.                                          *)

Stay == UNCHANGED <<chan, incoming, postponed, sent, handled>>

Sends(m) == /\ m.n = Len(sent) + 1
            /\ sent' = Append(sent, m) /\ chan' = Append(chan, m)
            /\ UNCHANGED <<incoming, postponed, handled>>

Takes == /\ phase = "uninit"
         /\ chan # <<>> /\ chan' = Tail(chan)
         /\ UNCHANGED <<incoming, postponed, sent, handled>>

Reads == /\ chan # <<>> /\ chan' = Tail(chan)
         /\ incoming' = Append(incoming, Head(chan))
         /\ UNCHANGED <<postponed, sent, handled>>

Drains == /\ incoming # <<>> /\ incoming' = Tail(incoming)
          /\ UNCHANGED <<chan, sent>>

Consumes == /\ Drains /\ UNCHANGED <<postponed, handled>>
            /\ Head(incoming).kind # "notification"

Postpones == /\ Drains
             /\ postponed' = Append(postponed, Head(incoming))
             /\ UNCHANGED handled

Handles == /\ phase = "main" /\ Drains
           /\ handled' = Append(handled, Head(incoming).n)
           /\ UNCHANGED postponed

Moves == /\ incoming = <<>>
         /\ incoming' = postponed /\ postponed' = <<>>
         /\ UNCHANGED <<chan, sent, handled>>

LEMMA ClientSendsOne ==
  ASSUME TypeOK, NEW k \in Kind, ClientSends(k)
  PROVE  \E m \in Message : Sends(m)
<1> DEFINE m == [kind |-> k, n |-> Len(sent) + 1]
<1>1. Len(sent) + 1 \in 1..MaxMsgs
  BY LifecycleAssumption DEF ClientSends, TypeOK
<1>2. m \in Message
  BY <1>1 DEF Message
<1> QED
  BY <1>2 DEF ClientSends, Sends

LEMMA StepKinds ==
  ASSUME TypeOK, [Next]_vars
  PROVE  \/ Stay \/ (\E m \in Message : Sends(m)) \/ Takes \/ Reads
         \/ Consumes \/ Postpones \/ Handles \/ Moves
<1>1. ASSUME NEW k \in Kind, ClientSends(k)
      PROVE  \E m \in Message : Sends(m)
  BY <1>1, ClientSendsOne
<1>2. CASE \/ Initialize \/ NotInitialized \/ DropNotification
           \/ ExitUninitialized
  BY <1>2 DEF Initialize, NotInitialized, DropNotification, ExitUninitialized,
              Take, Takes
<1>3. CASE \/ StartCycle \/ EndRead \/ ParentMissing \/ ParentDies
           \/ WorkerPanics \/ Down \/ UNCHANGED vars
  BY <1>3 DEF StartCycle, EndRead, ParentMissing, ParentDies, WorkerPanics,
              Down, vars, Stay
<1>4. CASE ReadMsg
  BY <1>4 DEF ReadMsg, Reads
<1>5. ASSUME NEW m \in Message, Refuse(m) \/ Shutdown(m) \/ Exit(m)
      PROVE  Consumes
  BY <1>5 DEF Refuse, Shutdown, Exit, Process, IsRequest, Consumes, Drains
<1>6. ASSUME NEW m \in Message, Postpone(m) PROVE Postpones
  BY <1>6 DEF Postpone, Process, Postpones, Drains
<1>7. ASSUME NEW m \in Message, Handle(m) PROVE Handles
  BY <1>7 DEF Handle, Process, Handles, Drains
<1>8. CASE EndCycle
  BY <1>8 DEF EndCycle, EnterMain, Stay, Moves
<1> QED
  BY <1>1, <1>2, <1>3, <1>4, <1>5, <1>6, <1>7, <1>8 DEF Next, Serve, ProcessMsg

(* The lists of the invariant.                                             *)
Lists == /\ chan \in Seq(Message) /\ incoming \in Seq(Message)
         /\ postponed \in Seq(Message) /\ sent \in Seq(Message)
         /\ handled \in Seq(1..MaxMsgs)

Queues == Lists /\ MessagesKnown /\ MessagesOrdered /\ HandledFirst

LEMMA SentNumbers == Queues => DOMAIN sent \subseteq 1..MaxMsgs
<1> SUFFICES ASSUME Queues, NEW i \in DOMAIN sent PROVE i \in 1..MaxMsgs
  OBVIOUS
<1>1. sent[i] \in Message /\ sent[i].n = i
  BY DEF Queues, Lists, MessagesKnown
<1> QED
  BY <1>1 DEF Message

(* The last message sent is behind everything else, and only it is new.    *)
LEMMA SendQueues ==
  ASSUME Queues, NEW m \in Message, Sends(m)
  PROVE  Queues' /\ Pending' = Pending \union {m.n} /\ m.n = Len(sent) + 1
<1>1. /\ DOMAIN sent' = DOMAIN sent \union {m.n} /\ m.n \notin DOMAIN sent
      /\ \A i \in DOMAIN sent : sent'[i] = sent[i] /\ i < m.n /\ i \in Nat
      /\ sent'[m.n] = m /\ sent' \in Seq(Message) /\ m.n = Len(sent) + 1
  BY SentGrows, AppendMessage DEF Queues, Lists, Sends
<1>2. /\ chan' \in Seq(Message) /\ Numbers(chan') = Numbers(chan) \union {m.n}
      /\ Rising(chan) /\ Ahead(Numbers(chan), {m.n}) => Rising(chan')
  BY AppendMessage DEF Queues, Lists, Sends
<1>3. /\ Numbers(chan) \subseteq DOMAIN sent
      /\ Numbers(incoming) \subseteq DOMAIN sent
      /\ Numbers(postponed) \subseteq DOMAIN sent
  BY NumbersKnown DEF Queues, MessagesKnown
<1>4. incoming' = incoming /\ postponed' = postponed /\ handled' = handled
  BY DEF Sends
<1>5. Lists'
  BY <1>1, <1>2, <1>4 DEF Queues, Lists
<1>6. MessagesKnown'
  <2>1. \A s : Known(s) => \A i \in DOMAIN s :
                 s[i].n \in DOMAIN sent' /\ sent'[s[i].n] = s[i]
    BY <1>1 DEF Known
  <2>2. \A i \in DOMAIN chan' : chan'[i] = m \/ \E j \in DOMAIN chan : chan'[i] = chan[j]
    BY DEF Sends, Queues, Lists
  <2>3. \A i \in DOMAIN chan' : chan'[i].n \in DOMAIN sent' /\ sent'[chan'[i].n] = chan'[i]
    BY <1>1, <2>1, <2>2 DEF Queues, MessagesKnown
  <2>4. \A i \in DOMAIN sent' : sent'[i].n = i
    BY <1>1 DEF Queues, MessagesKnown
  <2> QED
    BY <1>4, <2>1, <2>3, <2>4 DEF Queues, MessagesKnown, Known
<1>7. MessagesOrdered'
  BY <1>1, <1>2, <1>3, <1>4 DEF Queues, MessagesOrdered, Ahead, Rising
<1>8. Pending' = Pending \union {m.n}
  BY <1>2, <1>4 DEF Pending, Numbers
<1>9. HandledFirst'
  BY <1>1, <1>4, <1>8 DEF Queues, HandledFirst
<1> QED
  BY <1>1, <1>5, <1>6, <1>7, <1>8, <1>9 DEF Queues

(* Messages are taken from the front of a list.                            *)
LEMMA TakeQueues ==
  ASSUME Queues, PhasesApart, Takes
  PROVE  /\ Queues'
         /\ Head(chan) \in Message
         /\ Head(chan).n \in DOMAIN sent /\ sent[Head(chan).n] = Head(chan)
         /\ Pending = Pending' \union {Head(chan).n}
         /\ Ahead({Head(chan).n}, Pending')
<1>1. /\ Head(chan) \in Message /\ chan' \in Seq(Message)
      /\ Numbers(chan) = Numbers(chan') \union {Head(chan).n}
      /\ Known(Tail(chan)) /\ Rising(chan')
      /\ Ahead({Head(chan).n}, Numbers(chan'))
      /\ Head(chan).n \in DOMAIN sent /\ sent[Head(chan).n] = Head(chan)
  BY TailMessages
  DEF Queues, Lists, MessagesKnown, MessagesOrdered, Takes
<1>2. UNCHANGED <<incoming, postponed, sent, handled>>
  BY DEF Takes
<1>3. incoming = <<>> /\ postponed = <<>>
  BY DEF Takes, PhasesApart
<1>4. /\ Pending = Numbers(chan) \union {} \union {}
      /\ Pending' = Numbers(chan') \union {} \union {}
  BY <1>2, <1>3, NumbersOfEmpty DEF Pending, Numbers
<1>5. Lists'
  BY <1>1, <1>2 DEF Queues, Lists
<1>6. MessagesKnown'
  BY <1>1, <1>2 DEF Queues, MessagesKnown, Known, Takes
<1>7. MessagesOrdered'
  BY <1>1, <1>2 DEF Queues, MessagesOrdered, Ahead, Rising
<1>8. HandledFirst'
  BY <1>1, <1>2, <1>4 DEF Queues, HandledFirst
<1> QED
  BY <1>1, <1>4, <1>5, <1>6, <1>7, <1>8 DEF Queues, Ahead

LEMMA ReadQueues ==
  ASSUME Queues, Reads
  PROVE  Queues' /\ Pending' = Pending
<1>1. /\ Head(chan) \in Message /\ chan' \in Seq(Message)
      /\ Numbers(chan) = Numbers(chan') \union {Head(chan).n}
      /\ Known(Tail(chan)) /\ Rising(chan')
      /\ Ahead({Head(chan).n}, Numbers(chan'))
      /\ Head(chan).n \in DOMAIN sent /\ sent[Head(chan).n] = Head(chan)
  BY TailMessages
  DEF Queues, Lists, MessagesKnown, MessagesOrdered, Reads
<1>2. /\ UNCHANGED <<postponed, sent, handled>>
      /\ incoming' = Append(incoming, Head(chan))
  BY DEF Reads
<1>3. /\ incoming' \in Seq(Message)
      /\ Numbers(incoming') = Numbers(incoming) \union {Head(chan).n}
      /\ Rising(incoming) /\ Ahead(Numbers(incoming), {Head(chan).n})
           => Rising(incoming')
  BY <1>1, <1>2, AppendMessage DEF Queues, Lists
<1>4. Pending' = Pending
  BY <1>1, <1>2, <1>3 DEF Pending, Numbers
<1>5. Lists'
  BY <1>1, <1>2, <1>3 DEF Queues, Lists
<1>6. MessagesKnown'
  <2>1. \A i \in DOMAIN incoming' :
          incoming'[i] = Head(chan) \/ \E j \in DOMAIN incoming : incoming'[i] = incoming[j]
    BY <1>1, <1>2 DEF Queues, Lists
  <2>2. \A i \in DOMAIN incoming' : /\ incoming'[i].n \in DOMAIN sent
                                    /\ sent[incoming'[i].n] = incoming'[i]
    BY <1>1, <2>1 DEF Queues, MessagesKnown, Known
  <2> QED
    BY <1>1, <1>2, <2>2 DEF Queues, MessagesKnown, Known, Reads
<1>7. MessagesOrdered'
  BY <1>1, <1>2, <1>3 DEF Queues, MessagesOrdered, Ahead, Rising
<1>8. HandledFirst'
  BY <1>2, <1>4 DEF Queues, HandledFirst
<1> QED
  BY <1>4, <1>5, <1>6, <1>7, <1>8 DEF Queues

(* The head of incoming, and what stays behind it.                         *)
LEMMA DrainQueues ==
  ASSUME Queues, Drains
  PROVE  /\ Head(incoming) \in Message
         /\ Head(incoming).n \in DOMAIN sent
         /\ sent[Head(incoming).n] = Head(incoming)
         /\ incoming' \in Seq(Message)
         /\ Numbers(incoming) = Numbers(incoming') \union {Head(incoming).n}
         /\ Rising(incoming') /\ Known(Tail(incoming))
         /\ Ahead({Head(incoming).n}, Numbers(incoming'))
         /\ Ahead({Head(incoming).n}, Numbers(chan))
         /\ Ahead(Numbers(postponed), {Head(incoming).n})
         /\ Ahead(Numbers(incoming'), Numbers(chan))
BY TailMessages
DEF Queues, Lists, MessagesKnown, MessagesOrdered, Drains, Ahead

LEMMA ConsumeQueues ==
  ASSUME Queues, Consumes
  PROVE  Queues' /\ Pending = Pending' \union {Head(incoming).n}
                 /\ Head(incoming).n \notin Pending'
<1> DEFINE h == Head(incoming).n
<1>0. Drains /\ UNCHANGED <<chan, sent, postponed, handled>>
  BY DEF Consumes, Drains
<1>1. Pending = Pending' \union {h}
  BY <1>0, DrainQueues DEF Pending, Numbers
<1>2. h \notin Pending'
  <2>1. h \in Int
    BY <1>0, DrainQueues DEF Message
  <2>2. /\ h \notin Numbers(incoming') /\ h \notin Numbers(chan)
        /\ h \notin Numbers(postponed)
    BY <1>0, <2>1, DrainQueues DEF Ahead
  <2> QED
    BY <1>0, <2>2 DEF Pending, Numbers
<1>3. Lists'
  BY <1>0, DrainQueues DEF Queues, Lists
<1>4. MessagesKnown'
  BY <1>0, DrainQueues DEF Queues, MessagesKnown, Known, Drains
<1>5. MessagesOrdered'
  BY <1>0, DrainQueues DEF Queues, MessagesOrdered, Ahead, Rising
<1>6. HandledFirst'
  BY <1>0, <1>1 DEF Queues, HandledFirst
<1> QED
  BY <1>1, <1>2, <1>3, <1>4, <1>5, <1>6 DEF Queues

LEMMA PostponeQueues ==
  ASSUME Queues, Postpones
  PROVE  Queues' /\ Pending' = Pending
<1> DEFINE m == Head(incoming)
<1>0. /\ Drains /\ UNCHANGED <<chan, sent, handled>>
      /\ postponed' = Append(postponed, m)
  BY DEF Postpones, Drains
<1>1. /\ postponed' \in Seq(Message)
      /\ Numbers(postponed') = Numbers(postponed) \union {m.n}
      /\ Rising(postponed')
  BY <1>0, DrainQueues, AppendMessage DEF Queues, Lists, MessagesOrdered
<1>2. Pending' = Pending
  BY <1>0, <1>1, DrainQueues DEF Pending, Numbers
<1>3. Lists'
  BY <1>0, <1>1, DrainQueues DEF Queues, Lists
<1>4. MessagesKnown'
  <2>1. \A i \in DOMAIN postponed' :
          postponed'[i] = m \/ \E j \in DOMAIN postponed : postponed'[i] = postponed[j]
    BY <1>0, DrainQueues DEF Queues, Lists
  <2>2. \A i \in DOMAIN postponed' : /\ postponed'[i].n \in DOMAIN sent
                                     /\ sent[postponed'[i].n] = postponed'[i]
    BY <1>0, <2>1, DrainQueues DEF Queues, MessagesKnown, Known
  <2> QED
    BY <1>0, <2>2, DrainQueues DEF Queues, MessagesKnown, Known, Drains
<1>5. MessagesOrdered'
  BY <1>0, <1>1, DrainQueues DEF Queues, MessagesOrdered, Ahead, Rising
<1>6. HandledFirst'
  BY <1>0, <1>2 DEF Queues, HandledFirst
<1> QED
  BY <1>2, <1>3, <1>4, <1>5, <1>6 DEF Queues

LEMMA HandleQueues ==
  ASSUME Queues, PhasesApart, Handles
  PROVE  /\ Queues' /\ Pending = Pending' \union {Head(incoming).n}
         /\ Head(incoming).n \notin Pending'
         /\ \E j \in DOMAIN handled' : handled'[j] = Head(incoming).n
         /\ \A i \in DOMAIN handled :
              \E j \in DOMAIN handled' : handled'[j] = handled[i]
<1> DEFINE h == Head(incoming).n
<1>0. /\ Drains /\ UNCHANGED <<chan, sent, postponed>> /\ postponed = <<>>
      /\ handled' = Append(handled, h) /\ handled \in Seq(1..MaxMsgs)
      /\ h \in 1..MaxMsgs
  BY DrainQueues DEF Handles, Drains, PhasesApart, Queues, Lists, Message
<1>1. /\ DOMAIN handled' = DOMAIN handled \union {Len(handled) + 1}
      /\ handled'[Len(handled) + 1] = h
      /\ \A i \in DOMAIN handled : /\ handled'[i] = handled[i]
                                   /\ i \in Nat /\ i < Len(handled) + 1
      /\ handled' \in Seq(1..MaxMsgs) /\ Len(handled) \in Nat
  BY <1>0
<1>2. Pending = Pending' \union {h}
  BY <1>0, DrainQueues DEF Pending, Numbers
<1>3. Ahead({h}, Pending')
  BY <1>0, DrainQueues, NumbersOfEmpty DEF Pending, Numbers, Ahead
<1>4. Lists'
  BY <1>0, <1>1, DrainQueues DEF Queues, Lists
<1>5. MessagesKnown'
  BY <1>0, DrainQueues DEF Queues, MessagesKnown, Known, Drains
<1>6. MessagesOrdered'
  BY <1>0, DrainQueues DEF Queues, MessagesOrdered, Ahead, Rising
<1>7. HandledFirst'
  <2>1. \A i \in DOMAIN handled : handled[i] < h
    BY <1>2 DEF Queues, HandledFirst
  <2>2. \A i, j \in DOMAIN handled' : i < j => handled'[i] < handled'[j]
    <3> SUFFICES ASSUME NEW i \in DOMAIN handled', NEW j \in DOMAIN handled', i < j
                 PROVE  handled'[i] < handled'[j]
      OBVIOUS
    <3>1. i \in DOMAIN handled
      BY <1>1
    <3> QED
      BY <1>1, <2>1, <3>1 DEF Queues, HandledFirst
  <2>3. \A i \in DOMAIN handled' : \A n \in Pending' : handled'[i] < n
    BY <1>1, <1>2, <1>3 DEF Queues, HandledFirst, Ahead
  <2>4. \A i \in DOMAIN handled' : handled'[i] \in DOMAIN sent
    BY <1>0, <1>1, DrainQueues DEF Queues, HandledFirst
  <2> QED
    BY <1>0, <2>2, <2>3, <2>4 DEF HandledFirst
<1>8. h \notin Pending'
  <2>1. h \in Int /\ ~(h < h)
    BY <1>0
  <2> QED
    BY <1>3, <2>1 DEF Ahead
<1> QED
  BY <1>1, <1>2, <1>4, <1>5, <1>6, <1>7, <1>8 DEF Queues

LEMMA MoveQueues ==
  ASSUME Queues, Moves
  PROVE  Queues' /\ Pending' = Pending
<1>0. /\ incoming = <<>> /\ incoming' = postponed /\ postponed' = <<>>
      /\ UNCHANGED <<chan, sent, handled>>
  BY DEF Moves
<1>1. Numbers(incoming) = {} /\ Numbers(postponed') = {}
  BY <1>0, NumbersOfEmpty
<1>2. Pending' = Pending
  BY <1>0, <1>1 DEF Pending, Numbers
<1>3. Lists'
  BY <1>0 DEF Queues, Lists
<1>4. MessagesKnown'
  BY <1>0 DEF Queues, MessagesKnown, Known
<1>5. MessagesOrdered'
  BY <1>0, <1>1 DEF Queues, MessagesOrdered, Ahead, Rising
<1>6. HandledFirst'
  BY <1>0, <1>2 DEF Queues, HandledFirst
<1> QED
  BY <1>2, <1>3, <1>4, <1>5, <1>6 DEF Queues

LEMMA StayQueues ==
  ASSUME Queues, Stay
  PROVE  Queues' /\ Pending' = Pending
<1>1. Pending' = Pending
  BY DEF Stay, Pending, Numbers
<1> QED
  BY <1>1 DEF Stay, Queues, Lists, MessagesKnown, MessagesOrdered, HandledFirst,
              Known, Rising, Numbers

----------------------------------------------------------------------------
(* What a step does to the answers: the message that leaves the lists is   *)
(* answered if it is a request.                                            *)

Removes(h) == /\ h.n \in DOMAIN sent /\ sent[h.n] = h
              /\ Pending = Pending' \union {h.n} /\ h.n \notin Pending'
              /\ sent' = sent

AnswersIf(h) == IF IsRequest(h)
                THEN \E a \in Answer \ {"none"} : Answered(h, a)
                ELSE UNCHANGED answer

LEMMA TakeRemoves ==
  ASSUME Queues, PhasesApart, Takes
  PROVE  Head(chan) \in Message /\ Removes(Head(chan))
<1>1. Head(chan).n \in Int
  BY TakeQueues DEF Message
<1>2. Head(chan).n \notin Pending'
  BY <1>1, TakeQueues DEF Ahead
<1> QED
  BY <1>2, TakeQueues DEF Removes, Takes

LEMMA ConsumeRemoves ==
  ASSUME Queues, Consumes
  PROVE  Head(incoming) \in Message /\ Removes(Head(incoming))
BY ConsumeQueues, DrainQueues DEF Removes, Consumes, Drains

LEMMA HandleRemoves ==
  ASSUME Queues, PhasesApart, Handles
  PROVE  Head(incoming) \in Message /\ Removes(Head(incoming))
BY HandleQueues, DrainQueues DEF Removes, Handles, Drains

LEMMA StepAnswers ==
  ASSUME TypeOK, Queues, PhasesApart, [Next]_vars
  PROVE  \/ UNCHANGED <<sent, answer>> /\ Pending' = Pending
         \/ \E m \in Message : Sends(m) /\ UNCHANGED answer
         \/ \E h \in Message : Removes(h) /\ AnswersIf(h)
<1>1. ASSUME NEW k \in Kind, ClientSends(k)
      PROVE  \E m \in Message : Sends(m) /\ UNCHANGED answer
  BY <1>1, ClientSendsOne DEF ClientSends
<1>2. CASE \/ Initialize \/ NotInitialized \/ DropNotification
           \/ ExitUninitialized
  <2>1. Takes
    BY <1>2 DEF Initialize, NotInitialized, DropNotification,
                ExitUninitialized, Take, Takes
  <2>2. AnswersIf(Head(chan))
    BY <1>2 DEF Initialize, NotInitialized, DropNotification,
                ExitUninitialized, Take, AnswersIf, IsRequest, Answer
  <2> QED
    BY <2>1, <2>2, TakeRemoves
<1>3. CASE \/ StartCycle \/ EndRead \/ ParentMissing \/ ParentDies
           \/ WorkerPanics \/ Down \/ UNCHANGED vars
  <2>1. Stay /\ answer' = answer
    BY <1>3 DEF StartCycle, EndRead, ParentMissing, ParentDies, WorkerPanics,
                Down, vars, Stay
  <2> QED
    BY <2>1, StayQueues DEF Stay
<1>4. CASE ReadMsg
  <2>1. Reads /\ answer' = answer
    BY <1>4 DEF ReadMsg, Reads
  <2> QED
    BY <2>1, ReadQueues DEF Reads
<1>5. ASSUME NEW m \in Message, Refuse(m) \/ Shutdown(m) \/ Exit(m)
      PROVE  \E h \in Message : Removes(h) /\ AnswersIf(h)
  <2>1. Consumes
    BY <1>5 DEF Refuse, Shutdown, Exit, Process, IsRequest, Consumes, Drains
  <2>2. AnswersIf(Head(incoming))
    BY <1>5 DEF Refuse, Shutdown, Exit, Process, AnswersIf, IsRequest, Answer
  <2> QED
    BY <2>1, <2>2, ConsumeRemoves
<1>6. ASSUME NEW m \in Message, Postpone(m)
      PROVE  UNCHANGED <<sent, answer>> /\ Pending' = Pending
  <2>1. Postpones /\ answer' = answer
    BY <1>6 DEF Postpone, Process, Postpones, Drains
  <2> QED
    BY <2>1, PostponeQueues DEF Postpones, Drains
<1>7. ASSUME NEW m \in Message, Handle(m)
      PROVE  \E h \in Message : Removes(h) /\ AnswersIf(h)
  <2>1. Handles
    BY <1>7 DEF Handle, Process, Handles, Drains
  <2>2. AnswersIf(Head(incoming))
    BY <1>7 DEF Handle, Process, AnswersIf, Answer
  <2> QED
    BY <2>1, <2>2, HandleRemoves
<1>8. CASE EndCycle
  <2>1. (Stay \/ Moves) /\ answer' = answer
    BY <1>8 DEF EndCycle, EnterMain, Stay, Moves
  <2> QED
    BY <2>1, StayQueues, MoveQueues DEF Stay, Moves
<1> QED
  BY <1>1, <1>2, <1>3, <1>4, <1>5, <1>6, <1>7, <1>8 DEF Next, Serve, ProcessMsg

(* The phase changes on an initialize request, at the end of the boot loop *)
(* and at the end.                                                         *)
LEMMA PhaseMoves ==
  ASSUME [Next]_vars
  PROVE  \/ phase' = phase
         \/ phase # "down" /\ phase' = "down"
         \/ phase = "uninit" /\ phase' \in {"boot", "main"} /\ Initialize
         \/ phase = "boot" /\ phase' = "main"
<1> USE DEF Running, End
<1>1. ASSUME NEW k \in Kind, ClientSends(k) PROVE phase' = phase
  BY <1>1 DEF ClientSends
<1>2. CASE \/ ParentDies \/ WorkerPanics \/ Down \/ UNCHANGED vars \/ ReadMsg
           \/ EndRead
  BY <1>2 DEF ParentDies, WorkerPanics, Down, vars, ReadMsg, EndRead
<1>3. CASE Initialize \/ NotInitialized \/ DropNotification \/ ExitUninitialized
  BY <1>3 DEF Initialize, NotInitialized, DropNotification, ExitUninitialized,
              Take
<1>4. CASE StartCycle \/ ParentMissing
  BY <1>4 DEF StartCycle, ParentMissing
<1>5. ASSUME NEW m \in Message,
             Refuse(m) \/ Shutdown(m) \/ Exit(m) \/ Postpone(m) \/ Handle(m)
      PROVE  phase' = phase
  BY <1>5 DEF Refuse, Shutdown, Exit, Postpone, Handle, Process
<1>6. CASE EndCycle
  BY <1>6 DEF EndCycle, EnterMain, ExitCode
<1> QED
  BY <1>1, <1>2, <1>3, <1>4, <1>5, <1>6 DEF Next, Serve, ProcessMsg

(* The lists stay in order.                                                *)
LEMMA QueuesStep ==
  ASSUME TypeOK, Queues, PhasesApart, [Next]_vars
  PROVE  Queues'
BY StepKinds, StayQueues, SendQueues, TakeQueues, ReadQueues, ConsumeQueues,
   PostponeQueues, HandleQueues, MoveQueues

(* What is answered was sent, was a request, and is not pending.           *)
AnswersTyped ==
  /\ answer \in [1..MaxMsgs -> Answer]
  /\ \A n \in 1..MaxMsgs :
       answer[n] # "none" => n \in DOMAIN sent /\ IsRequest(sent[n])

LEMMA AnswersStep ==
  ASSUME TypeOK, Queues, PhasesApart, [Next]_vars
  PROVE  AnswersTyped'
<1>1. AnswersTyped
  BY DEF TypeOK, AnswersTyped
<1>2. CASE UNCHANGED <<sent, answer>>
  BY <1>1, <1>2 DEF AnswersTyped, IsRequest
<1>3. ASSUME NEW m \in Message, Sends(m), UNCHANGED answer
      PROVE  AnswersTyped'
  <2>1. /\ DOMAIN sent \subseteq DOMAIN sent'
        /\ \A i \in DOMAIN sent : sent'[i] = sent[i]
    BY <1>3, SentGrows DEF Sends, Queues, Lists
  <2> QED
    BY <1>1, <1>3, <2>1 DEF AnswersTyped, IsRequest
<1>4. ASSUME NEW h \in Message, Removes(h), AnswersIf(h)
      PROVE  AnswersTyped'
  <2>1. CASE UNCHANGED answer
    BY <1>1, <1>4, <2>1 DEF AnswersTyped, IsRequest, Removes
  <2>2. ASSUME NEW a \in Answer, Answered(h, a), IsRequest(h)
        PROVE  AnswersTyped'
    BY <1>1, <1>4, <2>2 DEF AnswersTyped, IsRequest, Removes, Answered
  <2> QED
    BY <1>4, <2>1, <2>2 DEF AnswersIf
<1> QED
  BY <1>2, <1>3, <1>4, StepAnswers

LEMMA RequestsStep ==
  ASSUME TypeOK, Queues, PhasesApart, RequestsPending, [Next]_vars
  PROVE  RequestsPending'
<1> SUFFICES ASSUME phase' # "down", NEW i \in DOMAIN sent', IsRequest(sent'[i])
             PROVE  i \in Pending' <=> answer'[i] = "none"
  BY DEF RequestsPending, IsRequest
<1>0. phase # "down"
  BY PhaseMoves
<1>1. CASE UNCHANGED <<sent, answer>> /\ Pending' = Pending
  BY <1>0, <1>1 DEF RequestsPending
<1>2. ASSUME NEW m \in Message, Sends(m), UNCHANGED answer
      PROVE  i \in Pending' <=> answer'[i] = "none"
  <2>1. /\ DOMAIN sent' = DOMAIN sent \union {m.n} /\ m.n \notin DOMAIN sent
        /\ \A j \in DOMAIN sent : sent'[j] = sent[j]
        /\ Pending' = Pending \union {m.n}
        /\ m.n \in 1..MaxMsgs
    BY <1>2, SentGrows, SendQueues DEF Sends, Queues, Lists, Message
  <2>2. CASE i = m.n
    BY <1>2, <2>1, <2>2 DEF TypeOK
  <2>3. CASE i \in DOMAIN sent /\ i # m.n
    BY <1>0, <1>2, <2>1, <2>3 DEF RequestsPending
  <2> QED
    BY <2>1, <2>2, <2>3
<1>3. ASSUME NEW h \in Message, Removes(h), AnswersIf(h)
      PROVE  i \in Pending' <=> answer'[i] = "none"
  <2>1. CASE i = h.n
    <3>1. IsRequest(h) /\ h.n \in 1..MaxMsgs
      BY <1>3, <2>1 DEF Removes, Message
    <3>2. answer'[h.n] # "none"
      BY <1>3, <3>1 DEF AnswersIf, Answered, TypeOK
    <3> QED
      BY <1>3, <2>1, <3>2 DEF Removes
  <2>2. CASE i # h.n
    <3>1. i \in 1..MaxMsgs
      BY <1>3, SentNumbers DEF Removes
    <3>2. answer'[i] = answer[i]
      BY <1>3, <2>2, <3>1 DEF AnswersIf, Answered, TypeOK
    <3> QED
      BY <1>0, <1>3, <2>2, <3>2 DEF RequestsPending, Removes
  <2> QED
    BY <2>1, <2>2
<1> QED
  BY <1>1, <1>2, <1>3, StepAnswers

----------------------------------------------------------------------------
(* The phases and the end.                                                 *)

(* An answered request is not in the lists any more.                       *)
LEMMA RemovedUnanswered ==
  ASSUME RequestsPending, phase # "down", NEW h \in Message, Removes(h),
         IsRequest(h)
  PROVE  answer[h.n] = "none"
BY DEF RequestsPending, Removes

LEMMA PhasesStep ==
  ASSUME TypeOK, PhasesApart, [Next]_vars
  PROVE  PhasesApart'
<1> USE DEF PhasesApart, Running
<1>1. ASSUME NEW k \in Kind, ClientSends(k) PROVE PhasesApart'
  BY <1>1 DEF ClientSends
<1>2. CASE ParentDies \/ WorkerPanics \/ UNCHANGED vars \/ Down
  BY <1>2 DEF ParentDies, WorkerPanics, vars, Down
<1>3. CASE Initialize \/ NotInitialized \/ DropNotification \/ ExitUninitialized
  BY <1>3 DEF Initialize, NotInitialized, DropNotification, ExitUninitialized,
              Take, End
<1>4. CASE StartCycle \/ ReadMsg \/ EndRead \/ ParentMissing
  BY <1>4 DEF StartCycle, ReadMsg, EndRead, ParentMissing, End
<1>5. ASSUME NEW m \in Message,
             Refuse(m) \/ Shutdown(m) \/ Exit(m) \/ Postpone(m) \/ Handle(m)
      PROVE  PhasesApart'
  BY <1>5 DEF Refuse, Shutdown, Exit, Postpone, Handle, Process
<1>6. CASE EndCycle
  BY <1>6 DEF EndCycle, EnterMain, ExitCode, End
<1> QED
  BY <1>1, <1>2, <1>3, <1>4, <1>5, <1>6 DEF Next, Serve, ProcessMsg

(* Once granted, an initialize request stays granted.                      *)
LEMMA InitializedStays ==
  ASSUME TypeOK, Queues, PhasesApart, RequestsPending, phase # "down",
         [Next]_vars,
         NEW i \in DOMAIN sent, Initialized(i)
  PROVE  Initialized(i)'
<1>1. PICK j \in i..Len(sent) : sent[j].kind = "initialize" /\ answer[j] = "result"
  BY DEF Initialized
<1>2. j \in DOMAIN sent /\ j \in 1..MaxMsgs /\ IsRequest(sent[j])
  <2>1. Len(sent) \in Nat /\ DOMAIN sent = 1..Len(sent) /\ i \in Nat \ {0}
    BY DEF Queues, Lists
  <2> QED
    BY <1>1, <2>1, SentNumbers DEF IsRequest
<1>3. sent'[j] = sent[j] /\ j \in i..Len(sent')
  <2>1. CASE sent' = sent
    BY <1>1, <2>1
  <2>2. ASSUME NEW m \in Message, Sends(m)
        PROVE  sent'[j] = sent[j] /\ j \in i..Len(sent')
    <3>1. Len(sent') = Len(sent) + 1 /\ Len(sent) \in Nat /\ sent'[j] = sent[j]
      BY <1>2, <2>2, SentGrows DEF Sends, Queues, Lists
    <3> QED
      BY <1>1, <3>1
  <2> QED
    BY <2>1, <2>2, StepAnswers DEF Removes
<1>4. answer'[j] = answer[j]
  <2>1. ASSUME NEW h \in Message, Removes(h), AnswersIf(h)
        PROVE  answer'[j] = answer[j]
    <3>1. CASE j = h.n
      BY <1>1, <1>2, <2>1, <3>1, RemovedUnanswered DEF Removes
    <3>2. CASE j # h.n
      BY <1>2, <2>1, <3>2 DEF AnswersIf, Answered, TypeOK
    <3> QED
      BY <3>1, <3>2
  <2> QED
    BY <2>1, StepAnswers
<1> QED
  BY <1>1, <1>3, <1>4 DEF Initialized

(* The dropped notifications are those in front of the initialize request. *)
LEMMA NotificationsStep ==
  ASSUME TypeOK, Queues, PhasesApart, RequestsPending, NotificationsKept,
         [Next]_vars
  PROVE  NotificationsKept'
<1>1. ASSUME phase' = "uninit", NEW i \in DOMAIN sent'
      PROVE  i \in Pending' \/ \A n \in Pending' : i < n
  <2>1. phase = "uninit" /\ (Stay \/ Takes \/ \E m \in Message : Sends(m))
    <3>1. phase = "uninit"
      BY <1>1, PhaseMoves
    <3>2. incoming = <<>> /\ postponed = <<>>
      BY <3>1 DEF PhasesApart
    <3>3. ~Reads
      BY <1>1, <3>1, QueuesStep, PhasesStep, ReadQueues, TailMessages, AppendMessage
      DEF PhasesApart, Reads, Queues, Lists
    <3>4. Moves => Stay
      BY <3>2 DEF Moves, Stay
    <3> QED
      BY <3>1, <3>2, <3>3, <3>4, StepKinds DEF Consumes, Postpones, Handles, Drains
  <2>2. CASE Stay
    BY <1>1, <2>1, <2>2, StayQueues DEF NotificationsKept, Stay
  <2>3. CASE Takes
    <3>1. i \in Pending \/ \A n \in Pending : i < n
      BY <1>1, <2>1, <2>3 DEF NotificationsKept, Takes
    <3> QED
      BY <2>3, <3>1, TakeQueues DEF Ahead
  <2>4. ASSUME NEW m \in Message, Sends(m)
        PROVE  i \in Pending' \/ \A n \in Pending' : i < n
    <3>1. /\ DOMAIN sent' = DOMAIN sent \union {m.n} /\ DOMAIN sent \subseteq Nat
          /\ Pending' = Pending \union {m.n}
          /\ \A k \in DOMAIN sent : k < m.n
      BY <2>4, SentGrows, SendQueues DEF Sends, Queues, Lists
    <3> QED
      BY <1>1, <2>1, <3>1 DEF NotificationsKept
  <2> QED
    BY <2>1, <2>2, <2>3, <2>4
<1> DEFINE Kept(i) == i \in Pending \/ (\E j \in DOMAIN handled : handled[j] = i)
                        \/ Initialized(i)
<1>2. ASSUME Running', NEW i \in DOMAIN sent', sent'[i].kind = "notification"
      PROVE  Kept(i)'
  <2>1. CASE Running
    <3>0. phase # "down"
      BY <2>1 DEF Running
    <3>1. ASSUME NEW m \in Message, Sends(m)
          PROVE  Kept(i)'
      <4>1. /\ DOMAIN sent' = DOMAIN sent \union {m.n}
            /\ Pending' = Pending \union {m.n}
            /\ \A k \in DOMAIN sent : sent'[k] = sent[k]
            /\ handled' = handled
        BY <3>1, SentGrows, SendQueues DEF Sends, Queues, Lists
      <4>2. CASE i = m.n
        BY <4>1, <4>2
      <4>3. CASE i \in DOMAIN sent
        BY <1>2, <2>1, <3>0, <4>1, <4>3, InitializedStays DEF NotificationsKept
      <4> QED
        BY <1>2, <4>1, <4>2, <4>3
    <3>2. ASSUME ~\E m \in Message : Sends(m)
          PROVE  Kept(i)'
      <4>1. sent' = sent
        BY <3>2, StepAnswers DEF Removes
      <4>2. i \in DOMAIN sent /\ sent[i].kind = "notification" /\ Kept(i)
        BY <1>2, <2>1, <4>1 DEF NotificationsKept
      <4>3. Initialized(i) => Initialized(i)'
        BY <3>0, <4>2, InitializedStays
      <4>4. CASE Stay \/ Reads \/ Postpones \/ Moves
        BY <4>2, <4>3, <4>4, StayQueues, ReadQueues, PostponeQueues, MoveQueues
        DEF Stay, Reads, Postpones, Moves
      <4>5. CASE Handles
        BY <4>2, <4>3, <4>5, HandleQueues
      <4>6. CASE Consumes
        <5>1. Head(incoming).kind # "notification"
          BY <4>6 DEF Consumes
        <5> QED
          BY <4>2, <4>3, <4>6, <5>1, ConsumeQueues, ConsumeRemoves
          DEF Consumes, Removes
      <4>7. ~Takes
        BY <2>1 DEF Takes, Running
      <4> QED
        BY <3>2, <4>4, <4>5, <4>6, <4>7, StepKinds
    <3> QED
      BY <3>1, <3>2
  <2>2. CASE ~Running
    <3> DEFINE h == Head(chan)
    <3>1. phase = "uninit" /\ Initialize
      BY <1>2, <2>2, PhaseMoves DEF Running, TypeOK
    <3>2. Takes /\ h.kind = "initialize" /\ Answered(h, "result")
      BY <1>2, <3>1 DEF Initialize, Take, Takes, End, Running
    <3>3. /\ h.n \in DOMAIN sent /\ sent[h.n] = h /\ h.n \in 1..MaxMsgs
          /\ Pending = Pending' \union {h.n} /\ sent' = sent
      BY <3>2, TakeQueues DEF Takes, Message
    <3>4. answer'[h.n] = "result"
      BY <3>2, <3>3 DEF Answered, TypeOK
    <3>5. i \in Pending' \/ i <= h.n
      <4>1. i \in Pending \/ \A n \in Pending : i < n
        BY <1>2, <3>1, <3>3 DEF NotificationsKept
      <4>2. i \in Int
        BY <1>2, <3>3, SentNumbers
      <4> HIDE DEF h
      <4> QED
        BY <3>3, <4>1, <4>2
    <3>6. ASSUME i <= h.n PROVE Initialized(i)'
      <4>1. /\ Len(sent) \in Nat /\ DOMAIN sent = 1..Len(sent)
            /\ i \in Nat /\ h.n \in i..Len(sent)
        <5>1. Len(sent) \in Nat /\ DOMAIN sent = 1..Len(sent)
          BY DEF Queues, Lists
        <5> QED
          BY <1>2, <3>3, <3>6, <5>1
      <4> QED
        BY <3>2, <3>3, <3>4, <4>1 DEF Initialized
    <3> QED
      BY <3>5, <3>6
  <2> QED
    BY <2>1, <2>2
<1> QED
  BY <1>1, <1>2 DEF NotificationsKept, Running

LEMMA SentKindStays ==
  ASSUME TypeOK, Queues, PhasesApart, [Next]_vars, NEW k, SentKind(k)
  PROVE  SentKind(k)'
<1>1. CASE sent' = sent
  BY <1>1 DEF SentKind
<1>2. ASSUME NEW m \in Message, Sends(m) PROVE SentKind(k)'
  BY <1>2, SentGrows DEF SentKind, Sends, Queues, Lists
<1> QED
  BY <1>1, <1>2, StepAnswers DEF Removes

(* A message of the lists was sent.                                        *)
LEMMA HeadWasSent ==
  ASSUME Queues
  PROVE  /\ chan # <<>> => SentKind(Head(chan).kind)
         /\ incoming # <<>> => SentKind(Head(incoming).kind)
BY TailMessages DEF Queues, Lists, MessagesKnown, SentKind

(* A shutdown request is granted by the step that takes note of it.        *)
LEMMA GrantedStep ==
  ASSUME TypeOK, Queues, PhasesApart, EndAgreed, [Next]_vars
  PROVE  (Granted' => Granted) \/ (\E m \in Message : Shutdown(m))
<1> SUFFICES ASSUME NEW i \in DOMAIN sent', sent'[i].kind = "shutdown",
                    answer'[i] = "result",
                    ~\E m \in Message : Shutdown(m)
             PROVE  Granted
  BY DEF Granted
<1>1. CASE UNCHANGED <<sent, answer>>
  BY <1>1 DEF Granted
<1>2. ASSUME NEW m \in Message, Sends(m), UNCHANGED answer PROVE Granted
  <2>1. /\ DOMAIN sent' = DOMAIN sent \union {m.n} /\ m.n \notin DOMAIN sent
        /\ m.n \in 1..MaxMsgs
        /\ \A j \in DOMAIN sent : sent'[j] = sent[j]
    BY <1>2, SentGrows DEF Sends, Queues, Lists, Message
  <2>2. answer[m.n] = "none"
    BY <2>1 DEF TypeOK
  <2> QED
    BY <1>2, <2>1, <2>2 DEF Granted
<1>3. CASE \E h \in Message : Removes(h) /\ AnswersIf(h)
  <2>1. PICK h \in Message : Removes(h) /\ AnswersIf(h)
    BY <1>3
  <2>2. i \in DOMAIN sent /\ sent[i] = sent'[i] /\ i \in 1..MaxMsgs
    BY <2>1, SentNumbers DEF Removes
  <2>3. CASE answer'[i] = answer[i]
    BY <2>2, <2>3 DEF Granted
  <2>4. CASE answer'[i] # answer[i]
    <3>1. i = h.n /\ h = sent[i] /\ h.kind = "shutdown"
      BY <2>1, <2>2, <2>4 DEF Removes, AnswersIf, Answered, TypeOK
    <3>2. \A m \in Message : \A a : Answered(m, a) => m.n = i /\ a = "result"
      BY <2>2, <2>4 DEF Answered, TypeOK
    <3>3. answer' # answer
      BY <2>4
    <3>4. ~\E k \in Kind : ClientSends(k)
      BY <2>4 DEF ClientSends
    <3>5. ~(ParentDies \/ WorkerPanics \/ Down \/ UNCHANGED vars \/ StartCycle
             \/ ReadMsg \/ EndRead \/ ParentMissing \/ EndCycle
             \/ DropNotification \/ ExitUninitialized)
      BY <2>4 DEF ParentDies, WorkerPanics, Down, vars, StartCycle, ReadMsg,
                  EndRead, ParentMissing, EndCycle, DropNotification,
                  ExitUninitialized
    <3>6. ~NotInitialized
      <4> SUFFICES ASSUME NotInitialized PROVE FALSE
        OBVIOUS
      <4>1. Takes /\ Answered(Head(chan), "not initialized")
        BY DEF NotInitialized, Take, Takes
      <4>2. Head(chan) \in Message
        BY <4>1, TakeQueues
      <4>3. answer' = [answer EXCEPT ![Head(chan).n] = "not initialized"]
        BY <4>1 DEF Answered
      <4> QED
        BY <2>2, <2>4, <4>3 DEF TypeOK
    <3>7. ~Initialize
      <4> SUFFICES ASSUME Initialize PROVE FALSE
        OBVIOUS
      <4>1. Takes /\ Head(chan).kind = "initialize"
            /\ \E a : Answered(Head(chan), a)
        BY DEF Initialize, Take, Takes
      <4>2. Head(chan).n = i /\ sent[Head(chan).n] = Head(chan)
        BY <3>2, <4>1, TakeQueues
      <4> QED
        BY <3>1, <4>1, <4>2
    <3>8. ASSUME NEW m \in Message,
                 Refuse(m) \/ Exit(m) \/ Postpone(m) \/ Handle(m)
          PROVE  FALSE
      <4>1. ~Answered(m, "invalid request") /\ ~Answered(m, "accepted")
        <5>1. "invalid request" # "result" /\ "accepted" # "result"
          OBVIOUS
        <5> QED
          BY <3>2, <5>1
      <4> QED
        BY <3>3, <3>8, <4>1 DEF Refuse, Exit, Postpone, Handle
    <3> QED
      BY <3>4, <3>5, <3>6, <3>7, <3>8 DEF Next, Serve, ProcessMsg
  <2> QED
    BY <2>3, <2>4
<1> QED
  BY <1>1, <1>2, <1>3, StepAnswers

(* The flags, the answer to the shutdown request and the exit code agree.  *)
LEMMA FlagsStep ==
  ASSUME TypeOK, Queues, [Next]_vars,
         shutdown => SentKind("shutdown"), exit => SentKind("exit")
  PROVE  (shutdown' => SentKind("shutdown")) /\ (exit' => SentKind("exit"))
<1>0. shutdown \in BOOLEAN /\ exit \in BOOLEAN
  BY DEF TypeOK
<1>1. ASSUME NEW k \in Kind, ClientSends(k) PROVE UNCHANGED <<shutdown, exit>>
  BY <1>1 DEF ClientSends
<1>2. CASE \/ ParentDies \/ WorkerPanics \/ Down \/ UNCHANGED vars \/ StartCycle
           \/ ReadMsg \/ EndRead \/ ParentMissing \/ EndCycle
  BY <1>2 DEF ParentDies, WorkerPanics, Down, vars, StartCycle, ReadMsg,
              EndRead, ParentMissing, EndCycle
<1>3. CASE Initialize
  <2>1. exit' = exit /\ (shutdown' = shutdown \/ shutdown' = FALSE)
    BY <1>3 DEF Initialize, Take
  <2> QED
    BY <2>1
<1>4. CASE NotInitialized \/ DropNotification \/ ExitUninitialized
  <2>1. chan # <<>> /\ exit' = exit
    BY <1>4 DEF NotInitialized, DropNotification, ExitUninitialized, Take
  <2>2. shutdown' = (shutdown \/ Head(chan).kind = "shutdown") \/ shutdown' = shutdown
    BY <1>4 DEF NotInitialized, DropNotification, ExitUninitialized
  <2>3. Head(chan).kind = "shutdown" => SentKind("shutdown")
    BY <2>1, HeadWasSent
  <2> QED
    BY <1>0, <2>1, <2>2, <2>3
<1>5. ASSUME NEW m \in Message,
             Refuse(m) \/ Shutdown(m) \/ Exit(m) \/ Postpone(m) \/ Handle(m)
      PROVE  (shutdown' => SentKind("shutdown")) /\ (exit' => SentKind("exit"))
  <2>1. SentKind(m.kind)
    BY <1>5, HeadWasSent DEF Refuse, Shutdown, Exit, Postpone, Handle, Process
  <2>2. /\ shutdown' = shutdown \/ m.kind = "shutdown"
        /\ exit' = exit \/ m.kind = "exit"
    BY <1>5 DEF Refuse, Shutdown, Exit, Postpone, Handle
  <2>3. m.kind = "shutdown" => SentKind("shutdown")
    BY <2>1
  <2>4. m.kind = "exit" => SentKind("exit")
    BY <2>1
  <2> QED
    BY <1>0, <2>2, <2>3, <2>4
<1> QED
  BY <1>1, <1>2, <1>3, <1>4, <1>5 DEF Next, Serve, ProcessMsg

LEMMA EndStep ==
  ASSUME TypeOK, Queues, PhasesApart, EndAgreed, [Next]_vars
  PROVE  EndAgreed'
<1>1. (shutdown' => SentKind("shutdown")') /\ (exit' => SentKind("exit")')
  BY FlagsStep, SentKindStays DEF EndAgreed
<1>2. ASSUME phase' = "uninit" PROVE \A n \in 1..MaxMsgs : answer'[n] # "result"
  <2>1. phase = "uninit"
    BY <1>2, PhaseMoves
  <2>2. \/ answer' = answer
        \/ \E a \in Answer \ {"result"} : Answered(Head(chan), a)
    BY <1>2, <2>1
    DEF Next, Serve, ProcessMsg, ClientSends, ParentDies, WorkerPanics, Down,
        Initialize, NotInitialized, DropNotification, ExitUninitialized,
        StartCycle, ReadMsg, EndRead, ParentMissing, EndCycle, Running, End,
        Refuse, Shutdown, Exit, Postpone, Handle, Process, vars, Answer
  <2> QED
    BY <2>1, <2>2 DEF EndAgreed, Answered, TypeOK
<1>3. Granted' => shutdown'
  <2>1. ASSUME NEW m \in Message, Shutdown(m) PROVE shutdown'
    BY <2>1 DEF Shutdown
  <2>2. ASSUME Granted PROVE shutdown'
    <3>1. shutdown /\ phase # "uninit"
      BY <2>2, SentNumbers DEF EndAgreed, Granted
    <3>2. ~Initialize /\ ~NotInitialized
      BY <3>1 DEF Initialize, NotInitialized, Take
    <3> QED
      BY <3>1, <3>2
      DEF Next, Serve, ProcessMsg, ClientSends, ParentDies, WorkerPanics, Down,
          DropNotification, ExitUninitialized, StartCycle, ReadMsg, EndRead,
          ParentMissing, EndCycle, Refuse, Shutdown, Exit, Postpone, Handle,
          vars
  <2> QED
    BY <2>1, <2>2, GrantedStep
<1> QED
  BY <1>1, <1>2, <1>3 DEF EndAgreed

LEMMA CodeStep ==
  ASSUME TypeOK, Queues, PhasesApart, EndAgreed, ExitCodeRight, [Next]_vars
  PROVE  ExitCodeRight'
<1>1. \/ code' = code
      \/ code' \notin {"OkExit", "ErrExit"}
      \/ /\ code' = IF shutdown THEN "OkExit" ELSE "ErrExit"
         /\ SentKind("exit")
  <2>1. ASSUME NEW k \in Kind, ClientSends(k) PROVE code' = code
    BY <2>1 DEF ClientSends
  <2>2. CASE \/ ParentDies \/ WorkerPanics \/ Down \/ UNCHANGED vars
             \/ ReadMsg \/ EndRead \/ NotInitialized \/ DropNotification
    BY <2>2 DEF ParentDies, WorkerPanics, Down, vars, ReadMsg, EndRead,
                NotInitialized, DropNotification
  <2>3. CASE Initialize \/ StartCycle \/ ParentMissing
    BY <2>3 DEF Initialize, StartCycle, ParentMissing, End
  <2>4. CASE ExitUninitialized
    BY <2>4, HeadWasSent DEF ExitUninitialized, Take, End
  <2>5. CASE EndCycle
    BY <2>5 DEF EndCycle, ExitCode, End, EndAgreed
  <2>6. ASSUME NEW m \in Message,
               Refuse(m) \/ Shutdown(m) \/ Exit(m) \/ Postpone(m) \/ Handle(m)
        PROVE  code' = code
    BY <2>6 DEF Refuse, Shutdown, Exit, Postpone, Handle, Process
  <2> QED
    BY <2>1, <2>2, <2>3, <2>4, <2>5, <2>6 DEF Next, Serve, ProcessMsg
<1>2. CASE code' \notin {"OkExit", "ErrExit"}
  BY <1>2 DEF ExitCodeRight
<1>3. CASE code' \in {"OkExit", "ErrExit"} /\ code' # code
  <2>1. /\ code' = IF shutdown THEN "OkExit" ELSE "ErrExit"
        /\ SentKind("exit")
    BY <1>1, <1>3
  <2>2. SentKind("exit")' /\ (SentKind("shutdown") => SentKind("shutdown")')
    BY <2>1, SentKindStays
  <2>3. ~\E m \in Message : Shutdown(m)
    BY <1>3 DEF Shutdown, Process
  <2>4. code' = "OkExit" => shutdown
    BY <2>1
  <2>5. code' = "ErrExit" => ~shutdown
    BY <2>1
  <2> QED
    BY <2>2, <2>3, <2>4, <2>5, GrantedStep DEF ExitCodeRight, EndAgreed
<1>4. CASE code' = code /\ code \in {"OkExit", "ErrExit"}
  <2>1. ~\E m \in Message : Shutdown(m)
    BY <1>4 DEF Shutdown, Process, Running, TypeOK
  <2> QED
    BY <1>4, <2>1, GrantedStep, SentKindStays DEF ExitCodeRight
<1> QED
  BY <1>2, <1>3, <1>4

----------------------------------------------------------------------------
(* The invariant.                                                          *)

LEMMA ScalarsStep ==
  ASSUME TypeOK, [Next]_vars
  PROVE  /\ phase' \in {"uninit", "boot", "main", "down"}
         /\ pc' \in {"idle", "start", "read", "process"}
         /\ {shutdown', exit', workers', parent'} \subseteq BOOLEAN
         /\ code' \in Code /\ (code' = "none" <=> phase' # "down")
<1> USE DEF TypeOK, Code, End
<1>1. ASSUME NEW k \in Kind, ClientSends(k)
      PROVE  UNCHANGED <<phase, pc, shutdown, exit, workers, parent, code>>
  BY <1>1 DEF ClientSends, envVars
<1>2. CASE \/ ParentDies \/ WorkerPanics \/ Down \/ UNCHANGED vars
           \/ ReadMsg \/ EndRead
  BY <1>2 DEF ParentDies, WorkerPanics, Down, vars, ReadMsg, EndRead, envVars
<1>3. CASE Initialize
  BY <1>3 DEF Initialize, Take, envVars
<1>4. CASE NotInitialized \/ DropNotification \/ ExitUninitialized
  BY <1>4 DEF NotInitialized, DropNotification, ExitUninitialized, Take, envVars
<1>5. CASE StartCycle \/ ParentMissing
  BY <1>5 DEF StartCycle, ParentMissing, Running, envVars
<1>6. CASE EndCycle
  BY <1>6 DEF EndCycle, ExitCode, EnterMain, Running, envVars
<1>7. ASSUME NEW m \in Message,
             Refuse(m) \/ Shutdown(m) \/ Exit(m) \/ Postpone(m) \/ Handle(m)
      PROVE  /\ UNCHANGED <<phase, pc, workers, parent, code>>
             /\ shutdown' \in BOOLEAN /\ exit' \in BOOLEAN
  BY <1>7 DEF Refuse, Shutdown, Exit, Postpone, Handle, Process, envVars
<1> QED
  BY <1>1, <1>2, <1>3, <1>4, <1>5, <1>6, <1>7 DEF Next, Serve, ProcessMsg

LEMMA InvParts ==
  LifeInv <=> /\ TypeOK /\ Queues /\ PhasesApart /\ RequestsPending
              /\ NotificationsKept /\ EndAgreed /\ ExitCodeRight
BY DEF LifeInv, TypeOK, Queues, Lists

LEMMA InitInv == Init => LifeInv
<1> SUFFICES ASSUME Init PROVE LifeInv
  OBVIOUS
<1>1. /\ chan = <<>> /\ incoming = <<>> /\ postponed = <<>> /\ sent = <<>>
      /\ handled = <<>> /\ DOMAIN sent = {}
  BY DEF Init
<1>2. Numbers(<<>>) = {} /\ Pending = {}
  BY <1>1, NumbersOfEmpty DEF Pending
<1>3. TypeOK
  <2>1. answer \in [1..MaxMsgs -> Answer] /\ \A n \in 1..MaxMsgs : answer[n] = "none"
    BY DEF Init, Answer
  <2>2. {shutdown, exit, workers, parent} \subseteq BOOLEAN
    BY DEF Init
  <2> QED
    BY <1>1, <2>1, <2>2 DEF Init, TypeOK, Code
<1>4. MessagesKnown /\ MessagesOrdered /\ HandledFirst
  BY <1>1, <1>2
  DEF MessagesKnown, MessagesOrdered, HandledFirst, Known, Rising, Ahead
<1>5. PhasesApart /\ RequestsPending /\ NotificationsKept
  BY <1>1, <1>2
  DEF Init, PhasesApart, RequestsPending, NotificationsKept, Running
<1>6. EndAgreed /\ ExitCodeRight
  BY <1>1 DEF Init, EndAgreed, ExitCodeRight, Granted
<1> QED
  BY <1>3, <1>4, <1>5, <1>6 DEF LifeInv

LEMMA StepInv == LifeInv /\ [Next]_vars => LifeInv'
<1> SUFFICES ASSUME LifeInv, [Next]_vars PROVE LifeInv'
  OBVIOUS
<1>1. /\ TypeOK /\ Queues /\ PhasesApart /\ RequestsPending
      /\ NotificationsKept /\ EndAgreed /\ ExitCodeRight
  BY InvParts
<1>2. Queues' /\ AnswersTyped'
  BY <1>1, QueuesStep, AnswersStep
<1>3. TypeOK'
  BY <1>1, <1>2, ScalarsStep DEF TypeOK, Queues, Lists, AnswersTyped
<1>4. PhasesApart' /\ RequestsPending' /\ NotificationsKept'
  BY <1>1, PhasesStep, RequestsStep, NotificationsStep
<1>5. EndAgreed' /\ ExitCodeRight'
  BY <1>1, EndStep, CodeStep
<1> QED
  BY <1>2, <1>3, <1>4, <1>5 DEF LifeInv, Queues

LEMMA InvAlways == Spec => []LifeInv
BY InitInv, StepInv, PTL DEF Spec

LEMMA WorkFromInv == LifeInv => WorkAccounted
<1> SUFFICES ASSUME LifeInv, Running, NEW i \in DOMAIN sent
             PROVE  /\ sent[i].kind = "request"
                         => (i \in Pending <=> answer[i] = "none")
                    /\ sent[i].kind = "notification"
                         => i \in Pending \/ (\E j \in DOMAIN handled : handled[j] = i)
                              \/ Initialized(i)
                    /\ (\E j \in DOMAIN handled : handled[j] = i) => i \notin Pending
  BY DEF WorkAccounted, Initialized
<1>1. Queues /\ RequestsPending /\ NotificationsKept
  BY InvParts
<1>2. i \in Int
  BY <1>1, SentNumbers
<1> QED
  BY <1>1, <1>2
  DEF Queues, HandledFirst, RequestsPending, NotificationsKept, Running, IsRequest

(* The main loop carries out edits and requests in the order the client    *)
(* sent them, those that the boot loop kept included, and accounts for     *)
(* each: it is in one of the lists, carried out, answered, or was a        *)
(* notification in front of the initialize request.                        *)
THEOREM HandledStaysInOrder == Spec => []HandledInOrder
<1>1. LifeInv => HandledInOrder
  BY WorkFromInv DEF LifeInv, HandledFirst, HandledInOrder
<1> QED
  BY <1>1, InvAlways, PTL

(* The exit code: success only after a shutdown request, and never an      *)
(* error for a client whose shutdown request was granted.                  *)
THEOREM ExitCodeStaysRight == Spec => []ExitCodeRight
<1>1. LifeInv => ExitCodeRight
  BY DEF LifeInv
<1> QED
  BY <1>1, InvAlways, PTL

=============================================================================
