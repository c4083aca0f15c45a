------------------------- MODULE JobEventHubProofs -------------------------
(***************************************************************************)
(* Theorems about JobEventHub, for every number of sessions and of events. *)
(***************************************************************************)
EXTENDS JobEventHub, SequenceTheorems, TLAPS

\* The sentinel is no event.
LEMMA SentinelIsNoEvent == None \notin Event /\ None \in Entry
BY DEF None, Entry, Event, ScriptTypes

LEMMA EventsAreEntries ==
  /\ \A e \in Event : e \in Entry
  /\ \A h \in Seq(Event) : h \in Seq(Entry)
BY DEF Entry

LEMMA PublishType ==
  ASSUME NEW event \in Event, log \in HubLog, ~log.closed
  PROVE  /\ Publish(log, event) \in HubLog
         /\ Publish(log, event).history = Append(log.history, event)
BY DEF Publish, HubLog, TerminalTypes

(* Facts about sequences that the steps of a session use.                  *)

\* Moving the head of the second of two sequences.
LEMMA MoveHeadOfTwo ==
  ASSUME NEW a \in Seq(Entry), NEW b \in Seq(Entry), b # << >>
  PROVE  Append(a, Head(b)) \o Tail(b) = a \o b
OBVIOUS

\* Moving the head of the replay, or of the queue, to what was sent.
LEMMA MoveHead ==
  ASSUME NEW a \in Seq(Entry), NEW b \in Seq(Entry), NEW c \in Seq(Entry),
         b # << >>
  PROVE  Append(a, Head(b)) \o Tail(b) \o c = a \o b \o c
<1>1. Append(a, Head(b)) \o Tail(b) = a \o b
  BY MoveHeadOfTwo
<1> QED
  BY <1>1

\* Adding behind the last of three sequences.
LEMMA AppendLast ==
  ASSUME NEW a \in Seq(Entry), NEW b \in Seq(Entry), NEW c \in Seq(Entry),
         NEW e \in Entry
  PROVE  a \o b \o Append(c, e) = Append(a \o b \o c, e)
<1>1. a \o b \in Seq(Entry)
  OBVIOUS
<1>2. \A d \in Seq(Entry) : d \o Append(c, e) = Append(d \o c, e)
  OBVIOUS
<1> QED
  BY <1>1, <1>2

\* What publish puts in a queue is a sequence of entries.
LEMMA AppendType ==
  ASSUME NEW q \in Seq(Entry), NEW e \in Entry
  PROVE  Append(q, e) \in Seq(Entry)
OBVIOUS

\* A sentinel behind a sequence of events is its only one.
LEMMA SentinelLast ==
  ASSUME NEW h \in Seq(Event), NEW a \in Seq(Event),
         NEW q \in Seq(Entry), q # << >>, Head(q) = None,
         a \o q = h \/ a \o q = Append(h, None)
  PROVE  a \o q = Append(h, None) /\ a = h
<1>1. None \notin Event
  BY SentinelIsNoEvent
<1>2. (a \o q)[Len(a) + 1] = None /\ Len(a \o q) >= Len(a) + 1
  OBVIOUS
<1>3. a \o q = Append(h, None)
  BY <1>1, <1>2
<1>4. Len(a) = Len(h)
  BY <1>1, <1>2, <1>3
<1>5. \A i \in 1 .. Len(a) : a[i] = h[i]
  <2> TAKE i \in 1 .. Len(a)
  <2>1. (a \o q)[i] = a[i]
    OBVIOUS
  <2>2. Append(h, None)[i] = h[i]
    BY <1>4
  <2> QED
    BY <2>1, <2>2, <1>3
<1> QED
  BY <1>3, <1>4, <1>5

-----------------------------------------------------------------------------
LEMMA HubInit == Init => HubInv
<1> SUFFICES ASSUME Init
             PROVE  HubInv
  OBVIOUS
<1>1. EmptyLog \in HubLog
  BY DEF EmptyLog, HubLog, Event
<1>2. TypeOK
  BY <1>1 DEF Init, TypeOK
<1>3. SessionStages /\ NothingLost /\ ClosedIsComplete /\ SubscribersFollow
  BY DEF Init, SessionStages, NothingLost, ClosedIsComplete, SubscribersFollow,
         Following
<1> QED
  BY <1>2, <1>3 DEF HubInv

\* The invariant, session by session.
SessionOK(s) ==
  /\ spc[s] \in {"idle", "accept"} => queue[s] = << >> /\ sent[s] = << >>
  /\ spc[s] = "forward" => live[s] /\ replay[s] = << >>
  /\ Following(s) /\ ~live[s] => log.closed /\ queue[s] = << >>
  /\ Following(s) =>
       sent[s] \o replay[s] \o queue[s] =
         IF live[s] /\ log.closed THEN Append(log.history, None) ELSE log.history
  /\ spc[s] = "closed" => log.closed /\ sent[s] = log.history
  /\ s \in subscribers <=> Following(s) /\ live[s]

LEMMA PerSession == TypeOK => (HubInv <=> \A s \in Sessions : SessionOK(s))
BY DEF TypeOK, HubInv, SessionOK, SessionStages, NothingLost, ClosedIsComplete,
       SubscribersFollow

LEMMA SessionTypes ==
  ASSUME TypeOK, NEW s \in Sessions
  PROVE  /\ sent[s] \in Seq(Event) /\ sent[s] \in Seq(Entry)
         /\ replay[s] \in Seq(Event) /\ replay[s] \in Seq(Entry)
         /\ queue[s] \in Seq(Entry)
         /\ log.history \in Seq(Event) /\ log.history \in Seq(Entry)
         /\ log.closed \in BOOLEAN
BY EventsAreEntries DEF TypeOK, HubLog

\* A publication reaches the history and every queue of the hub.
LEMMA PublishStep ==
  ASSUME HubInv, NEW event \in Event, PublishEvent(event)
  PROVE  HubInv'
<1>0. /\ log \in HubLog /\ ~log.closed
      /\ log' \in HubLog /\ log'.history = Append(log.history, event)
      /\ UNCHANGED <<subscribers, found, sessionVars, online>>
  BY PublishType DEF PublishEvent, HubInv, TypeOK
<1>1. \A s \in Sessions :
        queue'[s] = IF s \notin subscribers THEN queue[s]
                    ELSE IF log'.closed THEN Append(Append(queue[s], event), None)
                    ELSE Append(queue[s], event)
  BY DEF PublishEvent
<1>2. event \in Entry /\ None \in Entry
  BY EventsAreEntries, SentinelIsNoEvent
<1>3. TypeOK'
  <2>1. \A s \in Sessions : queue[s] \in Seq(Entry)
    BY DEF HubInv, TypeOK
  <2>2. \A s \in Sessions : queue'[s] \in Seq(Entry)
    <3> TAKE s \in Sessions
    <3>1. Append(queue[s], event) \in Seq(Entry)
      BY <1>2, <2>1, AppendType
    <3>2. Append(Append(queue[s], event), None) \in Seq(Entry)
      BY <1>2, <3>1, AppendType
    <3> QED
      BY <1>1, <2>1, <3>1, <3>2
  <2>3. queue' \in [Sessions -> Seq(Entry)]
    BY <2>2 DEF PublishEvent
  <2> QED
    BY <1>0, <2>3 DEF HubInv, TypeOK, sessionVars
<1>4. ASSUME NEW s \in Sessions
      PROVE  SessionOK(s)'
  <2>0. SessionOK(s)
    BY PerSession DEF HubInv
  <2>1. CASE ~Following(s)
    BY <1>0, <1>1, <2>0, <2>1 DEF SessionOK, Following, sessionVars
  <2>2. CASE Following(s)
    <3>1. /\ live[s] /\ s \in subscribers
          /\ sent[s] \o replay[s] \o queue[s] = log.history
      BY <1>0, <2>0, <2>2 DEF SessionOK
    <3>2. /\ sent[s] \in Seq(Entry) /\ replay[s] \in Seq(Entry)
          /\ queue[s] \in Seq(Entry)
      BY SessionTypes DEF HubInv
    <3>3. sent[s] \o replay[s] \o Append(queue[s], event) = log'.history
      <4>1. sent[s] \o replay[s] \o Append(queue[s], event) =
              Append(sent[s] \o replay[s] \o queue[s], event)
        <5>1. event \in Entry
          BY <1>2
        <5> QED
          BY ZenonT(30), <3>2, <5>1, AppendLast
      <4> QED
        BY <1>0, <3>1, <4>1
    <3>4. Append(queue[s], event) \in Seq(Entry)
      BY <1>2, <3>2
    <3>5. sent[s] \o replay[s] \o Append(Append(queue[s], event), None)
            = Append(log'.history, None)
      <4>1. sent[s] \o replay[s] \o Append(Append(queue[s], event), None) =
              Append(sent[s] \o replay[s] \o Append(queue[s], event), None)
        <5> DEFINE extended == Append(queue[s], event)
        <5>1. extended \in Seq(Entry)
          BY <3>4
        <5> HIDE DEF extended
        <5>2. sent[s] \o replay[s] \o Append(extended, None)
                = Append(sent[s] \o replay[s] \o extended, None)
          <6>1. sent[s] \in Seq(Entry) /\ replay[s] \in Seq(Entry) /\ None \in Entry
            BY <1>2, <3>2
          <6> QED
            BY ZenonT(30), <5>1, <6>1, AppendLast
        <5> QED
          BY <5>2 DEF extended
      <4> QED
        BY <3>3, <4>1
    <3>6. sent[s] \o replay[s] \o queue'[s] =
            IF log'.closed THEN Append(log'.history, None) ELSE log'.history
      BY <1>1, <3>1, <3>3, <3>5
    <3> QED
      BY <1>0, <2>0, <2>2, <3>1, <3>6 DEF SessionOK, Following, sessionVars
  <2> QED
    BY <2>1, <2>2
<1> QED
  BY <1>3, <1>4 DEF HubInv, SessionOK, SessionStages, NothingLost,
     ClosedIsComplete, SubscribersFollow, TypeOK

LEMMA PublisherEvents ==
  ASSUME HubInv, PublishProgress \/ PublishVerdict
  PROVE  \E event \in Event : PublishEvent(event)
<1>1. log.history \in Seq(Event)
  BY DEF HubInv, TypeOK, HubLog
<1>2. Ev("start", 0) \in Event /\ Ev("batch", Len(log.history)) \in Event
  BY <1>1 DEF Ev, Event, ScriptTypes
<1>3. \A type \in TerminalTypes : Ev(type, 0) \in Event
  BY DEF Ev, Event, ScriptTypes, TerminalTypes
<1> QED
  BY <1>2, <1>3 DEF PublishProgress, PublishVerdict

\* The history found at the subscription and the queue that starts there
\* make up the log.
LEMMA SubscribeStep ==
  ASSUME HubInv, NEW s \in Sessions, Subscribe(s)
  PROVE  HubInv'
<1>0. /\ spc[s] = "accept" /\ queue[s] = << >> /\ sent[s] = << >>
      /\ log.history \in Seq(Event) /\ log.closed \in BOOLEAN
  BY DEF Subscribe, HubInv, SessionStages, TypeOK, HubLog
<1>1. TypeOK'
  BY <1>0 DEF Subscribe, HubInv, TypeOK
<1>2. SessionStages'
  BY <1>0 DEF Subscribe, HubInv, TypeOK, SessionStages, Following
<1>3. NothingLost'
  <2>1. sent[s] \o log.history \o queue[s] = log.history
    BY <1>0
  <2>2. live'[s] /\ log'.closed <=> FALSE
    BY <1>0 DEF Subscribe, HubInv, TypeOK
  <2> QED
    BY <2>1, <2>2 DEF Subscribe, HubInv, TypeOK, NothingLost, Following
<1>4. ClosedIsComplete'
  BY <1>0 DEF Subscribe, HubInv, TypeOK, ClosedIsComplete
<1>5. SubscribersFollow'
  BY <1>0 DEF Subscribe, HubInv, TypeOK, SubscribersFollow, Following
<1> QED
  BY <1>1, <1>2, <1>3, <1>4, <1>5 DEF HubInv

\* A step of one session leaves the others as they are.
LEMMA OneSession ==
  ASSUME HubInv, TypeOK', NEW s \in Sessions, SessionOK(s)', UNCHANGED <<log, live>>,
         \A r \in Sessions : r # s =>
           /\ spc'[r] = spc[r] /\ queue'[r] = queue[r]
           /\ replay'[r] = replay[r] /\ sent'[r] = sent[r]
           /\ r \in subscribers' <=> r \in subscribers
  PROVE  HubInv'
<1>1. ASSUME NEW r \in Sessions, r # s
      PROVE  SessionOK(r)'
  <2>1. SessionOK(r)
    BY PerSession DEF HubInv
  <2> QED
    BY <1>1, <2>1 DEF SessionOK, Following
<1>2. \A r \in Sessions : SessionOK(r)'
  BY <1>1
<1> QED
  BY <1>2 DEF HubInv, SessionOK, SessionStages, NothingLost, ClosedIsComplete,
     SubscribersFollow, TypeOK

\* A session moves the head of what it has to send to what it has sent, or
\* ends without a word.
LEMMA SendStep ==
  ASSUME HubInv, NEW s \in Sessions, SendReplay(s) \/ EndReplay(s) \/ Forward(s)
  PROVE  HubInv'
<1>0. /\ SessionOK(s) /\ Following(s)
      /\ sent[s] \in Seq(Event) /\ replay[s] \in Seq(Event)
      /\ sent[s] \in Seq(Entry) /\ replay[s] \in Seq(Entry)
      /\ queue[s] \in Seq(Entry) /\ log.history \in Seq(Event)
  BY SessionTypes, PerSession
  DEF SendReplay, EndReplay, Forward, Following, HubInv
<1>1. /\ UNCHANGED <<log, found, known, live, online>>
      /\ \A r \in Sessions : r # s =>
           /\ spc'[r] = spc[r] /\ queue'[r] = queue[r]
           /\ replay'[r] = replay[r] /\ sent'[r] = sent[r]
           /\ r \in subscribers' <=> r \in subscribers
  BY DEF SendReplay, EndReplay, Forward, Send, End, HubInv, TypeOK
<1>2. CASE SendReplay(s)
  <2>0. /\ spc[s] = "replay" /\ replay[s] # << >>
        /\ replay' = [replay EXCEPT ![s] = Tail(@)] /\ UNCHANGED queue
        /\ Head(replay[s]) \in Event /\ Tail(replay[s]) \in Seq(Event)
    BY <1>0, <1>2 DEF SendReplay
  <2>1. CASE /\ sent' = [sent EXCEPT ![s] = Append(@, Head(replay[s]))]
             /\ UNCHANGED <<subscribers, spc>>
    <3>1. TypeOK'
      BY <1>0, <1>1, <2>0, <2>1 DEF HubInv, TypeOK
    <3>2. sent'[s] \o replay'[s] \o queue'[s] = sent[s] \o replay[s] \o queue[s]
      BY <1>0, <2>0, <2>1, MoveHead DEF HubInv, TypeOK
    <3>3. SessionOK(s)'
      BY <1>0, <1>1, <2>0, <2>1, <3>2 DEF SessionOK, Following
    <3> QED
      BY <1>1, <3>1, <3>3, OneSession
  <2>2. CASE End(s, "lost") /\ UNCHANGED sent
    <3>1. TypeOK'
      BY <1>0, <1>1, <2>0, <2>2 DEF End, HubInv, TypeOK
    <3>2. SessionOK(s)'
      BY <2>2 DEF End, SessionOK, Following, HubInv, TypeOK
    <3> QED
      BY <1>1, <3>1, <3>2, OneSession
  <2> QED
    BY <1>2, <2>1, <2>2 DEF SendReplay, Send
<1>3. CASE EndReplay(s)
  <2>0. /\ spc[s] = "replay" /\ replay[s] = << >>
        /\ UNCHANGED <<queue, replay, sent>>
    BY <1>3 DEF EndReplay
  <2>1. CASE live[s] /\ spc' = [spc EXCEPT ![s] = "forward"] /\ UNCHANGED subscribers
    <3>1. TypeOK'
      BY <1>1, <2>0, <2>1 DEF HubInv, TypeOK
    <3>2. SessionOK(s)'
      BY <1>0, <1>1, <2>0, <2>1 DEF SessionOK, Following, HubInv, TypeOK
    <3> QED
      BY <1>1, <3>1, <3>2, OneSession
  <2>2. CASE ~live[s] /\ End(s, "closed")
    <3>1. TypeOK'
      BY <1>1, <2>0, <2>2 DEF End, HubInv, TypeOK
    <3>2. log.closed /\ queue[s] = << >>
      BY <1>0, <2>2 DEF SessionOK
    <3>3. sent[s] \o << >> \o << >> = sent[s]
      BY <1>0
    <3>4. sent[s] = log.history
      BY <1>0, <2>0, <2>2, <3>2, <3>3 DEF SessionOK
    <3>5. SessionOK(s)'
      BY <1>1, <2>0, <2>2, <3>2, <3>4 DEF End, SessionOK, Following, HubInv, TypeOK
    <3> QED
      BY <1>1, <3>1, <3>5, OneSession
  <2> QED
    BY <1>3, <2>1, <2>2 DEF EndReplay
<1>4. CASE Forward(s)
  <2>0. /\ spc[s] = "forward" /\ live[s] /\ replay[s] = << >> /\ queue[s] # << >>
        /\ queue' = [queue EXCEPT ![s] = Tail(@)] /\ UNCHANGED replay
        /\ Head(queue[s]) \in Entry /\ Tail(queue[s]) \in Seq(Entry)
    BY <1>0, <1>4 DEF Forward, SessionOK
  <2>1. sent[s] \o queue[s] =
          IF log.closed THEN Append(log.history, None) ELSE log.history
    <3>1. sent[s] \o << >> = sent[s]
      BY <1>0
    <3> QED
      BY <1>0, <2>0, <3>1 DEF SessionOK
  <2>2. CASE Head(queue[s]) = None /\ End(s, "closed") /\ UNCHANGED sent
    <3>1. TypeOK'
      BY <1>1, <2>0, <2>2 DEF End, HubInv, TypeOK
    <3>2. sent[s] \o queue[s] = Append(log.history, None) /\ sent[s] = log.history
      BY <1>0, <2>0, <2>1, <2>2, SentinelLast
    <3>3. log.closed
      <4>1. Append(log.history, None) # log.history
        BY <1>0
      <4> QED
        BY <2>1, <3>2, <4>1
    <3>4. SessionOK(s)'
      BY <1>1, <2>2, <3>2, <3>3 DEF End, SessionOK, Following, HubInv, TypeOK
    <3> QED
      BY <1>1, <3>1, <3>4, OneSession
  <2>3. CASE /\ Head(queue[s]) # None
             /\ sent' = [sent EXCEPT ![s] = Append(@, Head(queue[s]))]
             /\ UNCHANGED <<subscribers, spc>>
    <3>0. Head(queue[s]) \in Event
      BY <2>0, <2>3 DEF Entry
    <3>1. TypeOK'
      BY <1>0, <1>1, <2>0, <2>3, <3>0 DEF HubInv, TypeOK
    <3>2. Append(sent[s], Head(queue[s])) \o Tail(queue[s]) = sent[s] \o queue[s]
      BY <1>0, <2>0, MoveHeadOfTwo
    <3>3. /\ sent'[s] = Append(sent[s], Head(queue[s])) /\ replay'[s] = << >>
          /\ queue'[s] = Tail(queue[s])
      BY <2>0, <2>3 DEF HubInv, TypeOK
    <3>4. sent'[s] \o << >> = sent'[s]
      BY <1>0, <3>0, <3>3
    <3>5. SessionOK(s)'
      BY <1>0, <1>1, <2>0, <2>1, <2>3, <3>2, <3>3, <3>4 DEF SessionOK, Following
    <3> QED
      BY <1>1, <3>1, <3>5, OneSession
  <2>4. CASE End(s, "lost") /\ UNCHANGED sent
    <3>1. TypeOK'
      BY <1>1, <2>0, <2>4 DEF End, HubInv, TypeOK
    <3>2. SessionOK(s)'
      BY <2>4 DEF End, SessionOK, Following, HubInv, TypeOK
    <3> QED
      BY <1>1, <3>1, <3>2, OneSession
  <2> QED
    BY <1>4, <2>2, <2>3, <2>4 DEF Forward, Send
<1> QED
  BY <1>2, <1>3, <1>4

\* The steps that send nothing: a lookup, a refusal, a client that leaves.
LEMMA QuietStep ==
  ASSUME HubInv,
         \/ Replaced
         \/ \E s \in Sessions : Open(s) \/ Refuse(s) \/ Leave(s)
         \/ UNCHANGED vars
  PROVE  HubInv'
<1>0. /\ UNCHANGED <<log, subscribers, queue, live, replay, sent>>
      /\ \A r \in Sessions : \/ spc'[r] = spc[r]
                             \/ spc[r] = "idle" /\ spc'[r] = "accept"
                             \/ spc[r] = "accept" /\ spc'[r] = "refused"
  BY DEF Replaced, Open, Refuse, Leave, vars, hubVars, sessionVars, HubInv, TypeOK
<1>1. TypeOK'
  <2>0. TypeOK
    BY DEF HubInv
  <2>1. CASE Replaced \/ UNCHANGED vars
    BY <2>0, <2>1 DEF Replaced, vars, hubVars, sessionVars, TypeOK
  <2>2. ASSUME NEW s \in Sessions, Open(s)
        PROVE  TypeOK'
    BY <2>0, <2>2 DEF Open, hubVars, TypeOK
  <2>3. ASSUME NEW s \in Sessions, Refuse(s)
        PROVE  TypeOK'
    BY <2>0, <2>3 DEF Refuse, hubVars, TypeOK
  <2>4. ASSUME NEW s \in Sessions, Leave(s)
        PROVE  TypeOK'
    BY <2>0, <2>4 DEF Leave, hubVars, sessionVars, TypeOK
  <2> QED
    BY <2>1, <2>2, <2>3, <2>4
<1>2. ASSUME NEW r \in Sessions
      PROVE  SessionOK(r)'
  <2>1. SessionOK(r)
    BY PerSession DEF HubInv
  <2> QED
    BY <1>0, <2>1 DEF SessionOK, Following
<1> QED
  BY <1>1, <1>2 DEF HubInv, SessionOK, SessionStages, NothingLost,
     ClosedIsComplete, SubscribersFollow, TypeOK

\* HubInv is inductive.
THEOREM HubHolds == Spec => []HubInv
<1>1. HubInv /\ [Next]_vars => HubInv'
  BY PublisherEvents, PublishStep, SubscribeStep, SendStep, QuietStep
  DEF Next, Handler
<1> QED
  BY <1>1, HubInit, PTL DEF Spec

\* Replay and queue together deliver the log without loss or repetition.
THEOREM SessionsMissNothing == Spec => []NothingLost
<1>1. HubInv => NothingLost
  BY DEF HubInv
<1> QED
  BY <1>1, HubHolds, PTL

\* A session closed by the server has delivered the whole log.
THEOREM ClosedSessionsAreComplete == Spec => []ClosedIsComplete
<1>1. HubInv => ClosedIsComplete
  BY DEF HubInv
<1> QED
  BY <1>1, HubHolds, PTL

\* The hub keeps no queue of a handler that has ended.
THEOREM NoStaleSubscribers == Spec => []SubscribersFollow
<1>1. HubInv => SubscribersFollow
  BY DEF HubInv
<1> QED
  BY <1>1, HubHolds, PTL
=============================================================================
