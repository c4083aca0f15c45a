----------------------- MODULE SimulationClientProofs -----------------------
(***************************************************************************)
(* Theorems about SimulationClient with a patient user, for every number   *)
(* of jobs and polls, every failure of the network and other pages.        *)
(***************************************************************************)
EXTENDS SimulationClient, FiniteSetTheorems, TLAPS

(* Bags: what a request that is sent, answered or lost does to them.       *)

LEMMA BagGrows ==
  ASSUME NEW S, NEW B, IsABag(B), BagToSet(B) \subseteq S, NEW x \in S
  PROVE  /\ IsABag(BagAdd(B, x)) /\ BagToSet(BagAdd(B, x)) = BagToSet(B) \cup {x}
         /\ BagToSet(BagAdd(B, x)) \subseteq S
         /\ B = EmptyBag => BagAdd(B, x)[x] = 1
BY DEF IsABag, BagToSet, BagAdd, EmptyBag, SetToBag

LEMMA BagShrinks ==
  ASSUME NEW B, IsABag(B), NEW x
  PROVE  /\ IsABag(BagRemove(B, x))
         /\ BagToSet(BagRemove(B, x)) \subseteq BagToSet(B)
         /\ x \in BagToSet(B) /\ B[x] = 1 =>
              BagToSet(BagRemove(B, x)) = BagToSet(B) \ {x}
BY DEF IsABag, BagToSet, BagRemove

LEMMA BagJoins ==
  ASSUME NEW B, IsABag(B), NEW x, NEW n \in {1, 2}
  PROVE  LET C == B (+) [request \in {x} |-> n] IN
         IsABag(C) /\ BagToSet(C) = BagToSet(B) \cup {x}
BY DEF IsABag, BagToSet, (+)

LEMMA EmptyBags ==
  ASSUME NEW B, IsABag(B)
  PROVE  B = EmptyBag <=> BagToSet(B) = {}
<1>1. B = EmptyBag => BagToSet(B) = {}
  BY DEF BagToSet, EmptyBag, SetToBag
<1>2. BagToSet(B) = {} => B = EmptyBag
  BY DEF IsABag, BagToSet, EmptyBag, SetToBag
<1> QED
  BY <1>1, <1>2

LEMMA EmptyIsBag == IsABag(EmptyBag) /\ BagToSet(EmptyBag) = {}
BY DEF IsABag, BagToSet, EmptyBag, SetToBag

-----------------------------------------------------------------------------
(* Types.                                                                  *)

PageType == [terminal : BOOLEAN, jobId : Jobs \cup {NoJob},
             cancellable : BOOLEAN, timer : BOOLEAN]

\* What the functions of the page return.
LEMMA PageSteps ==
  ASSUME NEW p \in PageType, NEW type
  PROVE  /\ FinishUi(p) \in PageType
         /\ HandleEvent(p, type) \in PageType
         /\ ScheduleReconcile(p) \in PageType
         /\ CancelFailed(p) \in PageType
BY DEF PageType, FinishUi, HandleEvent, ScheduleReconcile, CancelFailed

LEMMA ReconciledType ==
  ASSUME NEW p \in PageType, NEW poll
  PROVE  Reconciled(p, poll) \in PageType
<1>1. /\ ScheduleReconcile(p) \in PageType
      /\ HandleEvent(p, poll.last) \in PageType
  BY PageSteps
<1>2. /\ ScheduleReconcile(HandleEvent(p, poll.last)) \in PageType
      /\ FinishUi(HandleEvent(p, poll.last)) \in PageType
  BY <1>1, PageSteps
<1> QED
  BY <1>1, <1>2 DEF Reconciled

\* reconcileJob asks for the job of the page, if there is a run to follow.
LEMMA ReconcileAsks ==
  ASSUME ClientTypeOK, NEW n \in {1, 2}, Reconcile(n)
  PROVE  /\ IsABag(polls') /\ BagToSet(polls') \subseteq Polls
         /\ BagToSet(polls') \subseteq BagToSet(polls) \cup {Asking(page.jobId)}
         /\ page.terminal => polls' = polls
<1>1. CASE page.jobId = NoJob \/ page.terminal
  BY <1>1 DEF Reconcile, ClientTypeOK
<1>2. CASE ~(page.jobId = NoJob \/ page.terminal)
  <2>1. page.jobId \in Jobs
    BY <1>2 DEF ClientTypeOK
  <2>2. Asking(page.jobId) \in Polls
    BY <2>1 DEF Asking, Polls
  <2>3. /\ IsABag(polls') /\ BagToSet(polls') = BagToSet(polls) \cup {Asking(page.jobId)}
    BY <1>2, BagJoins DEF Reconcile, ClientTypeOK
  <2> QED
    BY <1>2, <2>2, <2>3 DEF ClientTypeOK
<1> QED
  BY <1>1, <1>2

LEMMA StatusType ==
  ASSUME ClientTypeOK, NEW j \in Jobs
  PROVE  JobStatus(j) \in Polls
<1>1. log[j].history \in Seq(Event)
  BY DEF ClientTypeOK, HubLog
<1>2. log[j].history # << >> =>
        log[j].history[Len(log[j].history)] \in Event
  BY <1>1
<1>3. log[j].history # << >> =>
        log[j].history[Len(log[j].history)].type \in ScriptTypes \cup {"cancelled"}
  BY <1>2 DEF Event
<1> QED
  BY <1>3 DEF JobStatus, Polls

LEMMA PublishType ==
  ASSUME NEW entry \in HubLog, NEW event \in Event
  PROVE  Service!Publish(entry, event) \in HubLog
BY DEF Service!Publish, Service!TerminalTypes, HubLog

LEMMA ServerTypes ==
  ASSUME ClientTypeOK, NEW j \in Jobs,
         \/ Service!Accept(j) \/ Service!Progress(j) \/ Service!Announce(j)
         \/ \E v \in Service!Verdicts : Service!Decide(j, v)
  PROVE  /\ phase' \in [Jobs -> {"absent", "live"} \cup Service!Verdicts]
         /\ log' \in [Jobs -> HubLog]
<1>1. Service!Verdicts = {"completed", "failed", "cancelled"}
  BY DEF Service!Verdicts, Service!Announcement
<1>2. \A v \in Service!Verdicts : Service!Announcement[v] \in Event
  BY DEF Service!Verdicts, Service!Announcement, Service!Ev, Event, ScriptTypes
<1>3. CASE Service!Accept(j)
  BY <1>3 DEF Service!Accept, ClientTypeOK
<1>4. CASE Service!Progress(j)
  <2>1. Len(log[j].history) \in Nat
    BY DEF ClientTypeOK, HubLog
  <2>2. Service!ProgressEvent(Len(log[j].history)) \in Event
    BY <2>1 DEF Service!ProgressEvent, Service!Ev, Event, ScriptTypes
  <2> QED
    BY <1>4, <2>2, PublishType DEF Service!Progress, ClientTypeOK
<1>5. CASE Service!Announce(j)
  BY <1>1, <1>2, <1>5, PublishType DEF Service!Announce, ClientTypeOK
<1>6. ASSUME NEW v \in Service!Verdicts, Service!Decide(j, v)
      PROVE  phase' \in [Jobs -> {"absent", "live"} \cup Service!Verdicts]
             /\ log' \in [Jobs -> HubLog]
  BY <1>2, <1>6, PublishType DEF Service!Decide, ClientTypeOK
<1> QED
  BY <1>3, <1>4, <1>5, <1>6

LEMMA InitTypes == Init => ClientTypeOK
<1> SUFFICES ASSUME Init PROVE ClientTypeOK
  OBVIOUS
<1>1. phase \in [Jobs -> {"absent", "live"} \cup Service!Verdicts]
  BY DEF Init, Service!Init
<1>2. log \in [Jobs -> HubLog]
  BY DEF Init, Service!Init, Service!EmptyLog, HubLog
<1> QED
  BY <1>1, <1>2, EmptyIsBag DEF Init, ClientTypeOK

LEMMA RunModelTypes == ASSUME ClientTypeOK, RunModel PROVE ClientTypeOK'
<1>0. Sent \in Posts /\ posts' = BagAdd(posts, Sent)
  BY DEF RunModel, Posts
<1>1. IsABag(posts') /\ BagToSet(posts') \subseteq Posts
  BY <1>0, BagGrows DEF ClientTypeOK
<1> QED
  BY <1>1 DEF RunModel, ClientTypeOK, serverVars

LEMMA PostArrivesTypes == ASSUME ClientTypeOK, PostArrives PROVE ClientTypeOK'
<1>1. /\ IsABag(BagRemove(posts, Sent)) /\ BagToSet(BagRemove(posts, Sent)) \subseteq Posts
  BY BagShrinks DEF ClientTypeOK
<1>2. ASSUME NEW j \in Jobs, Service!Accept(j), latest' = j,
             posts' = BagAdd(BagRemove(posts, Sent), Accepted(j))
      PROVE  ClientTypeOK'
  <2>0. Accepted(j) \in Posts
    BY DEF Posts
  <2>1. IsABag(posts') /\ BagToSet(posts') \subseteq Posts
    BY <1>1, <1>2, <2>0, BagGrows
  <2>2. /\ phase' \in [Jobs -> {"absent", "live"} \cup Service!Verdicts]
        /\ log' \in [Jobs -> HubLog]
    BY <1>2, ServerTypes
  <2> QED
    BY <1>2, <2>1, <2>2 DEF PostArrives, ClientTypeOK
<1>3. CASE /\ posts' = BagAdd(BagRemove(posts, Sent), Rejected)
           /\ UNCHANGED <<phase, log, latest>>
  <2>0. Rejected \in Posts
    BY DEF Posts
  <2>1. IsABag(posts') /\ BagToSet(posts') \subseteq Posts
    BY <1>1, <1>3, <2>0, BagGrows
  <2> QED
    BY <1>3, <2>1 DEF PostArrives, ClientTypeOK
<1> QED
  BY <1>2, <1>3 DEF PostArrives

LEMMA PostReturnsTypes == ASSUME ClientTypeOK, PostReturns \/ PostFails PROVE ClientTypeOK'
<1>1. PICK post \in BagToSet(posts) : posts' = BagRemove(posts, post)
  BY DEF PostReturns, PostFails
<1>2. IsABag(posts') /\ BagToSet(posts') \subseteq Posts
  BY <1>1, BagShrinks DEF ClientTypeOK
<1>3. page \in PageType /\ FinishUi(page) \in PageType
  BY PageSteps DEF ClientTypeOK, PageType
<1>4. CASE PostFails
  BY <1>2, <1>3, <1>4 DEF PostFails, ClientTypeOK, PageType, serverVars
<1>5. CASE PostReturns
  <2>1. PICK p \in BagToSet(posts) :
          \/ /\ p.state = "accepted"
             /\ page' = [page EXCEPT !.jobId = p.job, !.cancellable = TRUE]
             /\ socket' = [socket EXCEPT ![p.job] = "connecting"]
          \/ page' = FinishUi(page) /\ UNCHANGED socket
    BY <1>5 DEF PostReturns
  <2>2. p.state = "accepted" => p.job \in Jobs
    BY <2>1 DEF ClientTypeOK, Posts, Sent, Accepted, Rejected
  <2>3. /\ page' \in PageType
        /\ socket' \in [Jobs -> {"none", "connecting", "open", "closed", "failed"}]
    BY <1>3, <2>1, <2>2 DEF PageType, ClientTypeOK
  <2> QED
    BY <1>2, <1>5, <2>3 DEF PostReturns, ClientTypeOK, PageType, serverVars
<1> QED
  BY <1>4, <1>5

LEMMA ListenerTypes ==
  ASSUME ClientTypeOK, NEW j \in Jobs,
         SocketOpens(j) \/ Message(j) \/ SocketCloses(j) \/ SocketFails(j)
  PROVE  ClientTypeOK'
<1>1. CASE Message(j)
  <2>1. \E type : page' = HandleEvent(page, type)
    BY <1>1 DEF Message
  <2>2. page' \in PageType
    BY <2>1, PageSteps DEF ClientTypeOK, PageType
  <2>3. seen' \in [Jobs -> Nat] /\ told' \subseteq Jobs
    BY <1>1 DEF Message, ClientTypeOK
  <2> QED
    BY <1>1, <2>2, <2>3 DEF Message, ClientTypeOK, PageType, serverVars
<1>2. CASE SocketOpens(j) \/ SocketCloses(j) \/ SocketFails(j)
  <2>1. IsABag(polls') /\ BagToSet(polls') \subseteq Polls
    BY <1>2, ReconcileAsks DEF SocketOpens, SocketCloses, SocketFails, ClientTypeOK
  <2>2. socket' \in [Jobs -> {"none", "connecting", "open", "closed", "failed"}]
    BY <1>2 DEF SocketOpens, SocketCloses, SocketFails, ClientTypeOK
  <2> QED
    BY <1>2, <2>1, <2>2 DEF SocketOpens, SocketCloses, SocketFails, ClientTypeOK, serverVars
<1> QED
  BY <1>1, <1>2

LEMMA PollTypes ==
  ASSUME ClientTypeOK, Polling \/ PollReturns \/ PollFails PROVE ClientTypeOK'
<1>0. page \in PageType
  BY DEF ClientTypeOK, PageType
<1>1. CASE TimerFires
  <2>1. IsABag(polls') /\ BagToSet(polls') \subseteq Polls
    BY <1>1, ReconcileAsks DEF TimerFires
  <2> QED
    BY <1>1, <2>1 DEF TimerFires, ClientTypeOK, serverVars
<1>2. CASE PollArrives
  <2>1. PICK j \in Jobs : polls' = BagAdd(BagRemove(polls, Asking(j)), JobStatus(j))
    BY <1>2 DEF PollArrives
  <2>2. /\ IsABag(BagRemove(polls, Asking(j)))
        /\ BagToSet(BagRemove(polls, Asking(j))) \subseteq Polls
    BY BagShrinks DEF ClientTypeOK
  <2>3. IsABag(polls') /\ BagToSet(polls') \subseteq Polls
    BY <2>1, <2>2, BagGrows, StatusType
  <2> QED
    BY <1>2, <2>3 DEF PollArrives, ClientTypeOK, serverVars
<1>3. CASE PollReturns
  <2>1. PICK poll \in BagToSet(polls) :
          /\ polls' = BagRemove(polls, poll)
          /\ page' = Reconciled(page, poll)
          /\ told' = told \cup (IF poll.terminal THEN {poll.job} ELSE {})
    BY <1>3 DEF PollReturns
  <2>2. poll.job \in Jobs
    BY DEF ClientTypeOK, Polls
  <2>3. IsABag(polls') /\ BagToSet(polls') \subseteq Polls
    BY <2>1, BagShrinks DEF ClientTypeOK
  <2>4. page' \in PageType
    BY <1>0, <2>1, ReconciledType
  <2> QED
    BY <1>3, <2>1, <2>2, <2>3, <2>4 DEF PollReturns, ClientTypeOK, PageType, serverVars
<1>4. CASE PollFails
  <2>1. IsABag(polls') /\ BagToSet(polls') \subseteq Polls
    BY <1>4, BagShrinks DEF PollFails, ClientTypeOK
  <2>2. page' \in PageType
    BY <1>0, <1>4, PageSteps DEF PollFails
  <2> QED
    BY <1>4, <2>1, <2>2 DEF PollFails, ClientTypeOK, PageType, serverVars
<1> QED
  BY <1>1, <1>2, <1>3, <1>4 DEF Polling

LEMMA OtherTypes ==
  ASSUME ClientTypeOK,
         \/ CancelJob \/ CancelArrives \/ CancelReturns
         \/ \E j \in Jobs : ServerStep(j) \/ OtherPage(j)
  PROVE  ClientTypeOK'
<1>1. CASE CancelJob
  BY <1>1 DEF CancelJob, ClientTypeOK, serverVars
<1>2. CASE CancelArrives
  BY <1>2 DEF CancelArrives, ClientTypeOK, netVars
<1>3. CASE CancelReturns
  BY <1>3 DEF CancelReturns, CancelFailed, ClientTypeOK, serverVars
<1>4. ASSUME NEW j \in Jobs, ServerStep(j) PROVE ClientTypeOK'
  <2>1. /\ phase' \in [Jobs -> {"absent", "live"} \cup Service!Verdicts]
        /\ log' \in [Jobs -> HubLog]
    BY <1>4, ServerTypes DEF ServerStep
  <2> QED
    BY <1>4, <2>1 DEF ServerStep, ClientTypeOK, netVars
<1>5. ASSUME NEW j \in Jobs, OtherPage(j) PROVE ClientTypeOK'
  <2>1. /\ phase' \in [Jobs -> {"absent", "live"} \cup Service!Verdicts]
        /\ log' \in [Jobs -> HubLog]
    BY <1>5, ServerTypes DEF OtherPage
  <2> QED
    BY <1>5, <2>1 DEF OtherPage, ClientTypeOK, netVars
<1> QED
  BY <1>1, <1>2, <1>3, <1>4, <1>5

LEMMA NextTypes == ClientTypeOK /\ [Next]_vars => ClientTypeOK'
<1> SUFFICES ASSUME ClientTypeOK, [Next]_vars PROVE ClientTypeOK'
  OBVIOUS
<1>1. CASE UNCHANGED vars
  BY <1>1 DEF vars, serverVars, netVars, ClientTypeOK
<1>2. CASE Next
  BY <1>2, RunModelTypes, PostArrivesTypes, PostReturnsTypes, ListenerTypes, PollTypes,
     OtherTypes DEF Next, Posting, Listening
<1> QED
  BY <1>1, <1>2

\* Types of the page, its requests and the service.
THEOREM ClientTyped == Spec => []ClientTypeOK
BY InitTypes, NextTypes, PTL DEF Spec

-----------------------------------------------------------------------------
(* One run of the page at a time.                                          *)

Ended(j) == phase[j] \in Service!Verdicts
Connected(j) == socket[j] \in {"connecting", "open"}

\* The requests of a patient user follow one another, and while one is in
\* flight nothing of the run before is left but its job, which has ended.
OnePost ==
  /\ \A post \in BagToSet(posts) : BagToSet(posts) = {post} /\ posts[post] = 1
  /\ posts # EmptyBag =>
       /\ ~page.terminal /\ ~page.timer
       /\ polls = EmptyBag /\ \A j \in Jobs : ~Connected(j)
       /\ page.jobId # NoJob => phase[page.jobId] # "live"

\* Connections and polls are about the job of the page, and an answer that
\* tells of the end of a job tells the truth.
Follows ==
  /\ \A j \in Jobs : Connected(j) => j = page.jobId
  /\ \A poll \in BagToSet(polls) :
       /\ poll.job = page.jobId
       /\ poll.terminal \/ poll.last \in TerminalTypes => Ended(poll.job)

\* The page knows accepted jobs only.
Known ==
  /\ page.jobId # NoJob => phase[page.jobId] # "absent"
  /\ \A j \in Jobs : Accepted(j) \in BagToSet(posts) => phase[j] # "absent"

\* A terminal event is in the log of a job that has ended.
LogsTrue ==
  \A j \in Jobs : ~Ended(j) =>
    \A i \in 1 .. Len(log[j].history) : log[j].history[i].type \notin TerminalTypes

NoStaleTimer == page.terminal => ~page.timer

RunInv ==
  /\ ClientTypeOK /\ OnePost /\ Follows /\ Known /\ LogsTrue /\ NoStaleTimer
  /\ EndsOnlyWithItsJob /\ CancelOffered

LEMMA VerdictNames == Service!Verdicts = {"completed", "failed", "cancelled"}
BY DEF Service!Verdicts, Service!Announcement

\* What handlers without requests do to the page: a run ends only if they
\* have learned that its job has.
PageMove(p, q, ended) ==
  /\ q.jobId = p.jobId
  /\ q.terminal => ~q.timer /\ (p.terminal \/ ended)
  /\ ~q.terminal /\ ~p.terminal => q.cancellable = p.cancellable

LEMMA HandlerMoves ==
  ASSUME NEW p \in PageType, p.terminal => ~p.timer, NEW type
  PROVE  /\ PageMove(p, HandleEvent(p, type), type \in TerminalTypes)
         /\ PageMove(p, ScheduleReconcile(p), FALSE)
BY DEF PageMove, PageType, HandleEvent, FinishUi, ScheduleReconcile

LEMMA ReconciledMoves ==
  ASSUME NEW p \in PageType, p.terminal => ~p.timer, NEW poll \in Polls
  PROVE  PageMove(p, Reconciled(p, poll), poll.terminal \/ poll.last \in TerminalTypes)
<1> DEFINE q == HandleEvent(p, poll.last)
<1>1. q \in PageType /\ PageMove(p, q, poll.last \in TerminalTypes)
  BY HandlerMoves, PageSteps
<1>2. q.terminal => ~q.timer
  BY <1>1 DEF PageMove
<1>3. PageMove(q, ScheduleReconcile(q), FALSE) /\ PageMove(p, ScheduleReconcile(p), FALSE)
  BY <1>1, <1>2, HandlerMoves
<1>4. poll.terminal /\ ~q.terminal => PageMove(p, FinishUi(q), poll.terminal)
  BY <1>1 DEF PageMove, PageType, FinishUi
<1>5. poll.terminal \in BOOLEAN
  BY DEF Polls
<1>6. p.terminal \in BOOLEAN /\ q.terminal \in BOOLEAN
      /\ ScheduleReconcile(q).terminal = q.terminal
  BY <1>1 DEF PageType, ScheduleReconcile
<1> HIDE DEF q
<1>7. CASE poll.state = "not found"
  BY <1>3, <1>7 DEF Reconciled, PageMove
<1>8. CASE poll.state # "not found" /\ ~poll.terminal
  BY <1>1, <1>3, <1>6, <1>8 DEF Reconciled, PageMove, q
<1>9. CASE poll.state # "not found" /\ poll.terminal
  BY <1>1, <1>4, <1>6, <1>9 DEF Reconciled, PageMove, q
<1> QED
  BY <1>5, <1>7, <1>8, <1>9

\* Such a handler keeps the promises of the page.
LEMMA MovesKeep ==
  ASSUME RunInv, NEW ended, PageMove(page, page', ended), page' \in PageType,
         posts = EmptyBag, UNCHANGED <<phase, log, asked, posts, cancel>>,
         ended /\ page.jobId # NoJob => Ended(page.jobId)
  PROVE  /\ OnePost' /\ Known' /\ LogsTrue' /\ NoStaleTimer'
         /\ EndsOnlyWithItsJob' /\ CancelOffered'
<1>1. page'.jobId = page.jobId
  BY DEF PageMove
<1>2. OnePost' /\ Known' /\ LogsTrue' /\ NoStaleTimer'
  BY <1>1 DEF RunInv, OnePost, Known, LogsTrue, NoStaleTimer, PageMove, Ended
<1>3. EndsOnlyWithItsJob'
  BY <1>1, VerdictNames DEF RunInv, EndsOnlyWithItsJob, PageMove, Ended
<1>4. CancelOffered'
  BY <1>1 DEF RunInv, EndsOnlyWithItsJob, CancelOffered, PageMove, PageType,
              ClientTypeOK
<1> QED
  BY <1>2, <1>3, <1>4

\* What a step of the service does to the phases and the logs.
LEMMA ServiceSteps ==
  ASSUME ClientTypeOK, LogsTrue, NEW j \in Jobs,
         \/ Service!Accept(j) \/ Service!Progress(j) \/ Service!Announce(j)
         \/ \E v \in Service!Verdicts : Service!Decide(j, v)
  PROVE  /\ LogsTrue'
         /\ \A i \in Jobs :
              /\ phase[i] # "absent" => phase'[i] # "absent"
              /\ Ended(i) => Ended(i)'
              /\ phase'[i] = "live" => phase[i] \in {"absent", "live"}
              /\ phase'[i] = "live" /\ phase[i] = "absent" => Service!Accept(j) /\ i = j
<1>1. CASE Service!Accept(j)
  BY <1>1, VerdictNames DEF Service!Accept, ClientTypeOK, LogsTrue, Ended
<1>2. CASE Service!Progress(j)
  <2> DEFINE event == Service!ProgressEvent(Len(log[j].history))
  <2>1. event.type \notin TerminalTypes
    BY DEF Service!ProgressEvent, Service!Ev, TerminalTypes
  <2>2. log[j].history \in Seq(Event)
    BY DEF ClientTypeOK, HubLog
  <2> HIDE DEF event
  <2>3. ~Ended(j) => \A i \in 1 .. Len(Append(log[j].history, event)) :
          Append(log[j].history, event)[i].type \notin TerminalTypes
    <3> SUFFICES ASSUME ~Ended(j), NEW i \in 1 .. Len(Append(log[j].history, event))
                 PROVE  Append(log[j].history, event)[i].type \notin TerminalTypes
      OBVIOUS
    <3>1. \/ i \in 1 .. Len(log[j].history)
             /\ Append(log[j].history, event)[i] = log[j].history[i]
          \/ Append(log[j].history, event)[i] = event
      BY <2>2
    <3> QED
      BY <2>1, <3>1 DEF LogsTrue
  <2>4. log'[j].history \in {log[j].history, Append(log[j].history, event)}
    BY <1>2 DEF Service!Progress, Service!Publish, ClientTypeOK, event
  <2>5. \A i \in Jobs : i # j => log'[i] = log[i]
    BY <1>2 DEF Service!Progress, ClientTypeOK
  <2>6. phase' = phase
    BY <1>2 DEF Service!Progress
  <2>7. LogsTrue'
    BY <2>3, <2>4, <2>5, <2>6 DEF LogsTrue, Ended
  <2> QED
    BY <2>6, <2>7 DEF Ended
<1>3. CASE Service!Announce(j)
  BY <1>3, VerdictNames DEF Service!Announce, ClientTypeOK, LogsTrue, Ended
<1>4. ASSUME NEW v \in Service!Verdicts, Service!Decide(j, v)
      PROVE  /\ LogsTrue'
             /\ \A i \in Jobs :
                  /\ phase[i] # "absent" => phase'[i] # "absent"
                  /\ Ended(i) => Ended(i)'
                  /\ phase'[i] = "live" => phase[i] \in {"absent", "live"}
                  /\ ~(phase'[i] = "live" /\ phase[i] = "absent")
  <2>1. phase' = [phase EXCEPT ![j] = v] /\ \A i \in Jobs : i # j => log'[i] = log[i]
    BY <1>4 DEF Service!Decide, ClientTypeOK
  <2> QED
    BY <2>1, VerdictNames DEF ClientTypeOK, LogsTrue, Ended
<1> QED
  BY <1>1, <1>2, <1>3, <1>4

LEMMA InitRun == Init => RunInv
<1> SUFFICES ASSUME Init PROVE RunInv
  OBVIOUS
<1>1. \A j \in Jobs : ~Connected(j) /\ log[j].history = << >>
  BY DEF Init, Service!Init, Service!EmptyLog, Connected
<1>2. BagToSet(posts) = {} /\ BagToSet(polls) = {}
  BY EmptyIsBag DEF Init
<1>3. page = [terminal |-> TRUE, jobId |-> NoJob, cancellable |-> FALSE, timer |-> FALSE]
  BY DEF Init
<1>4. OnePost /\ Follows /\ Known
  BY <1>1, <1>2, <1>3 DEF Init, OnePost, Follows, Known
<1>5. LogsTrue /\ NoStaleTimer /\ EndsOnlyWithItsJob /\ CancelOffered
  BY <1>1, <1>3 DEF LogsTrue, NoStaleTimer, EndsOnlyWithItsJob, CancelOffered
<1> QED
  BY <1>4, <1>5, InitTypes DEF RunInv

LEMMA RunModelKeeps ==
  ASSUME Patient, RunInv, RunModel PROVE RunInv'
<1>1. ClientTypeOK'
  BY RunModelTypes DEF RunInv
<1>2. /\ posts = EmptyBag /\ polls = EmptyBag /\ \A j \in Jobs : ~Connected(j)
      /\ page.terminal /\ posts' = BagAdd(posts, Sent)
      /\ page' = [page EXCEPT !.terminal = FALSE, !.cancellable = FALSE]
      /\ UNCHANGED <<phase, log, polls, socket>>
  BY DEF RunModel, Settled, Connected, serverVars
<1>3. Sent \in Posts
  BY DEF Posts
<1>4. BagToSet(posts') = {Sent} /\ posts'[Sent] = 1
  BY <1>2, <1>3, BagGrows, EmptyIsBag
<1>5. posts' # EmptyBag
  BY <1>4, EmptyIsBag
<1>6. page'.jobId = page.jobId /\ ~page'.terminal /\ page'.timer = page.timer
  BY <1>2 DEF RunInv, ClientTypeOK
<1>7. OnePost'
  BY <1>2, <1>4, <1>6 DEF RunInv, OnePost, NoStaleTimer, EndsOnlyWithItsJob, Connected
<1>8. \A j \in Jobs : Accepted(j) # Sent
  BY DEF Accepted, Sent
<1>9. Follows' /\ Known' /\ LogsTrue' /\ NoStaleTimer'
  BY <1>2, <1>4, <1>6, <1>8
     DEF RunInv, Follows, Known, LogsTrue, NoStaleTimer, Connected, Ended
<1>10. EndsOnlyWithItsJob' /\ CancelOffered'
  BY <1>5 DEF EndsOnlyWithItsJob, CancelOffered
<1> QED
  BY <1>1, <1>7, <1>9, <1>10 DEF RunInv

LEMMA PostArrivesKeeps == ASSUME RunInv, PostArrives PROVE RunInv'
<1>1. ClientTypeOK'
  BY PostArrivesTypes DEF RunInv
<1>2. /\ BagToSet(posts) = {Sent} /\ posts[Sent] = 1 /\ posts # EmptyBag
      /\ UNCHANGED <<page, polls, socket, asked, cancel>>
  BY EmptyIsBag DEF PostArrives, RunInv, OnePost, BagIn
<1>3. BagRemove(posts, Sent) = EmptyBag
  BY <1>2, BagShrinks, EmptyBags DEF RunInv, ClientTypeOK
<1>4. PICK post \in Posts : /\ posts' = BagAdd(EmptyBag, post)
                            /\ \/ post = Rejected /\ UNCHANGED <<phase, log>>
                               \/ \E j \in Jobs : post = Accepted(j) /\ Service!Accept(j)
  BY <1>3 DEF PostArrives, Posts
<1>5. BagToSet(posts') = {post} /\ posts'[post] = 1 /\ posts' # EmptyBag
  BY <1>4, BagGrows, EmptyIsBag
<1>6. /\ LogsTrue'
      /\ \A i \in Jobs : /\ phase[i] # "absent" => phase'[i] # "absent"
                         /\ Ended(i) => Ended(i)'
                         /\ phase'[i] = "live" => phase[i] \in {"absent", "live"}
                         /\ Accepted(i) = post => phase'[i] # "absent"
  <2>1. CASE post = Rejected /\ UNCHANGED <<phase, log>>
    BY <2>1 DEF RunInv, LogsTrue, Ended, Rejected, Accepted
  <2>2. ASSUME NEW j \in Jobs, post = Accepted(j), Service!Accept(j)
        PROVE  /\ LogsTrue'
               /\ \A i \in Jobs : /\ phase[i] # "absent" => phase'[i] # "absent"
                                  /\ Ended(i) => Ended(i)'
                                  /\ phase'[i] = "live" => phase[i] \in {"absent", "live"}
                                  /\ Accepted(i) = post => phase'[i] # "absent"
    <3>1. phase'[j] = "live"
      BY <2>2 DEF Service!Accept, RunInv, ClientTypeOK
    <3>2. \A i \in Jobs : Accepted(i) = post => i = j
      BY <2>2 DEF Accepted
    <3> QED
      BY <2>2, <3>1, <3>2, ServiceSteps DEF RunInv
  <2> QED
    BY <1>4, <2>1, <2>2
<1>7. page.jobId # NoJob => page.jobId \in Jobs
  BY DEF RunInv, ClientTypeOK
<1>8. OnePost'
  BY <1>2, <1>5, <1>6, <1>7 DEF RunInv, OnePost, Known, Connected
<1>9. \A poll \in BagToSet(polls) : poll.job \in Jobs
  BY DEF RunInv, ClientTypeOK, Polls
<1>10. Follows' /\ Known' /\ NoStaleTimer'
  BY <1>2, <1>5, <1>6, <1>7, <1>9 DEF RunInv, Follows, Known, NoStaleTimer, Connected
<1>11. EndsOnlyWithItsJob' /\ CancelOffered'
  BY <1>5 DEF EndsOnlyWithItsJob, CancelOffered
<1> QED
  BY <1>1, <1>6, <1>8, <1>10, <1>11 DEF RunInv

LEMMA PostReturnsKeeps ==
  ASSUME RunInv, PostReturns \/ PostFails PROVE RunInv'
<1>1. ClientTypeOK'
  BY PostReturnsTypes DEF RunInv
<1>2. PICK post \in BagToSet(posts) :
        /\ posts' = BagRemove(posts, post)
        /\ \/ /\ post.state = "accepted"
              /\ page' = [page EXCEPT !.jobId = post.job, !.cancellable = TRUE]
              /\ socket' = [socket EXCEPT ![post.job] = "connecting"]
           \/ page' = FinishUi(page) /\ UNCHANGED socket
  BY DEF PostReturns, PostFails
<1>3. UNCHANGED <<phase, log, asked, polls, cancel>>
  BY DEF PostReturns, PostFails, serverVars
<1>4. BagToSet(posts) = {post} /\ posts[post] = 1 /\ posts # EmptyBag
  BY EmptyIsBag DEF RunInv, OnePost
<1>5. BagToSet(posts') = {} /\ posts' = EmptyBag
  BY <1>1, <1>2, <1>4, BagShrinks, EmptyBags DEF RunInv, ClientTypeOK
<1>6. /\ ~page.terminal /\ ~page.timer /\ BagToSet(polls) = {}
      /\ \A j \in Jobs : ~Connected(j)
      /\ page.jobId # NoJob => phase[page.jobId] # "live"
  BY <1>4, EmptyIsBag DEF RunInv, OnePost
<1>7. OnePost' /\ LogsTrue'
  BY <1>3, <1>5 DEF RunInv, OnePost, LogsTrue, Ended
<1>8. CASE page' = FinishUi(page) /\ UNCHANGED socket
  <2>1. page'.terminal /\ ~page'.timer /\ page'.jobId = page.jobId
    BY <1>8 DEF FinishUi, RunInv, ClientTypeOK
  <2>2. Follows' /\ Known' /\ NoStaleTimer'
    BY <1>3, <1>5, <1>6, <1>8, <2>1 DEF RunInv, Follows, Known, NoStaleTimer, Connected
  <2>3. EndsOnlyWithItsJob' /\ CancelOffered'
    BY <1>3, <1>6, <2>1 DEF EndsOnlyWithItsJob, CancelOffered
  <2> QED
    BY <1>1, <1>7, <2>2, <2>3 DEF RunInv
<1>9. CASE /\ post.state = "accepted"
           /\ page' = [page EXCEPT !.jobId = post.job, !.cancellable = TRUE]
           /\ socket' = [socket EXCEPT ![post.job] = "connecting"]
  <2>1. post.job \in Jobs /\ post = Accepted(post.job)
    BY <1>9 DEF RunInv, ClientTypeOK, Posts, Sent, Accepted, Rejected
  <2>2. page'.jobId = post.job /\ page'.cancellable /\ ~page'.terminal
    BY <1>6, <1>9 DEF RunInv, ClientTypeOK
  <2>3. phase[post.job] # "absent"
    BY <2>1 DEF RunInv, Known
  <2>4. Follows' /\ Known' /\ NoStaleTimer'
    BY <1>3, <1>5, <1>6, <1>9, <2>1, <2>2, <2>3
       DEF RunInv, ClientTypeOK, Follows, Known, NoStaleTimer, Connected
  <2>5. EndsOnlyWithItsJob' /\ CancelOffered'
    BY <2>2 DEF EndsOnlyWithItsJob, CancelOffered
  <2> QED
    BY <1>1, <1>7, <2>4, <2>5 DEF RunInv
<1> QED
  BY <1>2, <1>8, <1>9

\* A poll that is added is about the job of the page and has no answer yet.
LEMMA AsksKeep ==
  ASSUME RunInv, NEW n \in {1, 2}, Reconcile(n), UNCHANGED <<phase, socket>>,
         page'.jobId = page.jobId
  PROVE  Follows'
<1>1. BagToSet(polls') \subseteq BagToSet(polls) \cup {Asking(page.jobId)}
  BY ReconcileAsks DEF RunInv
<1>2. /\ Asking(page.jobId).job = page.jobId /\ ~Asking(page.jobId).terminal
      /\ Asking(page.jobId).last \notin TerminalTypes
  BY DEF Asking, TerminalTypes
<1> QED
  BY <1>1, <1>2 DEF RunInv, Follows, Connected, Ended

LEMMA ListenersKeep ==
  ASSUME RunInv, NEW j \in Jobs,
         SocketOpens(j) \/ Message(j) \/ SocketCloses(j) \/ SocketFails(j)
  PROVE  RunInv'
<1>1. ClientTypeOK'
  BY ListenerTypes DEF RunInv
<1>2. Connected(j) /\ UNCHANGED <<phase, log, asked, posts, cancel>>
  BY DEF SocketOpens, Message, SocketCloses, SocketFails, Connected, serverVars
<1>3. posts = EmptyBag /\ page.jobId = j
  BY <1>2 DEF RunInv, OnePost, Follows
<1>4. page \in PageType /\ (page.terminal => ~page.timer)
  BY DEF RunInv, ClientTypeOK, PageType, NoStaleTimer
<1>5. CASE Message(j)
  <2> DEFINE type == log[j].history[seen[j] + 1].type
  <2>1. page' = HandleEvent(page, type) /\ UNCHANGED <<polls, socket>>
    BY <1>5 DEF Message, RunInv, ClientTypeOK
  <2>2. seen[j] + 1 \in 1 .. Len(log[j].history)
    BY <1>5 DEF Message, RunInv, ClientTypeOK, HubLog
  <2>3. type \in TerminalTypes => Ended(j)
    BY <2>2 DEF RunInv, LogsTrue
  <2> HIDE DEF type
  <2>4. PageMove(page, page', type \in TerminalTypes) /\ page' \in PageType
    BY <1>4, <2>1, HandlerMoves, PageSteps
  <2>5. page'.jobId = page.jobId
    BY <2>4 DEF PageMove
  <2>6. Follows'
    BY <1>2, <2>1, <2>5 DEF RunInv, Follows, Connected, Ended
  <2> QED
    BY <1>1, <1>2, <1>3, <2>3, <2>4, <2>6, MovesKeep DEF RunInv
<1>6. CASE SocketOpens(j) \/ SocketCloses(j) \/ SocketFails(j)
  <2>1. /\ UNCHANGED page
        /\ socket' \in {[socket EXCEPT ![j] = state] : state \in {"open", "closed", "failed"}}
        /\ UNCHANGED polls \/ Reconcile(1) \/ Reconcile(2)
    BY <1>6 DEF SocketOpens, SocketCloses, SocketFails
  <2>2. \A i \in Jobs : Connected(i)' => Connected(i)
    BY <1>2, <2>1 DEF Connected, RunInv, ClientTypeOK
  <2>3. BagToSet(polls') \subseteq BagToSet(polls) \cup {Asking(page.jobId)}
    BY <2>1, ReconcileAsks DEF RunInv
  <2>4. /\ Asking(page.jobId).job = page.jobId /\ ~Asking(page.jobId).terminal
        /\ Asking(page.jobId).last \notin TerminalTypes
    BY DEF Asking, TerminalTypes
  <2>5. Follows'
    BY <1>2, <2>1, <2>2, <2>3, <2>4 DEF RunInv, Follows, Ended
  <2>6. PageMove(page, page', FALSE) /\ page' \in PageType
    BY <1>4, <2>1 DEF PageMove
  <2> QED
    BY <1>1, <1>2, <1>3, <2>5, <2>6, MovesKeep DEF RunInv
<1> QED
  BY <1>5, <1>6

LEMMA PollsKeep ==
  ASSUME RunInv, Polling \/ PollReturns \/ PollFails PROVE RunInv'
<1>1. ClientTypeOK'
  BY PollTypes DEF RunInv
<1>2. UNCHANGED <<phase, log, asked, posts, cancel, socket>>
  BY DEF Polling, TimerFires, PollArrives, PollReturns, PollFails, serverVars
<1>3. page \in PageType /\ (page.terminal => ~page.timer)
  BY DEF RunInv, ClientTypeOK, PageType, NoStaleTimer
<1>4. BagToSet(polls) # {} \/ page.timer => posts = EmptyBag
  BY EmptyIsBag DEF RunInv, OnePost
<1>5. CASE TimerFires
  <2>1. page.timer /\ Reconcile(1) /\ page' = [page EXCEPT !.timer = FALSE]
    BY <1>5 DEF TimerFires
  <2>2. PageMove(page, page', FALSE) /\ page' \in PageType
    BY <1>3, <2>1 DEF PageMove, PageType
  <2>3. Follows'
    BY <1>2, <2>1, <2>2, AsksKeep DEF PageMove
  <2> QED
    BY <1>1, <1>2, <1>4, <2>1, <2>2, <2>3, MovesKeep DEF RunInv
<1>6. CASE PollArrives
  <2>1. PICK j \in Jobs : /\ Asking(j) \in BagToSet(polls)
                         /\ polls' = BagAdd(BagRemove(polls, Asking(j)), JobStatus(j))
    BY <1>6 DEF PollArrives, BagIn
  <2>2. /\ IsABag(BagRemove(polls, Asking(j)))
        /\ BagToSet(BagRemove(polls, Asking(j))) \subseteq BagToSet(polls)
    BY BagShrinks DEF RunInv, ClientTypeOK
  <2>3. JobStatus(j) \in Polls
    BY StatusType DEF RunInv
  <2>4. BagToSet(polls') \subseteq BagToSet(polls) \cup {JobStatus(j)}
    <3>1. BagToSet(BagRemove(polls, Asking(j))) \subseteq Polls
      BY <2>2 DEF RunInv, ClientTypeOK
    <3> QED
      BY <2>1, <2>2, <2>3, <3>1, BagGrows
  <2>5. JobStatus(j).job = j /\ j = page.jobId
    BY <2>1 DEF RunInv, Follows, Asking, JobStatus
  <2>6. JobStatus(j).terminal \/ JobStatus(j).last \in TerminalTypes => Ended(j)
    <3>1. log[j].history \in Seq(Event)
      BY DEF RunInv, ClientTypeOK, HubLog
    <3>2. log[j].history # << >> =>
            Len(log[j].history) \in 1 .. Len(log[j].history)
      BY <3>1
    <3>3. "none" \notin TerminalTypes
      BY DEF TerminalTypes
    <3> QED
      BY <3>2, <3>3 DEF JobStatus, RunInv, LogsTrue, Ended
  <2>7. UNCHANGED page
    BY <1>6 DEF PollArrives
  <2>8. Follows'
    BY <1>2, <2>4, <2>5, <2>6, <2>7 DEF RunInv, Follows, Connected, Ended
  <2>9. PageMove(page, page', FALSE) /\ page' \in PageType
    BY <1>3, <2>7 DEF PageMove
  <2> QED
    BY <1>1, <1>2, <1>4, <2>1, <2>8, <2>9, MovesKeep DEF RunInv
<1>7. CASE PollReturns \/ PollFails
  <2>1. PICK poll \in BagToSet(polls) :
          /\ polls' = BagRemove(polls, poll)
          /\ page' = Reconciled(page, poll) \/ page' = ScheduleReconcile(page)
    BY <1>7 DEF PollReturns, PollFails
  <2>2. BagToSet(polls') \subseteq BagToSet(polls) /\ poll \in Polls
    BY <2>1, BagShrinks DEF RunInv, ClientTypeOK
  <2>3. page.jobId = poll.job /\ (poll.terminal \/ poll.last \in TerminalTypes => Ended(poll.job))
    BY DEF RunInv, Follows
  <2>4. page' \in PageType
    BY <1>3, <2>1, ReconciledType, PageSteps
  <2>5. \/ PageMove(page, page', FALSE)
        \/ PageMove(page, page', poll.terminal \/ poll.last \in TerminalTypes)
    BY <1>3, <2>1, <2>2, HandlerMoves, ReconciledMoves
  <2>6. page'.jobId = page.jobId
    BY <2>5 DEF PageMove
  <2>7. Follows'
    BY <1>2, <2>2, <2>6 DEF RunInv, Follows, Connected, Ended
  <2>8. OnePost' /\ Known' /\ LogsTrue' /\ NoStaleTimer' /\ EndsOnlyWithItsJob' /\ CancelOffered'
    BY <1>2, <1>4, <2>3, <2>4, <2>5, MovesKeep
  <2> QED
    BY <1>1, <2>7, <2>8 DEF RunInv
<1> QED
  BY <1>5, <1>6, <1>7 DEF Polling

LEMMA CancelsKeep ==
  ASSUME RunInv, CancelJob \/ CancelArrives \/ CancelReturns PROVE RunInv'
<1>1. ClientTypeOK'
  BY OtherTypes DEF RunInv
<1>2. UNCHANGED <<phase, log, posts, polls, socket>>
  BY DEF CancelJob, CancelArrives, CancelReturns, serverVars, netVars
<1>3. page' \in {page, [page EXCEPT !.cancellable = FALSE], [page EXCEPT !.cancellable = TRUE]}
  BY DEF CancelJob, CancelArrives, CancelReturns, CancelFailed
<1>4. /\ page'.jobId = page.jobId /\ page'.terminal = page.terminal
      /\ page'.timer = page.timer
  BY <1>3 DEF RunInv, ClientTypeOK
<1>5. OnePost' /\ Follows' /\ Known' /\ LogsTrue' /\ NoStaleTimer'
  BY <1>2, <1>4
     DEF RunInv, OnePost, Follows, Known, LogsTrue, NoStaleTimer, Connected, Ended
<1>6. EndsOnlyWithItsJob'
  BY <1>2, <1>4 DEF RunInv, EndsOnlyWithItsJob
<1>7. CancelOffered'
  <2>1. CASE CancelJob
    BY <1>2, <1>4, <2>1 DEF CancelJob, RunInv, CancelOffered
  <2>2. CASE CancelArrives
    BY <1>2, <1>4, <2>2 DEF CancelArrives, netVars, RunInv, CancelOffered
  <2>3. CASE CancelReturns
    <3>1. asked' = asked /\ (page' = page \/ page'.cancellable)
          /\ (page' = page => cancel \in asked \/ page'.cancellable)
      BY <2>3 DEF CancelReturns, CancelFailed, serverVars, RunInv, ClientTypeOK
    <3> QED
      BY <1>2, <1>4, <3>1 DEF RunInv, CancelOffered
  <2> QED
    BY <2>1, <2>2, <2>3
<1> QED
  BY <1>1, <1>5, <1>6, <1>7 DEF RunInv

LEMMA ServiceKeeps ==
  ASSUME RunInv, NEW j \in Jobs, ServerStep(j) \/ OtherPage(j) PROVE RunInv'
<1>1. ClientTypeOK'
  BY OtherTypes DEF RunInv
<1>2. UNCHANGED <<asked, page, posts, polls, cancel, socket>>
  BY DEF ServerStep, OtherPage, netVars
<1>3. /\ LogsTrue'
      /\ \A i \in Jobs : /\ phase[i] # "absent" => phase'[i] # "absent"
                         /\ Ended(i) => Ended(i)'
                         /\ phase'[i] = "live" => phase[i] \in {"absent", "live"}
  BY ServiceSteps DEF ServerStep, OtherPage, RunInv
<1>4. page.jobId # NoJob => page.jobId \in Jobs /\ phase[page.jobId] # "absent"
  BY DEF RunInv, ClientTypeOK, Known
<1>5. \A poll \in BagToSet(polls) : poll.job \in Jobs
  BY DEF RunInv, ClientTypeOK, Polls
<1>6. OnePost' /\ Follows' /\ Known' /\ NoStaleTimer'
  BY <1>2, <1>3, <1>4, <1>5 DEF RunInv, OnePost, Follows, Known, NoStaleTimer, Connected
<1>7. EndsOnlyWithItsJob' /\ CancelOffered'
  BY <1>2, <1>3, <1>4 DEF RunInv, EndsOnlyWithItsJob, CancelOffered
<1> QED
  BY <1>1, <1>3, <1>6, <1>7 DEF RunInv

LEMMA RunNext ==
  ASSUME Patient PROVE RunInv /\ [Next]_vars => RunInv'
<1> SUFFICES ASSUME RunInv, [Next]_vars PROVE RunInv'
  OBVIOUS
<1>1. CASE UNCHANGED vars
  <2>1. ClientTypeOK'
    BY <1>1, NextTypes DEF RunInv
  <2> QED
    BY <1>1, <2>1
       DEF vars, serverVars, netVars, RunInv, OnePost, Follows, Known, LogsTrue,
           NoStaleTimer, EndsOnlyWithItsJob, CancelOffered, Connected, Ended
<1>2. CASE Next
  BY <1>2, RunModelKeeps, PostArrivesKeeps, PostReturnsKeeps, ListenersKeep, PollsKeep,
     CancelsKeep, ServiceKeeps DEF Next, Posting, Listening
<1> QED
  BY <1>1, <1>2

\* The inductive invariant of the page of a patient user.
THEOREM RunHolds == ASSUME Patient PROVE Spec => []RunInv
BY InitRun, RunNext, PTL DEF Spec

\* The page of a patient user does not end the run of a job in progress,
\* whatever the network loses and other pages do.
THEOREM RunEndsWithItsJob == ASSUME Patient PROVE Spec => []EndsOnlyWithItsJob
<1>1. RunInv => EndsOnlyWithItsJob
  BY DEF RunInv
<1> QED
  BY <1>1, RunHolds, PTL

\* The page of a patient user offers the cancellation of its job in progress
\* until a request for it is on its way.
THEOREM CancelStaysOffered == ASSUME Patient PROVE Spec => []CancelOffered
<1>1. RunInv => CancelOffered
  BY DEF RunInv
<1> QED
  BY <1>1, RunHolds, PTL

-----------------------------------------------------------------------------
(* The requests in flight are counted by their copies.                     *)

LEMMA CopyOf ==
  ASSUME NEW B, NEW pair
  PROVE  pair \in Copies(B) <=>
           \E r \in DOMAIN B : \E i \in 1 .. B[r] : pair = <<r, i>>
BY DEF Copies

LEMMA NoCopies == Copies(EmptyBag) = {}
BY CopyOf DEF EmptyBag, SetToBag

\* A request that is sent is one copy more.
LEMMA AddCounts ==
  ASSUME NEW B, IsABag(B), IsFiniteSet(Copies(B)), NEW x
  PROVE  /\ IsFiniteSet(Copies(BagAdd(B, x)))
         /\ InFlight(BagAdd(B, x)) = InFlight(B) + 1
<1> DEFINE C == BagAdd(B, x)
           n == IF x \in DOMAIN B THEN B[x] + 1 ELSE 1
<1>1. /\ DOMAIN C = DOMAIN B \cup {x} /\ C[x] = n
      /\ \A r \in DOMAIN B : r # x => C[r] = B[r]
      /\ n \in Nat /\ n >= 1
      /\ x \in DOMAIN B => B[x] = n - 1
      /\ x \notin DOMAIN B => n = 1
  BY DEF BagAdd, IsABag
<1> HIDE DEF C, n
<1>2. <<x, n>> \notin Copies(B)
  BY <1>1, CopyOf
<1>3. ASSUME NEW pair PROVE pair \in Copies(C) <=> pair \in Copies(B) \/ pair = <<x, n>>
  <2>1. ASSUME NEW r \in DOMAIN C, NEW i \in 1 .. C[r], pair = <<r, i>>
        PROVE  pair \in Copies(B) \/ pair = <<x, n>>
    <3>1. CASE r # x
      BY <1>1, <2>1, <3>1, CopyOf
    <3>2. CASE r = x /\ i # n
      <4>1. x \in DOMAIN B /\ i \in 1 .. B[x]
        BY <1>1, <3>2
      <4> QED
        BY <2>1, <3>2, <4>1, CopyOf
    <3> QED
      BY <2>1, <3>1, <3>2
  <2>2. ASSUME NEW r \in DOMAIN B, NEW i \in 1 .. B[r], pair = <<r, i>>
        PROVE  pair \in Copies(C)
    <3>1. r \in DOMAIN C /\ i \in 1 .. C[r]
      BY <1>1
    <3> QED
      BY <2>2, <3>1, CopyOf
  <2>3. <<x, n>> \in Copies(C)
    BY <1>1, CopyOf
  <2> QED
    BY <2>1, <2>2, <2>3, CopyOf
<1>4. Copies(C) = Copies(B) \cup {<<x, n>>}
  BY <1>3
<1> QED
  BY <1>2, <1>4, FS_AddElement DEF InFlight, C

\* A request that is answered or lost is one copy less.
LEMMA RemoveCounts ==
  ASSUME NEW B, IsABag(B), IsFiniteSet(Copies(B)), NEW x \in BagToSet(B)
  PROVE  /\ IsFiniteSet(Copies(BagRemove(B, x)))
         /\ InFlight(BagRemove(B, x)) = InFlight(B) - 1
<1> DEFINE C == BagRemove(B, x)
           n == B[x]
<1>1. /\ x \in DOMAIN B /\ n \in Nat /\ n >= 1
      /\ DOMAIN C = IF n = 1 THEN DOMAIN B \ {x} ELSE DOMAIN B
      /\ n # 1 => C[x] = n - 1
      /\ \A r \in DOMAIN C : r # x => C[r] = B[r]
  BY DEF BagRemove, IsABag, BagToSet
<1> HIDE DEF C, n
<1>2. <<x, n>> \in Copies(B)
  BY <1>1, CopyOf DEF n
<1>3. ASSUME NEW pair PROVE pair \in Copies(C) <=> pair \in Copies(B) /\ pair # <<x, n>>
  <2>1. ASSUME NEW r \in DOMAIN C, NEW i \in 1 .. C[r], pair = <<r, i>>
        PROVE  pair \in Copies(B) /\ pair # <<x, n>>
    <3>1. r \in DOMAIN B /\ i \in 1 .. B[r] /\ (r = x => i # n)
      BY <1>1 DEF n
    <3> QED
      BY <2>1, <3>1, CopyOf
  <2>2. ASSUME NEW r \in DOMAIN B, NEW i \in 1 .. B[r], pair = <<r, i>>, pair # <<x, n>>
        PROVE  pair \in Copies(C)
    <3>1. r = x => n # 1 /\ i \in 1 .. n - 1
      BY <1>1, <2>2 DEF n
    <3>2. r \in DOMAIN C /\ i \in 1 .. C[r]
      BY <1>1, <3>1
    <3> QED
      BY <2>2, <3>2, CopyOf
  <2> QED
    BY <2>1, <2>2, CopyOf
<1>4. Copies(C) = Copies(B) \ {<<x, n>>}
  BY <1>3
<1> QED
  BY <1>2, <1>4, FS_RemoveElement DEF InFlight, C

\* The polls of two listeners are two copies.
LEMMA JoinAdds ==
  ASSUME NEW B, IsABag(B), NEW x
  PROVE  /\ B (+) [request \in {x} |-> 1] = BagAdd(B, x)
         /\ B (+) [request \in {x} |-> 2] = BagAdd(BagAdd(B, x), x)
<1> DEFINE at(r) == IF r \in DOMAIN B THEN B[r] ELSE 0
           Joined(n) == [r \in DOMAIN B \cup {x} |-> IF r = x THEN at(x) + n ELSE B[r]]
<1>1. \A r \in DOMAIN B : B[r] \in Nat
  BY DEF IsABag
<1>2. B (+) [request \in {x} |-> 1] = Joined(1) /\ B (+) [request \in {x} |-> 2] = Joined(2)
  BY <1>1 DEF (+)
<1>3. BagAdd(B, x) = Joined(1)
  BY DEF BagAdd
<1>4. BagAdd(Joined(1), x) = [r \in DOMAIN B \cup {x} |->
                                IF r = x THEN Joined(1)[x] + 1 ELSE Joined(1)[r]]
  BY DEF BagAdd
<1>5. (at(x) + 1) + 1 = at(x) + 2
  BY <1>1
<1>6. BagAdd(Joined(1), x) = Joined(2)
  BY <1>4, <1>5
<1> QED
  BY <1>2, <1>3, <1>6

LEMMA ReconcileCounts ==
  ASSUME ClientTypeOK, IsFiniteSet(Copies(polls)), NEW n \in {1, 2}, Reconcile(n)
  PROVE  /\ IsFiniteSet(Copies(polls'))
         /\ InFlight(polls) \in Nat /\ InFlight(polls') \in Nat
         /\ InFlight(polls') <= InFlight(polls) + n
<1>0. IsABag(polls) /\ InFlight(polls) \in Nat
  BY FS_CardinalityType DEF ClientTypeOK, InFlight
<1>1. CASE polls' = polls
  BY <1>0, <1>1
<1>2. CASE polls' = polls (+) [request \in {Asking(page.jobId)} |-> n]
  <2> DEFINE one == BagAdd(polls, Asking(page.jobId))
             two == BagAdd(one, Asking(page.jobId))
  <2>1. /\ IsABag(one) /\ IsFiniteSet(Copies(one))
        /\ InFlight(one) = InFlight(polls) + 1
    <3>1. BagToSet(polls) \subseteq BagToSet(polls) \cup {Asking(page.jobId)}
      OBVIOUS
    <3> QED
      BY <1>0, <3>1, AddCounts, BagGrows
  <2>2. IsFiniteSet(Copies(two)) /\ InFlight(two) = InFlight(one) + 1
    <3> HIDE DEF one
    <3> QED
      BY <2>1, AddCounts
  <2>3. polls' = IF n = 1 THEN one ELSE two
    BY <1>0, <1>2, JoinAdds
  <2> HIDE DEF one, two
  <2> QED
    BY <1>0, <2>1, <2>2, <2>3
<1> QED
  BY <1>1, <1>2 DEF Reconcile

\* The chains of polls start where a connection has ended, with one or two
\* requests, and until then there are no requests and there is no timer.
Quiet == \A j \in Jobs : Connected(j) => polls = EmptyBag /\ ~page.timer
CountInv == IsFiniteSet(Copies(polls)) /\ PollsBounded /\ Quiet

LEMMA InitCounts == Init => CountInv
<1> SUFFICES ASSUME Init PROVE CountInv
  OBVIOUS
<1>1. polls = EmptyBag /\ ~page.timer
  BY DEF Init
<1> QED
  BY <1>1, NoCopies, FS_EmptySet DEF CountInv, PollsBounded, Quiet, InFlight

\* A step that leaves the polls alone, starts no timer and, while there are
\* polls or a timer, makes no connection.
LEMMA CountsStay ==
  ASSUME CountInv, UNCHANGED polls, page.timer \in BOOLEAN, page'.timer \in BOOLEAN,
         page'.timer => page.timer,
         \/ \A j \in Jobs : Connected(j)' => Connected(j)
         \/ polls = EmptyBag /\ ~page.timer
  PROVE  CountInv'
<1>1. InFlight(polls) \in Nat
  BY FS_CardinalityType DEF CountInv, InFlight
<1>2. PollsBounded'
  BY <1>1 DEF CountInv, PollsBounded
<1> QED
  BY <1>2 DEF CountInv, Quiet

LEMMA ListenersCount ==
  ASSUME RunInv, CountInv, NEW j \in Jobs,
         SocketOpens(j) \/ Message(j) \/ SocketCloses(j) \/ SocketFails(j)
  PROVE  CountInv'
<1>1. ClientTypeOK /\ ClientTypeOK'
  BY ListenerTypes DEF RunInv
<1>2. page.timer \in BOOLEAN /\ page'.timer \in BOOLEAN
  BY <1>1 DEF ClientTypeOK
<1>3. Connected(j)
  BY DEF SocketOpens, Message, SocketCloses, SocketFails, Connected
<1>4. CASE Message(j)
  <2>1. \E type : page' = HandleEvent(page, type)
    BY <1>4 DEF Message
  <2>2. page'.timer => page.timer
    BY <1>1, <2>1 DEF HandleEvent, FinishUi, ClientTypeOK
  <2>3. UNCHANGED <<polls, socket>>
    BY <1>4 DEF Message
  <2> QED
    BY <1>2, <2>2, <2>3, CountsStay DEF Connected
<1>5. CASE SocketOpens(j) /\ UNCHANGED polls
  <2>1. UNCHANGED page /\ polls = EmptyBag /\ ~page.timer
    BY <1>3, <1>5 DEF SocketOpens, CountInv, Quiet
  <2> QED
    BY <1>2, <1>5, <2>1, CountsStay
<1>6. ASSUME NEW n \in {1, 2}, Reconcile(n), UNCHANGED page,
             NEW state \in {"closed", "failed"}, socket' = [socket EXCEPT ![j] = state]
      PROVE  CountInv'
  <2>1. polls = EmptyBag /\ ~page.timer
    BY <1>3 DEF CountInv, Quiet
  <2>2. InFlight(polls) = 0
    BY <2>1, NoCopies, FS_EmptySet DEF InFlight
  <2>3. /\ IsFiniteSet(Copies(polls')) /\ InFlight(polls') \in Nat
        /\ InFlight(polls') <= InFlight(polls) + n
    BY <1>1, <1>6, ReconcileCounts DEF CountInv
  <2>4. PollsBounded'
    BY <1>6, <2>1, <2>2, <2>3 DEF PollsBounded
  <2>5. \A i \in Jobs : Connected(i) => i = j
    BY <1>3 DEF RunInv, Follows
  <2>6. \A i \in Jobs : ~Connected(i)'
    BY <1>1, <1>6, <2>5 DEF Connected, ClientTypeOK
  <2> QED
    BY <2>3, <2>4, <2>6 DEF CountInv, Quiet
<1> QED
  BY <1>4, <1>5, <1>6 DEF SocketOpens, SocketCloses, SocketFails

LEMMA PollsCount ==
  ASSUME RunInv, CountInv, Polling \/ PollReturns \/ PollFails
  PROVE  CountInv'
<1>1. ClientTypeOK /\ ClientTypeOK'
  BY PollTypes DEF RunInv
<1>2. /\ page.timer \in BOOLEAN /\ page'.timer \in BOOLEAN
      /\ InFlight(polls) \in Nat /\ IsABag(polls) /\ IsFiniteSet(Copies(polls))
  BY <1>1, FS_CardinalityType DEF ClientTypeOK, CountInv, InFlight
<1>3. UNCHANGED socket
  BY DEF Polling, TimerFires, PollArrives, PollReturns, PollFails
<1>4. page.timer \/ BagToSet(polls) # {} => \A j \in Jobs : ~Connected(j)'
  BY <1>3, EmptyIsBag DEF CountInv, Quiet, Connected
<1>5. CASE TimerFires
  <2>1. page.timer /\ ~page'.timer /\ Reconcile(1)
    BY <1>1, <1>5 DEF TimerFires, ClientTypeOK
  <2>2. /\ IsFiniteSet(Copies(polls')) /\ InFlight(polls') \in Nat
        /\ InFlight(polls') <= InFlight(polls) + 1
    BY <1>1, <1>2, <2>1, ReconcileCounts
  <2> QED
    BY <1>2, <1>4, <2>1, <2>2 DEF CountInv, PollsBounded, Quiet
<1>6. CASE PollArrives
  <2>1. PICK j \in Jobs : /\ Asking(j) \in BagToSet(polls)
                         /\ polls' = BagAdd(BagRemove(polls, Asking(j)), JobStatus(j))
    BY <1>6 DEF PollArrives, BagIn
  <2>2. UNCHANGED page
    BY <1>6 DEF PollArrives
  <2> DEFINE rest == BagRemove(polls, Asking(j))
  <2>3. /\ IsABag(rest) /\ IsFiniteSet(Copies(rest))
        /\ InFlight(rest) = InFlight(polls) - 1
    BY <1>2, <2>1, BagShrinks, RemoveCounts
  <2>4. polls' = BagAdd(rest, JobStatus(j))
    BY <2>1
  <2> HIDE DEF rest
  <2>5. /\ IsFiniteSet(Copies(polls')) /\ InFlight(polls') = InFlight(rest) + 1
    BY <2>3, <2>4, AddCounts
  <2> QED
    BY <1>2, <1>4, <2>1, <2>2, <2>3, <2>5 DEF CountInv, PollsBounded, Quiet
<1>7. CASE PollReturns \/ PollFails
  <2>1. PICK poll \in BagToSet(polls) : polls' = BagRemove(polls, poll)
    BY <1>7 DEF PollReturns, PollFails
  <2>2. /\ IsFiniteSet(Copies(polls')) /\ InFlight(polls') = InFlight(polls) - 1
    BY <1>2, <2>1, RemoveCounts
  <2>3. PollsBounded'
    BY <1>2, <2>2 DEF CountInv, PollsBounded
  <2> QED
    BY <1>4, <2>1, <2>2, <2>3 DEF CountInv, Quiet
<1> QED
  BY <1>5, <1>6, <1>7 DEF Polling

\* Requests are posted while nothing polls, and no other step polls.
LEMMA OthersCount ==
  ASSUME RunInv, CountInv,
         \/ RunModel \/ PostArrives \/ PostReturns \/ PostFails
         \/ CancelJob \/ CancelArrives \/ CancelReturns
         \/ \E j \in Jobs : ServerStep(j) \/ OtherPage(j)
         \/ UNCHANGED vars
  PROVE  CountInv'
<1>1. ClientTypeOK /\ ClientTypeOK'
  BY RunModelTypes, PostArrivesTypes, PostReturnsTypes, OtherTypes, NextTypes DEF RunInv
<1>2. page.timer \in BOOLEAN /\ page'.timer \in BOOLEAN
  BY <1>1 DEF ClientTypeOK
<1>3. UNCHANGED polls
  BY DEF RunModel, PostArrives, PostReturns, PostFails, CancelJob, CancelArrives,
         CancelReturns, ServerStep, OtherPage, netVars, vars
<1>4. page'.timer => page.timer
  BY <1>1 DEF RunModel, PostArrives, PostReturns, PostFails, CancelJob, CancelArrives,
              CancelReturns, ServerStep, OtherPage, netVars, vars, FinishUi, CancelFailed,
              ClientTypeOK
<1>5. CASE PostReturns
  <2>1. posts # EmptyBag
    BY <1>5, EmptyIsBag DEF PostReturns
  <2>2. polls = EmptyBag /\ ~page.timer
    BY <2>1 DEF RunInv, OnePost
  <2> QED
    BY <1>2, <1>3, <1>4, <2>2, CountsStay
<1>6. CASE ~PostReturns
  <2>1. UNCHANGED socket
    BY <1>6 DEF RunModel, PostArrives, PostFails, CancelJob, CancelArrives,
                CancelReturns, ServerStep, OtherPage, netVars, vars
  <2> QED
    BY <1>2, <1>3, <1>4, <2>1, CountsStay DEF Connected
<1> QED
  BY <1>5, <1>6

LEMMA CountNext ==
  ASSUME Patient PROVE RunInv /\ CountInv /\ [Next]_vars => RunInv' /\ CountInv'
<1> SUFFICES ASSUME RunInv, CountInv, [Next]_vars PROVE RunInv' /\ CountInv'
  OBVIOUS
<1>1. RunInv'
  BY RunNext
<1>2. CountInv'
  BY ListenersCount, PollsCount, OthersCount DEF Next, Posting, Listening
<1> QED
  BY <1>1, <1>2

\* The chains of polls of a patient user's page do not multiply: whatever the
\* network loses, at most two polls and timers are pending.
THEOREM PollsStayBounded == ASSUME Patient PROVE Spec => []ClientInv
<1>1. Init => RunInv /\ CountInv
  BY InitRun, InitCounts
<1>2. RunInv /\ CountInv => ClientInv
  BY DEF RunInv, CountInv, ClientInv
<1> QED
  BY <1>1, <1>2, CountNext, PTL DEF Spec
=============================================================================
