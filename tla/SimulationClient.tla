-------------------------- MODULE SimulationClient --------------------------
(***************************************************************************)
(* The web page (static/app.js) against the service its backend promises   *)
(* (SimulationService.tla): a run is a POST, a WebSocket that may fail,    *)
(* and polling after it failed.  One action is one handler of the page up  *)
(* to its next await, or what happens to a request on the network.         *)
(*                                                                         *)
(* The page shows a job as running while terminal is false.  What it draws *)
(* is left out.                                                            *)
(***************************************************************************)
EXTENDS JobEvents, FiniteSets, Bags

INSTANCE BagsExt

CONSTANTS
  Jobs, MaxBatches, NoJob,
  MaxRuns,    \* POST requests in flight: a bound of the model
  MaxPolls,   \* status requests in flight: a bound of the model
  Network,    \* what may fail
  Outsiders,  \* whether another page creates jobs too
  Patient     \* whether the user waits until the last run is settled

ASSUME ClientAssumption ==
  /\ NoJob \notin Jobs
  /\ {MaxBatches, MaxRuns, MaxPolls} \subseteq Nat
  /\ Network \subseteq {"socket", "http"}
  /\ {Outsiders, Patient} \subseteq BOOLEAN

VARIABLES
  phase, log,  \* the service
  latest,      \* the only key of JobManager.jobs
  asked,       \* jobs whose cancellation has reached the server
  page,        \* state of app.js, and whether the cancel button is enabled
  posts,       \* the bag of requests POST /api/jobs in flight
  polls,       \* the bag of requests GET /api/jobs/{id} in flight
  cancel,      \* the job of the cancel request in flight
  socket,      \* the WebSocket of each job
  seen,        \* how many events each has delivered
  told         \* jobs whose end the page has learned

serverVars == <<phase, log, latest, asked>>
netVars == <<posts, polls, cancel, socket, seen>>
vars == <<serverVars, page, netVars, told>>

Service == INSTANCE SimulationService

\* Requests and their answers.
Sent == [state |-> "sent", job |-> NoJob]
Accepted(j) == [state |-> "accepted", job |-> j]
Rejected == [state |-> "rejected", job |-> NoJob]
Posts == {Sent, Rejected} \cup {Accepted(j) : j \in Jobs}

Asking(j) == [job |-> j, state |-> "sent", last |-> "none", terminal |-> FALSE]
Polls == [job : Jobs, state : {"sent", "not found", "ok"},
          last : {"none"} \cup ScriptTypes \cup {"cancelled"}, terminal : BOOLEAN]

ClientTypeOK ==
  /\ phase \in [Jobs -> {"absent", "live"} \cup Service!Verdicts]
  /\ log \in [Jobs -> HubLog]
  /\ latest \in Jobs \cup {NoJob}
  /\ asked \subseteq Jobs
  /\ page \in [terminal : BOOLEAN, jobId : Jobs \cup {NoJob},
               cancellable : BOOLEAN, timer : BOOLEAN]
  /\ IsABag(posts) /\ BagToSet(posts) \subseteq Posts
  /\ IsABag(polls) /\ BagToSet(polls) \subseteq Polls
  /\ cancel \in Jobs \cup {NoJob}
  /\ socket \in [Jobs -> {"none", "connecting", "open", "closed", "failed"}]
  /\ seen \in [Jobs -> Nat]
  /\ told \subseteq Jobs

Init ==
  /\ Service!Init
  /\ latest = NoJob
  /\ asked = {}
  /\ page = [terminal |-> TRUE, jobId |-> NoJob, cancellable |-> FALSE, timer |-> FALSE]
  /\ posts = EmptyBag /\ polls = EmptyBag
  /\ cancel = NoJob
  /\ socket = [j \in Jobs |-> "none"]
  /\ seen = [j \in Jobs |-> 0]
  /\ told = {}

-----------------------------------------------------------------------------
(* What the handlers do to the state of the page                           *)

\* finishUi
FinishUi(p) == [p EXCEPT !.terminal = TRUE, !.timer = FALSE, !.cancellable = FALSE]

\* handleEvent
HandleEvent(p, type) ==
  IF type = "start" THEN [p EXCEPT !.terminal = FALSE]
  ELSE IF type \in TerminalTypes THEN FinishUi(p)
  ELSE p

\* scheduleReconcile
ScheduleReconcile(p) == [p EXCEPT !.timer = @ \/ (p.jobId # NoJob /\ ~p.terminal)]

\* The requests that n calls of reconcileJob add to those in flight.
Reconcile(n) ==
  polls' = IF page.jobId = NoJob \/ page.terminal THEN polls
           ELSE polls (+) [request \in {Asking(page.jobId)} |-> n]

\* The copies of the requests in a bag, and their number.
Copies(requests) == UNION {{r} \X (1 .. requests[r]) : r \in DOMAIN requests}
InFlight(requests) == Cardinality(Copies(requests))

Room(n) == InFlight(polls) + n <= MaxPolls

-----------------------------------------------------------------------------
(* runModel                                                                *)

Settled ==
  /\ polls = EmptyBag /\ posts = EmptyBag /\ cancel = NoJob
  /\ \A j \in Jobs : socket[j] \in {"none", "closed", "failed"}

\* The button is pressed: the request goes out.
RunModel ==
  /\ page.terminal /\ (Patient => Settled)
  /\ InFlight(posts) < MaxRuns
  /\ posts' = BagAdd(posts, Sent)
  /\ page' = [page EXCEPT !.terminal = FALSE, !.cancellable = FALSE]
  /\ UNCHANGED <<serverVars, polls, cancel, socket, seen, told>>

\* POST /api/jobs arrives: 202, or 409 and 422, which end alike for the page.
PostArrives ==
  /\ BagIn(Sent, posts)
  /\ \/ \E j \in Jobs :
          /\ Service!Accept(j)
          /\ latest' = j
          /\ posts' = BagAdd(BagRemove(posts, Sent), Accepted(j))
     \/ /\ posts' = BagAdd(BagRemove(posts, Sent), Rejected)
        /\ UNCHANGED <<phase, log, latest>>
  /\ UNCHANGED <<asked, page, polls, cancel, socket, seen, told>>

\* The answer: connectWebSocket, or the end.
PostReturns ==
  /\ \E post \in BagToSet(posts) :
       /\ posts' = BagRemove(posts, post)
       /\ \/ /\ post.state = "accepted"
             /\ page' = [page EXCEPT !.jobId = post.job, !.cancellable = TRUE]
             /\ socket' = [socket EXCEPT ![post.job] = "connecting"]
          \/ /\ post.state = "rejected"
             /\ page' = FinishUi(page)
             /\ UNCHANGED socket
  /\ UNCHANGED <<serverVars, polls, cancel, seen, told>>

\* The request or its answer is lost.
PostFails ==
  /\ "http" \in Network
  /\ \E post \in BagToSet(posts) : posts' = BagRemove(posts, post)
  /\ page' = FinishUi(page)
  /\ UNCHANGED <<serverVars, polls, cancel, socket, seen, told>>

-----------------------------------------------------------------------------
(* The listeners of the WebSocket                                          *)

\* job_events answers 4404, a close event, if the job has been replaced.
SocketOpens(j) ==
  /\ socket[j] = "connecting"
  /\ \/ latest = j /\ socket' = [socket EXCEPT ![j] = "open"] /\ UNCHANGED polls
     \/ latest # j /\ Room(1) /\ socket' = [socket EXCEPT ![j] = "closed"]
        /\ Reconcile(1)
  /\ UNCHANGED <<serverVars, page, posts, cancel, seen, told>>

Message(j) ==
  /\ socket[j] = "open" /\ seen[j] < Len(log[j].history)
  /\ seen' = [seen EXCEPT ![j] = @ + 1]
  /\ LET type == log[j].history[seen'[j]].type IN
       /\ page' = HandleEvent(page, type)
       /\ told' = told \cup (IF type \in TerminalTypes THEN {j} ELSE {})
  /\ UNCHANGED <<serverVars, posts, polls, cancel, socket>>

\* The server closes the connection behind the terminal event.
SocketCloses(j) ==
  /\ socket[j] = "open" /\ log[j].closed /\ seen[j] = Len(log[j].history)
  /\ Room(1)
  /\ socket' = [socket EXCEPT ![j] = "closed"]
  /\ Reconcile(1)
  /\ UNCHANGED <<serverVars, page, posts, cancel, seen, told>>

\* Mutant: the listeners do not poll.
SocketFailsQuietly(j) ==
  /\ "socket" \in Network /\ socket[j] \in {"connecting", "open"}
  /\ socket' = [socket EXCEPT ![j] = "failed"]
  /\ UNCHANGED <<serverVars, page, posts, polls, cancel, seen, told>>

\* The connection breaks: an error event and a close event, each of which
\* calls reconcileJob.
SocketFails(j) ==
  /\ "socket" \in Network /\ socket[j] \in {"connecting", "open"}
  /\ Room(2)
  /\ socket' = [socket EXCEPT ![j] = "failed"]
  /\ Reconcile(2)
  /\ UNCHANGED <<serverVars, page, posts, cancel, seen, told>>

-----------------------------------------------------------------------------
(* reconcileJob                                                            *)

\* Mutant: the handle of the timer is not cleared.
TimerStays ==
  /\ page.timer /\ Room(1)
  /\ Reconcile(1)
  /\ UNCHANGED <<serverVars, page, posts, cancel, socket, seen, told>>

TimerFires ==
  /\ page.timer /\ Room(1)
  /\ page' = [page EXCEPT !.timer = FALSE]
  /\ Reconcile(1)
  /\ UNCHANGED <<serverVars, posts, cancel, socket, seen, told>>

\* job_status
JobStatus(j) ==
  IF j = latest
  THEN [job |-> j, state |-> "ok",
        last |-> IF log[j].history = << >> THEN "none"
                 ELSE log[j].history[Len(log[j].history)].type,
        terminal |-> phase[j] \in Service!Verdicts]
  ELSE [job |-> j, state |-> "not found", last |-> "none", terminal |-> FALSE]

PollArrives ==
  /\ \E j \in Jobs :
       /\ BagIn(Asking(j), polls)
       /\ polls' = BagAdd(BagRemove(polls, Asking(j)), JobStatus(j))
  /\ UNCHANGED <<serverVars, page, posts, cancel, socket, seen, told>>

\* Mutant: an answer without a terminal event ends the page.
EndedByAnyAnswer(p, poll) == FinishUi(HandleEvent(p, poll.last))

\* After the answer: the last event is handled, then the end or the next poll.
Reconciled(p, poll) ==
  LET q == HandleEvent(p, poll.last) IN
  IF poll.state = "not found" THEN ScheduleReconcile(p)
  ELSE IF ~poll.terminal THEN ScheduleReconcile(q)
  ELSE IF q.terminal THEN q ELSE FinishUi(q)

PollReturns ==
  /\ \E poll \in BagToSet(polls) :
       /\ poll.state # "sent"
       /\ polls' = BagRemove(polls, poll)
       /\ page' = Reconciled(page, poll)
       /\ told' = told \cup (IF poll.terminal THEN {poll.job} ELSE {})
  /\ UNCHANGED <<serverVars, posts, cancel, socket, seen>>

\* The answer is lost or an error; a lost request is the same to the page.
PollFails ==
  /\ "http" \in Network
  /\ \E poll \in BagToSet(polls) :
       poll.state # "sent" /\ polls' = BagRemove(polls, poll)
  /\ page' = ScheduleReconcile(page)
  /\ UNCHANGED <<serverVars, posts, cancel, socket, seen, told>>

-----------------------------------------------------------------------------
(* cancelJob                                                               *)

CancelJob ==
  /\ page.cancellable /\ page.jobId # NoJob /\ ~page.terminal
  /\ cancel = NoJob
  /\ cancel' = page.jobId
  /\ page' = [page EXCEPT !.cancellable = FALSE]
  /\ UNCHANGED <<serverVars, posts, polls, socket, seen, told>>

CancelArrives ==
  /\ cancel # NoJob /\ cancel = latest /\ cancel \notin asked
  /\ asked' = asked \cup {cancel}
  /\ UNCHANGED <<phase, log, latest, page, netVars, told>>

\* Mutant: the button stays disabled.
CancelForgets(p) == p

\* catch: the button is enabled again.
CancelFailed(p) == [p EXCEPT !.cancellable = TRUE]

CancelReturns ==
  /\ cancel # NoJob
  /\ cancel' = NoJob
  /\ \/ cancel \in asked /\ UNCHANGED page
     \/ (cancel # latest \/ "http" \in Network) /\ page' = CancelFailed(page)
  /\ UNCHANGED <<serverVars, posts, polls, socket, seen, told>>

-----------------------------------------------------------------------------
(* The service, and other pages                                            *)

ServerStep(j) ==
  /\ \/ Service!Progress(j) \/ Service!Announce(j)
     \/ \E v \in Service!Verdicts : Service!Decide(j, v)
  /\ UNCHANGED <<latest, asked, page, netVars, told>>

OtherPage(j) ==
  /\ Outsiders
  /\ Service!Accept(j)
  /\ latest' = j
  /\ UNCHANGED <<asked, page, netVars, told>>

-----------------------------------------------------------------------------
Posting == PostArrives \/ PostReturns
Polling == TimerFires \/ PollArrives
Listening(j) == SocketOpens(j) \/ Message(j) \/ SocketCloses(j)

Next ==
  \/ RunModel \/ CancelJob
  \/ Posting \/ PostFails
  \/ Polling \/ PollReturns \/ PollFails
  \/ CancelArrives \/ CancelReturns
  \/ \E j \in Jobs : Listening(j) \/ SocketFails(j) \/ ServerStep(j) \/ OtherPage(j)

Spec == Init /\ [][Next]_vars

\* The service decides and announces; requests and messages arrive, and of
\* infinitely many answers to polls not all are lost.  The user does nothing.
FairSpec ==
  /\ Spec
  /\ WF_vars(Posting) /\ WF_vars(Polling) /\ SF_vars(PollReturns)
  /\ \A j \in Jobs : WF_vars(Listening(j)) /\ WF_vars(ServerStep(j))

-----------------------------------------------------------------------------
(* Properties *)

\* The two listeners of a broken connection both start to poll, and the chains
\* of polls that they start do not multiply: their timer is shared.
PollsBounded ==
  InFlight(polls) + (IF page.timer THEN 1 ELSE 0) <= 2
ClientInv == ClientTypeOK /\ PollsBounded

\* A page that says that its run has ended does not follow a job in
\* progress, which it could neither cancel nor see the end of.
EndsOnlyWithItsJob ==
  page.terminal /\ page.jobId # NoJob /\ posts = EmptyBag =>
    phase[page.jobId] # "live"

\* While the job of the page runs the user can ask for its cancellation,
\* unless a request is on its way or has arrived.
CancelOffered ==
  ~page.terminal /\ page.jobId # NoJob /\ posts = EmptyBag =>
    \/ phase[page.jobId] # "live"
    \/ page.jobId \in asked \/ cancel = page.jobId
    \/ page.cancellable

\* Another page has started a job in place of the one of this page.
Replaced == page.jobId # NoJob /\ latest # page.jobId

\* Every run ends on the page, by an event, a poll or an error, also after a
\* broken connection and however many polls fail, unless its job is replaced
\* before the page learns its end.
RunSettles == ~page.terminal ~> page.terminal \/ []Replaced

\* "Recupera el estado por HTTP si WebSocket se cierra antes del evento
\* terminal." (app.js, reconcileJob): after its connection broke the page
\* still learns that its job has ended.
StateRecovered ==
  \A j \in Jobs :
    socket[j] = "failed" /\ page.jobId = j /\ phase[j] \in Service!Verdicts
      ~> j \in told \/ page.jobId # j
=============================================================================
