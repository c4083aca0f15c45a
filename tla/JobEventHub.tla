---------------------------- MODULE JobEventHub ----------------------------
(***************************************************************************)
(* The event hub of one job and the WebSocket sessions that follow it      *)
(* (JobEventHub in job_manager.py, job_events in server.py): a session     *)
(* replays the history it finds and then forwards what its queue receives, *)
(* until the sentinel None.                                                *)
(*                                                                         *)
(* publish, subscribe and unsubscribe never suspend while they hold the    *)
(* lock of the hub, so each is one action; a session suspends at every     *)
(* send.                                                                   *)
(***************************************************************************)
EXTENDS JobEvents

CONSTANTS
  Sessions,    \* WebSocket connections to /ws/jobs/{job_id}
  MaxProgress  \* events before the terminal one: a bound of the model

ASSUME HubAssumption == MaxProgress \in Nat

VARIABLES
  log,          \* history and closed of the hub
  subscribers,  \* the sessions whose queue is in JobEventHub.subscribers
  queue,        \* the asyncio.Queue of each session
  found,        \* JobManager.jobs still holds the job
  spc,          \* where the handler of each session is
  known,        \* the handler found the job before it accepted
  live,         \* subscribe gave the session a queue
  replay,       \* what is left of the history it replays
  sent,         \* what it has sent
  online        \* the client is still there

hubVars == <<log, subscribers, queue>>
sessionVars == <<spc, known, live, replay, sent>>
vars == <<hubVars, found, sessionVars, online>>

\* The sentinel None that ends a queue, and what a queue may hold.
None == [type |-> "none", n |-> 0]
Entry == Event \cup {None}

TypeOK ==
  /\ log \in HubLog
  /\ subscribers \subseteq Sessions
  /\ queue \in [Sessions -> Seq(Entry)]
  /\ found \in BOOLEAN
  /\ spc \in [Sessions -> {"idle", "accept", "replay", "forward",
                           "closed", "refused", "lost"}]
  /\ known \in [Sessions -> BOOLEAN]
  /\ live \in [Sessions -> BOOLEAN]
  /\ replay \in [Sessions -> Seq(Event)]
  /\ sent \in [Sessions -> Seq(Event)]
  /\ online \in [Sessions -> BOOLEAN]

Init ==
  /\ log = EmptyLog
  /\ subscribers = {}
  /\ queue = [s \in Sessions |-> << >>]
  /\ found = TRUE
  /\ spc = [s \in Sessions |-> "idle"]
  /\ known = [s \in Sessions |-> FALSE]
  /\ live = [s \in Sessions |-> FALSE]
  /\ replay = [s \in Sessions |-> << >>]
  /\ sent = [s \in Sessions |-> << >>]
  /\ online = [s \in Sessions |-> TRUE]

-----------------------------------------------------------------------------
(* The job publishes (Job.run) and may be replaced (create_job)            *)

\* Mutant: nothing follows a terminal event.
PublishUnended(event) ==
  /\ ~log.closed
  /\ log' = Publish(log, event)
  /\ queue' = [s \in Sessions |->
                 IF s \in subscribers THEN Append(queue[s], event) ELSE queue[s]]
  /\ UNCHANGED <<subscribers, found, sessionVars, online>>

\* publish: every subscriber gets the event and, behind a terminal event,
\* the sentinel; a closed hub ignores the call.
PublishEvent(event) ==
  /\ ~log.closed
  /\ log' = Publish(log, event)
  /\ queue' = [s \in Sessions |->
                 IF s \notin subscribers THEN queue[s]
                 ELSE IF log'.closed THEN Append(Append(queue[s], event), None)
                 ELSE Append(queue[s], event)]
  /\ UNCHANGED <<subscribers, found, sessionVars, online>>

PublishProgress ==
  /\ Len(log.history) < MaxProgress
  /\ PublishEvent(IF log.history = << >> THEN Ev("start", 0)
                  ELSE Ev("batch", Len(log.history)))

PublishVerdict == \E type \in TerminalTypes : PublishEvent(Ev(type, 0))

\* The next job takes the place of this one in JobManager.jobs.
Replaced == found /\ found' = FALSE /\ UNCHANGED <<hubVars, sessionVars, online>>

-----------------------------------------------------------------------------
(* job_events                                                              *)

\* The handler looks the job up, then suspends in accept.
Open(s) ==
  /\ spc[s] = "idle"
  /\ spc' = [spc EXCEPT ![s] = "accept"]
  /\ known' = [known EXCEPT ![s] = found]
  /\ UNCHANGED <<hubVars, found, live, replay, sent, online>>

\* Mutant: a closed hub still gives a queue.
SubscribeToClosed(s) ==
  /\ spc[s] = "accept" /\ known[s]
  /\ spc' = [spc EXCEPT ![s] = "replay"]
  /\ replay' = [replay EXCEPT ![s] = log.history]
  /\ live' = [live EXCEPT ![s] = TRUE]
  /\ subscribers' = subscribers \cup {s}
  /\ UNCHANGED <<log, queue, found, known, sent, online>>

\* Mutant: the queue is not added under the lock that guards the history.
SubscribeUnlocked(s) ==
  /\ spc[s] = "accept" /\ known[s]
  /\ spc' = [spc EXCEPT ![s] = "replay"]
  /\ replay' = [replay EXCEPT ![s] = log.history]
  /\ live' = [live EXCEPT ![s] = ~log.closed]
  /\ UNCHANGED <<log, subscribers, queue, found, known, sent, online>>

\* subscribe: the history to replay, and a queue unless the hub is closed.
Subscribe(s) ==
  /\ spc[s] = "accept" /\ known[s]
  /\ spc' = [spc EXCEPT ![s] = "replay"]
  /\ replay' = [replay EXCEPT ![s] = log.history]
  /\ live' = [live EXCEPT ![s] = ~log.closed]
  /\ subscribers' = IF log.closed THEN subscribers ELSE subscribers \cup {s}
  /\ UNCHANGED <<log, queue, found, known, sent, online>>

\* close(4404) of an unknown job.
Refuse(s) ==
  /\ spc[s] = "accept" /\ ~known[s]
  /\ spc' = [spc EXCEPT ![s] = "refused"]
  /\ UNCHANGED <<hubVars, found, known, live, replay, sent, online>>

\* Mutant: only a closed connection unsubscribes, not a failed one.
EndWithoutFinally(s, how) ==
  /\ spc' = [spc EXCEPT ![s] = how]
  /\ subscribers' = IF how = "closed" THEN subscribers \ {s} ELSE subscribers
  /\ UNCHANGED <<log, found, known, live, online>>

\* The end of the handler: its finally clause unsubscribes the queue.
End(s, how) ==
  /\ spc' = [spc EXCEPT ![s] = how]
  /\ subscribers' = subscribers \ {s}
  /\ UNCHANGED <<log, found, known, live, online>>

\* send_json: a client that has left raises WebSocketDisconnect.
Send(s, event) ==
  \/ /\ online[s]
     /\ sent' = [sent EXCEPT ![s] = Append(@, event)]
     /\ UNCHANGED <<log, subscribers, found, spc, known, live, online>>
  \/ ~online[s] /\ End(s, "lost") /\ UNCHANGED sent

SendReplay(s) ==
  /\ spc[s] = "replay" /\ replay[s] # << >>
  /\ Send(s, Head(replay[s]))
  /\ replay' = [replay EXCEPT ![s] = Tail(@)]
  /\ UNCHANGED queue

\* Mutant: the handler closes whatever subscribe returned.
EndAfterReplay(s) ==
  /\ spc[s] = "replay" /\ replay[s] = << >>
  /\ End(s, "closed")
  /\ UNCHANGED <<queue, replay, sent>>

EndReplay(s) ==
  /\ spc[s] = "replay" /\ replay[s] = << >>
  /\ IF live[s]
     THEN /\ spc' = [spc EXCEPT ![s] = "forward"]
          /\ UNCHANGED <<log, subscribers, found, known, live, online>>
     ELSE End(s, "closed")
  /\ UNCHANGED <<queue, replay, sent>>

Forward(s) ==
  /\ spc[s] = "forward" /\ queue[s] # << >>
  /\ queue' = [queue EXCEPT ![s] = Tail(@)]
  /\ IF Head(queue[s]) = None THEN End(s, "closed") /\ UNCHANGED sent
                              ELSE Send(s, Head(queue[s]))
  /\ UNCHANGED replay

\* The client leaves; the handler notices at its next send.
Leave(s) ==
  /\ online[s]
  /\ online' = [online EXCEPT ![s] = FALSE]
  /\ UNCHANGED <<hubVars, found, sessionVars>>

-----------------------------------------------------------------------------
Handler(s) == Subscribe(s) \/ Refuse(s) \/ SendReplay(s) \/ EndReplay(s) \/ Forward(s)

Next ==
  \/ PublishProgress
  \/ PublishVerdict
  \/ Replaced
  \/ \E s \in Sessions : Open(s) \/ Handler(s) \/ Leave(s)

Spec == Init /\ [][Next]_vars

\* The event loop runs the handlers; nothing makes a job publish, a client
\* connect or a client leave.
FairSpec == Spec /\ \A s \in Sessions : WF_vars(Handler(s))

-----------------------------------------------------------------------------
(* Properties *)

Following(s) == spc[s] \in {"replay", "forward"}

\* What a session has sent, still replays and has queued is the history of
\* the hub, with the sentinel behind it once the hub is closed: the switch
\* from the replay to the queue loses, repeats and reorders nothing.
NothingLost ==
  \A s \in Sessions : Following(s) =>
    sent[s] \o replay[s] \o queue[s] =
      IF live[s] /\ log.closed THEN Append(log.history, None) ELSE log.history

\* A session that the server closes normally has sent the whole history, up
\* to the terminal event.
ClosedIsComplete ==
  \A s \in Sessions : spc[s] = "closed" => log.closed /\ sent[s] = log.history

\* The hub holds the queues of the sessions in progress and no other: a
\* handler that ended, for whatever reason, receives nothing more.
SubscribersFollow ==
  subscribers = {s \in Sessions : Following(s) /\ live[s]}

\* Once the job has a verdict every handler ends, also that of a client that
\* left without a word.
SessionsEnd ==
  \A s \in Sessions :
    log.closed /\ Following(s) ~> spc[s] \in {"closed", "lost"}

\* The induction behind the three invariants: a session has nothing queued
\* before it subscribes, forwards only after its replay, and has no queue only
\* if it found the hub closed.
SessionStages ==
  \A s \in Sessions :
    /\ spc[s] \in {"idle", "accept"} => queue[s] = << >> /\ sent[s] = << >>
    /\ spc[s] = "forward" => live[s] /\ replay[s] = << >>
    /\ Following(s) /\ ~live[s] => log.closed /\ queue[s] = << >>
HubInv ==
  /\ TypeOK /\ SessionStages
  /\ NothingLost /\ ClosedIsComplete /\ SubscribersFollow
=============================================================================
