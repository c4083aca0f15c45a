-------------------------- MODULE SimulationService --------------------------
(***************************************************************************)
(* What the backend promises to the clients of its jobs, without tasks,    *)
(* processes or signals: jobs run one at a time, a job logs its progress   *)
(* in order, and its log ends with one event that announces how it ended.  *)
(***************************************************************************)
EXTENDS JobEvents

CONSTANTS Jobs, MaxBatches

VARIABLES phase, log

vars == <<phase, log>>

\* The event that announces each verdict.
Announcement == [completed |-> Ev("complete", 0),
                 failed    |-> Ev("error", 0),
                 cancelled |-> Ev("cancelled", 0)]
Verdicts == DOMAIN Announcement

Init ==
  /\ phase = [j \in Jobs |-> "absent"]
  /\ log = [j \in Jobs |-> EmptyLog]

\* A job is accepted when no other is in progress.
Accept(j) ==
  /\ phase[j] = "absent"
  /\ \A i \in Jobs : phase[i] # "live"
  /\ phase' = [phase EXCEPT ![j] = "live"]
  /\ UNCHANGED log

\* The progress of a script: start, then its batches in order.
ProgressEvent(n) == IF n = 0 THEN Ev("start", 0) ELSE Ev("batch", n)

Progress(j) ==
  /\ phase[j] = "live"
  /\ Len(log[j].history) <= MaxBatches
  /\ log' = [log EXCEPT ![j] = Publish(@, ProgressEvent(Len(@.history)))]
  /\ UNCHANGED phase

\* A job completes only after its whole progress.
Decide(j, v) ==
  /\ phase[j] = "live"
  /\ v = "completed" => Len(log[j].history) = MaxBatches + 1
  /\ phase' = [phase EXCEPT ![j] = v]
  /\ \/ log' = [log EXCEPT ![j] = Publish(@, Announcement[v])]
     \/ v = "failed" /\ UNCHANGED log

\* A failure may be announced later than it is decided.
Announce(j) ==
  /\ phase[j] = "failed" /\ ~log[j].closed
  /\ log' = [log EXCEPT ![j] = Publish(@, Announcement["failed"])]
  /\ UNCHANGED phase

\* A job may be lost: it ends without a verdict.
Lose(j) ==
  /\ phase[j] = "live"
  /\ phase' = [phase EXCEPT ![j] = "lost"]
  /\ UNCHANGED log

Next ==
  \E j \in Jobs :
    Accept(j) \/ Progress(j) \/ Announce(j) \/ Lose(j)
      \/ \E v \in Verdicts : Decide(j, v)

Spec == Init /\ [][Next]_vars
=============================================================================
