----------------------------- MODULE JobManager -----------------------------
(***************************************************************************)
(* The server side of a simulation job (job_manager.py and the handlers of *)
(* server.py that drive it): the manager's single slot, one asyncio task   *)
(* per job that spawns the generated script and reads its standard output, *)
(* HTTP handlers that cancel, and the shutdown of the application, beside  *)
(* the subprocesses of JobProcess.tla.                                     *)
(*                                                                         *)
(* One action is what a task does between two suspensions of the event     *)
(* loop.  The locks of the code guard sections without an await, so they   *)
(* are never contended and do not appear.                                  *)
(***************************************************************************)
EXTENDS JobProcess

CONSTANTS
  Cancellers,  \* concurrent requests POST /api/jobs/{id}/cancel
  Lifespan,    \* the task that runs JobManager.shutdown
  NoJob,       \* None, where a job is expected
  CanShutdown  \* whether the application may be stopped

ASSUME ConstantsAssumption ==
  /\ NoJob \notin Jobs
  /\ Lifespan \notin Cancellers
  /\ Jobs \cap (Cancellers \cup {Lifespan}) = {}
  /\ CanShutdown \in BOOLEAN

Callers == Cancellers \cup {Lifespan}

VARIABLES
  \* Job: its fields and the local variables of Job.run
  status, cancelRequested, hub, saw, terminalEvent,
  pc,             \* where the task of the job is suspended
  cancelPending,  \* Task.cancel() was called and not yet delivered
  \* JobManager: the key of _active_job_id and the only key of jobs
  active, current,
  \* the coroutines _terminate_process_tree and Job.cancel, per caller
  stage, target,
  server

runVars == <<status, cancelRequested, hub, saw, terminalEvent, pc>>
mgrVars == <<active, current>>
vars == <<runVars, cancelPending, mgrVars, stage, target, server, processVars>>

TerminalStatus == {"completed", "failed", "cancelled"}
Terminal(j) == status[j] \in TerminalStatus

TypeOK ==
  /\ status \in [Jobs -> {"created", "running"} \cup TerminalStatus]
  /\ cancelRequested \in [Jobs -> BOOLEAN]
  /\ hub \in [Jobs -> HubLog]
  /\ saw \in [Jobs -> SUBSET {"complete", "error"}]
  /\ terminalEvent \in [Jobs -> {"none", "complete", "error"}]
  /\ \A j \in Jobs : saw[j] # {} => terminalEvent[j] # "none"  \* the asserts
  /\ pc \in [Jobs -> {"unborn", "new", "spawn", "read", "wait", "stderr",
                      "killC", "killE", "done"}]
  /\ cancelPending \in [Jobs -> BOOLEAN]
  /\ ProcessTypeOK
  /\ active \in Jobs \cup {NoJob}
  /\ current \in Jobs \cup {NoJob}
  /\ stage \in [Jobs \cup Callers ->
                  {"idle", "term", "kill", "reap", "task", "done"}]
  /\ target \in [Callers -> Jobs \cup {NoJob}]
  /\ server \in {"up", "stopping", "closed"}

Init ==
  /\ status = [j \in Jobs |-> "created"]
  /\ cancelRequested = [j \in Jobs |-> FALSE]
  /\ hub = [j \in Jobs |-> EmptyLog]
  /\ saw = [j \in Jobs |-> {}]
  /\ terminalEvent = [j \in Jobs |-> "none"]
  /\ pc = [j \in Jobs |-> "unborn"]
  /\ cancelPending = [j \in Jobs |-> FALSE]
  /\ ProcessInit
  /\ active = NoJob
  /\ current = NoJob
  /\ stage = [w \in Jobs \cup Callers |-> "idle"]
  /\ target = [c \in Callers |-> NoJob]
  /\ server = "up"

-----------------------------------------------------------------------------
(* JobManager.create_job                                                   *)

\* Mutant: a job that was asked to stop no longer counts.
SlotFreeOnceCancelled ==
  active # NoJob => Terminal(active) \/ cancelRequested[active]

\* The slot is free, or what occupies it already has a terminal status.
SlotAvailable == active # NoJob => Terminal(active)

Create(j) ==
  /\ server = "up"
  /\ pc[j] = "unborn"
  /\ SlotAvailable
  /\ active' = j
  /\ current' = j
  /\ pc' = [pc EXCEPT ![j] = "new"]
  /\ UNCHANGED <<status, cancelRequested, hub, saw, terminalEvent,
                 cancelPending, processVars, stage, target, server>>

-----------------------------------------------------------------------------
(* _terminate_process_tree on POSIX                                        *)

\* self.process is not None between the spawn and the finally of Job.run.
HasProcess(j) == pc[j] \in {"read", "wait", "stderr", "killC", "killE"}

\* Mutant: the second of two terminations trusts the first.
TerminatedBefore(j) ==
  ~HasProcess(j) \/ reaped[j] \/ proc[j] = "exited" \/ cancelRequested[j]

\* It returns at once when there is no process, when its return code is
\* known, or when the process group is already gone (ProcessLookupError).
NothingToTerminate(j) ==
  ~HasProcess(j) \/ reaped[j] \/ proc[j] = "exited"

BeginTerminate(w, j) ==
  /\ HasProcess(j) /\ ~reaped[j]
  /\ Signal(j, "term")
  /\ stage' = [stage EXCEPT ![w] = "term"]

\* The waits of 2 s and 3 s, each ended by the exit or by its timeout.
TerminateStep(w, j) ==
  \/ /\ stage[w] = "term"
     /\ IF reaped[j] THEN UNCHANGED sig ELSE Signal(j, "kill")
     /\ stage' = [stage EXCEPT ![w] = "kill"]
  \/ /\ stage[w] = "kill" /\ ~reaped[j]
     /\ Signal(j, "kill")
     /\ stage' = [stage EXCEPT ![w] = "reap"]

\* Mutants: the last await process.wait() is missing; it returns only on the
\* path through SIGKILL.
ReturnsUnawaited(w, j) == stage[w] \in {"kill", "reap"}
ReturnsAfterKill(w, j) == stage[w] = "reap" /\ reaped[j]

TerminateReturns(w, j) == stage[w] \in {"kill", "reap"} /\ reaped[j]

-----------------------------------------------------------------------------
(* Job.run inside _run_and_release                                         *)

Goto(j, where) == pc' = [pc EXCEPT ![j] = where] /\ UNCHANGED mgrVars

\* Mutants: whatever job holds the slot loses it; the release is no finally
\* clause, and an aborted handler skips it.
ReleaseAnySlot(j) ==
  /\ pc' = [pc EXCEPT ![j] = "done"]
  /\ active' = NoJob
  /\ UNCHANGED current
ReleaseUnlessAborted(j) ==
  /\ pc' = [pc EXCEPT ![j] = "done"]
  /\ active' = IF active = j /\ ~(cancelPending[j] /\ pc[j] \in {"killC", "killE"})
               THEN NoJob ELSE active
  /\ UNCHANGED current

\* The finally clauses: the process handle is dropped (pc leaves HasProcess)
\* and the slot is released if it still belongs to this job.
Release(j) ==
  /\ pc' = [pc EXCEPT ![j] = "done"]
  /\ active' = IF active = j THEN NoJob ELSE active
  /\ UNCHANGED current

Verdict(j, verdict, event) ==
  /\ status' = [status EXCEPT ![j] = verdict]
  /\ hub' = [hub EXCEPT ![j] = Publish(@, Ev(event, 0))]
  /\ Release(j)

\* Outside the try the stream is not read and the locals are not used.
LeaveTry(j) ==
  /\ saw' = [saw EXCEPT ![j] = {}]
  /\ terminalEvent' = [terminalEvent EXCEPT ![j] = "none"]
  /\ lines' = [lines EXCEPT ![j] = << >>]

Locals == <<saw, terminalEvent, lines>>

\* except Exception: the status is FAILED before the process is terminated,
\* the event is published after.
RaiseException(j) ==
  /\ LeaveTry(j)
  /\ \/ /\ NothingToTerminate(j)
        /\ Verdict(j, "failed", "error")
        /\ UNCHANGED <<sig, stage>>
     \/ /\ BeginTerminate(j, j)
        /\ status' = [status EXCEPT ![j] = "failed"]
        /\ Goto(j, "killE")
        /\ UNCHANGED hub

\* except CancelledError: the status changes only after the termination.
RaiseCancelled(j) ==
  /\ LeaveTry(j)
  /\ cancelRequested' = [cancelRequested EXCEPT ![j] = TRUE]
  /\ \/ /\ NothingToTerminate(j)
        /\ Verdict(j, "cancelled", "cancelled")
        /\ UNCHANGED <<sig, stage>>
     \/ /\ BeginTerminate(j, j)
        /\ Goto(j, "killC")
        /\ UNCHANGED <<status, hub>>

\* What a step of the task leaves alone: the rest of the world, and, unless
\* it is the delivery of a cancellation, the requests to cancel it.
Elsewhere == <<target, server, rc, reaped, step>>
NotCancelling == UNCHANGED <<cancelRequested, cancelPending, Elsewhere>>

\* First step of the task, up to the spawn.
RunStart(j) ==
  /\ pc[j] = "new" /\ ~cancelPending[j]
  /\ \/ /\ cancelRequested[j]
        /\ Verdict(j, "cancelled", "cancelled")
        /\ UNCHANGED <<Locals, sig, stage>>
     \/ /\ ~cancelRequested[j]
        /\ status' = [status EXCEPT ![j] = "running"]
        /\ Goto(j, "spawn")
        /\ UNCHANGED <<hub, Locals, sig, stage>>
     \/ ~cancelRequested[j] /\ "spawn" \in Faults /\ RaiseException(j)
  /\ UNCHANGED proc /\ NotCancelling

\* create_subprocess_exec returns, or raises.
Spawned(j) ==
  /\ pc[j] = "spawn" /\ ~cancelPending[j]
  /\ \/ /\ proc' = [proc EXCEPT ![j] = "alive"]
        /\ Goto(j, "read")
        /\ UNCHANGED <<status, hub, Locals, sig, stage>>
     \/ "spawn" \in Faults /\ RaiseException(j) /\ UNCHANGED proc
  /\ NotCancelling

\* Mutant: the loop does not look at cancel_requested.
NeverDraining(j) == FALSE

\* if self.cancel_requested: break
Draining(j) == cancelRequested[j]

\* One iteration of the loop over the lines.  A line over the limit raises
\* in readline, before cancel_requested is looked at.
ReadLine(j) ==
  /\ pc[j] = "read" /\ ~cancelPending[j]
  /\ lines[j] # << >>
  /\ LET line == Head(lines[j]) IN
     IF line.type = "huge" \/ (line.type = "bad" /\ ~Draining(j))
     THEN RaiseException(j)
     ELSE /\ lines' = [lines EXCEPT ![j] = Tail(@)]
          /\ IF Draining(j) THEN Goto(j, "wait")
                                   ELSE UNCHANGED <<pc, mgrVars>>
          /\ IF ~Draining(j) /\ line.type \in {"complete", "error"}
             THEN /\ saw' = [saw EXCEPT ![j] = @ \cup {line.type}]
                  /\ terminalEvent' = [terminalEvent EXCEPT ![j] = line.type]
             ELSE UNCHANGED <<saw, terminalEvent>>
          /\ hub' = IF ~Draining(j) /\ line.type \in {"start", "batch"}
                    THEN [hub EXCEPT ![j] = Publish(@, line)]
                    ELSE hub
          /\ UNCHANGED <<status, sig, stage>>
  /\ UNCHANGED proc /\ NotCancelling

ReadEOF(j) ==
  /\ pc[j] = "read" /\ ~cancelPending[j]
  /\ lines[j] = << >> /\ PipeEnded(j)
  /\ Goto(j, "wait")
  /\ UNCHANGED <<status, hub, Locals, proc, sig, stage>> /\ NotCancelling

WaitReturns(j) ==
  /\ pc[j] = "wait" /\ ~cancelPending[j]
  /\ reaped[j]
  /\ Goto(j, "stderr")
  /\ UNCHANGED <<status, hub, Locals, proc, sig, stage>> /\ NotCancelling

\* Mutant: the complete event is enough.
NothingConfirmed(j) == "complete" \notin saw[j]

\* return_code != 0 or not saw_complete
ExitContradicts(j) == rc[j] # "zero" \/ "complete" \notin saw[j]

\* stderr_task is done: the status, its event and the release in one step.
Finalize(j) ==
  /\ pc[j] = "stderr" /\ ~cancelPending[j]
  /\ PipeEnded(j)
  /\ IF cancelRequested[j] THEN Verdict(j, "cancelled", "cancelled")
     ELSE IF "error" \in saw[j] THEN Verdict(j, "failed", terminalEvent[j])
     ELSE IF ExitContradicts(j) THEN Verdict(j, "failed", "error")
     ELSE Verdict(j, "completed", terminalEvent[j])
  /\ LeaveTry(j)
  /\ UNCHANGED <<proc, sig, stage>> /\ NotCancelling

\* The termination inside an except clause of Job.run.
HandlerStep(j) ==
  /\ pc[j] \in {"killC", "killE"} /\ ~cancelPending[j]
  /\ \/ TerminateStep(j, j) /\ UNCHANGED <<status, hub, pc, mgrVars>>
     \/ /\ TerminateReturns(j, j)
        /\ stage' = [stage EXCEPT ![j] = "idle"]
        /\ IF pc[j] = "killC" THEN Verdict(j, "cancelled", "cancelled")
                              ELSE Verdict(j, "failed", "error")
        /\ UNCHANGED sig
  /\ UNCHANGED <<Locals, proc>> /\ NotCancelling

\* The CancelledError of Task.cancel() arrives.  A task that never ran ends
\* without entering the try of _run_and_release; inside a handler the error
\* aborts the handler, unless wait_for drops it because its wait is over.
DeliverCancel(j) ==
  /\ cancelPending[j]
  /\ cancelPending' = [cancelPending EXCEPT ![j] = FALSE]
  /\ \/ /\ pc[j] = "new"
        /\ Goto(j, "done")
        /\ UNCHANGED <<status, cancelRequested, hub, Locals, sig, stage>>
     \/ pc[j] \in {"spawn", "read", "wait", "stderr"} /\ RaiseCancelled(j)
     \/ /\ pc[j] \in {"killC", "killE"}
        /\ Release(j)
        /\ stage' = [stage EXCEPT ![j] = "idle"]
        /\ UNCHANGED <<status, cancelRequested, hub, Locals, sig>>
     \/ /\ pc[j] \in {"killC", "killE"} /\ reaped[j]
        /\ UNCHANGED <<runVars, Locals, mgrVars, sig, stage>>
  /\ UNCHANGED <<Elsewhere, proc>>

RunStep(j) ==
  \/ RunStart(j) \/ Spawned(j) \/ ReadLine(j) \/ ReadEOF(j)
  \/ WaitReturns(j) \/ Finalize(j) \/ HandlerStep(j) \/ DeliverCancel(j)

-----------------------------------------------------------------------------
(* Job.cancel, called by an HTTP request or by JobManager.shutdown         *)

callerFrame == <<status, hub, saw, terminalEvent, pc, mgrVars,
                 proc, rc, reaped, lines, step>>

CallCancel(c) ==
  /\ target' = [target EXCEPT ![c] = current]
  /\ cancelRequested' = [cancelRequested EXCEPT ![current] = TRUE]
  /\ \/ /\ NothingToTerminate(current)
        /\ stage' = [stage EXCEPT ![c] = "task"]
        /\ UNCHANGED sig
     \/ BeginTerminate(c, current)

\* On a job that is terminal, replaced or unknown the request changes nothing.
CancelRequest(c) ==
  /\ server = "up" /\ c \in Cancellers /\ stage[c] = "idle"
  /\ current # NoJob /\ ~Terminal(current)
  /\ CallCancel(c)
  /\ UNCHANGED <<callerFrame, cancelPending, server>>

CallerTerminates(c) ==
  /\ \/ TerminateStep(c, target[c])
     \/ /\ TerminateReturns(c, target[c])
        /\ stage' = [stage EXCEPT ![c] = "task"]
        /\ UNCHANGED sig
  /\ UNCHANGED <<callerFrame, cancelRequested, cancelPending, target, server>>

\* The task of the job waits for the operating system or for a process.
Blocked(j) ==
  \/ pc[j] = "spawn"
  \/ pc[j] = "read" /\ lines[j] = << >> /\ ~PipeEnded(j)
  \/ pc[j] \in {"wait", "killC", "killE"} /\ proc[j] = "alive"
  \/ pc[j] = "stderr" /\ ~PipeEnded(j)

CallerReturns(c) ==
  /\ stage' = [stage EXCEPT ![c] = IF c = Lifespan THEN "done" ELSE "idle"]
  /\ target' = [target EXCEPT ![c] = NoJob]

\* Mutant: the timeout cancels nothing.
CallerGivesUp(c) ==
  /\ stage[c] = "task"
  /\ pc[target[c]] = "done" \/ Blocked(target[c])
  /\ CallerReturns(c)
  /\ UNCHANGED <<callerFrame, cancelRequested, cancelPending, sig, server>>

\* wait_for(shield(task), 5): the task ends, or the timeout calls
\* task.cancel().  A ready task is run, and an exit is noticed, before five
\* seconds pass.
CallerWaits(c) ==
  /\ stage[c] = "task"
  /\ \/ pc[target[c]] = "done" /\ UNCHANGED cancelPending
     \/ /\ Blocked(target[c])
        /\ cancelPending' = [cancelPending EXCEPT ![target[c]] = TRUE]
  /\ CallerReturns(c)
  /\ UNCHANGED <<callerFrame, cancelRequested, sig, server>>

CallerStep(c) == CallerTerminates(c) \/ CallerWaits(c)

-----------------------------------------------------------------------------
(* The end of the application: uvicorn waits for the requests in flight,   *)
(* runs JobManager.shutdown, then the event loop cancels every task left.  *)

Shutdown ==
  /\ CanShutdown /\ server = "up"
  /\ \A c \in Cancellers : stage[c] = "idle"
  /\ server' = "stopping"
  /\ IF current # NoJob /\ ~Terminal(current)
     THEN CallCancel(Lifespan)
     ELSE /\ CallerReturns(Lifespan)
          /\ UNCHANGED <<cancelRequested, sig>>
  /\ UNCHANGED <<callerFrame, cancelPending>>

CloseLoop ==
  /\ server = "stopping" /\ stage[Lifespan] = "done"
  /\ server' = "closed"
  /\ cancelPending' = [j \in Jobs |-> cancelPending[j]
                                        \/ pc[j] \notin {"unborn", "done"}]
  /\ UNCHANGED <<runVars, processVars, mgrVars, stage, target>>

-----------------------------------------------------------------------------
\* A step of the subprocess is no step of the event loop.
Outside(A) ==
  A /\ UNCHANGED <<runVars, cancelPending, mgrVars, stage, target, server>>

Next ==
  \/ \E j \in Jobs : Create(j) \/ RunStep(j) \/ Outside(ProcessStep(j))
  \/ \E c \in Callers : CancelRequest(c) \/ CallerStep(c)
  \/ Shutdown
  \/ CloseLoop

Spec == Init /\ [][Next]_vars

(* The event loop runs every ready task and timer; a script that may run   *)
(* makes progress; the kernel delivers signals (the script keeps the       *)
(* default handlers) and the child watcher reports every exit.  Nothing    *)
(* makes a client cancel or a process crash.                               *)
Fairness ==
  /\ \A j \in Jobs : /\ WF_vars(RunStep(j))
                     /\ WF_vars(Outside(Emit(j) \/ Exit(j)))
                     /\ WF_vars(Outside(DieOfSignal(j)))
                     /\ WF_vars(Outside(Reap(j)))
  /\ \A c \in Callers : WF_vars(CallerStep(c))
  /\ WF_vars(CloseLoop)

FairSpec == Spec /\ Fairness

-----------------------------------------------------------------------------
(* Properties *)

\* The task of j runs and j has no terminal status yet.
Live(j) == pc[j] \notin {"unborn", "done"} /\ ~Terminal(j)

\* A job in progress owns the slot and is the one the HTTP interface finds:
\* neither a second creation nor the late release of an older job, still
\* terminating its process, takes the slot from it.
SlotHeldByLiveJob ==
  \A j \in Jobs : Live(j) => active = j /\ current = j

\* The slot is not kept by a job whose task has ended, whatever path its task
\* took out of Job.run (until the loop is closed, when tasks may be cancelled
\* before their first step).
SlotNotLeaked ==
  active # NoJob /\ server # "closed" =>
    pc[active] # "done" /\ active = current

\* When subscribers learn how a job ended its script is no longer running,
\* so the next simulation does not compete with it.
VerdictAfterExit ==
  \A j \in Jobs : hub[j].closed => proc[j] # "alive"

\* A job is reported complete only when its process has been seen to exit
\* with code zero and its whole output has been published.
CompletedIsConfirmed ==
  \A j \in Jobs : status[j] = "completed" =>
    /\ rc[j] = "zero" /\ reaped[j]
    /\ Len(hub[j].history) = Completed

\* Once a cancellation has been requested subscribers see no more progress
\* and no completion: what follows is the verdict "cancelled" or an error.
CancelSilences ==
  [][\A j \in Jobs :
       cancelRequested[j] /\ hub'[j] # hub[j] =>
         /\ hub'[j].closed
         /\ hub'[j].history[Len(hub'[j].history)].type
              \in {"cancelled", "error"}]_vars

\* The induction behind the three invariants above: a job that has not
\* started has the initial status, no process and, while the application
\* serves, no pending cancellation; a known exit code is that of a dead
\* process; a closed hub belongs to a finished task.
FreshJobs ==
  \A j \in Jobs :
    /\ pc[j] \in {"unborn", "new"} =>
         status[j] = "created" /\ (cancelPending[j] => server = "closed")
    /\ pc[j] \in {"unborn", "new", "spawn"} => proc[j] = "none"
ReapedIsDead == \A j \in Jobs : reaped[j] => proc[j] \in {"orphans", "exited"}
ClosedIsDone == \A j \in Jobs : hub[j].closed => pc[j] = "done"
LifecycleInv ==
  /\ TypeOK /\ FreshJobs /\ ReapedIsDead /\ ClosedIsDone
  /\ SlotHeldByLiveJob /\ SlotNotLeaked /\ VerdictAfterExit

\* What clients may rely on, SimulationService.tla.  A job whose task ended
\* without a verdict is lost.
Service == INSTANCE SimulationService WITH
  phase <- [j \in Jobs |->
              IF pc[j] = "unborn" THEN "absent"
              ELSE IF Terminal(j) THEN status[j]
              ELSE IF pc[j] = "done" THEN "lost" ELSE "live"],
  log <- hub

\* The backend implements the service: jobs one at a time, progress in the
\* order of the script and without gaps, one verdict per job, announced once
\* and as the last event.
ImplementsService == Service!Spec

\* Every job ends with a verdict that its subscribers receive, unless workers
\* outlive its script or the application is stopped.
JobTerminates ==
  \A j \in Jobs :
    pc[j] # "unborn" ~> hub[j].closed \/ proc[j] = "orphans" \/ server = "closed"

\* A cancellation ends the job, even if its process was being spawned, is
\* blocked on a full pipe, or left workers that keep the pipe open.
CancelEnds ==
  \A j \in Jobs : cancelRequested[j] ~> hub[j].closed \/ server = "closed"

\* Closing the application leaves no script running.
ShutdownEndsScripts ==
  server = "closed" ~> [](\A j \in Jobs : proc[j] # "alive")

\* "WebSocket `error`: problema ocurrido durante el runtime/subproceso."
\* (docs/ARQUITECTURA_CLIENTE_SERVIDOR.md): subscribers learn that the script
\* has died.
DeathsReported ==
  \A j \in Jobs : rc[j] = "nonzero" ~> hub[j].closed \/ server = "closed"

\* "Gestiona un unico trabajo Monte Carlo activo a la vez." (job_manager.py,
\* docstring of JobManager): at most one job has work in progress.
SingleActiveJob ==
  \A i, j \in Jobs :
    pc[i] \notin {"unborn", "done"} /\ pc[j] \notin {"unborn", "done"} => i = j
=============================================================================
