-------------------------- MODULE JobManagerProofs --------------------------
(***************************************************************************)
(* Theorems about JobManager, for every set of jobs and of cancelling      *)
(* requests, every number of batches, every pipe capacity and any faults.  *)
(***************************************************************************)
EXTENDS JobManager, TLAPS

\* Publishing an event keeps a hub's log a log (JobEventHub.publish).
LEMMA PublishType ==
  ASSUME NEW log \in HubLog, NEW event \in Event
  PROVE  Publish(log, event) \in HubLog
BY DEF Publish, HubLog, TerminalTypes

\* Every constructed verdict or progress event is an event of the protocol.
LEMMA EvType ==
  ASSUME NEW type, NEW n \in Nat
  PROVE  /\ type \in ScriptTypes \cup {"cancelled"} => Ev(type, n) \in Event
         /\ type \in ScriptTypes \cup NonEvents => Ev(type, n) \in Line
BY DEF Ev, Event, Line

\* A line that run publishes is an event (the filter of Job.run).
LEMMA LineEvent ==
  ASSUME NEW line \in Line, line.type \in {"start", "batch"}
  PROVE  line \in Event
BY DEF Line, Event, ScriptTypes

(* Typing, one lemma per kind of step. *)

LEMMA VerdictType ==
  ASSUME TypeOK, NEW j \in Jobs, NEW verdict \in TerminalStatus,
         NEW event \in ScriptTypes \cup {"cancelled"},
         Verdict(j, verdict, event)
  PROVE  /\ status' \in [Jobs -> {"created", "running"} \cup TerminalStatus]
         /\ hub' \in [Jobs -> HubLog]
         /\ pc' \in [Jobs -> {"unborn", "new", "spawn", "read", "wait",
                              "stderr", "killC", "killE", "done"}]
         /\ active' \in Jobs \cup {NoJob}
         /\ current' \in Jobs \cup {NoJob}
<1>1. Ev(event, 0) \in Event
  BY EvType
<1>2. hub[j] \in HubLog
  BY DEF TypeOK
<1>3. Publish(hub[j], Ev(event, 0)) \in HubLog
  BY <1>1, <1>2, PublishType
<1> QED
  BY <1>3 DEF TypeOK, Verdict, Release

LEMMA LeaveTryType ==
  ASSUME TypeOK, NEW j \in Jobs, LeaveTry(j)
  PROVE  /\ saw' \in [Jobs -> SUBSET {"complete", "error"}]
         /\ terminalEvent' \in [Jobs -> {"none", "complete", "error"}]
         /\ \A i \in Jobs : saw'[i] # {} => terminalEvent'[i] # "none"
         /\ lines' \in [Jobs -> Seq(Line)]
BY DEF TypeOK, ProcessTypeOK, LeaveTry

LEMMA SignalType ==
  ASSUME ProcessTypeOK, NEW j \in Jobs, NEW s \in {"term", "kill"}, Signal(j, s)
  PROVE  sig' \in [Jobs -> {"none", "term", "kill"}]
BY DEF ProcessTypeOK, Signal

LEMMA BeginTerminateType ==
  ASSUME TypeOK, NEW j \in Jobs, NEW w \in Jobs \cup Callers,
         BeginTerminate(w, j) \/ TerminateStep(w, j)
  PROVE  /\ sig' \in [Jobs -> {"none", "term", "kill"}]
         /\ stage' \in [Jobs \cup Callers ->
                          {"idle", "term", "kill", "reap", "task", "done"}]
<1>1. sig' \in [Jobs -> {"none", "term", "kill"}]
  <2>1. CASE Signal(j, "term") \/ Signal(j, "kill")
    BY <2>1, SignalType DEF TypeOK
  <2>2. CASE UNCHANGED sig
    BY <2>2 DEF TypeOK, ProcessTypeOK
  <2> QED
    BY <2>1, <2>2 DEF BeginTerminate, TerminateStep
<1>2. stage' \in [Jobs \cup Callers ->
                     {"idle", "term", "kill", "reap", "task", "done"}]
  BY DEF TypeOK, BeginTerminate, TerminateStep
<1> QED
  BY <1>1, <1>2

LEMMA RaiseExceptionType ==
  ASSUME TypeOK, NEW j \in Jobs, RaiseException(j), NotCancelling,
         proc' \in [Jobs -> {"none", "alive", "orphans", "exited"}]
  PROVE  TypeOK'
<1>1. CASE NothingToTerminate(j) /\ Verdict(j, "failed", "error")
             /\ UNCHANGED <<sig, stage>>
  BY <1>1, VerdictType, LeaveTryType
  DEF RaiseException, TypeOK, ProcessTypeOK, NotCancelling, Elsewhere,
      TerminalStatus, ScriptTypes
<1>2. CASE BeginTerminate(j, j) /\ Goto(j, "killE") /\ UNCHANGED hub
             /\ status' = [status EXCEPT ![j] = "failed"]
  BY <1>2, BeginTerminateType, LeaveTryType
  DEF RaiseException, TypeOK, ProcessTypeOK, NotCancelling, Elsewhere,
      TerminalStatus, Goto, mgrVars
<1> QED
  BY <1>1, <1>2 DEF RaiseException

LEMMA RaiseCancelledType ==
  ASSUME TypeOK, NEW j \in Jobs, RaiseCancelled(j), UNCHANGED <<Elsewhere, proc>>,
         cancelPending' \in [Jobs -> BOOLEAN]
  PROVE  TypeOK'
<1>0. cancelRequested' \in [Jobs -> BOOLEAN]
  BY DEF TypeOK, RaiseCancelled
<1>1. CASE NothingToTerminate(j) /\ Verdict(j, "cancelled", "cancelled")
             /\ UNCHANGED <<sig, stage>>
  BY <1>0, <1>1, VerdictType, LeaveTryType
  DEF RaiseCancelled, TypeOK, ProcessTypeOK, Elsewhere, TerminalStatus, ScriptTypes
<1>2. CASE BeginTerminate(j, j) /\ Goto(j, "killC") /\ UNCHANGED <<status, hub>>
  BY <1>0, <1>2, BeginTerminateType, LeaveTryType
  DEF RaiseCancelled, TypeOK, ProcessTypeOK, Elsewhere, Goto, mgrVars
<1> QED
  BY <1>1, <1>2 DEF RaiseCancelled

LEMMA RunStepType ==
  ASSUME TypeOK, NEW j \in Jobs, RunStep(j)
  PROVE  TypeOK'
<1>1. CASE RunStart(j)
  <2>1. CASE Verdict(j, "cancelled", "cancelled") /\ UNCHANGED <<Locals, sig, stage>>
    BY <1>1, <2>1, VerdictType
    DEF RunStart, TypeOK, ProcessTypeOK, NotCancelling, Elsewhere, Locals,
        TerminalStatus, ScriptTypes
  <2>2. CASE /\ status' = [status EXCEPT ![j] = "running"]
             /\ Goto(j, "spawn") /\ UNCHANGED <<hub, Locals, sig, stage>>
    BY <1>1, <2>2
    DEF RunStart, TypeOK, ProcessTypeOK, NotCancelling, Elsewhere, Locals,
        Goto, mgrVars
  <2>3. CASE RaiseException(j)
    BY <1>1, <2>3, RaiseExceptionType DEF RunStart, TypeOK, ProcessTypeOK
  <2> QED
    BY <1>1, <2>1, <2>2, <2>3 DEF RunStart
<1>2. CASE Spawned(j)
  <2>1. proc' \in [Jobs -> {"none", "alive", "orphans", "exited"}]
    BY <1>2 DEF Spawned, TypeOK, ProcessTypeOK
  <2>2. CASE RaiseException(j)
    BY <1>2, <2>1, <2>2, RaiseExceptionType DEF Spawned
  <2>3. CASE ~RaiseException(j)
    <3>1. /\ pc' = [pc EXCEPT ![j] = "read"]
          /\ UNCHANGED <<status, hub, Locals, sig, stage, mgrVars>>
      BY <1>2, <2>3 DEF Spawned, Goto
    <3>2. NotCancelling
      BY <1>2 DEF Spawned
    <3> QED
      BY <2>1, <3>1, <3>2
      DEF TypeOK, ProcessTypeOK, NotCancelling, Elsewhere, Locals, mgrVars
  <2> QED
    BY <2>2, <2>3
<1>3. CASE ReadLine(j)
  <2>1. CASE RaiseException(j)
    BY <1>3, <2>1, RaiseExceptionType DEF ReadLine, TypeOK, ProcessTypeOK
  <2>2. CASE ~RaiseException(j)
    <3>1. lines[j] \in Seq(Line) /\ lines[j] # << >>
      BY <1>3 DEF ReadLine, TypeOK, ProcessTypeOK
    <3>2. Head(lines[j]) \in Line /\ Tail(lines[j]) \in Seq(Line)
      BY <3>1
    <3>3. lines' \in [Jobs -> Seq(Line)]
      BY <1>3, <2>2, <3>2 DEF ReadLine, TypeOK, ProcessTypeOK
    <3>4. hub' \in [Jobs -> HubLog]
      <4>1. CASE Head(lines[j]).type \in {"start", "batch"}
        <5>1. Publish(hub[j], Head(lines[j])) \in HubLog
          BY <4>1, <3>2, LineEvent, PublishType DEF TypeOK
        <5> QED
          BY <5>1, <1>3, <2>2 DEF ReadLine, TypeOK
      <4>2. CASE Head(lines[j]).type \notin {"start", "batch"}
        BY <4>2, <1>3, <2>2 DEF ReadLine, TypeOK
      <4> QED
        BY <4>1, <4>2
    <3>5. /\ saw' \in [Jobs -> SUBSET {"complete", "error"}]
          /\ terminalEvent' \in [Jobs -> {"none", "complete", "error"}]
          /\ \A i \in Jobs : saw'[i] # {} => terminalEvent'[i] # "none"
      BY <1>3, <2>2 DEF ReadLine, TypeOK
    <3>6. /\ pc' = [pc EXCEPT ![j] = "wait"] \/ UNCHANGED pc
          /\ UNCHANGED <<status, sig, stage, mgrVars, proc>>
      BY <1>3, <2>2 DEF ReadLine, Goto
    <3>7. NotCancelling
      BY <1>3 DEF ReadLine
    <3> QED
      BY <3>3, <3>4, <3>5, <3>6, <3>7
      DEF TypeOK, ProcessTypeOK, NotCancelling, Elsewhere, mgrVars
  <2> QED
    BY <2>1, <2>2
<1>4. CASE ReadEOF(j) \/ WaitReturns(j)
  <2>1. /\ pc' = [pc EXCEPT ![j] = "wait"] \/ pc' = [pc EXCEPT ![j] = "stderr"]
        /\ UNCHANGED <<status, hub, Locals, proc, sig, stage, mgrVars>>
        /\ NotCancelling
    BY <1>4 DEF ReadEOF, WaitReturns, Goto
  <2> QED
    BY <2>1
    DEF TypeOK, ProcessTypeOK, NotCancelling, Elsewhere, Locals, mgrVars
<1>5. CASE Finalize(j)
  <2>1. PICK verdict \in TerminalStatus, event \in ScriptTypes \cup {"cancelled"} :
          Verdict(j, verdict, event)
    <3>1. saw[j] # {} => terminalEvent[j] \in {"complete", "error"}
      BY DEF TypeOK
    <3> QED
      BY <1>5, <3>1 DEF Finalize, ExitContradicts, TerminalStatus, ScriptTypes
  <2> QED
    BY <1>5, <2>1, VerdictType, LeaveTryType
    DEF Finalize, TypeOK, ProcessTypeOK, NotCancelling, Elsewhere
<1>6. CASE HandlerStep(j)
  <2>1. CASE TerminateStep(j, j) /\ UNCHANGED <<status, hub, pc, mgrVars>>
    BY <1>6, <2>1, BeginTerminateType
    DEF HandlerStep, TypeOK, ProcessTypeOK, NotCancelling, Elsewhere, Locals, mgrVars
  <2>2. CASE /\ stage' = [stage EXCEPT ![j] = "idle"]
             /\ \/ Verdict(j, "cancelled", "cancelled")
                \/ Verdict(j, "failed", "error")
             /\ UNCHANGED sig
    BY <1>6, <2>2, VerdictType
    DEF HandlerStep, TypeOK, ProcessTypeOK, NotCancelling, Elsewhere, Locals,
        TerminalStatus, ScriptTypes
  <2> QED
    BY <1>6, <2>1, <2>2 DEF HandlerStep
<1>7. CASE DeliverCancel(j)
  <2>1. cancelPending' \in [Jobs -> BOOLEAN]
    BY <1>7 DEF DeliverCancel, TypeOK
  <2>2. CASE RaiseCancelled(j)
    BY <1>7, <2>1, <2>2, RaiseCancelledType DEF DeliverCancel
  <2>3. CASE ~RaiseCancelled(j)
    <3>1. /\ pc' = [pc EXCEPT ![j] = "done"] \/ UNCHANGED pc
          /\ stage' = [stage EXCEPT ![j] = "idle"] \/ UNCHANGED stage
          /\ active' = NoJob \/ UNCHANGED active
          /\ UNCHANGED <<status, cancelRequested, hub, Locals, sig, current>>
          /\ UNCHANGED <<Elsewhere, proc>>
      BY <1>7, <2>3 DEF DeliverCancel, Goto, Release, mgrVars, runVars, Locals
    <3>2. /\ pc' \in [Jobs -> {"unborn", "new", "spawn", "read", "wait",
                               "stderr", "killC", "killE", "done"}]
          /\ active' \in Jobs \cup {NoJob}
      BY <3>1 DEF TypeOK
    <3>3. stage' \in [Jobs \cup Callers ->
                         {"idle", "term", "kill", "reap", "task", "done"}]
      BY <3>1 DEF TypeOK
    <3> QED
      BY <2>1, <3>1, <3>2, <3>3 DEF TypeOK, ProcessTypeOK, Elsewhere, Locals
  <2> QED
    BY <2>2, <2>3
<1> QED
  BY <1>1, <1>2, <1>3, <1>4, <1>5, <1>6, <1>7 DEF RunStep

LEMMA EndsType ==
  ASSUME ProcessTypeOK, NEW j \in Jobs, lines' \in [Jobs -> Seq(Line)],
         NEW left \in {"exited", "orphans"},
         NEW code \in {"none", "zero", "nonzero"}, Ends(j, left, code)
  PROVE  ProcessTypeOK'
<1>1. step' \in [Jobs -> 0 .. Errored]
  BY ProcessAssumption DEF ProcessTypeOK, Ends, Errored
<1>2. /\ proc' \in [Jobs -> {"none", "alive", "orphans", "exited"}]
      /\ rc' \in [Jobs -> {"none", "zero", "nonzero"}]
  BY DEF ProcessTypeOK, Ends
<1>3. /\ sig' \in [Jobs -> {"none", "term", "kill"}]
      /\ reaped' \in [Jobs -> BOOLEAN]
  BY DEF ProcessTypeOK, Ends
<1> QED
  BY <1>1, <1>2, <1>3 DEF ProcessTypeOK

LEMMA ProcessStepType ==
  ASSUME ProcessTypeOK, NEW j \in Jobs, ProcessStep(j)
  PROVE  ProcessTypeOK'
<1>1. CASE Emit(j)
  <2>1. PICK event \in ScriptEvents(step[j], MaxBatches) :
          /\ step' = [step EXCEPT ![j] = IF event.type = "error"
                                         THEN Errored ELSE @ + 1]
          /\ \/ lines' = [lines EXCEPT ![j] = Append(@, event)]
             \/ lines' = [lines EXCEPT ![j] = Append(@, Ev("huge", 0))]
    BY <1>1 DEF Emit
  <2>2. step[j] \in Nat /\ step[j] < Completed
    BY <1>1, ProcessAssumption DEF Emit, ProcessTypeOK, Errored
  <2>3. event \in Line /\ Ev("huge", 0) \in Line
    BY <2>2, EvType DEF ScriptEvents, ScriptTypes, NonEvents
  <2>4. lines' \in [Jobs -> Seq(Line)]
    <3>1. /\ Append(lines[j], event) \in Seq(Line)
          /\ Append(lines[j], Ev("huge", 0)) \in Seq(Line)
      BY <2>3 DEF ProcessTypeOK
    <3> QED
      BY <2>1, <3>1 DEF ProcessTypeOK
  <2>5. step' \in [Jobs -> 0 .. Errored]
    <3>1. step[j] + 1 \in 0 .. Errored /\ Errored \in 0 .. Errored
      BY <2>2, ProcessAssumption DEF Completed, Errored
    <3> QED
      BY <2>1, <3>1 DEF ProcessTypeOK
  <2>6. UNCHANGED <<proc, rc, reaped, sig>>
    BY <1>1 DEF Emit
  <2> QED
    BY <2>4, <2>5, <2>6 DEF ProcessTypeOK
<1>2. ASSUME PartialLine(j)
      PROVE  lines' \in [Jobs -> Seq(Line)]
  <2>1. \A type \in {"noise", "bad"} : Ev(type, 0) \in Line
    BY EvType DEF NonEvents
  <2>2. \A type \in {"noise", "bad"} : Append(lines[j], Ev(type, 0)) \in Seq(Line)
    BY <2>1 DEF ProcessTypeOK
  <2> QED
    BY <1>2, <2>2 DEF PartialLine, ProcessTypeOK
<1>3. CASE Exit(j)
  <2>1. lines' \in [Jobs -> Seq(Line)]
    BY <1>3 DEF Exit, ProcessTypeOK
  <2> QED
    BY <1>3, <2>1, EndsType DEF Exit
<1>4. CASE Crash(j)
  BY <1>2, <1>4, EndsType DEF Crash
<1>5. CASE DieOfSignal(j)
  <2>1. lines' \in [Jobs -> Seq(Line)]
    BY <1>2, <1>5 DEF DieOfSignal, ProcessTypeOK
  <2>2. rc[j] \in {"none", "zero", "nonzero"}
    BY DEF ProcessTypeOK
  <2> QED
    BY <1>5, <2>1, <2>2, EndsType DEF DieOfSignal
<1>6. CASE Reap(j)
  BY <1>6 DEF Reap, ProcessTypeOK
<1> QED
  BY <1>1, <1>3, <1>4, <1>5, <1>6 DEF ProcessStep

LEMMA CallCancelType ==
  ASSUME TypeOK, NEW c \in Callers, current # NoJob, CallCancel(c)
  PROVE  /\ cancelRequested' \in [Jobs -> BOOLEAN]
         /\ target' \in [Callers -> Jobs \cup {NoJob}]
         /\ sig' \in [Jobs -> {"none", "term", "kill"}]
         /\ stage' \in [Jobs \cup Callers ->
                          {"idle", "term", "kill", "reap", "task", "done"}]
<1>1. /\ cancelRequested' \in [Jobs -> BOOLEAN]
      /\ target' \in [Callers -> Jobs \cup {NoJob}]
  BY DEF TypeOK, CallCancel
<1>2. CASE BeginTerminate(c, current)
  BY <1>1, <1>2, BeginTerminateType DEF TypeOK
<1>3. CASE stage' = [stage EXCEPT ![c] = "task"] /\ UNCHANGED sig
  BY <1>1, <1>3 DEF TypeOK, ProcessTypeOK
<1> QED
  BY <1>2, <1>3 DEF CallCancel

\* Every step preserves the types of the state.
LEMMA NextType ==
  ASSUME TypeOK, [Next]_vars
  PROVE  TypeOK'
<1>1. ASSUME NEW j \in Jobs, Create(j)
      PROVE  TypeOK'
  BY <1>1 DEF Create, TypeOK, ProcessTypeOK, processVars
<1>2. ASSUME NEW j \in Jobs, RunStep(j)
      PROVE  TypeOK'
  BY <1>2, RunStepType
<1>3. ASSUME NEW j \in Jobs, Outside(ProcessStep(j))
      PROVE  TypeOK'
  BY <1>3, ProcessStepType DEF Outside, TypeOK, runVars, mgrVars
<1>4. ASSUME NEW c \in Callers, CancelRequest(c)
      PROVE  TypeOK'
  BY <1>4, CallCancelType
  DEF CancelRequest, callerFrame, TypeOK, ProcessTypeOK, mgrVars
<1>5. ASSUME NEW c \in Callers, CallerTerminates(c)
      PROVE  TypeOK'
  <2>1. target[c] \in Jobs \cup {NoJob}
    BY <1>5 DEF TypeOK
  <2>2. sig' \in [Jobs -> {"none", "term", "kill"}]
    BY <1>5 DEF CallerTerminates, TerminateStep, Signal, TypeOK, ProcessTypeOK
  <2>3. stage' \in [Jobs \cup Callers ->
                       {"idle", "term", "kill", "reap", "task", "done"}]
    BY <1>5 DEF CallerTerminates, TerminateStep, TypeOK
  <2>4. UNCHANGED <<callerFrame, cancelRequested, cancelPending, target, server>>
    BY <1>5 DEF CallerTerminates
  <2> QED
    BY <2>2, <2>3, <2>4 DEF callerFrame, TypeOK, ProcessTypeOK, mgrVars
<1>6. ASSUME NEW c \in Callers, CallerWaits(c)
      PROVE  TypeOK'
  BY <1>6
  DEF CallerWaits, CallerReturns, callerFrame, TypeOK, ProcessTypeOK, mgrVars
<1>7. CASE Shutdown
  <2>1. CASE current # NoJob /\ ~Terminal(current)
    BY <1>7, <2>1, CallCancelType
    DEF Shutdown, Callers, callerFrame, TypeOK, ProcessTypeOK, mgrVars
  <2>2. CASE ~(current # NoJob /\ ~Terminal(current))
    BY <1>7, <2>2
    DEF Shutdown, CallerReturns, Callers, callerFrame, TypeOK, ProcessTypeOK, mgrVars
  <2> QED
    BY <2>1, <2>2
<1>8. CASE CloseLoop
  BY <1>8 DEF CloseLoop, TypeOK, ProcessTypeOK, runVars, processVars, mgrVars
<1>9. CASE UNCHANGED vars
  BY <1>9 DEF vars, TypeOK, ProcessTypeOK, runVars, processVars, mgrVars
<1> QED
  BY <1>1, <1>2, <1>3, <1>4, <1>5, <1>6, <1>7, <1>8, <1>9 DEF Next, CallerStep

LEMMA InitType == Init => TypeOK
BY ProcessAssumption
DEF Init, ProcessInit, TypeOK, ProcessTypeOK, HubLog, EmptyLog, Event,
    Completed, Errored

\* Type correctness of the model of job_manager.py and its subprocesses.
THEOREM TypeCorrect == Spec => []TypeOK
BY InitType, NextType, PTL DEF Spec

-----------------------------------------------------------------------------
(* The slot of the manager and the verdicts of its jobs.                   *)

\* What a step of a task may do to the state the slot depends on.
Effect(j) ==
  /\ \A i \in Jobs : i # j =>
       /\ pc'[i] = pc[i] /\ status'[i] = status[i] /\ hub'[i] = hub[i]
       /\ proc'[i] = proc[i] /\ cancelPending'[i] = cancelPending[i]
  /\ UNCHANGED <<reaped, current, server>>
  /\ pc[j] \notin {"unborn", "done"} /\ pc'[j] \notin {"unborn", "new"}
  /\ Terminal(j) => status'[j] \in TerminalStatus
  /\ \/ pc'[j] # "done" /\ active' = active
     \/ pc'[j] = "done" /\ active' = IF active = j THEN NoJob ELSE active
     \/ pc'[j] = "done" /\ active' = active /\ pc[j] = "new" /\ cancelPending[j]
  /\ hub'[j].closed => hub[j].closed \/ (pc'[j] = "done" /\ proc'[j] # "alive")
  /\ pc'[j] = "spawn" => proc'[j] = "none"
  /\ proc'[j] = proc[j] \/ (proc[j] = "none" /\ pc[j] = "spawn")
  /\ cancelPending'[j] => cancelPending[j]

\* A publication other than a verdict leaves a hub open.
LEMMA ProgressOpen ==
  ASSUME NEW log \in HubLog, NEW event \in Event,
         event.type \in {"start", "batch"}
  PROVE  Publish(log, event).closed => log.closed
BY DEF Publish, HubLog, TerminalTypes

\* Both ways out of the try of Job.run, and its two handlers: the script is
\* dead, or was never started, when the verdict is published.
LEMMA NothingAlive ==
  ASSUME TypeOK, FreshJobs, ReapedIsDead, NEW j \in Jobs, pc[j] # "done",
         pc[j] \in {"new", "spawn"} \/ HasProcess(j), NothingToTerminate(j)
  PROVE  proc[j] # "alive"
BY DEF TypeOK, FreshJobs, ReapedIsDead, NothingToTerminate, HasProcess

LEMMA VerdictEffect ==
  ASSUME TypeOK, NEW j \in Jobs, NEW verdict \in TerminalStatus, NEW event,
         Verdict(j, verdict, event), UNCHANGED <<proc, Elsewhere>>,
         proc[j] # "alive", pc[j] \notin {"unborn", "done"},
         \A i \in Jobs : i # j => cancelPending'[i] = cancelPending[i],
         cancelPending'[j] => cancelPending[j]
  PROVE  Effect(j)
BY DEF TypeOK, ProcessTypeOK, Verdict, Release, Elsewhere, Effect

LEMMA HandlerEffect ==
  ASSUME TypeOK, NEW j \in Jobs, NEW where \in {"killC", "killE"},
         Goto(j, where), UNCHANGED <<proc, hub, Elsewhere>>,
         status' = [status EXCEPT ![j] = "failed"] \/ UNCHANGED status,
         pc[j] \notin {"unborn", "done"},
         \A i \in Jobs : i # j => cancelPending'[i] = cancelPending[i],
         cancelPending'[j] => cancelPending[j]
  PROVE  Effect(j)
BY DEF TypeOK, ProcessTypeOK, Goto, mgrVars, Elsewhere, Effect, Terminal,
       TerminalStatus

LEMMA RaiseExceptionEffect ==
  ASSUME TypeOK, FreshJobs, ReapedIsDead, NEW j \in Jobs, RaiseException(j),
         NotCancelling, UNCHANGED proc, pc[j] \in {"new", "spawn", "read"}
  PROVE  Effect(j)
<1>1. CASE NothingToTerminate(j) /\ Verdict(j, "failed", "error")
  BY <1>1, NothingAlive, VerdictEffect
  DEF HasProcess, NotCancelling, TerminalStatus
<1>2. CASE /\ status' = [status EXCEPT ![j] = "failed"]
           /\ Goto(j, "killE") /\ UNCHANGED hub
  BY <1>2, HandlerEffect DEF NotCancelling
<1> QED
  BY <1>1, <1>2 DEF RaiseException

LEMMA RunStepEffect ==
  ASSUME TypeOK, FreshJobs, ReapedIsDead, NEW j \in Jobs, RunStep(j)
  PROVE  Effect(j)
<1>1. CASE RunStart(j)
  <2>0. NotCancelling /\ UNCHANGED proc /\ pc[j] = "new" /\ proc[j] = "none"
    BY <1>1 DEF RunStart, FreshJobs
  <2>1. CASE Verdict(j, "cancelled", "cancelled")
    BY <2>0, <2>1, VerdictEffect DEF NotCancelling, TerminalStatus
  <2>2. CASE /\ status' = [status EXCEPT ![j] = "running"]
             /\ Goto(j, "spawn") /\ UNCHANGED hub
    <3>1. ~Terminal(j)
      BY <2>0 DEF FreshJobs, Terminal, TerminalStatus
    <3> QED
      BY <2>0, <2>2, <3>1
      DEF TypeOK, ProcessTypeOK, Goto, mgrVars, NotCancelling, Elsewhere, Effect
  <2>3. CASE RaiseException(j)
    BY <2>0, <2>3, RaiseExceptionEffect
  <2> QED
    BY <1>1, <2>1, <2>2, <2>3 DEF RunStart
<1>2. CASE Spawned(j)
  <2>0. NotCancelling /\ pc[j] = "spawn" /\ proc[j] = "none"
    BY <1>2 DEF Spawned, FreshJobs
  <2>1. CASE RaiseException(j) /\ UNCHANGED proc
    BY <2>0, <2>1, RaiseExceptionEffect
  <2>2. CASE /\ proc' = [proc EXCEPT ![j] = "alive"]
             /\ Goto(j, "read") /\ UNCHANGED <<status, hub>>
    BY <2>0, <2>2
    DEF TypeOK, ProcessTypeOK, Goto, mgrVars, NotCancelling, Elsewhere, Effect,
        Terminal
  <2> QED
    BY <1>2, <2>1, <2>2 DEF Spawned
<1>3. CASE ReadLine(j)
  <2>0. NotCancelling /\ UNCHANGED proc /\ pc[j] = "read"
    BY <1>3 DEF ReadLine
  <2>1. CASE RaiseException(j)
    BY <2>0, <2>1, RaiseExceptionEffect
  <2>2. CASE ~RaiseException(j)
    <3>1. /\ Goto(j, "wait") \/ UNCHANGED <<pc, mgrVars>>
          /\ UNCHANGED status
          /\ \A i \in Jobs : i # j => hub'[i] = hub[i]
      BY <1>3, <2>2 DEF ReadLine, TypeOK
    <3>2. lines[j] \in Seq(Line) /\ lines[j] # << >>
      BY <1>3 DEF ReadLine, TypeOK, ProcessTypeOK
    <3>3. Head(lines[j]) \in Line
      BY <3>2
    <3>4. hub'[j].closed => hub[j].closed
      <4>1. CASE Head(lines[j]).type \in {"start", "batch"}
        <5>1. Publish(hub[j], Head(lines[j])).closed => hub[j].closed
          BY <4>1, <3>3, LineEvent, ProgressOpen DEF TypeOK
        <5> QED
          BY <5>1, <1>3, <2>2 DEF ReadLine, TypeOK
      <4>2. CASE Head(lines[j]).type \notin {"start", "batch"}
        BY <4>2, <1>3, <2>2 DEF ReadLine, TypeOK
      <4> QED
        BY <4>1, <4>2
    <3> QED
      BY <2>0, <3>1, <3>4
      DEF TypeOK, ProcessTypeOK, Goto, mgrVars, NotCancelling, Elsewhere, Effect,
          Terminal
  <2> QED
    BY <2>1, <2>2
<1>4. CASE ReadEOF(j) \/ WaitReturns(j)
  <2>1. /\ pc[j] \in {"read", "wait"}
        /\ Goto(j, "wait") \/ Goto(j, "stderr")
        /\ UNCHANGED <<status, hub, proc>> /\ NotCancelling
    BY <1>4 DEF ReadEOF, WaitReturns
  <2> QED
    BY <2>1
    DEF TypeOK, ProcessTypeOK, Goto, mgrVars, NotCancelling, Elsewhere, Effect,
        Terminal
<1>5. CASE Finalize(j)
  <2>1. PICK verdict \in TerminalStatus,
            event \in {"cancelled", "error", terminalEvent[j]} :
              Verdict(j, verdict, event)
    BY <1>5 DEF Finalize, TerminalStatus
  <2>2. /\ NotCancelling /\ UNCHANGED proc /\ pc[j] = "stderr"
        /\ proc[j] # "alive"
    BY <1>5 DEF Finalize, PipeEnded
  <2> QED
    BY <2>1, <2>2, VerdictEffect DEF NotCancelling
<1>6. CASE HandlerStep(j)
  <2>0. /\ NotCancelling /\ UNCHANGED proc /\ pc[j] \in {"killC", "killE"}
    BY <1>6 DEF HandlerStep
  <2>1. CASE UNCHANGED <<status, hub, pc, mgrVars>>
    BY <2>0, <2>1
    DEF TypeOK, ProcessTypeOK, mgrVars, NotCancelling, Elsewhere, Effect, Terminal
  <2>2. CASE /\ TerminateReturns(j, j)
             /\ \/ Verdict(j, "cancelled", "cancelled")
                \/ Verdict(j, "failed", "error")
    <3>1. proc[j] # "alive"
      BY <2>2 DEF TerminateReturns, ReapedIsDead
    <3> QED
      BY <2>0, <2>2, <3>1, VerdictEffect DEF NotCancelling, TerminalStatus
  <2> QED
    BY <1>6, <2>1, <2>2 DEF HandlerStep
<1>7. CASE DeliverCancel(j)
  <2>0. /\ cancelPending[j] /\ cancelPending' = [cancelPending EXCEPT ![j] = FALSE]
        /\ UNCHANGED <<Elsewhere, proc>>
    BY <1>7 DEF DeliverCancel
  <2>1. CASE pc[j] = "new" /\ Goto(j, "done") /\ UNCHANGED <<status, hub>>
    BY <2>0, <2>1
    DEF TypeOK, ProcessTypeOK, Goto, mgrVars, Elsewhere, Effect, Terminal
  <2>2. CASE pc[j] \in {"spawn", "read", "wait", "stderr"} /\ RaiseCancelled(j)
    <3>0. /\ \A i \in Jobs : i # j => cancelPending'[i] = cancelPending[i]
          /\ cancelPending'[j] => cancelPending[j]
      BY <2>0 DEF TypeOK
    <3>1. CASE NothingToTerminate(j) /\ Verdict(j, "cancelled", "cancelled")
      BY <2>0, <2>2, <3>0, <3>1, NothingAlive, VerdictEffect
      DEF HasProcess, TerminalStatus
    <3>2. CASE Goto(j, "killC") /\ UNCHANGED <<status, hub>>
      BY <2>0, <2>2, <3>0, <3>2, HandlerEffect
    <3> QED
      BY <2>2, <3>1, <3>2 DEF RaiseCancelled
  <2>3. CASE /\ pc[j] \in {"killC", "killE"}
             /\ Release(j) \/ UNCHANGED <<pc, mgrVars>>
             /\ UNCHANGED <<status, hub>>
    BY <2>0, <2>3
    DEF TypeOK, ProcessTypeOK, Release, mgrVars, Elsewhere, Effect, Terminal
  <2> QED
    BY <1>7, <2>1, <2>2, <2>3 DEF DeliverCancel, runVars
<1> QED
  BY <1>1, <1>2, <1>3, <1>4, <1>5, <1>6, <1>7 DEF RunStep

\* Init /\ the steps of LifecycleInv.
LEMMA LifecycleInit == Init => LifecycleInv
<1> SUFFICES ASSUME Init
             PROVE  LifecycleInv
  OBVIOUS
<1>1. TypeOK
  BY InitType
<1>2. FreshJobs /\ ReapedIsDead /\ ClosedIsDone /\ VerdictAfterExit
  BY DEF Init, ProcessInit, FreshJobs, ReapedIsDead, ClosedIsDone,
         VerdictAfterExit, EmptyLog
<1>3. SlotHeldByLiveJob /\ SlotNotLeaked
  BY DEF Init, SlotHeldByLiveJob, SlotNotLeaked, Live
<1> QED
  BY <1>1, <1>2, <1>3 DEF LifecycleInv

\* A new job takes a slot that no live job holds.
LEMMA CreateLifecycle ==
  ASSUME LifecycleInv, NEW j \in Jobs, Create(j)
  PROVE  LifecycleInv'
<1>0. /\ pc[j] = "unborn" /\ pc' = [pc EXCEPT ![j] = "new"]
      /\ active' = j /\ current' = j /\ server = "up"
      /\ UNCHANGED <<status, hub, cancelPending, processVars, server>>
  BY DEF Create
<1>1. TypeOK'
  BY NextType DEF LifecycleInv, Next
<1>2. FreshJobs' /\ ReapedIsDead' /\ ClosedIsDone' /\ VerdictAfterExit'
  BY <1>0 DEF LifecycleInv, TypeOK, processVars, FreshJobs, ReapedIsDead,
     ClosedIsDone, VerdictAfterExit
<1>3. \A i \in Jobs : ~Live(i)
  BY ConstantsAssumption
  DEF LifecycleInv, SlotHeldByLiveJob, Create, SlotAvailable, Live
<1>4. SlotHeldByLiveJob' /\ SlotNotLeaked'
  BY <1>0, <1>3 DEF LifecycleInv, TypeOK, SlotHeldByLiveJob, SlotNotLeaked,
     Live, Terminal
<1> QED
  BY <1>1, <1>2, <1>4 DEF LifecycleInv

\* A task releases its own slot only, and publishes a verdict only when its
\* script is not running.
LEMMA RunStepLifecycle ==
  ASSUME LifecycleInv, NEW j \in Jobs, RunStep(j)
  PROVE  LifecycleInv'
<1>0. Effect(j)
  BY RunStepEffect DEF LifecycleInv
<1>1. TypeOK'
  BY RunStepType DEF LifecycleInv
<1>2. FreshJobs'
  BY <1>0 DEF Effect, LifecycleInv, FreshJobs, TypeOK
<1>3. ReapedIsDead'
  BY <1>0 DEF Effect, LifecycleInv, ReapedIsDead, FreshJobs, TypeOK
<1>4. ClosedIsDone' /\ VerdictAfterExit'
  BY <1>0 DEF Effect, LifecycleInv, ClosedIsDone, VerdictAfterExit, TypeOK
<1>5. SlotHeldByLiveJob'
  BY <1>0 DEF Effect, LifecycleInv, SlotHeldByLiveJob, Live, Terminal, TypeOK
<1>6. SlotNotLeaked'
  BY <1>0, ConstantsAssumption
  DEF Effect, LifecycleInv, SlotNotLeaked, FreshJobs, TypeOK
<1> QED
  BY <1>1, <1>2, <1>3, <1>4, <1>5, <1>6 DEF LifecycleInv

\* A step of the environment never starts a script and never changes a task.
LEMMA ProcessStepLifecycle ==
  ASSUME LifecycleInv, NEW j \in Jobs, Outside(ProcessStep(j))
  PROVE  LifecycleInv'
<1>0. UNCHANGED <<status, hub, pc, cancelPending, active, current, server>>
  BY DEF Outside, runVars, mgrVars
<1>1. TypeOK'
  BY NextType DEF LifecycleInv, Next
<1>2. /\ \A i \in Jobs : i # j => proc'[i] = proc[i] /\ reaped'[i] = reaped[i]
      /\ \/ proc'[j] = proc[j] /\ reaped'[j] = reaped[j]
         \/ proc[j] \in {"alive", "orphans"} /\ proc'[j] \in {"exited", "orphans"}
              /\ reaped'[j] = reaped[j]
         \/ proc'[j] = proc[j] /\ proc[j] \in {"orphans", "exited"}
  BY DEF Outside, ProcessStep, Emit, Exit, Crash, DieOfSignal, Reap, Ends,
         LifecycleInv, TypeOK, ProcessTypeOK
<1>3. FreshJobs' /\ ReapedIsDead'
  BY <1>0, <1>2 DEF LifecycleInv, FreshJobs, ReapedIsDead
<1>4. ClosedIsDone' /\ VerdictAfterExit'
  BY <1>0, <1>2 DEF LifecycleInv, ClosedIsDone, VerdictAfterExit
<1>5. SlotHeldByLiveJob' /\ SlotNotLeaked'
  BY <1>0 DEF LifecycleInv, SlotHeldByLiveJob, SlotNotLeaked, Live, Terminal
<1> QED
  BY <1>1, <1>3, <1>4, <1>5 DEF LifecycleInv

\* A canceller marks, signals and cancels; it changes no verdict and no slot.
LEMMA CallerLifecycle ==
  ASSUME LifecycleInv, NEW c \in Callers, CancelRequest(c) \/ CallerStep(c)
  PROVE  LifecycleInv'
<1>0. UNCHANGED <<status, hub, pc, active, current, server, proc, reaped>>
  BY DEF CancelRequest, CallerStep, CallerTerminates, CallerWaits, callerFrame,
         mgrVars
<1>1. TypeOK'
  BY NextType DEF LifecycleInv, Next
<1>2. \A j \in Jobs : pc[j] \in {"unborn", "new"} =>
                        cancelPending'[j] = cancelPending[j]
  BY DEF CancelRequest, CallerStep, CallerTerminates, CallerWaits, Blocked,
         LifecycleInv, TypeOK
<1>3. FreshJobs' /\ ReapedIsDead' /\ ClosedIsDone' /\ VerdictAfterExit'
  BY <1>0, <1>2 DEF LifecycleInv, FreshJobs, ReapedIsDead, ClosedIsDone,
     VerdictAfterExit
<1>4. SlotHeldByLiveJob' /\ SlotNotLeaked'
  BY <1>0 DEF LifecycleInv, SlotHeldByLiveJob, SlotNotLeaked, Live, Terminal
<1> QED
  BY <1>1, <1>3, <1>4 DEF LifecycleInv

LEMMA ShutdownLifecycle ==
  ASSUME LifecycleInv, Shutdown \/ CloseLoop \/ UNCHANGED vars
  PROVE  LifecycleInv'
<1>0. UNCHANGED <<status, hub, pc, active, current, proc, reaped>>
  BY DEF Shutdown, CloseLoop, vars, callerFrame, mgrVars, runVars, processVars
<1>1. TypeOK'
  BY NextType DEF LifecycleInv, Next
<1>2. \/ UNCHANGED cancelPending /\ (server = "closed" => server' = "closed")
      \/ server' = "closed"
  BY DEF Shutdown, CloseLoop, vars
<1>3. FreshJobs' /\ ReapedIsDead' /\ ClosedIsDone' /\ VerdictAfterExit'
  BY <1>0, <1>2 DEF LifecycleInv, FreshJobs, ReapedIsDead, ClosedIsDone,
     VerdictAfterExit
<1>4. SlotHeldByLiveJob' /\ SlotNotLeaked'
  BY <1>0, <1>2
  DEF LifecycleInv, SlotHeldByLiveJob, SlotNotLeaked, Live, Terminal
<1> QED
  BY <1>1, <1>3, <1>4 DEF LifecycleInv

\* LifecycleInv is inductive.
THEOREM LifecycleHolds == Spec => []LifecycleInv
<1>1. LifecycleInv /\ [Next]_vars => LifecycleInv'
  BY CreateLifecycle, RunStepLifecycle, ProcessStepLifecycle, CallerLifecycle,
     ShutdownLifecycle
  DEF Next
<1> QED
  BY <1>1, LifecycleInit, PTL DEF Spec

\* create_job and _run_and_release keep the slot with the job in progress.
THEOREM SlotExclusive == Spec => []SlotHeldByLiveJob
<1>1. LifecycleInv => SlotHeldByLiveJob
  BY DEF LifecycleInv
<1> QED
  BY <1>1, LifecycleHolds, PTL

\* No path out of Job.run leaves the slot taken.
THEOREM SlotReleased == Spec => []SlotNotLeaked
<1>1. LifecycleInv => SlotNotLeaked
  BY DEF LifecycleInv
<1> QED
  BY <1>1, LifecycleHolds, PTL

\* No verdict is published while the script of the job runs.
THEOREM VerdictsFollowExits == Spec => []VerdictAfterExit
<1>1. LifecycleInv => VerdictAfterExit
  BY DEF LifecycleInv
<1> QED
  BY <1>1, LifecycleHolds, PTL

-----------------------------------------------------------------------------
(* Silence after a cancellation.                                           *)

\* What the task of a cancelled job publishes.
Silenced(j) ==
  /\ hub'[j].closed
  /\ hub'[j].history[Len(hub'[j].history)].type \in {"cancelled", "error"}

\* A verdict that changes the log of a hub is its last event.
LEMMA VerdictSilences ==
  ASSUME TypeOK, NEW j \in Jobs, NEW verdict,
         NEW event \in {"cancelled", "error"}, Verdict(j, verdict, event),
         hub'[j] # hub[j]
  PROVE  Silenced(j)
<1>1. hub[j] \in HubLog /\ hub'[j] = Publish(hub[j], Ev(event, 0))
  BY DEF TypeOK, Verdict
<1>2. Ev(event, 0) \in Event /\ Ev(event, 0).type = event
  BY EvType DEF Ev, ScriptTypes
<1>3. ~hub[j].closed
  BY <1>1 DEF Publish
<1>4. hub[j].history \in Seq(Event)
  BY <1>1 DEF HubLog
<1>5. hub'[j] = [history |-> Append(hub[j].history, Ev(event, 0)), closed |-> TRUE]
  BY <1>1, <1>2, <1>3 DEF Publish, TerminalTypes
<1>6. /\ Len(Append(hub[j].history, Ev(event, 0))) = Len(hub[j].history) + 1
      /\ Append(hub[j].history, Ev(event, 0))[Len(hub[j].history) + 1] = Ev(event, 0)
  BY <1>2, <1>4
<1>7. hub'[j].closed
  BY <1>5
<1>8. hub'[j].history = Append(hub[j].history, Ev(event, 0))
  BY <1>5
<1>9. hub'[j].history[Len(hub'[j].history)] = Ev(event, 0)
  BY <1>6, <1>8
<1> QED
  BY <1>2, <1>7, <1>9 DEF Silenced

LEMMA RunStepSilenced ==
  ASSUME TypeOK, NEW j \in Jobs, RunStep(j), cancelRequested[j], hub'[j] # hub[j]
  PROVE  Silenced(j)
<1>1. CASE RaiseException(j)
  BY <1>1, VerdictSilences DEF RaiseException
<1>2. CASE RunStart(j)
  BY <1>2, <1>1, VerdictSilences DEF RunStart
<1>3. CASE Spawned(j)
  BY <1>3, <1>1 DEF Spawned
<1>4. CASE ReadLine(j)
  BY <1>4, <1>1 DEF ReadLine, Draining
<1>5. CASE ReadEOF(j) \/ WaitReturns(j)
  BY <1>5 DEF ReadEOF, WaitReturns
<1>6. CASE Finalize(j)
  BY <1>6, VerdictSilences DEF Finalize
<1>7. CASE HandlerStep(j)
  BY <1>7, VerdictSilences DEF HandlerStep
<1>8. CASE DeliverCancel(j)
  BY <1>8, VerdictSilences DEF DeliverCancel, RaiseCancelled, runVars
<1> QED
  BY <1>2, <1>3, <1>4, <1>5, <1>6, <1>7, <1>8 DEF RunStep

\* After a cancel request no progress and no completion reaches the hub: the
\* event that follows is the verdict.
THEOREM CancelledStaySilent == Spec => CancelSilences
<1>1. ASSUME LifecycleInv, [Next]_vars,
             NEW j \in Jobs, cancelRequested[j], hub'[j] # hub[j]
      PROVE  Silenced(j)
  <2>0. TypeOK /\ FreshJobs /\ ReapedIsDead
    BY <1>1 DEF LifecycleInv
  <2>1. CASE \E i \in Jobs : RunStep(i)
    <3>1. PICK i \in Jobs : RunStep(i)
      BY <2>1
    <3>2. Effect(i)
      BY <2>0, <3>1, RunStepEffect
    <3>3. i = j
      BY <1>1, <3>2 DEF Effect
    <3> QED
      BY <1>1, <2>0, <3>1, <3>3, RunStepSilenced
  <2>2. CASE UNCHANGED hub
    BY <1>1, <2>2
  <2>3. (\E i \in Jobs : RunStep(i)) \/ UNCHANGED hub
    BY <1>1 DEF Next, vars, runVars, Create, Outside, CancelRequest, CallerStep,
       CallerTerminates, CallerWaits, callerFrame, Shutdown, CloseLoop
  <2> QED
    BY <2>1, <2>2, <2>3
<1>2. LifecycleInv /\ [Next]_vars =>
        [\A j \in Jobs :
           cancelRequested[j] /\ hub'[j] # hub[j] =>
             /\ hub'[j].closed
             /\ hub'[j].history[Len(hub'[j].history)].type
                  \in {"cancelled", "error"}]_vars
  BY <1>1 DEF Silenced
<1> QED
  BY <1>2, LifecycleHolds, PTL DEF Spec, CancelSilences

-----------------------------------------------------------------------------
(* The output of a script from its _emit to the log of its job, for any    *)
(* number of jobs, batches and faults: a completion is confirmed, and the  *)
(* backend implements SimulationService.                                   *)

\* The events that the hub of j has logged.
Count(j) == Len(hub[j].history)

\* Before its process exists a job has no output.
NotSpawned(j) ==
  pc[j] \in {"unborn", "new", "spawn"} =>
    hub[j] = EmptyLog /\ lines[j] = << >> /\ step[j] = 0 /\ rc[j] = "none"

\* What the pipe holds continues the log: progress in order, and a line of
\* another kind only as the last.  A script that has more to print has
\* printed nothing else.
InOrder(j) ==
  pc[j] = "read" =>
    /\ \A i \in 1 .. Len(lines[j]) :
         /\ lines[j][i].type \in {"start", "batch"} =>
              /\ lines[j][i] = Service!ProgressEvent(Count(j) + i - 1)
              /\ Count(j) + i - 1 <= MaxBatches
         /\ lines[j][i].type = "complete" => Count(j) + i = MaxBatches + 2
         /\ lines[j][i].type \notin {"start", "batch", "huge"} => i = Len(lines[j])
    /\ proc[j] = "alive" /\ step[j] < Completed =>
         /\ step[j] = Count(j) + Len(lines[j])
         /\ \A i \in 1 .. Len(lines[j]) :
              lines[j][i].type \in {"start", "batch", "huge"}

\* A terminal event of the script is its last line and the only one.
SawLast(j) ==
  saw[j] # {} =>
    /\ pc[j] \in {"read", "wait", "stderr"}
    /\ lines[j] = << >>
    /\ proc[j] = "alive" => step[j] >= Completed
    /\ saw[j] = {terminalEvent[j]}
    /\ "complete" \in saw[j] => Count(j) = MaxBatches + 1

ExitKnown(j) ==
  /\ pc[j] = "stderr" => reaped[j]
  /\ rc[j] = "zero" => proc[j] = "exited"

Decided(j) ==
  /\ status[j] = "completed" =>
       /\ pc[j] = "done" /\ rc[j] = "zero" /\ reaped[j]
       /\ Count(j) = MaxBatches + 2
  /\ Terminal(j) => pc[j] \in {"killE", "done"}
  /\ pc[j] = "killE" => status[j] = "failed"

OutputOf(j) == NotSpawned(j) /\ InOrder(j) /\ SawLast(j) /\ ExitKnown(j) /\ Decided(j)

\* With LifecycleInv this is inductive.
OutputInv == \A j \in Jobs : OutputOf(j)

-----------------------------------------------------------------------------
(* Steps that do not touch a job.                                          *)

Untouched(j) ==
  /\ pc'[j] = pc[j] /\ status'[j] = status[j] /\ hub'[j] = hub[j]
  /\ saw'[j] = saw[j] /\ terminalEvent'[j] = terminalEvent[j]
  /\ proc'[j] = proc[j] /\ rc'[j] = rc[j] /\ reaped'[j] = reaped[j]
  /\ lines'[j] = lines[j] /\ step'[j] = step[j]

LEMMA UntouchedOutput ==
  ASSUME NEW j \in Jobs, OutputOf(j), Untouched(j)
  PROVE  OutputOf(j)'
<1>1. NotSpawned(j)' /\ SawLast(j)' /\ ExitKnown(j)' /\ Decided(j)'
  BY DEF OutputOf, Untouched, NotSpawned, SawLast, ExitKnown, Decided, Terminal, Count
<1>2. InOrder(j)'
  BY DEF OutputOf, Untouched, InOrder, Count
<1> QED
  BY <1>1, <1>2 DEF OutputOf

-----------------------------------------------------------------------------
(* The script and its environment.                                         *)

\* What the script prints next continues the log and the pipe.
LEMMA EmitOutput ==
  ASSUME LifecycleInv, NEW j \in Jobs, OutputOf(j), Outside(Emit(j))
  PROVE  OutputOf(j)'
<1>0. /\ proc[j] = "alive" /\ step[j] < Completed /\ step[j] \in Nat
      /\ UNCHANGED <<status, hub, saw, terminalEvent, pc, proc, rc, reaped>>
      /\ MaxBatches \in Nat /\ lines[j] \in Seq(Line) /\ Count(j) \in Nat
  BY ProcessAssumption
  DEF Outside, Emit, runVars, LifecycleInv, TypeOK, ProcessTypeOK, HubLog, Count, Errored
<1>1. PICK event \in ScriptEvents(step[j], MaxBatches) :
        /\ step' = [step EXCEPT ![j] = IF event.type = "error" THEN Errored ELSE @ + 1]
        /\ \/ lines' = [lines EXCEPT ![j] = Append(@, event)]
           \/ lines' = [lines EXCEPT ![j] = Append(@, Ev("huge", 0))]
                /\ event.type = "batch"
  BY DEF Outside, Emit
<1>2. PICK line : /\ lines'[j] = Append(lines[j], line)
                  /\ line = event \/ (line = Ev("huge", 0) /\ event.type = "batch")
  BY <1>1 DEF LifecycleInv, TypeOK, ProcessTypeOK
<1>3. /\ step'[j] = IF event.type = "error" THEN MaxBatches + 3 ELSE step[j] + 1
      /\ Completed = MaxBatches + 2
  BY <1>1 DEF LifecycleInv, TypeOK, ProcessTypeOK, Errored, Completed
<1>4. pc[j] \notin {"unborn", "new", "spawn"} /\ saw[j] = {}
  BY <1>0, <1>3 DEF LifecycleInv, FreshJobs, OutputOf, SawLast
<1>5. line \in Line
  BY <1>0, <1>2, EvType DEF ScriptEvents, ScriptTypes, NonEvents
<1>6. /\ Len(lines'[j]) = Len(lines[j]) + 1
      /\ \A i \in 1 .. Len(lines[j]) : lines'[j][i] = lines[j][i]
      /\ lines'[j][Len(lines[j]) + 1] = line
      /\ Len(lines[j]) \in Nat
  BY <1>0, <1>2, <1>5
<1>7. Count(j)' = Count(j)
  BY <1>0 DEF Count
<1>8. InOrder(j)'
  <2> SUFFICES ASSUME pc[j] = "read" PROVE InOrder(j)'
    BY <1>0 DEF InOrder
  <2>1. /\ step[j] = Count(j) + Len(lines[j])
        /\ \A i \in 1 .. Len(lines[j]) : lines[j][i].type \in {"start", "batch", "huge"}
        /\ \A i \in 1 .. Len(lines[j]) : lines[j][i].type \in {"start", "batch"} =>
             /\ lines[j][i] = Service!ProgressEvent(Count(j) + i - 1)
             /\ Count(j) + i - 1 <= MaxBatches
    BY <1>0 DEF OutputOf, InOrder
  <2>2. /\ line.type \in {"start", "batch"} =>
             line = Service!ProgressEvent(step[j]) /\ step[j] <= MaxBatches
        /\ line.type = "complete" => step[j] + 1 = MaxBatches + 2
        /\ step'[j] < Completed =>
             step'[j] = step[j] + 1 /\ line.type \in {"start", "batch", "huge"}
    <3>1. CASE step[j] = 0
      BY <1>0, <1>2, <1>3, <3>1 DEF ScriptEvents, Ev, Service!ProgressEvent, Service!Ev
    <3>2. CASE step[j] # 0 /\ step[j] <= MaxBatches
      BY <1>0, <1>2, <1>3, <3>2 DEF ScriptEvents, Ev, Service!ProgressEvent, Service!Ev
    <3>3. CASE step[j] # 0 /\ ~(step[j] <= MaxBatches)
      BY <1>0, <1>2, <1>3, <3>3 DEF ScriptEvents, Ev
    <3> QED
      BY <3>1, <3>2, <3>3
  <2>3. step[j] = Count(j) + (Len(lines[j]) + 1) - 1
    BY <1>0, <1>6, <2>1
  <2>4. \A i \in 1 .. Len(lines'[j]) : i \in 1 .. Len(lines[j]) \/ i = Len(lines[j]) + 1
    BY <1>6
  <2>5. \A i \in 1 .. Len(lines'[j]) :
          /\ lines'[j][i].type \in {"start", "batch"} =>
               /\ lines'[j][i] = Service!ProgressEvent(Count(j) + i - 1)
               /\ Count(j) + i - 1 <= MaxBatches
          /\ lines'[j][i].type = "complete" => Count(j) + i = MaxBatches + 2
          /\ lines'[j][i].type \notin {"start", "batch", "huge"} => i = Len(lines'[j])
    <3> SUFFICES ASSUME NEW i \in 1 .. Len(lines'[j])
                 PROVE  /\ lines'[j][i].type \in {"start", "batch"} =>
                             /\ lines'[j][i] = Service!ProgressEvent(Count(j) + i - 1)
                             /\ Count(j) + i - 1 <= MaxBatches
                        /\ lines'[j][i].type = "complete" => Count(j) + i = MaxBatches + 2
                        /\ lines'[j][i].type \notin {"start", "batch", "huge"} =>
                             i = Len(lines'[j])
      OBVIOUS
    <3>1. CASE i \in 1 .. Len(lines[j])
      BY <1>6, <2>1, <3>1
    <3>2. CASE i = Len(lines[j]) + 1
      <4>1. lines'[j][i] = line /\ Count(j) + i - 1 = step[j] /\ Count(j) + i = step[j] + 1
        BY <1>0, <1>6, <2>3, <3>2
      <4> QED
        BY <1>6, <2>2, <3>2, <4>1
    <3> QED
      BY <2>4, <3>1, <3>2
  <2>6. step'[j] < Completed =>
          /\ step'[j] = Count(j) + Len(lines'[j])
          /\ \A i \in 1 .. Len(lines'[j]) :
               lines'[j][i].type \in {"start", "batch", "huge"}
    <3> SUFFICES ASSUME step'[j] < Completed
                 PROVE  /\ step'[j] = Count(j) + Len(lines'[j])
                        /\ \A i \in 1 .. Len(lines'[j]) :
                             lines'[j][i].type \in {"start", "batch", "huge"}
      OBVIOUS
    <3>1. step'[j] = step[j] + 1 /\ line.type \in {"start", "batch", "huge"}
      BY <2>2
    <3>2. step'[j] = Count(j) + Len(lines'[j])
      BY <1>0, <1>6, <2>3, <3>1
    <3>3. \A i \in 1 .. Len(lines'[j]) :
            lines'[j][i].type \in {"start", "batch", "huge"}
      BY <1>6, <2>1, <2>4, <3>1
    <3> QED
      BY <3>2, <3>3
  <2> QED
    BY <1>0, <1>7, <2>5, <2>6 DEF InOrder, Completed
<1>9. NotSpawned(j)' /\ SawLast(j)' /\ ExitKnown(j)' /\ Decided(j)'
  BY <1>0, <1>4, <1>7
  DEF OutputOf, NotSpawned, SawLast, ExitKnown, Decided, Terminal
<1> QED
  BY <1>8, <1>9 DEF OutputOf

\* What dies in the middle of its output leaves at most one line more, which
\* is no event of the protocol.
LEMMA DeathOutput ==
  ASSUME LifecycleInv, NEW j \in Jobs, OutputOf(j),
         UNCHANGED <<status, hub, saw, terminalEvent, pc>>,
         proc[j] \in {"alive", "orphans"}, proc'[j] \in {"orphans", "exited"},
         rc'[j] = "zero" => proc'[j] = "exited",
         reaped'[j] = reaped[j],
         \/ lines'[j] = lines[j]
         \/ /\ proc[j] = "alive" /\ step[j] < Completed
            /\ \E type \in {"noise", "bad"} : lines'[j] = Append(lines[j], Ev(type, 0))
  PROVE  OutputOf(j)'
<1>0. /\ lines[j] \in Seq(Line) /\ Count(j) \in Nat
      /\ pc[j] \notin {"unborn", "new", "spawn"} /\ Count(j)' = Count(j)
  BY DEF LifecycleInv, TypeOK, ProcessTypeOK, HubLog, Count, FreshJobs
<1>1. CASE lines'[j] = lines[j]
  <2>1. InOrder(j)'
    BY <1>0, <1>1 DEF OutputOf, InOrder
  <2>2. NotSpawned(j)' /\ SawLast(j)' /\ ExitKnown(j)' /\ Decided(j)'
    BY <1>0, <1>1 DEF OutputOf, NotSpawned, SawLast, ExitKnown, Decided, Terminal
  <2> QED
    BY <2>1, <2>2 DEF OutputOf
<1>2. CASE /\ proc[j] = "alive" /\ step[j] < Completed
           /\ \E type \in {"noise", "bad"} : lines'[j] = Append(lines[j], Ev(type, 0))
  <2>1. PICK line : /\ line \in Line /\ line.type \in {"noise", "bad"}
                    /\ lines'[j] = Append(lines[j], line)
    BY <1>2, EvType DEF NonEvents, Ev
  <2>2. /\ Len(lines'[j]) = Len(lines[j]) + 1
        /\ \A i \in 1 .. Len(lines[j]) : lines'[j][i] = lines[j][i]
        /\ lines'[j][Len(lines[j]) + 1] = line
        /\ Len(lines[j]) \in Nat
    BY <1>0, <2>1
  <2>3. \A i \in 1 .. Len(lines'[j]) : i \in 1 .. Len(lines[j]) \/ i = Len(lines[j]) + 1
    BY <2>2
  <2>4. saw[j] = {}
    BY <1>2, ProcessAssumption
    DEF OutputOf, SawLast, LifecycleInv, TypeOK, ProcessTypeOK, Completed, Errored
  <2>5. InOrder(j)'
    <3> SUFFICES ASSUME pc[j] = "read" PROVE InOrder(j)'
      BY DEF InOrder
    <3>1. \A i \in 1 .. Len(lines[j]) :
            /\ lines[j][i].type \in {"start", "batch", "huge"}
            /\ lines[j][i].type \in {"start", "batch"} =>
                 /\ lines[j][i] = Service!ProgressEvent(Count(j) + i - 1)
                 /\ Count(j) + i - 1 <= MaxBatches
      BY <1>2 DEF OutputOf, InOrder
    <3>2. \A i \in 1 .. Len(lines'[j]) :
            /\ lines'[j][i].type \in {"start", "batch"} =>
                 /\ lines'[j][i] = Service!ProgressEvent(Count(j) + i - 1)
                 /\ Count(j) + i - 1 <= MaxBatches
            /\ lines'[j][i].type # "complete"
            /\ lines'[j][i].type \notin {"start", "batch", "huge"} => i = Len(lines'[j])
      BY <2>1, <2>2, <2>3, <3>1
    <3> QED
      BY <1>0, <3>2 DEF InOrder
  <2>6. NotSpawned(j)' /\ SawLast(j)' /\ ExitKnown(j)' /\ Decided(j)'
    BY <1>0, <2>4 DEF OutputOf, NotSpawned, SawLast, ExitKnown, Decided, Terminal
  <2> QED
    BY <2>5, <2>6 DEF OutputOf
<1> QED
  BY <1>1, <1>2

LEMMA ProcessStepOutput ==
  ASSUME LifecycleInv, NEW j \in Jobs, OutputOf(j), Outside(ProcessStep(j))
  PROVE  OutputOf(j)'
<1>0. UNCHANGED <<status, hub, saw, terminalEvent, pc>>
  BY DEF Outside, runVars
<1>1. CASE Emit(j)
  <2>1. Outside(Emit(j))
    BY <1>1 DEF Outside
  <2> QED
    BY <2>1, EmitOutput
<1>2. CASE Exit(j) \/ Crash(j) \/ DieOfSignal(j)
  <2>1. /\ proc[j] \in {"alive", "orphans"} /\ proc'[j] \in {"orphans", "exited"}
        /\ rc'[j] = "zero" => proc'[j] = "exited"
        /\ reaped'[j] = reaped[j]
    BY <1>2
    DEF Exit, Crash, DieOfSignal, Ends, LifecycleInv, TypeOK, ProcessTypeOK
  <2>2. lines'[j] = lines[j] \/ (proc[j] = "alive" /\ PartialLine(j))
    BY <1>2 DEF Exit, Crash, DieOfSignal, PartialLine
  <2>3. PartialLine(j) =>
          \/ lines'[j] = lines[j]
          \/ /\ step[j] < Completed
             /\ \E type \in {"noise", "bad"} : lines'[j] = Append(lines[j], Ev(type, 0))
    BY DEF PartialLine, LifecycleInv, TypeOK, ProcessTypeOK
  <2> QED
    BY <1>0, <2>1, <2>2, <2>3, DeathOutput
<1>3. CASE Reap(j)
  <2>1. UNCHANGED <<proc, rc, lines, step>> /\ reaped'[j]
    BY <1>3 DEF Reap, LifecycleInv, TypeOK, ProcessTypeOK
  <2>2. NotSpawned(j)' /\ SawLast(j)' /\ ExitKnown(j)' /\ Decided(j)'
    BY <1>0, <2>1
    DEF OutputOf, NotSpawned, SawLast, ExitKnown, Decided, Terminal, Count
  <2>3. InOrder(j)'
    BY <1>0, <2>1 DEF OutputOf, InOrder, Count
  <2> QED
    BY <2>2, <2>3 DEF OutputOf
<1> QED
  BY <1>1, <1>2, <1>3 DEF Outside, ProcessStep

-----------------------------------------------------------------------------
(* The task of the job.                                                    *)

\* A verdict is the last event of the log.
LEMMA VerdictOutput ==
  ASSUME LifecycleInv, NEW j \in Jobs, OutputOf(j), NEW verdict \in TerminalStatus,
         NEW event, Verdict(j, verdict, event),
         pc[j] \notin {"unborn", "done"},
         UNCHANGED <<proc, rc, reaped>>, saw'[j] = {},
         verdict = "completed" =>
           rc[j] = "zero" /\ reaped[j] /\ Count(j) = MaxBatches + 1
  PROVE  OutputOf(j)'
<1>0. /\ pc'[j] = "done" /\ status'[j] = verdict
      /\ hub'[j] = Publish(hub[j], Ev(event, 0))
      /\ hub[j] \in HubLog /\ ~hub[j].closed
  BY DEF Verdict, Release, LifecycleInv, TypeOK, ClosedIsDone
<1>1. Len(hub'[j].history) = Len(hub[j].history) + 1
  <2>1. hub'[j].history = Append(hub[j].history, Ev(event, 0))
    BY <1>0 DEF Publish
  <2> QED
    BY <1>0, <2>1 DEF HubLog
<1>2. Count(j)' = Count(j) + 1
  BY <1>1 DEF Count
<1>3. Decided(j)'
  BY <1>0, <1>2, ProcessAssumption DEF Decided, TerminalStatus
<1>4. NotSpawned(j)' /\ InOrder(j)' /\ SawLast(j)' /\ ExitKnown(j)'
  BY <1>0 DEF OutputOf, NotSpawned, InOrder, SawLast, ExitKnown
<1> QED
  BY <1>3, <1>4 DEF OutputOf

\* A handler of Job.run starts to terminate the process.
LEMMA HandlerOutput ==
  ASSUME LifecycleInv, NEW j \in Jobs, OutputOf(j), LeaveTry(j),
         UNCHANGED <<proc, rc, reaped, hub>>,
         pc[j] \notin {"unborn", "done", "killE"},
         \/ Goto(j, "killE") /\ status' = [status EXCEPT ![j] = "failed"]
         \/ Goto(j, "killC") /\ UNCHANGED status
  PROVE  OutputOf(j)'
<1>0. /\ saw'[j] = {}
      /\ \/ pc'[j] = "killE" /\ status'[j] = "failed"
         \/ pc'[j] = "killC" /\ status'[j] = status[j]
  BY DEF LeaveTry, Goto, LifecycleInv, TypeOK
<1>1. ~Terminal(j)
  BY DEF OutputOf, Decided
<1> QED
  BY <1>0, <1>1
  DEF OutputOf, NotSpawned, InOrder, SawLast, ExitKnown, Decided, Terminal,
      TerminalStatus

LEMMA RaiseExceptionOutput ==
  ASSUME LifecycleInv, NEW j \in Jobs, OutputOf(j), RaiseException(j),
         NotCancelling, UNCHANGED proc, pc[j] \in {"new", "spawn", "read"}
  PROVE  OutputOf(j)'
<1>0. saw'[j] = {} /\ UNCHANGED <<rc, reaped>> /\ LeaveTry(j)
  BY DEF RaiseException, LeaveTry, NotCancelling, Elsewhere, LifecycleInv, TypeOK
<1>1. CASE Verdict(j, "failed", "error")
  BY <1>0, <1>1, VerdictOutput DEF TerminalStatus
<1>2. CASE /\ status' = [status EXCEPT ![j] = "failed"]
           /\ Goto(j, "killE") /\ UNCHANGED hub
  BY <1>0, <1>2, HandlerOutput
<1> QED
  BY <1>1, <1>2 DEF RaiseException

\* One line leaves the pipe for the log, or for saw.
LEMMA ReadLineOutput ==
  ASSUME LifecycleInv, NEW j \in Jobs, OutputOf(j), ReadLine(j)
  PROVE  OutputOf(j)'
<1>0. /\ NotCancelling /\ UNCHANGED <<proc, rc, reaped, step>> /\ pc[j] = "read"
      /\ lines[j] \in Seq(Line) /\ lines[j] # << >>
      /\ hub[j] \in HubLog /\ ~hub[j].closed /\ MaxBatches \in Nat
  BY ProcessAssumption
  DEF ReadLine, NotCancelling, Elsewhere, LifecycleInv, TypeOK, ProcessTypeOK,
      ClosedIsDone
<1>1. CASE RaiseException(j)
  BY <1>0, <1>1, RaiseExceptionOutput
<1> DEFINE line == Head(lines[j])
<1>2. CASE ~RaiseException(j)
  <2>1. /\ lines'[j] = Tail(lines[j])
        /\ UNCHANGED status
        /\ pc'[j] = IF Draining(j) THEN "wait" ELSE "read"
        /\ IF ~Draining(j) /\ line.type \in {"complete", "error"}
           THEN saw'[j] = saw[j] \cup {line.type} /\ terminalEvent'[j] = line.type
           ELSE saw'[j] = saw[j] /\ terminalEvent'[j] = terminalEvent[j]
        /\ hub'[j] = IF ~Draining(j) /\ line.type \in {"start", "batch"}
                     THEN Publish(hub[j], line) ELSE hub[j]
    BY <1>0, <1>2 DEF ReadLine, Goto, LifecycleInv, TypeOK, ProcessTypeOK
  <2>2. /\ line \in Line /\ line = lines[j][1] /\ 1 \in 1 .. Len(lines[j])
        /\ Len(lines'[j]) = Len(lines[j]) - 1
        /\ \A i \in 1 .. Len(lines'[j]) : lines'[j][i] = lines[j][i + 1]
        /\ Len(lines[j]) \in Nat
    BY <1>0, <2>1
  <2>3. saw[j] = {}
    BY <1>0 DEF OutputOf, SawLast
  <2>4. line.type # "huge"
    BY <1>0, <1>2 DEF ReadLine
  <2>5. Count(j)' = IF ~Draining(j) /\ line.type \in {"start", "batch"}
                    THEN Count(j) + 1 ELSE Count(j)
    <3>1. CASE ~Draining(j) /\ line.type \in {"start", "batch"}
      <4>1. hub'[j].history = Append(hub[j].history, line)
        BY <1>0, <2>1, <3>1 DEF Publish
      <4>2. line \in Event
        BY <2>2, <3>1, LineEvent
      <4> QED
        BY <1>0, <3>1, <4>1, <4>2 DEF HubLog, Count
    <3>2. CASE ~(~Draining(j) /\ line.type \in {"start", "batch"})
      BY <2>1, <3>2 DEF Count
    <3> QED
      BY <3>1, <3>2
  <2> HIDE DEF line
  <2>6. Count(j) \in Nat
    BY <1>0 DEF HubLog, Count
  <2>7. /\ \A i \in 1 .. Len(lines[j]) :
             /\ lines[j][i].type \in {"start", "batch"} =>
                  /\ lines[j][i] = Service!ProgressEvent(Count(j) + i - 1)
                  /\ Count(j) + i - 1 <= MaxBatches
             /\ lines[j][i].type = "complete" => Count(j) + i = MaxBatches + 2
             /\ lines[j][i].type \notin {"start", "batch", "huge"} => i = Len(lines[j])
        /\ proc[j] = "alive" /\ step[j] < Completed =>
             /\ step[j] = Count(j) + Len(lines[j])
             /\ \A i \in 1 .. Len(lines[j]) :
                  lines[j][i].type \in {"start", "batch", "huge"}
    BY <1>0 DEF OutputOf, InOrder
  <2>8. SawLast(j)'
    <3>1. CASE ~Draining(j) /\ line.type \in {"complete", "error"}
      <4>1. Len(lines[j]) = 1
        BY <2>2, <2>7, <3>1
      <4>2. lines'[j] = << >>
        <5>1. Len(lines'[j]) = 0
          BY <2>2, <4>1
        <5>2. lines'[j] \in Seq(Line)
          BY <1>0, <2>1
        <5> QED
          BY <5>1, <5>2
      <4>3. proc[j] = "alive" => step[j] >= Completed
        <5>1. ~(proc[j] = "alive" /\ step[j] < Completed)
          BY <2>2, <2>7, <3>1
        <5>2. step[j] \in Nat /\ Completed \in Nat
          BY ProcessAssumption
          DEF Completed, Errored, LifecycleInv, TypeOK, ProcessTypeOK
        <5> QED
          BY <5>1, <5>2
      <4>4. line.type = "complete" => Count(j) + 1 = MaxBatches + 2
        BY <2>2, <2>7
      <4>5. saw'[j] = {line.type} /\ terminalEvent'[j] = line.type
        BY <2>1, <2>3, <3>1
      <4>6. Count(j)' = Count(j) /\ pc'[j] = "read"
        BY <2>1, <2>5, <3>1
      <4> QED
        BY <1>0, <2>6, <4>2, <4>3, <4>4, <4>5, <4>6 DEF SawLast
    <3>2. CASE ~(~Draining(j) /\ line.type \in {"complete", "error"})
      BY <2>1, <2>3, <3>2 DEF SawLast
    <3> QED
      BY <3>1, <3>2
  <2>9. InOrder(j)'
    <3>1. CASE Draining(j)
      BY <2>1, <3>1 DEF InOrder
    <3>2. CASE ~Draining(j) /\ line.type \in {"start", "batch"}
      <4>1. Count(j)' = Count(j) + 1
        BY <2>5, <3>2
      <4>2. \A i \in 1 .. Len(lines'[j]) :
              /\ i + 1 \in 1 .. Len(lines[j])
              /\ Count(j) + (i + 1) - 1 = (Count(j) + 1) + i - 1
              /\ Count(j) + (i + 1) = (Count(j) + 1) + i
              /\ i + 1 = Len(lines[j]) => i = Len(lines'[j])
        <5> SUFFICES ASSUME NEW i \in 1 .. Len(lines'[j])
                     PROVE  /\ i + 1 \in 1 .. Len(lines[j])
                            /\ Count(j) + (i + 1) - 1 = (Count(j) + 1) + i - 1
                            /\ Count(j) + (i + 1) = (Count(j) + 1) + i
                            /\ i + 1 = Len(lines[j]) => i = Len(lines'[j])
          OBVIOUS
        <5>1. i \in Nat /\ 1 <= i /\ i <= Len(lines[j]) - 1
          BY <2>2
        <5>2. /\ Count(j) + (i + 1) - 1 = (Count(j) + 1) + i - 1
              /\ Count(j) + (i + 1) = (Count(j) + 1) + i
          BY <2>6, <5>1
        <5> QED
          BY <2>2, <5>1, <5>2
      <4>3. \A i \in 1 .. Len(lines'[j]) :
              /\ lines'[j][i].type \in {"start", "batch"} =>
                   /\ lines'[j][i] = Service!ProgressEvent((Count(j) + 1) + i - 1)
                   /\ (Count(j) + 1) + i - 1 <= MaxBatches
              /\ lines'[j][i].type = "complete" => (Count(j) + 1) + i = MaxBatches + 2
              /\ lines'[j][i].type \notin {"start", "batch", "huge"} => i = Len(lines'[j])
        <5> SUFFICES ASSUME NEW i \in 1 .. Len(lines'[j])
                     PROVE  /\ lines'[j][i].type \in {"start", "batch"} =>
                                 /\ lines'[j][i] = Service!ProgressEvent((Count(j) + 1) + i - 1)
                                 /\ (Count(j) + 1) + i - 1 <= MaxBatches
                            /\ lines'[j][i].type = "complete" =>
                                 (Count(j) + 1) + i = MaxBatches + 2
                            /\ lines'[j][i].type \notin {"start", "batch", "huge"} =>
                                 i = Len(lines'[j])
          OBVIOUS
        <5>1. lines'[j][i] = lines[j][i + 1]
          BY <2>2
        <5> QED
          BY <2>7, <4>2, <5>1
      <4>4. proc[j] = "alive" /\ step[j] < Completed =>
              /\ step[j] = (Count(j) + 1) + Len(lines'[j])
              /\ \A i \in 1 .. Len(lines'[j]) :
                   lines'[j][i].type \in {"start", "batch", "huge"}
        <5> SUFFICES ASSUME proc[j] = "alive" /\ step[j] < Completed
                     PROVE  /\ step[j] = (Count(j) + 1) + Len(lines'[j])
                            /\ \A i \in 1 .. Len(lines'[j]) :
                                 lines'[j][i].type \in {"start", "batch", "huge"}
          OBVIOUS
        <5>1. step[j] = Count(j) + Len(lines[j])
          BY <2>7
        <5>2. step[j] = (Count(j) + 1) + Len(lines'[j])
          BY <2>2, <2>6, <5>1
        <5>3. \A i \in 1 .. Len(lines'[j]) :
                lines'[j][i].type \in {"start", "batch", "huge"}
          BY <2>2, <2>7, <4>2
        <5> QED
          BY <5>2, <5>3
      <4> QED
        BY <1>0, <4>1, <4>3, <4>4 DEF InOrder, Completed
    <3>3. CASE ~Draining(j) /\ line.type \notin {"start", "batch"}
      <4>1. Len(lines[j]) = 1
        BY <2>2, <2>4, <2>7, <3>3
      <4>2. Len(lines'[j]) = 0
        BY <2>2, <4>1
      <4>3. ~(proc[j] = "alive" /\ step[j] < Completed)
        BY <2>2, <2>4, <2>7, <3>3
      <4> QED
        BY <1>0, <4>2, <4>3 DEF InOrder, Completed
    <3> QED
      BY <3>1, <3>2, <3>3
  <2>10. NotSpawned(j)' /\ ExitKnown(j)' /\ Decided(j)'
    BY <1>0, <2>1 DEF OutputOf, NotSpawned, ExitKnown, Decided, Terminal, TerminalStatus
  <2> QED
    BY <2>8, <2>9, <2>10 DEF OutputOf
<1> QED
  BY <1>1, <1>2

LEMMA RunStepOutput ==
  ASSUME LifecycleInv, NEW j \in Jobs, OutputOf(j), RunStep(j)
  PROVE  OutputOf(j)'
<1>0. pc[j] \notin {"spawn", "read", "wait", "stderr"} => saw[j] = {}
  BY DEF OutputOf, SawLast
<1>1. CASE RunStart(j)
  <2>0. NotCancelling /\ UNCHANGED <<proc, rc, reaped, step>> /\ pc[j] = "new"
    BY <1>1 DEF RunStart, NotCancelling, Elsewhere
  <2>1. CASE Verdict(j, "cancelled", "cancelled") /\ UNCHANGED Locals
    BY <1>0, <2>0, <2>1, VerdictOutput DEF TerminalStatus, Locals
  <2>2. CASE /\ status' = [status EXCEPT ![j] = "running"]
             /\ Goto(j, "spawn") /\ UNCHANGED <<hub, Locals>>
    <3>1. pc'[j] = "spawn" /\ status'[j] = "running"
      BY <2>2 DEF Goto, LifecycleInv, TypeOK
    <3> QED
      BY <1>0, <2>0, <2>2, <3>1
      DEF OutputOf, NotSpawned, InOrder, SawLast, ExitKnown, Decided, Terminal,
          TerminalStatus, Locals
  <2>3. CASE RaiseException(j) /\ UNCHANGED proc
    BY <2>0, <2>3, RaiseExceptionOutput
  <2> QED
    BY <1>1, <2>1, <2>2, <2>3 DEF RunStart
<1>2. CASE Spawned(j)
  <2>0. NotCancelling /\ UNCHANGED <<rc, reaped, step>> /\ pc[j] = "spawn"
    BY <1>2 DEF Spawned, NotCancelling, Elsewhere
  <2>1. CASE RaiseException(j) /\ UNCHANGED proc
    BY <2>0, <2>1, RaiseExceptionOutput
  <2>2. CASE /\ proc' = [proc EXCEPT ![j] = "alive"] /\ Goto(j, "read")
             /\ UNCHANGED <<status, hub, Locals>>
    <3>1. /\ pc'[j] = "read" /\ proc'[j] = "alive"
          /\ hub'[j] = EmptyLog /\ lines'[j] = << >> /\ step'[j] = 0 /\ rc'[j] = "none"
          /\ saw'[j] = {}
      BY <2>0, <2>2
      DEF Goto, Locals, LifecycleInv, TypeOK, ProcessTypeOK, OutputOf, NotSpawned, SawLast
    <3>2. Len(lines'[j]) = 0 /\ Count(j)' = 0
      BY <3>1 DEF Count, EmptyLog
    <3>3. InOrder(j)'
      BY <3>1, <3>2 DEF InOrder
    <3>4. NotSpawned(j)' /\ SawLast(j)' /\ ExitKnown(j)' /\ Decided(j)'
      BY <2>0, <2>2, <3>1
      DEF OutputOf, NotSpawned, SawLast, ExitKnown, Decided, Terminal, TerminalStatus
    <3> QED
      BY <3>3, <3>4 DEF OutputOf
  <2> QED
    BY <1>2, <2>1, <2>2 DEF Spawned
<1>3. CASE ReadLine(j)
  BY <1>3, ReadLineOutput
<1>4. CASE ReadEOF(j)
  <2>1. /\ pc[j] = "read" /\ pc'[j] = "wait"
        /\ UNCHANGED <<status, hub, saw, terminalEvent, lines, proc, rc, reaped, step>>
    BY <1>4
    DEF ReadEOF, Goto, Locals, NotCancelling, Elsewhere, LifecycleInv, TypeOK
  <2> QED
    BY <2>1
    DEF OutputOf, NotSpawned, InOrder, SawLast, ExitKnown, Decided, Terminal, Count
<1>5. CASE WaitReturns(j)
  <2>1. /\ pc[j] = "wait" /\ pc'[j] = "stderr" /\ reaped[j]
        /\ UNCHANGED <<status, hub, saw, terminalEvent, lines, proc, rc, reaped, step>>
    BY <1>5
    DEF WaitReturns, Goto, Locals, NotCancelling, Elsewhere, LifecycleInv, TypeOK
  <2> QED
    BY <2>1
    DEF OutputOf, NotSpawned, InOrder, SawLast, ExitKnown, Decided, Terminal, Count
<1>6. CASE Finalize(j)
  <2>1. /\ pc[j] = "stderr" /\ saw'[j] = {} /\ reaped[j]
        /\ UNCHANGED <<proc, rc, reaped>>
    BY <1>6
    DEF Finalize, LeaveTry, NotCancelling, Elsewhere, LifecycleInv, TypeOK,
        OutputOf, ExitKnown
  <2>2. PICK verdict \in TerminalStatus, event \in {"cancelled", "error", terminalEvent[j]} :
          /\ Verdict(j, verdict, event)
          /\ verdict = "completed" => rc[j] = "zero" /\ "complete" \in saw[j]
    BY <1>6 DEF Finalize, ExitContradicts, TerminalStatus
  <2>3. "complete" \in saw[j] => Count(j) = MaxBatches + 1
    BY DEF OutputOf, SawLast
  <2> QED
    BY <2>1, <2>2, <2>3, VerdictOutput
<1>7. CASE HandlerStep(j)
  <2>0. /\ pc[j] \in {"killC", "killE"}
        /\ UNCHANGED <<saw, terminalEvent, lines, proc, rc, reaped, step>>
    BY <1>7 DEF HandlerStep, Locals, NotCancelling, Elsewhere
  <2>1. CASE UNCHANGED <<status, hub, pc>>
    <3>1. Untouched(j)
      BY <2>0, <2>1 DEF Untouched
    <3> QED
      BY <3>1, UntouchedOutput
  <2>2. CASE \/ Verdict(j, "cancelled", "cancelled")
             \/ Verdict(j, "failed", "error")
    BY <1>0, <2>0, <2>2, VerdictOutput DEF TerminalStatus
  <2> QED
    BY <1>7, <2>1, <2>2 DEF HandlerStep
<1>8. CASE DeliverCancel(j)
  <2>0. UNCHANGED <<proc, rc, reaped, step>>
    BY <1>8 DEF DeliverCancel, Elsewhere
  <2>1. CASE /\ pc[j] \in {"spawn", "read", "wait", "stderr"} /\ RaiseCancelled(j)
    <3>0. saw'[j] = {} /\ LeaveTry(j)
      BY <2>1 DEF RaiseCancelled, LeaveTry, LifecycleInv, TypeOK
    <3>1. CASE Verdict(j, "cancelled", "cancelled")
      BY <2>0, <2>1, <3>0, <3>1, VerdictOutput DEF TerminalStatus
    <3>2. CASE Goto(j, "killC") /\ UNCHANGED <<status, hub>>
      BY <2>0, <2>1, <3>0, <3>2, HandlerOutput
    <3> QED
      BY <2>1, <3>1, <3>2 DEF RaiseCancelled
  <2>2. CASE /\ pc[j] \in {"new", "killC", "killE"} /\ pc'[j] = "done"
             /\ UNCHANGED <<status, hub, Locals>>
    BY <1>0, <2>0, <2>2
    DEF OutputOf, NotSpawned, InOrder, SawLast, ExitKnown, Decided, Terminal, Locals,
        TerminalStatus
  <2>3. CASE UNCHANGED <<runVars, Locals>>
    <3>1. Untouched(j)
      BY <2>0, <2>3 DEF Untouched, runVars, Locals
    <3> QED
      BY <3>1, UntouchedOutput
  <2> QED
    BY <1>8, <2>1, <2>2, <2>3
    DEF DeliverCancel, Goto, Release, LifecycleInv, TypeOK
<1> QED
  BY <1>1, <1>2, <1>3, <1>4, <1>5, <1>6, <1>7, <1>8 DEF RunStep

-----------------------------------------------------------------------------
(* OutputInv is inductive                                                  *)

\* A step of one job touches no other.
LEMMA RunStepOthers ==
  ASSUME LifecycleInv, NEW i \in Jobs, RunStep(i), NEW j \in Jobs, j # i
  PROVE  Untouched(j)
<1>1. Effect(i)
  BY RunStepEffect DEF LifecycleInv
<1>2. UNCHANGED <<rc, reaped, step>>
  BY DEF RunStep, RunStart, Spawned, ReadLine, ReadEOF, WaitReturns, Finalize,
         HandlerStep, DeliverCancel, NotCancelling, Elsewhere
<1>3. LeaveTry(i) => /\ saw'[j] = saw[j] /\ terminalEvent'[j] = terminalEvent[j]
                     /\ lines'[j] = lines[j]
  BY DEF LeaveTry, LifecycleInv, TypeOK, ProcessTypeOK
<1>4. saw'[j] = saw[j] /\ terminalEvent'[j] = terminalEvent[j] /\ lines'[j] = lines[j]
  <2>1. CASE RaiseException(i) \/ RaiseCancelled(i) \/ Finalize(i)
    BY <1>3, <2>1 DEF RaiseException, RaiseCancelled, Finalize
  <2>2. CASE ReadLine(i)
    BY <2>1, <2>2 DEF ReadLine, LifecycleInv, TypeOK, ProcessTypeOK
  <2>3. CASE RunStart(i) \/ Spawned(i) \/ ReadEOF(i) \/ WaitReturns(i)
               \/ HandlerStep(i) \/ DeliverCancel(i)
    BY <2>1, <2>3
    DEF RunStart, Spawned, ReadEOF, WaitReturns, HandlerStep, DeliverCancel,
        Locals
  <2> QED
    BY <2>1, <2>2, <2>3 DEF RunStep
<1> QED
  BY <1>1, <1>2, <1>4 DEF Effect, Untouched

LEMMA NextOutput ==
  ASSUME LifecycleInv, OutputInv, [Next]_vars
  PROVE  OutputInv'
<1> SUFFICES ASSUME NEW j \in Jobs PROVE OutputOf(j)'
  BY DEF OutputInv
<1>0. OutputOf(j)
  BY DEF OutputInv
<1>1. ASSUME NEW i \in Jobs, Create(i)
      PROVE  OutputOf(j)'
  <2>0. /\ UNCHANGED <<status, hub, saw, terminalEvent, processVars>>
        /\ pc[i] = "unborn" /\ pc' = [pc EXCEPT ![i] = "new"]
    BY <1>1 DEF Create
  <2>1. CASE i = j
    <3>1. pc[j] = "unborn" /\ pc'[j] = "new"
      BY <2>0, <2>1 DEF LifecycleInv, TypeOK
    <3> QED
      BY <1>0, <2>0, <3>1
      DEF OutputOf, NotSpawned, InOrder, SawLast, ExitKnown, Decided, Terminal,
          processVars
  <2>2. CASE i # j
    <3>1. Untouched(j)
      BY <2>0, <2>2 DEF Untouched, processVars, LifecycleInv, TypeOK
    <3> QED
      BY <1>0, <3>1, UntouchedOutput
  <2> QED
    BY <2>1, <2>2
<1>2. ASSUME NEW i \in Jobs, RunStep(i)
      PROVE  OutputOf(j)'
  <2>1. CASE i = j
    BY <1>0, <1>2, <2>1, RunStepOutput
  <2>2. CASE i # j
    <3>1. Untouched(j)
      BY <1>2, <2>2, RunStepOthers
    <3> QED
      BY <1>0, <3>1, UntouchedOutput
  <2> QED
    BY <2>1, <2>2
<1>3. ASSUME NEW i \in Jobs, Outside(ProcessStep(i))
      PROVE  OutputOf(j)'
  <2>1. CASE i = j
    BY <1>0, <1>3, <2>1, ProcessStepOutput
  <2>2. CASE i # j
    <3>1. Untouched(j)
      BY <1>3, <2>2
      DEF Untouched, Outside, runVars, ProcessStep, Emit, Exit, Crash, DieOfSignal,
          PartialLine, Reap, Ends, LifecycleInv, TypeOK, ProcessTypeOK
    <3> QED
      BY <1>0, <3>1, UntouchedOutput
  <2> QED
    BY <2>1, <2>2
<1>4. CASE \/ \E c \in Callers : CancelRequest(c) \/ CallerStep(c)
           \/ Shutdown \/ CloseLoop \/ UNCHANGED vars
  <2>1. Untouched(j)
    BY <1>4
    DEF Untouched, CancelRequest, CallerStep, CallerTerminates, CallerWaits,
        Shutdown, CloseLoop, callerFrame, vars, runVars, processVars
  <2> QED
    BY <1>0, <2>1, UntouchedOutput
<1> QED
  BY <1>1, <1>2, <1>3, <1>4 DEF Next

LEMMA InitOutput == Init => OutputInv
BY DEF Init, ProcessInit, OutputInv, OutputOf, NotSpawned, InOrder, SawLast,
       ExitKnown, Decided, Terminal, TerminalStatus

\* The invariant of the output of every job.
THEOREM OutputHolds == Spec => []OutputInv
<1>1. LifecycleInv /\ OutputInv /\ [Next]_vars => OutputInv'
  BY NextOutput
<1> QED
  BY <1>1, InitOutput, LifecycleHolds, PTL DEF Spec

\* A job completes only with exit code zero and its whole output logged.
THEOREM CompletionConfirmed == Spec => []CompletedIsConfirmed
<1>1. OutputInv => CompletedIsConfirmed
  BY DEF OutputInv, OutputOf, Decided, CompletedIsConfirmed, Count, Completed
<1> QED
  BY <1>1, OutputHolds, PTL

-----------------------------------------------------------------------------
(* The backend implements SimulationService.                               *)

\* The phase of a job for its clients: what Service substitutes.
Phase == [j \in Jobs |->
            IF pc[j] = "unborn" THEN "absent"
            ELSE IF Terminal(j) THEN status[j]
            ELSE IF pc[j] = "done" THEN "lost" ELSE "live"]

\* A step that changes one job at most changes one phase at most.
LEMMA OnePhase ==
  ASSUME NEW j \in Jobs,
         \A i \in Jobs : i # j => pc'[i] = pc[i] /\ status'[i] = status[i]
  PROVE  Phase' = [Phase EXCEPT ![j] = Phase'[j]]
BY DEF Phase, Terminal

LEMMA OneLog ==
  ASSUME TypeOK, NEW j \in Jobs, hub' \in [Jobs -> HubLog],
         \A i \in Jobs : i # j => hub'[i] = hub[i]
  PROVE  hub' = [hub EXCEPT ![j] = hub'[j]]
BY DEF TypeOK

\* Publishing is the same in the service and in the backend.
LEMMA SamePublish ==
  ASSUME NEW log, NEW event
  PROVE  Service!Publish(log, event) = Publish(log, event)
BY DEF Publish, Service!Publish, TerminalTypes, Service!TerminalTypes

\* The announcement of each verdict.
LEMMA Announcements ==
  /\ Service!Verdicts = TerminalStatus
  /\ Service!Announcement["completed"] = Ev("complete", 0)
  /\ Service!Announcement["failed"] = Ev("error", 0)
  /\ Service!Announcement["cancelled"] = Ev("cancelled", 0)
BY DEF Service!Verdicts, Service!Announcement, Service!Ev, Ev, TerminalStatus

\* A verdict is a decision of the service, or the late announcement of one.
LEMMA VerdictService ==
  ASSUME LifecycleInv, NEW j \in Jobs, OutputOf(j), Effect(j), hub' \in [Jobs -> HubLog],
         NEW verdict \in TerminalStatus, NEW event, Verdict(j, verdict, event),
         Ev(event, 0) = Service!Announcement[verdict],
         verdict = "completed" => Count(j) = MaxBatches + 1,
         pc[j] = "killE" => verdict = "failed"
  PROVE  Service!Next
<1>0. /\ pc[j] \notin {"unborn", "done"} /\ ~hub[j].closed
      /\ pc'[j] = "done" /\ status'[j] = verdict
      /\ hub' = [hub EXCEPT ![j] = Service!Publish(hub[j], Ev(event, 0))]
  BY SamePublish
  DEF Effect, Verdict, Release, LifecycleInv, TypeOK, ClosedIsDone
<1>1. Phase' = [Phase EXCEPT ![j] = verdict]
  <2>1. Phase'[j] = verdict
    BY <1>0 DEF Phase, Terminal
  <2>2. Phase' = [Phase EXCEPT ![j] = Phase'[j]]
    BY OnePhase DEF Effect
  <2> QED
    BY <2>1, <2>2
<1>2. CASE pc[j] = "killE"
  <2>1. Phase[j] = "failed" /\ verdict = "failed"
    BY <1>0, <1>2 DEF OutputOf, Decided, Phase, Terminal, TerminalStatus
  <2>2. Phase' = Phase
    <3>1. Phase = [Phase EXCEPT ![j] = Phase[j]]
      BY DEF Phase
    <3> QED
      BY <1>1, <2>1, <3>1
  <2>3. Service!Announce(j)
    BY <1>0, <2>1, <2>2 DEF Service!Announce, Phase
  <2> QED
    BY <2>3 DEF Service!Next
<1>3. CASE pc[j] # "killE"
  <2>1. Phase[j] = "live"
    BY <1>0, <1>3 DEF OutputOf, Decided, Phase
  <2>2. Service!Decide(j, verdict)
    BY <1>0, <1>1, <2>1 DEF Service!Decide, Phase, Count
  <2> QED
    BY <2>2, Announcements DEF Service!Next
<1> QED
  BY <1>2, <1>3

\* A step without publication decides a failure, loses the job or is none of
\* the service.
LEMMA QuietService ==
  ASSUME NEW j \in Jobs, Effect(j), UNCHANGED hub,
         \/ status'[j] = status[j]
         \/ ~Terminal(j) /\ status'[j] \in {"running", "failed"}
  PROVE  Service!Next \/ UNCHANGED Service!vars
<1>0. Phase' = [Phase EXCEPT ![j] = Phase'[j]]
  BY OnePhase DEF Effect
<1>1. CASE Phase'[j] = Phase[j]
  <2>1. Phase = [Phase EXCEPT ![j] = Phase[j]]
    BY DEF Phase
  <2>2. Phase' = Phase
    BY <1>0, <1>1, <2>1
  <2> QED
    BY <2>2 DEF Service!vars, Phase
<1>2. CASE Phase'[j] # Phase[j]
  <2>1. ~Terminal(j) /\ Phase[j] = "live"
    BY <1>2 DEF Effect, Phase, Terminal
  <2>2. CASE status'[j] = "failed"
    <3>1. Phase'[j] = "failed"
      BY <2>2 DEF Effect, Phase, Terminal, TerminalStatus
    <3>2. Service!Decide(j, "failed")
      BY <1>0, <2>1, <3>1 DEF Service!Decide, Phase
    <3> QED
      BY <3>2, Announcements DEF Service!Next, TerminalStatus
  <2>3. CASE status'[j] # "failed"
    <3>1. Phase'[j] = "lost"
      BY <1>2, <2>1, <2>3 DEF Effect, Phase, Terminal, TerminalStatus
    <3>2. Service!Lose(j)
      BY <1>0, <2>1, <3>1 DEF Service!Lose, Phase
    <3> QED
      BY <3>2 DEF Service!Next
  <2> QED
    BY <2>2, <2>3
<1> QED
  BY <1>1, <1>2

LEMMA RaiseService ==
  ASSUME LifecycleInv, NEW j \in Jobs, OutputOf(j), Effect(j), hub' \in [Jobs -> HubLog],
         RaiseException(j) \/ RaiseCancelled(j),
         pc[j] \in {"new", "spawn", "read", "wait", "stderr"}
  PROVE  Service!Next \/ UNCHANGED Service!vars
<1>0. ~Terminal(j)
  BY DEF OutputOf, Decided
<1>1. CASE Verdict(j, "failed", "error") \/ Verdict(j, "cancelled", "cancelled")
  BY <1>1, VerdictService, Announcements DEF TerminalStatus
<1>2. CASE /\ UNCHANGED hub
           /\ status' = [status EXCEPT ![j] = "failed"] \/ UNCHANGED status
  BY <1>0, <1>2, QuietService DEF LifecycleInv, TypeOK
<1> QED
  BY <1>1, <1>2 DEF RaiseException, RaiseCancelled

\* A line is the next progress of its job.
LEMMA ReadLineService ==
  ASSUME LifecycleInv, NEW j \in Jobs, OutputOf(j), Effect(j), hub' \in [Jobs -> HubLog],
         ReadLine(j)
  PROVE  Service!Next \/ UNCHANGED Service!vars
<1>0. /\ pc[j] = "read" /\ lines[j] \in Seq(Line) /\ lines[j] # << >>
      /\ ~Terminal(j)
  BY DEF ReadLine, LifecycleInv, TypeOK, ProcessTypeOK, OutputOf, Decided
<1>1. CASE RaiseException(j)
  BY <1>0, <1>1, RaiseService
<1>2. CASE ~RaiseException(j)
  <2>0. UNCHANGED status
    BY <1>2 DEF ReadLine
  <2>1. CASE ~Draining(j) /\ Head(lines[j]).type \in {"start", "batch"}
    <3>1. hub' = [hub EXCEPT ![j] = Service!Publish(@, Head(lines[j]))]
      BY <1>2, <2>1, SamePublish DEF ReadLine
    <3>2. Head(lines[j]) = lines[j][1] /\ 1 \in 1 .. Len(lines[j])
      BY <1>0
    <3>3. Count(j) \in Nat
      BY DEF LifecycleInv, TypeOK, HubLog, Count
    <3>4. Count(j) + 1 - 1 = Count(j)
      BY <3>3
    <3>5. /\ Head(lines[j]) = Service!ProgressEvent(Count(j))
          /\ Count(j) <= MaxBatches
      BY <1>0, <2>1, <3>2, <3>4 DEF OutputOf, InOrder
    <3>6. Phase[j] = "live" /\ pc'[j] \in {"read", "wait"}
      BY <1>0, <1>2 DEF Phase, ReadLine, Goto, LifecycleInv, TypeOK
    <3>7. Phase'[j] = Phase[j]
      BY <1>0, <2>0, <3>6 DEF Phase, Terminal
    <3>8. Phase' = Phase
      <4>1. Phase' = [Phase EXCEPT ![j] = Phase'[j]]
        BY OnePhase DEF Effect
      <4>2. Phase = [Phase EXCEPT ![j] = Phase[j]]
        BY DEF Phase
      <4> QED
        BY <3>7, <4>1, <4>2
    <3>9. Service!Progress(j)
      BY <3>1, <3>5, <3>6, <3>8 DEF Service!Progress, Phase, Count
    <3> QED
      BY <3>9 DEF Service!Next
  <2>2. CASE ~(~Draining(j) /\ Head(lines[j]).type \in {"start", "batch"})
    <3>1. UNCHANGED hub
      BY <1>2, <2>2 DEF ReadLine
    <3> QED
      BY <2>0, <3>1, QuietService
  <2> QED
    BY <2>1, <2>2
<1> QED
  BY <1>1, <1>2

\* The verdict of a script that ended agrees with what it printed last.
LEMMA FinalizeService ==
  ASSUME LifecycleInv, NEW j \in Jobs, OutputOf(j), Effect(j), hub' \in [Jobs -> HubLog],
         Finalize(j)
  PROVE  Service!Next
<1>0. pc[j] = "stderr"
  BY DEF Finalize
<1>1. /\ "error" \in saw[j] => terminalEvent[j] = "error"
      /\ "complete" \in saw[j] =>
           terminalEvent[j] = "complete" /\ Count(j) = MaxBatches + 1
  BY DEF OutputOf, SawLast
<1>2. \/ Verdict(j, "cancelled", "cancelled")
      \/ Verdict(j, "failed", "error")
      \/ Verdict(j, "completed", "complete") /\ Count(j) = MaxBatches + 1
  BY <1>1 DEF Finalize, ExitContradicts
<1> QED
  BY <1>0, <1>2, VerdictService, Announcements DEF TerminalStatus

LEMMA RunStepService ==
  ASSUME LifecycleInv, OutputInv, NEW j \in Jobs, RunStep(j)
  PROVE  Service!Next \/ UNCHANGED Service!vars
<1>0. /\ OutputOf(j) /\ Effect(j) /\ hub' \in [Jobs -> HubLog]
  BY RunStepEffect, RunStepType DEF OutputInv, LifecycleInv, TypeOK
<1>1. Terminal(j) => pc[j] \in {"killE", "done"}
  BY <1>0 DEF OutputOf, Decided
<1>2. CASE /\ RaiseException(j) \/ RaiseCancelled(j)
           /\ pc[j] \in {"new", "spawn", "read", "wait", "stderr"}
  BY <1>0, <1>2, RaiseService
<1>3. CASE RunStart(j)
  <2>1. CASE Verdict(j, "cancelled", "cancelled")
    BY <1>0, <1>3, <2>1, VerdictService, Announcements DEF RunStart, TerminalStatus
  <2>2. CASE status' = [status EXCEPT ![j] = "running"] /\ UNCHANGED hub
    BY <1>0, <1>1, <1>3, <2>2, QuietService DEF RunStart, LifecycleInv, TypeOK
  <2> QED
    BY <1>2, <1>3, <2>1, <2>2 DEF RunStart
<1>4. CASE Spawned(j) \/ ReadEOF(j) \/ WaitReturns(j)
  BY <1>0, <1>2, <1>4, QuietService DEF Spawned, ReadEOF, WaitReturns
<1>5. CASE ReadLine(j)
  BY <1>0, <1>5, ReadLineService
<1>6. CASE Finalize(j)
  BY <1>0, <1>6, FinalizeService
<1>7. CASE HandlerStep(j)
  <2>1. CASE UNCHANGED <<status, hub>>
    BY <1>0, <2>1, QuietService
  <2>2. CASE \/ pc[j] = "killC" /\ Verdict(j, "cancelled", "cancelled")
             \/ Verdict(j, "failed", "error")
    BY <1>0, <2>2, VerdictService, Announcements DEF TerminalStatus
  <2> QED
    BY <1>7, <2>1, <2>2 DEF HandlerStep
<1>8. CASE DeliverCancel(j)
  BY <1>0, <1>2, <1>8, QuietService DEF DeliverCancel, runVars
<1> QED
  BY <1>3, <1>4, <1>5, <1>6, <1>7, <1>8 DEF RunStep

\* A job is accepted when no other is in progress.
LEMMA CreateService ==
  ASSUME LifecycleInv, NEW j \in Jobs, Create(j)
  PROVE  Service!Next
<1>0. /\ pc[j] = "unborn" /\ status[j] = "created"
      /\ pc' = [pc EXCEPT ![j] = "new"] /\ UNCHANGED <<status, hub>>
  BY DEF Create, LifecycleInv, FreshJobs
<1>1. \A i \in Jobs : ~Live(i)
  BY ConstantsAssumption
  DEF Create, SlotAvailable, LifecycleInv, SlotHeldByLiveJob, Live
<1>2. \A i \in Jobs : Phase[i] # "live"
  BY <1>1 DEF Live, Phase, Terminal, TerminalStatus
<1>3. Phase[j] = "absent"
  BY <1>0 DEF Phase
<1>4. Phase' = [Phase EXCEPT ![j] = "live"]
  <2>1. \A i \in Jobs : i # j => pc'[i] = pc[i] /\ status'[i] = status[i]
    BY <1>0 DEF LifecycleInv, TypeOK
  <2>2. Phase'[j] = "live"
    BY <1>0 DEF Phase, Terminal, TerminalStatus, LifecycleInv, TypeOK
  <2>3. Phase' = [Phase EXCEPT ![j] = Phase'[j]]
    BY <2>1, OnePhase
  <2> QED
    BY <2>2, <2>3
<1>5. Service!Accept(j)
  BY <1>0, <1>2, <1>3, <1>4 DEF Service!Accept, Phase
<1> QED
  BY <1>5 DEF Service!Next

LEMMA NextService ==
  ASSUME LifecycleInv, OutputInv, [Next]_vars
  PROVE  Service!Next \/ UNCHANGED Service!vars
<1>1. CASE UNCHANGED <<pc, status, hub>>
  <2>1. Phase' = Phase
    BY <1>1 DEF Phase, Terminal
  <2> QED
    BY <1>1, <2>1 DEF Service!vars, Phase
<1>2. CASE \E j \in Jobs : Create(j)
  BY <1>2, CreateService
<1>3. CASE \E j \in Jobs : RunStep(j)
  BY <1>3, RunStepService
<1> QED
  BY <1>1, <1>2, <1>3
  DEF Next, vars, runVars, Outside, CancelRequest, CallerStep, CallerTerminates,
      CallerWaits, Shutdown, CloseLoop, callerFrame

LEMMA InitService == Init => Service!Init
BY DEF Init, Service!Init, EmptyLog, Service!EmptyLog

\* create_job, Job.run, Job.cancel and shutdown implement the service that
\* the web page relies on.
THEOREM BackendImplementsService == Spec => ImplementsService
<1>1. LifecycleInv /\ OutputInv /\ [Next]_vars => [Service!Next]_(Service!vars)
  BY NextService
<1> QED
  BY <1>1, InitService, LifecycleHolds, OutputHolds, PTL
  DEF Spec, ImplementsService, Service!Spec
=============================================================================
