----------------------------- MODULE JobProcess -----------------------------
(***************************************************************************)
(* The subprocess of a job: main() of the script that generator.py writes, *)
(* the pipe of its standard output, the signals sent to its process group  *)
(* and the child watcher of asyncio.  JobManager.tla launches, signals and *)
(* reads it.                                                               *)
(***************************************************************************)
EXTENDS JobEvents

CONSTANTS
  Jobs,        \* job identifiers (uuid4, never reused)
  MaxBatches,  \* batches of every script: a bound of the model
  PipeCap,     \* lines the pipe and the stream buffer hold: a bound
  Faults       \* what the environment may do wrong

ASSUME ProcessAssumption ==
  /\ MaxBatches \in Nat
  /\ PipeCap \in Nat \ {0}
  /\ Faults \subseteq {"spawn", "huge", "crash", "orphans", "partial"}

VARIABLES
  proc,    \* "orphans": the script is dead, workers of its pool are not
  rc,      \* its exit code
  reaped,  \* the event loop knows the exit code (process.returncode)
  sig,     \* the strongest signal pending for the process group
  lines,   \* printed and not yet read
  step     \* the number of events it has printed, or Errored

processVars == <<proc, rc, reaped, sig, lines, step>>

Completed == MaxBatches + 2
Errored == MaxBatches + 3

ProcessTypeOK ==
  /\ proc \in [Jobs -> {"none", "alive", "orphans", "exited"}]
  /\ rc \in [Jobs -> {"none", "zero", "nonzero"}]
  /\ sig \in [Jobs -> {"none", "term", "kill"}]
  /\ reaped \in [Jobs -> BOOLEAN]
  /\ lines \in [Jobs -> Seq(Line)]
  /\ step \in [Jobs -> 0 .. Errored]

ProcessInit ==
  /\ proc = [j \in Jobs |-> "none"]
  /\ rc = [j \in Jobs |-> "none"]
  /\ sig = [j \in Jobs |-> "none"]
  /\ reaped = [j \in Jobs |-> FALSE]
  /\ lines = [j \in Jobs |-> << >>]
  /\ step = [j \in Jobs |-> 0]

\* os.killpg: SIGKILL overrides a pending SIGTERM; the dead do not notice.
Signal(j, s) ==
  sig' = [sig EXCEPT ![j] = IF proc[j] = "exited" \/ @ = "kill" THEN @ ELSE s]

\* The pipe ends when every process that holds it is gone.
PipeEnded(j) == proc[j] = "exited"

\* _emit: the write blocks while the pipe is full.
Emit(j) ==
  /\ proc[j] = "alive" /\ step[j] < Completed
  /\ Len(lines[j]) < PipeCap
  /\ \E event \in ScriptEvents(step[j], MaxBatches) :
       /\ step' = [step EXCEPT ![j] = IF event.type = "error"
                                      THEN Errored ELSE @ + 1]
       /\ \/ lines' = [lines EXCEPT ![j] = Append(@, event)]
          \/ /\ "huge" \in Faults /\ event.type = "batch"
             /\ lines' = [lines EXCEPT ![j] = Append(@, Ev("huge", 0))]
  /\ UNCHANGED <<proc, rc, reaped, sig>>

\* A process that ends is at no step and has no signal pending.
Ends(j, left, code) ==
  /\ proc' = [proc EXCEPT ![j] = left]
  /\ rc' = [rc EXCEPT ![j] = code]
  /\ step' = [step EXCEPT ![j] = 0]
  /\ sig' = [sig EXCEPT ![j] = IF left = "exited" THEN "none" ELSE @]
  /\ UNCHANGED reaped

\* main() returns 0 after complete and 1 after error.
Exit(j) ==
  /\ proc[j] = "alive"
  /\ \/ step[j] = Completed /\ Ends(j, "exited", "zero")
     \/ step[j] = Errored /\ Ends(j, "exited", "nonzero")
  /\ UNCHANGED lines

\* What the death of a process in the middle of a write leaves in the pipe.
PartialLine(j) ==
  \/ UNCHANGED lines
  \/ /\ "partial" \in Faults /\ step[j] < Completed /\ Len(lines[j]) < PipeCap
     /\ \E type \in {"noise", "bad"} :
          lines' = [lines EXCEPT ![j] = Append(@, Ev(type, 0))]

\* The script dies alone; the workers of its pool, which inherited its
\* pipes, may survive it.
Crash(j) ==
  /\ "crash" \in Faults /\ proc[j] = "alive"
  /\ \/ Ends(j, "exited", "nonzero")
     \/ /\ "orphans" \in Faults /\ step[j] \in 1 .. MaxBatches
        /\ Ends(j, "orphans", "nonzero")
  /\ PartialLine(j)

\* A signal sent to the group takes effect: the script and its workers die.
DieOfSignal(j) ==
  /\ sig[j] # "none"
  /\ \/ proc[j] = "alive" /\ Ends(j, "exited", "nonzero") /\ PartialLine(j)
     \/ proc[j] = "orphans" /\ Ends(j, "exited", rc[j]) /\ UNCHANGED lines

\* The return code reaches the event loop.
Reap(j) ==
  /\ proc[j] \in {"orphans", "exited"} /\ ~reaped[j]
  /\ reaped' = [reaped EXCEPT ![j] = TRUE]
  /\ UNCHANGED <<proc, rc, lines, step, sig>>

ProcessStep(j) ==
  Emit(j) \/ Exit(j) \/ Crash(j) \/ DieOfSignal(j) \/ Reap(j)
=============================================================================
