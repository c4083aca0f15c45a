# Montecarlo DSL: models, checks and proofs

This directory is a TLA+ development about the program in `src/`, a compiler
for a small LaTeX-like language of probability expressions with a web service
that runs the compiled simulations. It contains the models (`*.tla`), the TLC
configurations (`*.cfg`) and the proofs (`*Proofs.tla`). `PROJECT.json` lists
the runs, the lines of source behind every definition (`map`), the mutants that
show what each property can catch, the hazards and the findings. Paths below
are relative to `src/src/montecarlo_dsl/` unless they begin with `docs` or
`tests`.

## 1. The system

A browser sends source text to a FastAPI server. The server compiles it (lexer,
parser, semantic analysis, code generation) into a self-contained Python
script, starts the script in a process group of its own, and reads events from
its standard output. The script simulates batches of iterations in a pool of
worker processes. The server stores the events in a hub, and WebSocket sessions
replay and follow the hub. One simulation runs at a time.

| Component | Source | State it keeps | Operations | Module |
|---|---|---|---|---|
| Job manager and job tasks | `job_manager.py` | `jobs`, `_active_job_id`; per job `status`, `cancel_requested`, `process`, `task` | `create_job`, `get`, `shutdown`; `Job.start`, `run`, `cancel`; `_terminate_process_tree` | `JobManager` |
| Subprocess, pipes, signals | `job_manager.py` 128-139, 276-309; the operating system | process, exit code, pending signal, buffered lines | print, exit, die, be reaped | `JobProcess` |
| Event hub and WebSocket sessions | `job_manager.py` 37-73, `server.py` 139-165 | history, subscribers, `closed`; a queue per session | `publish`, `subscribe`, `unsubscribe`; `job_events` | `JobEventHub` |
| HTTP API | `server.py` | the manager | compile and create, status, cancel, lifespan | `JobManager` (create, cancel, lifespan), `SimulationClient` (answers) |
| Generated runtime | `generator.py` 196-757, a template | futures of the batches, totals per branch and of the paired difference, histogram | `_batch_plan`, `_simulate_batch`, the aggregation, `_emit` | `GeneratedRuntime` |
| Web client | `static/app.js` | `jobId`, `terminal`, socket, timer of the reconciliation, responses in flight | `runModel`, `cancelJob`, `handleEvent`, `reconcileJob` | `SimulationClient` |
| Statistics | `statistics.py` | `n`, mean, M2, min, max | `update`, `merge`, quantiles, intervals, histogram | not modelled |
| Lexer | `lexer.py`, `tokens.py` | position, mode, tokens | `tokenize`: dispatcher and four automata | `Lexer` |
| Parser | `parser.py`, `ast.py` | the index of the next token | recursive descent | `Parser` |
| Semantic analysis | `semantic.py`, `symbols.py` | diagnostics, the table of symbols | declare, resolve, fold constants, validate | `Semantic` |
| Code generation | `generator.py` 1-195, 780-856, `compiler.py` | branches of a plus-minus, names | expression visitor, lines of the distributions | `CodeGenerator`, `Compiler` |
| Diagnostics, static page, vendored d3 | | | | not modelled |

How they interact: `create_job` starts an asyncio task for the job (a call);
the task and the HTTP handlers share the `Job` object; the task and the script
share a pipe and exchange signals and an exit code; the task publishes into the
hub and the sessions read queues (messages); the client sees sessions and HTTP
responses in any order.

What is hard here:

* **Interleaving.** The task of a job, any number of cancel requests, the next
  creation and the shutdown of the application all touch a job between their
  awaits. `_terminate_process_tree` may run several times at once for a process.
* **Order.** In the exception handler of `Job.run` the status changes *before*
  the process is terminated. The slot is released by whatever path the task
  takes out, possibly after a newer job has taken it.
* **Failure.** The script may not start, exit with an error, be killed in the
  middle of a line, print an overlong line, leave workers of its pool behind or
  block on a full pipe.
* **Time.** Two waits in the termination (2 s and 3 s) and one in `cancel` (5 s,
  after which the task itself is cancelled) race with the exit they wait for.
* **Replay.** A session replays the history and then follows a queue while the
  job goes on publishing.
* **The page.** Its handlers share a few variables and run between awaits; a
  broken connection starts two chains of polls, and answers may be old when they
  arrive.
* **Aggregation.** Batches complete in any order; totals must not depend on it.
* **Compilation.** It is sequential; what is hard is that its errors are silent.
  A position after a CR LF, a statistic that is part of a longer word, a product
  grouped to the wrong side, branches in the wrong order: nothing fails, the
  page marks the wrong text or the simulation computes something else. And its
  loud errors must be diagnostics, not exceptions nobody catches.

What makes each component correct, in short: the manager runs one job at a time
and never loses its slot; every job gets exactly one verdict, after its process
is gone, and a cancelled one shows no more progress; a session sends the
whole log once and in order; the page ends a run with its job and not before;
the printed totals are those of the batches, and
a script that completes has covered all of them; the compiler accepts the
programs of the grammar whose names and constants are in order, computes what
they say, and answers all others with diagnostics at the right place.

## 2. The modules

| Module | What it is |
|---|---|
| `JobEvents` | The event protocol, and the log of a hub (`Publish`). |
| `JobProcess` | The subprocess as the backend sees it. External: its behaviour follows from `main()` of the generated script and the operating system. |
| `JobManager` | The backend: manager, tasks, cancel requests, shutdown. Extends `JobProcess`. |
| `SimulationService` | Abstract: what the backend promises to its clients. |
| `MCJobManager` | `JobManager` for TLC (symmetry). |
| `MCGeneratedRuntime` | `GeneratedRuntime` for TLC (samples). |
| `JobManagerProofs` | Theorems about `JobManager`: the life cycle of a job, what reaches its log, and that the backend implements `SimulationService`. |
| `JobEventHub` | One hub and the WebSocket sessions that follow it. |
| `JobEventHubProofs` | Theorems about `JobEventHub`. |
| `SimulationClient` | The web page against `SimulationService`. |
| `SimulationClientProofs` | Theorems about `SimulationClient`. |
| `GeneratedRuntime` | The generated script itself: plan, pool, aggregation, events. |
| `GeneratedRuntimeProofs` | Theorems about `GeneratedRuntime`: plan, workers, protocol. |
| `TotalsProofs` | What the totals of `GeneratedRuntime` are. |
| `Lexer` | The lexer, one character at a time. |
| `LexerProofs` | Theorems about `Lexer`: its invariant, positions, coverage, lexemes. |
| `Parser` | The parser, as operators on sequences of tokens. |
| `Grammar` | The contract of the parser: the productions of `docs/BNF_DEFINITIVA.md` and the precedence they fix. |
| `Semantic` | The analysis, as operators on trees, with the arithmetic of its constants. Extends `Parser`. |
| `CodeGenerator` | The branches and the lines of the script. Extends `Semantic`. |
| `Compiler` | The phases one after the other, and the HTTP status. Extends `Lexer`, `Grammar`, `CodeGenerator`. |
| `CompilerProofs` | Theorems about `Compiler`: what the phases hand over, names, branches, lines, precedence, domains. |
| `SpanProofs` | What the span of a node selects. |
| `MCCompiler` | What is compiled in the runs. |

### JobManager and JobProcess

An action is what a task does between two suspensions of the event loop. The
locks of the code guard sections that contain no await; they are never
contended and are left out. `pc[j]` is the await at which the task of job `j`
stands:

| `pc` | Suspended in | Lines of `job_manager.py` |
|---|---|---|
| `unborn` | the job does not exist | |
| `new` | `asyncio.create_task` was called, nothing has run | 93 |
| `spawn` | `create_subprocess_exec` | 128 |
| `read` | `readline` of the stream | 140 |
| `wait` | `process.wait()` | 162 |
| `stderr` | the task that drains standard error | 163 |
| `killC`, `killE` | `_terminate_process_tree` inside `except CancelledError`, `except Exception` | 199-225 |
| `done` | the task is over | |

`stage[w]` is the place of a coroutine inside `_terminate_process_tree` (`term`:
SIGTERM was sent, the first wait; `kill`: SIGKILL, the second wait; `reap`: the
last, unbounded wait) or inside `Job.cancel` (`task`: waiting for the shielded
task). It is indexed by the caller: the task of a job, a cancel request or the
lifespan of the application. `Task.cancel()` sets `cancelPending[j]`, and
`DeliverCancel` is the arrival of the `CancelledError`, which leaves a handler
that is already running: the finally clauses run, the rest of the handler does
not.

`current` stands for the only key of the dictionary `jobs`, `active` for
`_active_job_id`. `Create` is accepted under the condition of the code, "no
active job or one with a terminal status", not under "no job has work left".

`JobProcess` has the actions of the environment. Which faults may happen is the
constant `Faults`: `spawn` (the process cannot be started), `huge` (a line over
the limit of the stream reader), `crash` (the script dies by itself), `orphans`
(workers survive it), `partial` (a death in the middle of a line leaves a
truncated one). `PartialLine` gives a truncated line one of two types: one that
lacks the prefix of the protocol, which the backend ignores, and one that has
the prefix and no JSON object behind it, which is an error.

### SimulationService

The abstract specification has a phase and a log per job: absent, live, one of
three verdicts, or lost. Jobs are accepted when none is live, progress is
logged in the order of the script without gaps, `completed` requires all the
progress, the verdict is announced by one last event. Two clauses are the price
of what the code does, and are visible to a client: a failure may be announced
after it is decided (`Announce`), and a job may be lost without any verdict
(`Lose`, see the findings). `ImplementsService` instantiates it with `phase`
computed from `pc` and `status`, and `log` the hub.

### JobEventHub

A job that publishes and is at some point replaced in `jobs`, and sessions
whose handler suspends at `accept`, at every `send_json` and at the queue.
`publish`, `subscribe` and `unsubscribe` hold the lock of the hub without an
await; each is one action. A client may leave at any time (`Leave`); the handler
notices at its next send, as the code does. `None`, the sentinel of the queue,
follows a terminal event.

### SimulationClient

The variables `phase` and `log` are those of `SimulationService`, whose actions
the module uses (without `Lose`): the page is checked against what the backend
has been checked to promise. `page` is the `state` of `app.js` (`terminal`,
`jobId`, whether `reconcileTimer` is set) with the cancel button. Requests in
flight are bags: `posts` (POST), `polls` (GET, with the answer once the server
has handled it), `cancel`. A connection is `connecting`, `open`, `closed` (by the
server) or `failed`, and has delivered `seen` events. A broken connection fires
an error event and a close event in one task of the browser, so `SocketFails`
starts two polls. `FinishUi`, `HandleEvent`, `ScheduleReconcile` and `Reconciled`
are the functions of the same names (the last one is the part of `reconcileJob`
behind its awaits). A lost poll and a lost answer to it are the same to the
page; a lost POST or cancel request may or may not have arrived. `told`, the
jobs whose end the page has learned, is there for the properties.

`InFlight` counts the requests of a bag by the set of its copies, which is what
the counting of bags in the community modules comes to, in a form the prover can
use.

`Patient` is about the user, not the code: whether the next run is started only
when the requests and the connection of the last one are over.

### GeneratedRuntime

The pool runs at most `min(MAX_WORKERS, batches)` batches; each raises, or the
pool breaks, or a batch yields an array per branch, with `NaN` for a result that
is not finite (`Samples` are the arrays before `_coerce_result_array`). The
worker filters them and computes the statistics (`Simulated`); the main process
takes the futures in any order. A series is a branch or, if there are two, their
paired difference, which is over the iterations in which both are finite. Filtered
values stay functions of their iterations (`Finite`, `Differences`): what the code
does with the boolean masks is visible in the domain.

Results are integers. A mean and a second moment are modelled twice. They are
exact multiples of `1 / Unit`, where `Unit` is divisible by every number of
results, so that `MergeStats` is the formula of the code without rounding and can
be compared with the mean and the squares of all values. That no division rounds
is the assumption about `Unit`: every number from 1 to a total divides it, which
any finite set of totals has a `Unit` for. And since in floating
point they depend on the order of merging, the *sequence of batches merged*
(`merged`) goes with them, so that "merged by index, whatever the order of
arrival" is a statement that the model can refute. `edges` and `counts` are the
incremental histogram: updated in place while the range stands still, recomputed
from all the chunks when a batch moves the range.

`JobProcess` and `GeneratedRuntime` share `ScriptEvents` of `JobEvents`: what
`JobProcess` lets the script print is what `ScriptProtocol` checks that the
runtime prints.

### Lexer

The lexer is a state machine and is modelled as one. `mode` is `_mode`; `scan`
is `dispatch` between two tokens and otherwise names the automaton at work, with
the state of `_scan_number`. `Read` is `_advance` in the loop of an automaton,
`Emit` is `_token` and the append of `tokenize`, `Reject` is `_raise`. The trie
of directives is the set of prefixes of their words. `position` has the flag
`_previous_was_cr`; what spans keep of it is `Recorded`. Letters are the ASCII
letters; the texts of the runs also have characters outside the language.
`Backslash` has a name of its own because the prover cannot read the literal.

### Parser and Grammar

The parser keeps an index and no other state, so a function `_parse_x` is an
operator `ParseX(ts, i)` whose result is a value with the index that follows, or
the code of a diagnostic with the index it is about. `Then` passes a failure on,
as the exception does. An expression is the sequence of its nodes in the order
in which the parser creates them, operands before their operator: the last node
is the root, and with the number of nodes below each one (`size`) the sequence
is the tree of `ast.py` (`Operands`, `Below`). So a pass over a tree is a
function of the indices of its nodes. Spans are pairs of token indices. A loop of
the parser is `While`, a function of the rounds taken, of which there are at most
as many as tokens; only an expression in braces recurs, and `ParseExpression` is
a function of the depth that is left: an expression costs `FramesPerExpression`
frames of the interpreter and `RecursionLimit` is what there is. No operator is
`RECURSIVE`, so that the compiler can be proved about. `Grammar` is no
translation of the code: it has the productions with a recogniser that tries all
of them (`Derives`), and `WellGrouped`, which says of a node what its operator
demands of its operands and of the tokens between them.

### Semantic and CodeGenerator

The three passes are operators that return the diagnostics in the order in which
the code finds them. `ConstantValues` is `_constant_value`, at every node, on a decimal
format with fewer digits: multiples of `1 / Scale`, results rounded half up,
overflow beyond `MaxDecimal`. What the code can do with Decimal is there: a
negative power of zero is infinite, arithmetic on infinities may raise, a power
may overflow, what is too small becomes zero. Three simplifications: zero has no
sign, `0^0` is no constant (as in the code, where it is caught), and a power
that is not an integer is no constant (as in the code). In the code a constant
has 28 digits, so that `\sqrt{1/3*3-1}` is rejected with SEM051 and a divisor
like `10^-2000000` with SEM050: the rounding of the format, which the model
shares in its own precision.

A float64 is a multiple of `FloatStep` units of that format, `FloatMax` at most:
the generator's checks compare two formats of which one is coarser, and this is
what they depend on. A term of the script is the sequence of its atoms and
operators, in the order of the nodes, and not text.

### Compiler

`stage` is the phase at work. A behaviour starts from a text or, as
`parse_tokens` (`parser.py` 531) does, from a stream of tokens, which spares the
lexer where the parser is in question. `answer` is the status of
`POST /api/jobs` with the codes of the diagnostics; what is neither compiled nor
a `CompilationError` is 500. HTTP 409 belongs to `JobManager`.

## 3. The runs

| Run | Question | Bounds |
|---|---|---|
| `JobService` | Does the slot stay with the job in progress? Do tasks, pipes, signals and exits implement the abstract service? | 2 jobs, 1 cancel request (repeatable), 1 batch, all faults |
| `JobRaces` | Does the verdict follow the exit, is completion confirmed, does a cancellation silence progress, does every path release the slot? | 1 job, 2 cancel requests, shutdown, 2 batches, a pipe of 2 lines, all faults |
| `JobLiveness` | Does every job end, does a cancellation end it, does the application leave no script behind? | 1 job, 1 cancel request (repeatable), shutdown, 2 batches, a pipe of 2 lines, all faults |
| `JobEventHub` | Do replay and queue together lose and repeat nothing, and do the handlers end? | 2 sessions, 2 progress events and a verdict |
| `GeneratedRuntime` | Are the totals exact for every order of completion, and does the script keep the protocol and end? | 2 branches; 1, 2 or 3 batches of size 2 (the last one smaller); 2 workers, 4 arrays for a branch, 2 bins, all faults |
| `Compiler` | Are lexemes, positions, trees, diagnostics and scripts what the language says? | see below |
| `WebClient` | Does the page end a run only with its job, offer the cancellation, keep its polls bounded, and end every run? | 2 jobs, a patient user, other pages, all failures of the network |

The runs `DoubleCancel`, `FailedJobRuns`, `OrphanWorkers`, `ReplacedJob` and
`CompileFailure` show a disagreement each (section 4).

**Why the bounds suffice.** The hazards of the slot need an old job and a new
one: two jobs. Those of `cancel` need two callers beside the handler of the
task: two requests, or one and the shutdown. A pipe that holds one line blocks
the script at its second, and two lines let it exit with lines unread. One
batch gives each kind of event; two let the order of batches be wrong. A job is
never reused, so nothing is gained by more batches. A session subscribes before,
between and after the events of a log of three; the sessions do not interact
except through `subscribers`, hence two. For the runtime, three batches on two
workers give every kind of overlap (running, waiting, done and not yet taken),
and the arrays (a constant 1; NaN twice; NaN and 0; 3 and 0) can move the minimum,
the maximum, both or neither, leave a branch without results, and pair other
iterations than a pairing of the finite values would.
The hazards of the page need an old job and
a new one; `MaxPolls` is 3 where `PollsBounded` shows that at most two are in
flight, so the bound never stops a patient page; `MaxRuns` is 2, and a patient
user has one.

The texts of `Compiler` are all sequences of up to three of 17 fragments
(directives, words that begin like one, statistics, digits, a point, braces,
white space with CR and LF, characters outside the language), the same inside
the braces of a response, and whole programs. An error of an automaton shows in
what follows a fragment, one of a mode in a fragment between two others. The
streams grow from several prefixes of a program by every token that the parser
accepts, and one more: four tokens of an expression and three anywhere else.
That is every pair of operators with its operands, in every place. The trees
given to the analysis have every operator over every operator, over constants
zero, one, three, one half and a variable; every pair of parameters for each
distribution, up to three distributions of three names. All codes of diagnostics
that the code can produce occur. `RecursionLimit` is 28 frames and `MaxDecimal`
10^5 units instead of a thousand frames and 10^999999: the expressions that
exceed them are among the inputs.

`MaxBatches`, `PipeCap`, `MaxProgress` and the sets of values are bounds of the
models; the theorems of section 5 hold for every value of them.

**What the liveness runs assume.** `JobLiveness` has a single canceller because
two overlapping ones break `CancelEnds`: this is the finding `DoubleCancel`.
`JobTerminates` excepts jobs with surviving workers: this is the finding
`OrphanWorkers`; `CancelEnds` does not except them. Both stop where the event
loop is closed, which abandons what is left. `WebClient` has a patient user, and
`RunSettles` excepts a replaced job: the second is necessary by the finding
`ReplacedJob`, the first because `reconcileJob` does not compare job ids after
its await (`app.js` 391): with `Patient = FALSE` the late close event of a
finished run polls the old job, and the answer ends the next run on the page.

**Fairness.** The event loop runs every ready task and timer (`RunStep`,
`CallerStep`, `CloseLoop`, the handlers of sessions); a script that is not
blocked makes progress and, when done, exits; the kernel delivers signals (the
script keeps the default handlers, and SIGKILL needs none); the child watcher
reports every exit; requests and messages on the network
arrive. All of it is weak fairness, but for the answers to polls: any of them
may be lost, and of infinitely many some arrive (strong fairness). The lexer goes on while it can (the request waits for nothing). Nothing makes a client cancel,
connect or leave, a process crash, a job fail or the application stop.
`CallerWaits` lets a timeout of `Job.cancel` expire only while the task is
blocked on the operating system: five seconds are long compared with a step of
the loop.

`CHECK_DEADLOCK FALSE`: these systems stop when every job has ended.

## 4. What disagrees with the documentation

* **`DoubleCancel`** (bug). When two cancel requests overlap and the process is
  slow to die, the timeout of the second cancels the task while it is already
  in its `except CancelledError`, before the status is set. The finally clauses
  release the slot; the job stays `running` for ever, the hub is never closed.
* **`FailedJobRuns`** (docstring). `JobManager` "manages a single active Monte
  Carlo job at a time", but in `except Exception` the status is `FAILED` before
  the process is terminated, and `create_job` takes a terminal status as a free
  slot: two jobs have work in progress.
* **`OrphanWorkers`** (bug). If the script is killed alone, the workers of its
  pool survive, blocked on their call queue, with its standard output open. The
  read loop never sees the end of the file: no verdict, and the slot stays
  taken, until somebody cancels.
* **`ReplacedJob`** (bug). The server keeps the last job only. A page whose
  connection broke polls its finished job; once another page has started a job
  the answer is 404 for ever, which `reconcileJob` treats as a failure to retry.
* **`CompileFailure`** (bug). "Any failure of the compilation uses HTTP 422"
  (`server.py` 77), but `decimal.Overflow` (`10^1000000` in a divisor),
  `decimal.InvalidOperation` (arithmetic on the infinity to which `0^-1` folds)
  and `RecursionError` (some 140 nested braces, a sum of a thousand terms) are
  no `CompilationError`: the answer is HTTP 500 without diagnostics.

## 5. What is proved

By TLAPS, for every set of jobs, requests and sessions, every number of batches,
every capacity of the pipe and every set of faults. The assumptions are the
`ASSUME`s of the modules: the names of jobs, callers and `NoJob` are distinct,
the bounds are natural numbers; of the runtime also that results are integers or
`NaN` and that `Unit` is divisible by every number of results (section 2); of the
compiler that the streams of tokens are such as the lexer makes
(`StreamsAssumption`: EOF comes last and a NUMBER is written in digits and a point,
which `EofComesLast` and `LexemesSound` prove of the streams that come from a text).

Induction over natural numbers and over finite sets is by minimal
counterexample. The library has these principles with an operator as a
parameter, which the provers cannot instantiate, but the well-foundedness of
strict inclusion of finite sets (`FS_StrictSubsetOrderingWellFounded`, `WFMin`)
has sets only: `LeastNumber` and `MinimalSet` follow from it, and with them sums,
extremes, plans and folds can be reasoned about for every size.

* `JobManagerProofs!TypeCorrect`: types, and the two assertions of `Job.run` (a
  terminal event is there whenever one was seen).
* `JobManagerProofs!LifecycleHolds`: the inductive invariant `LifecycleInv`, from
  which follow `SlotExclusive`, `SlotReleased` and `VerdictsFollowExits`.
  The three properties are not inductive: that a job that starts later cannot
  already hold a cancellation or a terminal status (`FreshJobs`) is needed for
  the slot, for a task that is cancelled before its first step leaves the try
  clause unentered; that a known exit code belongs to a dead process
  (`ReapedIsDead`) is what `_terminate_process_tree` relies on when it returns;
  that a closed hub belongs to a finished task (`ClosedIsDone`) is why an
  event of the script cannot follow a verdict. The proof goes by action:
  `RunStepEffect` collects what every step of a task does to the slot, the
  status and the log, and one lemma per kind of step preserves the invariant.
* `JobManagerProofs!CancelledStaySilent`: the action property `CancelSilences`,
  from `LifecycleInv`. Only a step of the job's own task changes its hub
  (`Effect`), and each such step that a cancelled job can take publishes a
  verdict (`RunStepSilenced`).
* `JobManagerProofs!OutputHolds`: the inductive invariant `OutputInv` follows the
  output of a script through the pipe into the log of its job. The lines in the
  pipe continue the log (`InOrder`); a terminal line is the last, and what the
  task has seen is the only one (`SawLast`); a status that says completed has
  seen the exit code and the end of the output (`Decided`). From it
  `CompletionConfirmed`.
* `JobManagerProofs!BackendImplementsService`: `ImplementsService`, the refinement
  of `SimulationService`. A job is `live` from its creation until its status is
  terminal or its task is over (`Phase`). Steps of the script, the kernel and the
  callers change neither a phase nor a log (`QuietService`); a line that is read
  is a `Progress`, which needs `InOrder`; the end of the try clause is a `Decide`
  (`VerdictService`), which needs `SawLast`; a handler that is cancelled by a
  second request is a `Lose`.
* `JobEventHubProofs!HubHolds`: the inductive invariant `HubInv`; from it
  `SessionsMissNothing`, `ClosedSessionsAreComplete` and `NoStaleSubscribers`.
  `NothingLost`, which equates what was sent, replayed and queued with the
  history, carries the induction; `SessionStages` says that a queue is empty
  before `subscribe` and that a session without a queue found the hub closed.
  `SentinelLast` shows that the sentinel can only be the end of a queue, so
  that a session that takes it has sent everything. `PerSession` splits the
  invariant by session.

* `GeneratedRuntimeProofs!PlanCovers`: the batches of `_batch_plan` add up to the
  iterations, all full but the last, for every number of iterations. The
  induction is on the least number for which they would not (`LeastNumber`, from
  the well-foundedness of strict inclusion of finite sets), since the plan is a
  recursive function.
* `GeneratedRuntimeProofs!RuntimeTyped`, `WorkersEndFirst` and
  `ScriptKeepsProtocol`: the types with the lengths of the arrays, the verdict
  after the workers (`FuturesInv`: none starts before the start event, all are
  over when the `with` statement is left), and the protocol that `JobProcess`
  assumes of the script. For it `ProtocolInv` counts: in the loop the script has
  printed one event more than it has taken results, and these are as many as
  the futures taken, so that the counter of the last batch is the number of the
  batches.
* `TotalsProofs!TotalsExact` and `CompleteIsWhole`: `TotalsAreExact` and
  `CompleteCoversAll`, for every number of iterations, batch size, pool, number of
  bins, set of samples and of faults. The argument has five parts.
  Sums: `SumFunctionOnSet` does not depend on the order in which it takes the
  elements (`SumChoice`), so that it can be split (`SumUnion`) and a sum of squared
  distances written with the sum and the sum of squares (`SumDistances`).
  Statistics: of any numbers they have a closed form in these two sums
  (`StatsClosed`); that of two parts merged is the form of the whole
  (`MergeClosed`), hence `MergeExact`, which says that `_merge_stats` is right for
  any two disjoint sets of values, empty ones included.
  Order: `MergedByIndex` is the fold of `_stats_from_batch_states`; the batch with
  the greatest index is merged last, whatever arrived last (`MergeLast`).
  State: `Represents` says what each field of a branch stands for in terms of the
  values of the batches aggregated, and `Draws` the same of its histogram. One more
  batch keeps both (`RepresentsMore`, `DrawsMore`): where the range stands still the
  counts of the new values are added, and where it moves the histogram is that of
  all chunks (`RecomputeMore`); what lies in the way is that a running minimum and
  maximum tell whether the range has moved, the first batch with a value included.
  Induction: `TotalsHold`. A batch is aggregated once, and as its worker reported
  it (`AggregatedInv`, which is what the futures are for); the states represent the
  batches aggregated (`TotalsInv`); what is published is what they say
  (`PublishedInv`). No division rounds because the values are at most as many as
  the iterations (`PlacesCount`), which are the sizes of all batches
  (`PlanAddsUp`, from `PlanCovers`).
  The expected totals of `ExpectedPayload` mention neither batches merged nor
  chunks; `ExpectedIs` equates them with the closed form, and `ReportedValues` is
  where the two filters of `_simulate_batch` are related to the arrays.
* `SimulationClientProofs!RunHolds`: the inductive invariant `RunInv` of a page
  with a patient user, for any number of jobs, polls and requests, every failure of
  the network, and other pages that create jobs. While a POST is in flight
  nothing of the run before is left but a job that has ended (`OnePost`);
  connections and polls are about the job of the page, and an answer that claims
  an end tells the truth (`Follows`, which needs that a terminal event is in the
  log of an ended job only, `LogsTrue`); a page that has ended keeps no timer.
  From it `RunEndsWithItsJob`, `CancelStaysOffered` and `PollsStayBounded`: the
  last one counts (`CountInv`). While a connection is up there is neither a poll nor
  a timer (`Quiet`), so that the two polls that its end may start are the first; a
  poll that returns may set the timer and the timer starts one poll, which leaves
  their sum at two. `PageMove` is what the
  handlers have in common, so that each needs only what it has learned. As in the
  run, the service does not lose a job, and the user is patient (section 3).

* `LexerProofs!LexerSound`: the inductive invariant `LexerInv`, for every set of
  texts. It says where a token that is being read starts, that no newline has
  been read since, and that the flag of `_advance` tells whether a CR stands
  before the position.
* `LexerProofs!PositionsAreExact`: `PositionsExact`. A line and a column are
  defined from the text alone (`Exact`); `MoveOne` shows that one character
  moves them as `_advance` does, `MoveMany` that characters that end no line
  may be skipped at once. `_position_after_current` counts every newline as a
  line, which is wrong for the LF of a CR LF: that it is never asked there is
  what `LexerInv` is for (`AutomatonEndsExact`). `AfterCandidateExact` is about
  the word that is no statistic (`LongestPrefix`).
* `LexerProofs!SourceIsCovered`: `SourceCovered`, by what a step reads, emits or
  rejects.
* `LexerProofs!LexemesSound` and `RejectsSound`: the automata agree with the
  regular expressions of the language, in both directions, for every set of texts.
  The invariant is `Reading` (`ReadingHolds`): what an automaton has read since it
  began is a prefix of a word of its type, by its state. A token that is emitted is
  then a word, and the character after it cannot prolong it. Where a number is
  rejected no other prefix of the text would have been one: it has one point
  (`OnePoint`), and what stops its automaton cannot go on with it (`Stops`).
  `StatisticsInBrackets` is about the
  modes: a statistic is emitted in `RESPONSE` only, which begins and ends with its
  braces.

* `CompilerProofs!StagesHold`: the inductive invariant `StageInv` of the phases, for
  every set of texts and streams. What the lexer hands over is a stream as the
  parser needs it (`StreamOfText`, from `EofComesLast`, `SourceIsCovered` and
  `LexemesSound`); what the parser hands over is a program whose trees are well
  formed (`ProgramType`); what is generated had no diagnostic.
  `ProgramType` goes by parse function, and says that each returns a value with an
  index that still has a token, or fails with a code of its own. `Consume` reads EOF
  last, hence a function that has succeeded has not passed it. A loop is a recursive
  function of its rounds, and the nesting of braces one of the depth: both look
  back only (`LooksBack`), so they exist (`RecursionDefines`) and what a round keeps
  they keep (`LoopStays`).
* `NamesHold`: `NamesResolve`. `Reports` says of each pass which codes its
  diagnostics have, without their order and number; `AnalysisReports` puts them
  together, and `NamesAreChecked` equates the absence of the codes about names with
  `NamesInOrder`.
* `ParametersHold`: `ParametersValid`. A comparison of the analysis is about decimals and
  one of the generator about floats; `ConvertedType` and the checks of
  `DrawParameters` carry the one to the other, `DiscreteFloats` for values
  that must differ in pairs.
* `BranchesHold`: `BranchesMatch`, for trees of every size. A visit is a function of
  the nodes that looks at the operands only (`GoodRecursion`); `VisitKeeps` shows
  for each operator, with a plus-minus at it, in its left operand, in its right one
  or nowhere, that the branches of the operands give those of the node
  (`BranchesAt`). A second plus-minus was rejected by the
  analysis (`PlusMinusOnce`, from SEM040). `AnswersHold` adds that the codes of the
  generator for broken trees are never answered.
* `ScriptsHold`: `ScriptIsClosed`, from the two before: names are numbered in the order
  of the declarations (`NamesNumbered`), and the atoms of a branch that are names
  are the variables of the expression.
* `PrecedenceKept`: `PrecedenceHolds`. A tree `Stands` on an interval of tokens: its
  leaves are single tokens, the operands of a binary node stand on the intervals
  before and behind its operator, and what is in parentheses may stand on the
  interval without them. Each parse function returns a tree that stands on the
  tokens from where it began up to where it ends, and that binds at the
  level of the function, 5 for an atom down to 1 for a sum, or is in parentheses
  (`ParsedTrees`). Parentheses of a group are those that belong together because
  braces are counted over its tokens (`Balanced`, `Enclosed`). `StageInv` keeps that
  all nodes of a program in analysis stand on its tokens (`AllSit`), and
  `AllGrouped` derives from it that the spans of the nodes are those of groups where
  the level asks for one.
* `DomainAlarmsHold`: `DomainAlarmsExact`. What is folded at a node and what the node means
  are two recursions over the same tree. Both exist and are unique on every tree
  (`ValuesExist`, `ValuesCopied`), so a node has the same value in the expression
  and in its own tree (`MeaningBelow`). `TreeAgrees` goes from the leaves to the root:
  a constant that was folded is the meaning or the meaning is undefined, and
  without variables every meaning was folded (`Agrees`). The step takes that the
  operations on Decimals end in one: rounding (`NearestInteger`), integer roots
  (`SquareRootType`) and powers, of which the recursion over all natural numbers has
  a solution (`PowerFunction`). Infinities arise from zero to a negative power only,
  where nothing has a meaning.
* `SpanProofs!SpansKept`: `SpansSelectNodes`, for every text and every nesting: a node is
  what the tokens of its span are parsed to when nothing but EOF follows them. It compares
  two runs of the parser: `IsCut` relates a stream to a piece of it with
  EOF behind, and a result `Carries` if, as long as it ends in the piece or right
  behind it, parsing the piece gives the same tree with all spans `Moved`. This holds for
  each parse function, from `CutAtom` to `CutSum`. For a loop, EOF is the point: in the
  piece it stops where the piece ends, in its place it may go on, so `CutRounds` is about
  every round after which it could have ended, not the last one only (`CutFactors`,
  `CutTerms`); a text whose span is that of the first two of three terms is parsed to the
  inner sum. Braces are an induction over depth, and a piece has no less room for them than
  the whole (`CutExpressions`). A node made by one function is the whole text of another:
  what `_parse_atom` returns for all of a text, `_parse_expression` returns too
  (`TextAlone`). `ExpressionsSelect` puts these together along the functions that make the
  nodes, and the invariant `SelectInv` carries the result from the parser to the analysis.

Model-checked only:

* Liveness (`JobTerminates`, `CancelEnds`, `ShutdownEndsScripts`, `SessionsEnd`,
  `ScriptEnds`, `RunSettles`, `LexingEnds`), which is out of the reach of the prover,
  as is `ENABLED`.
* `AcceptsGrammar`. It is about the streams that are rejected too: it needs that the
  parser finds a tree wherever the grammar has one, for any way to derive it, which is
  an induction over derivations beside the one over parse functions that the theorems go
  by.

## 6. What is not modelled, and why

* The `taskkill` branch of `_terminate_process_tree` (Windows); the tails of
  standard error and diagnostics and the temporary directory: data no property
  depends on.
* Quantiles, intervals, correlations: functions of the values that are modelled.
* The text of responses and of the generated script, the static page, styles,
  the vendored d3, the diagnostics: wording and presentation.
* Drawing, the editor and the choice of a branch in the client.
* The statistics library (`statistics.py`): no other part of the program calls it.
  The script has its own copy of `merge`, which is modelled as `MergeStats`.
* In the compiler: messages and lexemes of diagnostics, the spans of parse
  errors (their codes are modelled), the template of the script, characters
  outside ASCII other than as foreign ones.

## 7. Plan

1. Done: events, process, manager, service, hub, runtime, client, and the four
   phases of the compiler; proofs of all safety properties of the manager, the hub,
   the client, the runtime and the lexer, of the refinement of the service, and of
   what the compiler guarantees of names, parameters, branches, precedence, spans,
   domains and lines.
2. Next: that each parse function finds a tree where the grammar has one, and with it
   `AcceptsGrammar`.
3. `RunningStats` of the statistics library, update against merge; quantiles.
