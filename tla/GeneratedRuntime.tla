-------------------------- MODULE GeneratedRuntime --------------------------
(***************************************************************************)
(* The script that generator.py writes for a job, from its plan of batches *)
(* to its last event: a pool of workers simulates the batches in any       *)
(* order, the main process aggregates each one as it completes and prints  *)
(* the running totals (_run and main of the template).                     *)
(*                                                                         *)
(* A result is an integer, or NaN.  A mean and a second moment are here    *)
(* twice: exact, as multiples of 1 / Unit, and as the sequence of the      *)
(* batches that were merged, on which their rounding depends.              *)
(***************************************************************************)
EXTENDS JobEvents, Integers, FiniteSetsExt, SequencesExt

CONSTANTS
  Totals,         \* values of \iter: TOTAL_ITERATIONS is one of them
  BatchSize, MaxWorkers, HistogramBins,
  Branches,       \* BRANCH_IDS
  Samples,        \* the arrays of a branch: a bound of the model
  NaN,            \* every result that is not finite
  Unit,           \* divisible by every number of results: no division rounds
  RuntimeFaults   \* what may go wrong

ASSUME RuntimeAssumption ==
  /\ Totals \subseteq Nat \ {0}
  /\ \A total \in Totals : \A n \in 1 .. total : Unit % n = 0
  /\ BatchSize \in Nat \ {0} /\ MaxWorkers \in Nat \ {0}
  /\ HistogramBins \in Nat \ {0}
  /\ "plus_minus_delta" \notin Branches
  /\ NaN \notin Int /\ Samples \subseteq Seq(Int \cup {NaN})
  /\ Unit \in Nat \ {0}
  /\ RuntimeFaults \subseteq {"raise", "broken pool", "overflow"}

-----------------------------------------------------------------------------
(* The plan and the arithmetic of the aggregation                          *)

\* Mutant: the loop stops at the last full batch.
FullBatches(total) ==
  LET plan[remaining \in 0 .. total] ==
        IF remaining < BatchSize THEN << >>
        ELSE <<BatchSize>> \o plan[remaining - BatchSize]
  IN plan[total]

\* _batch_plan: the sizes of the batches (numbered from 1).
BatchPlan(total) ==
  LET plan[remaining \in 0 .. total] ==
        IF remaining = 0 THEN << >>
        ELSE LET size == Min({BatchSize, remaining})
             IN <<size>> \o plan[remaining - size]
  IN plan[total]

\* A statistics state.
EmptyStats == [n |-> 0, mean |-> 0, m2 |-> 0, min |-> 0, max |-> 0, merged |-> << >>]

\* _stats_from_values, in two passes.
StatsOf(batch, values) ==
  LET n == Cardinality(DOMAIN values)
      mean == (Unit * SumFunction(values)) \div n
      squared == [i \in DOMAIN values |-> (Unit * values[i] - mean) * (Unit * values[i] - mean)]
  IN IF n = 0 THEN EmptyStats
     ELSE [n |-> n, mean |-> mean, m2 |-> SumFunction(squared) \div Unit,
           min |-> Min(Range(values)), max |-> Max(Range(values)), merged |-> <<batch>>]

\* Mutant: the distance between the means of the batches is forgotten.
MergeWithin(left, right) ==
  LET n == left.n + right.n
  IN IF right.n = 0 THEN left
     ELSE IF left.n = 0 THEN right
     ELSE [n |-> n, mean |-> (left.n * left.mean + right.n * right.mean) \div n,
           m2 |-> left.m2 + right.m2,
           min |-> Min({left.min, right.min}), max |-> Max({left.max, right.max}),
           merged |-> left.merged \o right.merged]

\* _merge_stats, after Chan, Golub and LeVeque.
MergeStats(left, right) ==
  LET n == left.n + right.n
      delta == right.mean - left.mean
  IN IF right.n = 0 THEN left
     ELSE IF left.n = 0 THEN right
     ELSE [n |-> n,
           mean |-> left.mean + (delta * right.n) \div n,
           m2 |-> left.m2 + right.m2 + (delta * delta * left.n * right.n) \div (n * Unit),
           min |-> Min({left.min, right.min}), max |-> Max({left.max, right.max}),
           merged |-> left.merged \o right.merged]

\* _stats_from_batch_states: merged by index, whatever the order of arrival.
StatsFromBatchStates(states) ==
  MapThenFoldSet(LAMBDA next, stats : MergeStats(stats, next), EmptyStats,
                 LAMBDA b : states[b], Max, DOMAIN states)

\* The bin of a value between lo and hi: the last one is closed, and equal
\* ends are padded on both sides.
Bin(value, lo, hi) ==
  IF lo = hi THEN (HistogramBins \div 2) + 1
  ELSE IF value = hi THEN HistogramBins
  ELSE (((value - lo) * HistogramBins) \div (hi - lo)) + 1

\* np.histogram(values, bins=edges): a value outside the edges is dropped.
Histogram(values, lo, hi) ==
  [k \in 1 .. HistogramBins |->
     Cardinality({i \in DOMAIN values :
                    values[i] \in lo .. hi /\ Bin(values[i], lo, hi) = k})]

AddCounts(a, b) == [k \in 1 .. HistogramBins |-> a[k] + b[k]]
NoCounts == [k \in 1 .. HistogramBins |-> 0]

\* _recompute_histogram over the chunks.
RecomputeHistogram(chunks, lo, hi) ==
  [k \in 1 .. HistogramBins |->
     SumFunction([i \in DOMAIN chunks |-> Histogram(chunks[i], lo, hi)[k]])]

\* _new_branch_state, _new_paired_state.
NewBranch ==
  [candidate |-> 0, valid |-> 0, discarded |-> 0,
   stats |-> EmptyStats, batchStats |-> << >>, chunks |-> << >>,
   edges |-> <<0, 0>>, counts |-> NoCounts]
NewPaired ==
  [candidate |-> 0, valid |-> 0, discarded |-> 0,
   stats |-> EmptyStats, batchStats |-> << >>, chunks |-> << >>]

\* What a branch and the paired difference accumulate alike.
Tally(state, batch, size, values, stats) ==
  [state EXCEPT
     !.candidate = @ + size,
     !.valid = @ + Cardinality(DOMAIN values),
     !.discarded = @ + size - Cardinality(DOMAIN values),
     !.stats = MergeStats(@, stats),
     !.batchStats = [b \in DOMAIN @ \cup {batch} |->
                       IF b = batch THEN stats ELSE @[b]],
     !.chunks = IF DOMAIN values = {} THEN @ ELSE Append(@, values)]

\* Mutant: only a new maximum moves the edges.
MaximumMoved(state, stats) == state.chunks = << >> \/ stats.max # state.stats.max

\* histogram_counts is None or range_changed
EdgesMoved(state, stats) ==
  \/ state.chunks = << >>
  \/ stats.min # state.stats.min \/ stats.max # state.stats.max

\* The totals of a branch after one more batch, with its histogram.
Accumulate(state, batch, size, values, stats) ==
  LET next == Tally(state, batch, size, values, stats)
      moved == DOMAIN values # {} /\ EdgesMoved(state, next.stats)
  IN [next EXCEPT
        !.edges = IF moved THEN <<next.stats.min, next.stats.max>> ELSE @,
        !.counts = IF moved
                   THEN RecomputeHistogram(next.chunks, next.stats.min, next.stats.max)
                   ELSE AddCounts(@, Histogram(values, state.edges[1], state.edges[2]))]

\* Mutant: the running state is published, merged in order of completion.
RunningPayload(state) ==
  [candidate |-> state.candidate, valid |-> state.valid,
   discarded |-> state.discarded, stats |-> state.stats,
   edges |-> state.edges, counts |-> state.counts]

\* _branch_payload.
BranchPayload(state) ==
  [candidate |-> state.candidate, valid |-> state.valid,
   discarded |-> state.discarded, stats |-> StatsFromBatchStates(state.batchStats),
   edges |-> state.edges, counts |-> state.counts]

\* _paired_payload, but for the correlations.
PairedPayload(state) ==
  [candidate |-> state.candidate, valid |-> state.valid,
   discarded |-> state.discarded, stats |-> StatsFromBatchStates(state.batchStats)]

-----------------------------------------------------------------------------
(* What a batch yields                                                     *)

\* Mutant: an array of one value is taken as it is.
NotCoerced(array, size) == array

\* _coerce_result_array: a constant is broadcast.
Coerced(array, size) ==
  IF Len(array) = size THEN array ELSE [i \in 1 .. size |-> array[1]]

\* The arrays of a batch; other lengths raise.
Results(size) == {Coerced(array, size) : array \in {a \in Samples : Len(a) \in {1, size}}}

\* branch_values: values[np.isfinite(values)], by iteration.
Finite(array) == Restrict(array, {i \in DOMAIN array : array[i] # NaN})

\* The difference of the two branches of a plus-minus.
Delta == "plus_minus_delta"
Series == Branches \cup (IF Branches = {"plus", "minus"} THEN {Delta} ELSE {})

\* Mutant: the finite values are paired, not the iterations.
PairedByRank(arrays) ==
  LET Compact(array) == SelectSeq(array, LAMBDA x : x # NaN)
      plus == Compact(arrays["plus"])
      minus == Compact(arrays["minus"])
  IN [k \in 1 .. Min({Len(plus), Len(minus)}) |-> plus[k] - minus[k]]

\* delta_values: over the iterations in which both branches are finite.
Differences(arrays) ==
  [i \in {i \in DOMAIN arrays["plus"] : arrays["plus"][i] # NaN /\ arrays["minus"][i] # NaN} |->
     arrays["plus"][i] - arrays["minus"][i]]

\* _simulate_batch: what a worker returns.
Simulated(batch, arrays) ==
  LET values == [series \in Series |->
                   IF series = Delta THEN Differences(arrays) ELSE Finite(arrays[series])]
  IN [arrays |-> arrays, values |-> values,
      stats |-> [series \in Series |-> StatsOf(batch, values[series])]]

Payload(series, state) ==
  IF series = Delta THEN PairedPayload(state) ELSE BranchPayload(state)

-----------------------------------------------------------------------------
VARIABLES
  total,      \* TOTAL_ITERATIONS
  future,     \* the state of the future of each batch
  result,     \* what the worker of a batch returns, with its arrays
  branches,   \* branch_states, and paired_state under its id
  order,      \* the batches aggregated, in the order of as_completed
  main,       \* where the main process is
  printed,    \* the events it has printed
  published   \* the totals in the last batch or complete event

vars == <<total, future, result, branches, order, main, printed, published>>

Plan == BatchPlan(total)
Batches == DOMAIN Plan

RuntimeTypeOK ==
  /\ total \in Totals
  /\ future \in [Batches -> {"pending", "running", "done", "failed", "yielded"}]
  /\ DOMAIN result = Batches
  /\ \A b \in Batches : future[b] = "done" =>
       \A branch \in Branches : /\ result[b].arrays[branch] \in Seq(Int \cup {NaN})
                               /\ Len(result[b].arrays[branch]) = Plan[b]
  /\ order \in Seq(Batches)
  /\ main \in {"begin", "loop", "raised", "exit 0", "exit 1"}
  /\ printed \in Seq(Event)

Init ==
  /\ total \in Totals
  /\ future = [b \in Batches |-> "pending"]
  /\ result = [b \in Batches |-> << >>]
  /\ branches = [series \in Series |-> IF series = Delta THEN NewPaired ELSE NewBranch]
  /\ order = << >>
  /\ main = "begin"
  /\ printed = << >>
  /\ published = [series \in Series |-> Payload(series, branches[series])]

-----------------------------------------------------------------------------
(* The workers of the pool                                                 *)

\* worker_count = min(MAX_WORKERS, len(batches))
FreeWorker ==
  Cardinality({b \in Batches : future[b] = "running"}) < Min({MaxWorkers, Len(Plan)})

StartBatch(b) ==
  /\ main # "begin" /\ future[b] = "pending" /\ FreeWorker
  /\ future' = [future EXCEPT ![b] = "running"]
  /\ UNCHANGED <<total, result, branches, order, main, printed, published>>

\* _simulate_batch returns, or raises.
FinishBatch(b) ==
  /\ future[b] = "running"
  /\ \/ /\ future' = [future EXCEPT ![b] = "done"]
        /\ \E arrays \in [Branches -> Results(Plan[b])] :
             result' = [result EXCEPT ![b] = Simulated(b, arrays)]
     \/ /\ "raise" \in RuntimeFaults
        /\ future' = [future EXCEPT ![b] = "failed"]
        /\ UNCHANGED result
  /\ UNCHANGED <<total, branches, order, main, printed, published>>

\* A worker dies: every future that has no result yet raises.
PoolBreaks ==
  /\ "broken pool" \in RuntimeFaults
  /\ \E b \in Batches : future[b] = "running"
  /\ future' = [b \in Batches |->
                  IF future[b] \in {"pending", "running"} THEN "failed" ELSE future[b]]
  /\ UNCHANGED <<total, result, branches, order, main, printed, published>>

-----------------------------------------------------------------------------
(* The main process                                                        *)

\* The start event; then every batch is submitted.
Begin ==
  /\ main = "begin"
  /\ main' = "loop"
  /\ printed' = <<Ev("start", 0)>>
  /\ UNCHANGED <<total, future, result, branches, order, published>>

\* Mutant: the index of the batch in place of the count.
BatchIndex(b) == b

\* What one more batch does to a branch or to the paired difference.
Accumulated(series, b) ==
  LET values == result[b].values[series]
      stats == result[b].stats[series]
  IN IF series = Delta THEN Tally(branches[series], b, Plan[b], values, stats)
     ELSE Accumulate(branches[series], b, Plan[b], values, stats)

\* completed_batches
CompletedBatches(b) == Len(order) + 1

\* One iteration over as_completed.  The event is not printed if a number of
\* it is not finite (allow_nan=False).
Aggregate(b) ==
  /\ main = "loop" /\ future[b] = "done"
  /\ future' = [future EXCEPT ![b] = "yielded"]
  /\ order' = Append(order, b)
  /\ \E states \in {[series \in Series |-> Accumulated(series, b)]} :
       /\ branches' = states
       /\ \/ /\ printed' = Append(printed, Ev("batch", CompletedBatches(b)))
             /\ published' = [series \in Series |-> Payload(series, states[series])]
             /\ UNCHANGED main
          \/ /\ "overflow" \in RuntimeFaults
             /\ main' = "raised"
             /\ UNCHANGED <<printed, published>>
  /\ UNCHANGED <<total, result>>

\* future.result() raises.
AggregateFailed(b) ==
  /\ main = "loop" /\ future[b] = "failed"
  /\ main' = "raised"
  /\ future' = [future EXCEPT ![b] = "yielded"]
  /\ UNCHANGED <<total, result, branches, order, printed, published>>

\* The loop is over: an error if no branch has a finite result.
CompleteRun ==
  /\ main = "loop" /\ \A b \in Batches : future[b] = "yielded"
  /\ IF \A branch \in Branches : branches[branch].valid = 0
     THEN main' = "raised" /\ UNCHANGED <<printed, published>>
     ELSE /\ main' = "exit 0"
          /\ printed' = Append(printed, Ev("complete", 0))
          /\ published' = [series \in Series |-> Payload(series, branches[series])]
  /\ UNCHANGED <<total, future, result, branches, order>>

\* Mutants: the executor is left without waiting for its workers; it waits
\* for the loop to take every result.
NotDrained == TRUE
AllTaken == \A b \in Batches : future[b] = "yielded"

\* The end of "with ProcessPoolExecutor": every future submitted is over.
Drained == \A b \in Batches : future[b] \notin {"pending", "running"}

\* The except clause of main.
ReportError ==
  /\ main = "raised" /\ Drained
  /\ main' = "exit 1"
  /\ printed' = Append(printed, Ev("error", 0))
  /\ UNCHANGED <<total, future, result, branches, order, published>>

-----------------------------------------------------------------------------
Main == Begin \/ CompleteRun \/ ReportError
          \/ \E b \in Batches : Aggregate(b) \/ AggregateFailed(b)
Workers == \E b \in Batches : StartBatch(b) \/ FinishBatch(b)

Next == Main \/ Workers \/ PoolBreaks

Spec == Init /\ [][Next]_vars

\* The operating system runs the processes; nothing makes a worker fail.
FairSpec == Spec /\ WF_vars(Main) /\ WF_vars(Workers)

-----------------------------------------------------------------------------
(* Properties *)

\* The elements of a set of numbers in ascending order.
Ascending(S) ==
  MapThenFoldSet(LAMBDA x, sequence : Append(sequence, x), << >>, LAMBDA x : x, Max, S)

\* What the totals of a series should be, from the batches aggregated alone.
ExpectedPayload(series, done) ==
  LET sources == IF series = Delta THEN Branches ELSE {series}
      finite == {v \in done \X (1 .. BatchSize) :
                   v[2] <= Plan[v[1]] /\ \A s \in sources : result[v[1]].arrays[s][v[2]] # NaN}
      Of(s, v) == result[v[1]].arrays[s][v[2]]
      values == [v \in finite |-> IF series = Delta THEN Of("plus", v) - Of("minus", v)
                                  ELSE Of(series, v)]
      n == Cardinality(finite)
      mean == (Unit * SumFunction(values)) \div n
      squared == [v \in finite |-> (Unit * values[v] - mean) * (Unit * values[v] - mean)]
      lo == Min(Range(values))
      hi == Max(Range(values))
      candidate == SumFunctionOnSet(Plan, done)
      stats == IF finite = {} THEN EmptyStats
               ELSE [n |-> n, mean |-> mean, m2 |-> SumFunction(squared) \div Unit,
                     min |-> lo, max |-> hi, merged |-> Ascending({v[1] : v \in finite})]
      counts == [k \in 1 .. HistogramBins |->
                   Cardinality({v \in finite : Bin(values[v], lo, hi) = k})]
  IN IF series = Delta
     THEN [candidate |-> candidate, valid |-> n, discarded |-> candidate - n, stats |-> stats]
     ELSE [candidate |-> candidate, valid |-> n, discarded |-> candidate - n, stats |-> stats,
           edges |-> IF finite = {} THEN <<0, 0>> ELSE <<lo, hi>>,
           counts |-> IF finite = {} THEN NoCounts ELSE counts]

\* The published totals depend on which batches have completed and not on the
\* order in which they did: the mean and the second moment that are merged from
\* those of batches of any size are those of all the results, the histogram that
\* is updated as they arrive is the histogram of all of them, and the difference
\* of two branches is that of the iterations in which both are finite.
TotalsAreExact ==
  main = "loop" =>
    published = [series \in Series |-> ExpectedPayload(series, ToSet(order))]

\* A script that reports completion has aggregated every iteration once, and
\* has at least one finite result.
CompleteCoversAll ==
  main = "exit 0" =>
    /\ \A series \in Series :
         /\ published[series].candidate = total
         /\ published[series] = ExpectedPayload(series, Batches)
    /\ \E branch \in Branches : published[branch].stats.n > 0

\* When the script prints its last event no worker of it is simulating, also
\* if a batch failed while others were running.
VerdictAfterWorkers ==
  main \in {"exit 0", "exit 1"} => \A b \in Batches : future[b] # "running"

\* The script prints the events that JobProcess expects of it: start, its
\* batches counted without gaps, then complete, or an error as the last.
ScriptProtocol ==
  [][printed' # printed =>
       /\ \A i \in DOMAIN printed : printed[i].type \notin TerminalTypes
       /\ \E event \in ScriptEvents(Len(printed), Len(Plan)) :
            printed' = Append(printed, event)]_vars

\* The script ends, whatever its workers do.
ScriptEnds == <>(main \in {"exit 0", "exit 1"})
=============================================================================
