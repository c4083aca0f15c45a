----------------------- MODULE GeneratedRuntimeProofs -----------------------
(***************************************************************************)
(* Theorems about GeneratedRuntime, for every number of iterations, batch  *)
(* size, pool and faults: its plan, its workers and its protocol.  What    *)
(* its totals are is module TotalsProofs.                                  *)
(***************************************************************************)
EXTENDS GeneratedRuntime, FiniteSetTheorems, WellFoundedInduction, TLAPS

-----------------------------------------------------------------------------
(* The plan.  A set of numbers that is not empty has a least element: the  *)
(* form of induction used here.                                            *)

LEMMA LeastNumber ==
  ASSUME NEW S, S \subseteq Nat, S # {}
  PROVE  \E n \in S : \A m \in S : n <= m
<1> DEFINE T == {0 .. n : n \in S}
<1>1. T \subseteq FiniteSubsetsOf(Nat) /\ T # {}
  <2>1. ASSUME NEW n \in S PROVE 0 .. n \in FiniteSubsetsOf(Nat)
    <3>1. 0 \in Int /\ n \in Int
      OBVIOUS
    <3>2. IsFiniteSet(0 .. n)
      BY <3>1, FS_Interval
    <3> QED
      BY <3>2 DEF FiniteSubsetsOf
  <2> QED
    BY <2>1
<1>2. IsWellFoundedOn(StrictSubsetOrdering(Nat), FiniteSubsetsOf(Nat))
  BY FS_StrictSubsetOrderingWellFounded
<1> HIDE DEF T
<1>3. \E x \in T : \A y \in T : ~(<<y, x>> \in StrictSubsetOrdering(Nat))
  BY <1>1, <1>2, WFMin
<1>4. PICK n \in S : \A m \in S : <<0 .. m, 0 .. n>> \notin StrictSubsetOrdering(Nat)
  BY <1>3 DEF T
<1>5. ASSUME NEW m \in S, m < n PROVE FALSE
  <2>1. 0 .. m \in SUBSET Nat /\ 0 .. n \in SUBSET Nat
    OBVIOUS
  <2>2. 0 .. m \subseteq 0 .. n /\ n \in 0 .. n /\ n \notin 0 .. m
    BY <1>5
  <2>3. <<0 .. m, 0 .. n>> \in StrictSubsetOrdering(Nat)
    BY <2>1, <2>2 DEF StrictSubsetOrdering
  <2> QED
    BY <1>4, <2>3
<1> QED
  BY <1>5

LEMMA BatchSizeType == BatchSize \in Nat \ {0}
BY RuntimeAssumption

\* size = min(BATCH_SIZE, remaining)
Size(remaining) == IF remaining <= BatchSize THEN remaining ELSE BatchSize

LEMMA SizeIsMin ==
  ASSUME NEW r \in Nat \ {0}
  PROVE  /\ Min({BatchSize, r}) = Size(r)
         /\ Size(r) \in 1 .. BatchSize /\ Size(r) <= r
         /\ r - Size(r) \in 0 .. r - 1
<1>1. Size(r) \in {BatchSize, r} /\ \A y \in {BatchSize, r} : Size(r) <= y
  BY BatchSizeType DEF Size
<1>2. \A x \in {BatchSize, r} : (\A y \in {BatchSize, r} : x <= y) => x = Size(r)
  BY BatchSizeType DEF Size
<1>3. Min({BatchSize, r}) = Size(r)
  BY <1>1, <1>2 DEF Min
<1> QED
  BY <1>3, BatchSizeType DEF Size

\* What the plans of 0 to n remaining iterations satisfy.
Plans(plan, n) ==
  plan = [r \in 0 .. n |->
            IF r = 0 THEN << >>
            ELSE <<Min({BatchSize, r})>> \o plan[r - Min({BatchSize, r})]]

LEMMA PlansExist == \A n \in Nat : \E plan : Plans(plan, n)
<1> DEFINE S == {n \in Nat : ~\E plan : Plans(plan, n)}
<1> SUFFICES ASSUME S # {} PROVE FALSE
  OBVIOUS
<1>1. PICK n \in S : \A m \in S : n <= m
  <2>1. S \subseteq Nat
    OBVIOUS
  <2> HIDE DEF S
  <2> QED
    BY <2>1, LeastNumber
<1>2. CASE n = 0
  <2>1. Plans([r \in 0 .. 0 |-> << >>], 0)
    BY DEF Plans
  <2> QED
    BY <1>2, <2>1
<1>3. CASE n # 0
  <2>1. n - 1 \in Nat /\ n - 1 \notin S
    BY <1>1, <1>3
  <2>2. PICK f : Plans(f, n - 1)
    BY <2>1
  <2> DEFINE Next1(r) == IF r = 0 THEN << >>
                         ELSE <<Min({BatchSize, r})>> \o f[r - Min({BatchSize, r})]
  <2> DEFINE g == [r \in 0 .. n |-> Next1(r)]
  <2>3. \A r \in 0 .. n - 1 : f[r] = Next1(r)
    BY <2>2 DEF Plans
  <2> HIDE DEF Next1
  <2>4. \A r \in 0 .. n : r # 0 => g[r - Min({BatchSize, r})] = f[r - Min({BatchSize, r})]
    <3> SUFFICES ASSUME NEW r \in 0 .. n, r # 0
                 PROVE  g[r - Min({BatchSize, r})] = f[r - Min({BatchSize, r})]
      OBVIOUS
    <3>1. r - Min({BatchSize, r}) \in 0 .. r - 1
      BY SizeIsMin
    <3>2. r - Min({BatchSize, r}) \in 0 .. n - 1 /\ r - Min({BatchSize, r}) \in 0 .. n
      BY <3>1
    <3> QED
      BY <2>3, <3>2
  <2>5. \A r \in 0 .. n :
          g[r] = IF r = 0 THEN << >>
                 ELSE <<Min({BatchSize, r})>> \o g[r - Min({BatchSize, r})]
    BY <2>4 DEF Next1
  <2>6. g = [r \in 0 .. n |-> g[r]]
    OBVIOUS
  <2> HIDE DEF g
  <2>7. Plans(g, n)
    BY <2>5, <2>6 DEF Plans
  <2> QED
    BY <2>7
<1> QED
  BY <1>2, <1>3

\* Full batches, and a last one with the rest.
Covers(plan, n) ==
  /\ plan \in Seq(1 .. BatchSize)
  /\ n = 0 => plan = << >>
  /\ n # 0 =>
       /\ plan # << >>
       /\ \A i \in 1 .. Len(plan) - 1 : plan[i] = BatchSize
       /\ n = (Len(plan) - 1) * BatchSize + plan[Len(plan)]

LEMMA ElementOf ==
  ASSUME NEW T, NEW s \in Seq(T), NEW i \in 1 .. Len(s)
  PROVE  s[i] \in T
OBVIOUS

LEMMA CoversStep ==
  ASSUME NEW r \in Nat \ {0}, NEW rest, Covers(rest, r - Size(r))
  PROVE  Covers(<<Size(r)>> \o rest, r)
<1> DEFINE plan == <<Size(r)>> \o rest
<1>0. Size(r) \in 1 .. BatchSize /\ r - Size(r) \in Nat /\ BatchSize \in Nat
  <2>1. Size(r) \in 1 .. BatchSize /\ r - Size(r) \in 0 .. r - 1
    BY SizeIsMin
  <2> QED
    BY <2>1, BatchSizeType
<1>1. rest \in Seq(1 .. BatchSize) /\ Len(rest) \in Nat
  BY DEF Covers
<1>2. /\ plan \in Seq(1 .. BatchSize) /\ Len(plan) = Len(rest) + 1
      /\ plan[1] = Size(r) /\ \A i \in 2 .. Len(plan) : plan[i] = rest[i - 1]
  BY <1>0, <1>1
<1>3. plan # << >>
  BY <1>1, <1>2
<1> HIDE DEF plan
<1>4. CASE r - Size(r) = 0
  <2>1. Len(rest) = 0 /\ r = Size(r)
    BY <1>0, <1>4 DEF Covers
  <2>2. (Len(plan) - 1) * BatchSize = 0 /\ Len(plan) = 1
    BY <1>0, <1>2, <2>1
  <2> QED
    BY <1>0, <1>2, <1>3, <2>1, <2>2 DEF Covers, plan
<1>5. CASE r - Size(r) # 0
  <2>1. Size(r) = BatchSize
    BY <1>5, BatchSizeType DEF Size
  <2>2. /\ rest # << >> /\ \A i \in 1 .. Len(rest) - 1 : rest[i] = BatchSize
        /\ r - BatchSize = (Len(rest) - 1) * BatchSize + rest[Len(rest)]
    BY <1>5, <2>1 DEF Covers
  <2>3. Len(rest) \in Nat \ {0}
    BY <1>1, <2>2
  <2>4. rest[Len(rest)] \in Nat
    <3>1. Len(rest) \in 1 .. Len(rest)
      BY <2>3
    <3>2. rest[Len(rest)] \in 1 .. BatchSize
      BY <1>1, <3>1, ElementOf
    <3> QED
      BY <3>2
  <2>5. plan[Len(plan)] = rest[Len(rest)]
    BY <1>2, <2>3
  <2>6. \A i \in 1 .. Len(plan) - 1 : plan[i] = BatchSize
    <3> SUFFICES ASSUME NEW i \in 1 .. Len(plan) - 1 PROVE plan[i] = BatchSize
      OBVIOUS
    <3>1. CASE i = 1
      BY <1>2, <2>1, <3>1
    <3>2. CASE i # 1
      <4>1. i \in 2 .. Len(plan) /\ i - 1 \in 1 .. Len(rest) - 1
        BY <1>1, <1>2, <3>2
      <4> QED
        BY <1>2, <2>2, <4>1
    <3> QED
      BY <3>1, <3>2
  <2>7. (Len(rest) - 1) * BatchSize + BatchSize = Len(rest) * BatchSize
    BY <1>0, <2>3
  <2>8. r = (Len(plan) - 1) * BatchSize + plan[Len(plan)]
    <3>1. Len(plan) - 1 = Len(rest)
      BY <1>1, <1>2
    <3>2. (Len(rest) - 1) * BatchSize \in Nat /\ Len(rest) * BatchSize \in Nat
      BY <1>0, <2>3
    <3>3. r = ((Len(rest) - 1) * BatchSize + BatchSize) + rest[Len(rest)]
      <4>1. \A a, b \in Nat : r - BatchSize = a + b => r = (a + BatchSize) + b
        BY <1>0
      <4> QED
        BY <2>2, <2>4, <3>2, <4>1
    <3> QED
      BY <2>5, <2>7, <3>1, <3>3
  <2> QED
    BY <1>2, <1>3, <2>6, <2>8 DEF Covers, plan
<1> QED
  BY <1>4, <1>5

\* _batch_plan: the batches of a run add up to its iterations, in full
\* batches but the last.
THEOREM PlanCovers == \A n \in Nat : Covers(BatchPlan(n), n)
<1> SUFFICES ASSUME NEW n \in Nat PROVE Covers(BatchPlan(n), n)
  OBVIOUS
<1>1. PICK plan : Plans(plan, n) /\ BatchPlan(n) = plan[n]
  <2>1. BatchPlan(n) = (CHOOSE plan : Plans(plan, n))[n]
    BY DEF BatchPlan, Plans
  <2> QED
    BY <2>1, PlansExist
<1> DEFINE S == {r \in 0 .. n : ~Covers(plan[r], r)}
<1>2. SUFFICES ASSUME S # {} PROVE FALSE
  BY <1>1
<1>3. PICK r \in S : \A m \in S : r <= m
  <2>1. S \subseteq Nat
    OBVIOUS
  <2> HIDE DEF S
  <2> QED
    BY <1>2, <2>1, LeastNumber
<1>0. r \in 0 .. n /\ r \in Nat /\ ~Covers(plan[r], r)
  OBVIOUS
<1>4. CASE r = 0
  <2>1. plan[r] = << >>
    BY <1>0, <1>1, <1>4 DEF Plans
  <2> QED
    BY <1>0, <1>4, <2>1 DEF Covers
<1>5. CASE r # 0
  <2>1. plan[r] = <<Size(r)>> \o plan[r - Size(r)]
    BY <1>0, <1>1, <1>5, SizeIsMin DEF Plans
  <2>2. r - Size(r) \in 0 .. r - 1
    BY <1>0, <1>5, SizeIsMin
  <2>3. r - Size(r) \in 0 .. n /\ r - Size(r) \notin S
    BY <1>0, <1>3, <2>2
  <2>4. Covers(plan[r - Size(r)], r - Size(r))
    BY <2>3
  <2> QED
    BY <1>0, <1>5, <2>1, <2>4, CoversStep
<1> QED
  BY <1>4, <1>5

\* The batches of the run.
LEMMA BatchesFinite ==
  ASSUME total \in Totals
  PROVE  /\ Batches = 1 .. Len(Plan) /\ Len(Plan) \in Nat
         /\ IsFiniteSet(Batches) /\ Cardinality(Batches) = Len(Plan)
<1>1. total \in Nat
  BY RuntimeAssumption
<1>2. Plan \in Seq(1 .. BatchSize)
  BY <1>1, PlanCovers DEF Plan, Covers
<1>3. Batches = 1 .. Len(Plan) /\ Len(Plan) \in Nat
  BY <1>2 DEF Batches
<1>4. 1 \in Int /\ Len(Plan) \in Int
  BY <1>3
<1>5. IsFiniteSet(1 .. Len(Plan)) /\ Cardinality(1 .. Len(Plan)) = Len(Plan)
  BY SMTT(30), <1>3, <1>4, FS_Interval
<1> QED
  BY <1>3, <1>5

-----------------------------------------------------------------------------
(* The types, and the verdict.                                             *)

LEMMA AppendType ==
  ASSUME NEW T, NEW s \in Seq(T), NEW x \in T
  PROVE  Append(s, x) \in Seq(T) /\ Len(Append(s, x)) = Len(s) + 1 /\ Len(s) \in Nat
OBVIOUS

LEMMA EventType ==
  ASSUME NEW type \in ScriptTypes, NEW n \in Nat
  PROVE  Ev(type, n) \in Event /\ Ev(type, n).type = type /\ Ev(type, n).n = n
BY DEF Ev, Event

\* The futures in each phase of the main process: none is started before the
\* start event; complete is printed when every result has been taken, and an
\* error when every future is over.
FuturesInv ==
  /\ main = "begin" => \A b \in Batches : future[b] = "pending"
  /\ main = "exit 0" => \A b \in Batches : future[b] = "yielded"
  /\ main = "exit 1" => Drained

LEMMA PlanSizes ==
  ASSUME RuntimeTypeOK, NEW b \in Batches
  PROVE  Plan[b] \in Nat \ {0}
<1>1. total \in Nat
  BY RuntimeAssumption DEF RuntimeTypeOK
<1>2. Plan \in Seq(1 .. BatchSize) /\ BatchSize \in Nat
  BY <1>1, PlanCovers, RuntimeAssumption DEF Plan, Covers
<1>3. Plan[b] \in 1 .. BatchSize
  BY <1>2 DEF Batches
<1> QED
  BY <1>2, <1>3

\* The arrays of a batch have a result for each of its iterations.
LEMMA ResultsTyped ==
  ASSUME NEW size \in Nat \ {0}, NEW arrays \in [Branches -> Results(size)]
  PROVE  \A branch \in Branches : /\ arrays[branch] \in Seq(Int \cup {NaN})
                                 /\ Len(arrays[branch]) = size
<1> SUFFICES ASSUME NEW branch \in Branches
             PROVE  /\ arrays[branch] \in Seq(Int \cup {NaN})
                    /\ Len(arrays[branch]) = size
  OBVIOUS
<1>1. PICK a \in Samples : Len(a) \in {1, size} /\ arrays[branch] = Coerced(a, size)
  BY DEF Results
<1>2. a \in Seq(Int \cup {NaN})
  BY RuntimeAssumption
<1>3. CASE Len(a) = size
  BY <1>1, <1>2, <1>3 DEF Coerced
<1>4. CASE Len(a) # size
  <2>1. a[1] \in Int \cup {NaN}
    BY <1>1, <1>2, <1>4
  <2>2. arrays[branch] = [i \in 1 .. size |-> a[1]]
    BY <1>1, <1>4 DEF Coerced
  <2> QED
    BY <2>1, <2>2
<1> QED
  BY <1>3, <1>4

LEMMA RuntimeInit == Init => RuntimeTypeOK /\ FuturesInv
<1> SUFFICES ASSUME Init PROVE RuntimeTypeOK /\ FuturesInv
  OBVIOUS
<1>1. DOMAIN result = Batches
  BY DEF Init
<1>2. order \in Seq(Batches) /\ printed \in Seq(Event)
  BY DEF Init
<1>3. future \in [Batches -> {"pending", "running", "done", "failed", "yielded"}]
  BY DEF Init
<1>4. FuturesInv
  BY DEF Init, FuturesInv
<1> QED
  BY <1>1, <1>2, <1>3, <1>4 DEF Init, RuntimeTypeOK

LEMMA SameBatches ==
  ASSUME [Next]_vars
  PROVE  total' = total /\ Batches' = Batches /\ Plan' = Plan
BY DEF Next, Main, Workers, Begin, CompleteRun, ReportError, Aggregate,
       AggregateFailed, StartBatch, FinishBatch, PoolBreaks, vars, Batches, Plan

LEMMA RuntimeTypeNext ==
  ASSUME RuntimeTypeOK, [Next]_vars
  PROVE  RuntimeTypeOK'
<1>0. total' = total /\ Batches' = Batches /\ Plan' = Plan
  BY SameBatches
<1>a. \A event \in Event : Append(printed, event) \in Seq(Event)
  BY AppendType DEF RuntimeTypeOK
<1>1. CASE Begin
  <2>1. printed' \in Seq(Event)
    BY <1>1, EventType DEF Begin, ScriptTypes
  <2> QED
    BY <1>0, <1>1, <2>1 DEF Begin, RuntimeTypeOK
<1>2. CASE CompleteRun
  <2>1. Append(printed, Ev("complete", 0)) \in Seq(Event)
    BY <1>a, EventType DEF ScriptTypes
  <2> QED
    BY <1>0, <1>2, <2>1 DEF CompleteRun, RuntimeTypeOK
<1>3. CASE ReportError
  <2>1. Append(printed, Ev("error", 0)) \in Seq(Event)
    BY <1>a, EventType DEF ScriptTypes
  <2> QED
    BY <1>0, <1>3, <2>1 DEF ReportError, RuntimeTypeOK
<1>4. ASSUME NEW b \in Batches, Aggregate(b)
      PROVE  RuntimeTypeOK'
  <2>1. Len(order) + 1 \in Nat /\ Append(order, b) \in Seq(Batches)
    <3>1. order \in Seq(Batches)
      BY DEF RuntimeTypeOK
    <3> QED
      BY <1>4, <3>1, AppendType
  <2>2. Append(printed, Ev("batch", CompletedBatches(b))) \in Seq(Event)
    BY <1>a, <2>1, EventType DEF ScriptTypes, CompletedBatches
  <2> QED
    BY <1>0, <1>4, <2>1, <2>2 DEF Aggregate, RuntimeTypeOK
<1>5. ASSUME NEW b \in Batches, AggregateFailed(b)
      PROVE  RuntimeTypeOK'
  BY <1>0, <1>5 DEF AggregateFailed, RuntimeTypeOK
<1>6. ASSUME NEW b \in Batches, StartBatch(b)
      PROVE  RuntimeTypeOK'
  BY <1>0, <1>6 DEF StartBatch, RuntimeTypeOK
<1>7. ASSUME NEW b \in Batches, FinishBatch(b)
      PROVE  RuntimeTypeOK'
  <2>1. CASE future' = [future EXCEPT ![b] = "failed"] /\ UNCHANGED result
    BY <1>0, <1>7, <2>1 DEF FinishBatch, RuntimeTypeOK
  <2>2. ASSUME NEW arrays \in [Branches -> Results(Plan[b])],
               result' = [result EXCEPT ![b] = Simulated(b, arrays)],
               future' = [future EXCEPT ![b] = "done"]
        PROVE  RuntimeTypeOK'
    <3>1. Plan' = Plan /\ Plan[b] \in Nat \ {0}
      BY SameBatches, PlanSizes DEF RuntimeTypeOK
    <3>2. \A branch \in Branches : /\ arrays[branch] \in Seq(Int \cup {NaN})
                                  /\ Len(arrays[branch]) = Plan[b]
      BY <3>1, ResultsTyped
    <3>3. result'[b].arrays = arrays
      BY <2>2 DEF Simulated, RuntimeTypeOK
    <3>4. \A c \in Batches : c # b => result'[c] = result[c] /\ future'[c] = future[c]
      BY <2>2 DEF RuntimeTypeOK
    <3>5. \A c \in Batches : future'[c] = "done" =>
            \A branch \in Branches : /\ result'[c].arrays[branch] \in Seq(Int \cup {NaN})
                                    /\ Len(result'[c].arrays[branch]) = Plan'[c]
      BY <3>1, <3>2, <3>3, <3>4 DEF RuntimeTypeOK
    <3>6. /\ DOMAIN result' = Batches
          /\ future' \in [Batches -> {"pending", "running", "done", "failed", "yielded"}]
      BY <2>2 DEF RuntimeTypeOK
    <3> QED
      BY <1>0, <1>7, <3>5, <3>6 DEF FinishBatch, RuntimeTypeOK
  <2> QED
    BY <1>7, <2>1, <2>2 DEF FinishBatch
<1>8. CASE PoolBreaks
  BY <1>0, <1>8 DEF PoolBreaks, RuntimeTypeOK
<1>9. CASE UNCHANGED vars
  BY <1>0, <1>9 DEF vars, RuntimeTypeOK
<1> QED
  BY <1>1, <1>2, <1>3, <1>4, <1>5, <1>6, <1>7, <1>8, <1>9 DEF Next, Main, Workers

LEMMA FuturesNext ==
  ASSUME RuntimeTypeOK, FuturesInv, [Next]_vars
  PROVE  FuturesInv'
<1>0. Batches' = Batches
  BY SameBatches
<1>1. CASE Begin
  BY <1>0, <1>1 DEF Begin, FuturesInv, Drained
<1>2. CASE CompleteRun
  BY <1>0, <1>2 DEF CompleteRun, FuturesInv, Drained
<1>3. CASE ReportError
  BY <1>0, <1>3 DEF ReportError, FuturesInv, Drained
<1>4. ASSUME NEW b \in Batches, Aggregate(b) \/ AggregateFailed(b)
      PROVE  FuturesInv'
  BY <1>0, <1>4 DEF Aggregate, AggregateFailed, FuturesInv, Drained
<1>5. ASSUME NEW b \in Batches, StartBatch(b) \/ FinishBatch(b)
      PROVE  FuturesInv'
  BY <1>0, <1>5 DEF StartBatch, FinishBatch, FuturesInv, Drained
<1>6. CASE PoolBreaks
  BY <1>0, <1>6 DEF PoolBreaks, FuturesInv, Drained
<1>7. CASE UNCHANGED vars
  BY <1>0, <1>7 DEF vars, FuturesInv, Drained
<1> QED
  BY <1>1, <1>2, <1>3, <1>4, <1>5, <1>6, <1>7 DEF Next, Main, Workers

\* Type correctness of the model of the script.
THEOREM RuntimeTyped == Spec => []RuntimeTypeOK
BY RuntimeInit, RuntimeTypeNext, PTL DEF Spec

LEMMA FuturesHold == Spec => []FuturesInv
BY RuntimeInit, RuntimeTyped, FuturesNext, PTL DEF Spec

\* When the script prints its last event none of its workers is simulating,
\* whatever failed and however the batches were ordered.
THEOREM WorkersEndFirst == Spec => []VerdictAfterWorkers
<1>1. FuturesInv => VerdictAfterWorkers
  BY DEF FuturesInv, VerdictAfterWorkers, Drained
<1> QED
  BY <1>1, FuturesHold, PTL

-----------------------------------------------------------------------------
(* The protocol of the script.                                             *)

\* The batches whose result the main process has taken.
Taken == {b \in Batches : future[b] = "yielded"}

\* While the loop runs the events are the start and one per batch taken.
ProtocolInv ==
  /\ main = "begin" => printed = << >> /\ order = << >>
  /\ main \in {"begin", "loop"} => Cardinality(Taken) = Len(order)
  /\ main = "loop" => Len(printed) = Len(order) + 1
  /\ main \in {"begin", "loop", "raised"} =>
       \A i \in 1 .. Len(printed) : printed[i].type \notin TerminalTypes

\* The rest of the loop only prints events that are not the last.
LEMMA PrintedMore ==
  ASSUME printed \in Seq(Event), NEW event \in Event,
         printed' = Append(printed, event), event.type \notin TerminalTypes,
         \A i \in 1 .. Len(printed) : printed[i].type \notin TerminalTypes
  PROVE  /\ Len(printed') = Len(printed) + 1
         /\ \A i \in 1 .. Len(printed') : printed'[i].type \notin TerminalTypes
<1>1. /\ Len(printed') = Len(printed) + 1 /\ Len(printed) \in Nat
      /\ \A i \in 1 .. Len(printed) : printed'[i] = printed[i]
      /\ printed'[Len(printed) + 1] = event
  OBVIOUS
<1>2. \A i \in 1 .. Len(printed') : i \in 1 .. Len(printed) \/ i = Len(printed) + 1
  BY <1>1
<1> QED
  BY <1>1, <1>2

LEMMA TakenFinite ==
  ASSUME RuntimeTypeOK
  PROVE  /\ IsFiniteSet(Taken) /\ Cardinality(Taken) <= Len(Plan)
         /\ Cardinality(Taken) \in Nat /\ Len(Plan) \in Nat
         /\ Taken = Batches => Cardinality(Taken) = Len(Plan)
         /\ \A b \in Batches \ Taken :
              /\ Cardinality(Taken \cup {b}) = Cardinality(Taken) + 1
              /\ Cardinality(Taken) + 1 <= Len(Plan)
<1>1. /\ IsFiniteSet(Batches) /\ Cardinality(Batches) = Len(Plan) /\ Len(Plan) \in Nat
  BY BatchesFinite DEF RuntimeTypeOK
<1>2. Taken \in SUBSET Batches
  BY DEF Taken
<1>3. IsFiniteSet(Taken) /\ Cardinality(Taken) <= Len(Plan)
  BY <1>1, <1>2, FS_Subset
<1>4. Cardinality(Taken) \in Nat
  BY <1>3, FS_CardinalityType
<1>5. ASSUME NEW b \in Batches \ Taken
      PROVE  /\ Cardinality(Taken \cup {b}) = Cardinality(Taken) + 1
             /\ Cardinality(Taken) + 1 <= Len(Plan)
  <2>1. Cardinality(Taken \cup {b}) = Cardinality(Taken) + 1
    BY <1>3, <1>5, FS_AddElement
  <2>2. Taken \cup {b} \in SUBSET Batches
    BY <1>2
  <2>3. Cardinality(Taken \cup {b}) <= Len(Plan)
    BY <1>1, <2>2, FS_Subset
  <2> QED
    BY <2>1, <2>3
<1> QED
  BY <1>1, <1>3, <1>4, <1>5

LEMMA ProtocolInit == Init => ProtocolInv
<1> SUFFICES ASSUME Init PROVE ProtocolInv
  OBVIOUS
<1>1. Taken = {}
  BY DEF Init, Taken, Batches, Plan
<1>2. Cardinality(Taken) = 0
  BY <1>1, FS_EmptySet
<1> QED
  BY <1>2 DEF Init, ProtocolInv

LEMMA ProtocolNext ==
  ASSUME RuntimeTypeOK, FuturesInv, ProtocolInv, [Next]_vars
  PROVE  ProtocolInv'
<1>0. Batches' = Batches
  BY SameBatches
<1>1. CASE Begin
  <2>1. Taken' = Taken
    BY <1>0, <1>1 DEF Begin, Taken
  <2>2. Len(printed') = 1 /\ printed'[1].type = "start" /\ Len(order) = 0
    BY <1>1, EventType DEF Begin, ProtocolInv, ScriptTypes
  <2> QED
    BY <1>1, <2>1, <2>2 DEF Begin, ProtocolInv, TerminalTypes
<1>2. CASE CompleteRun
  BY <1>2 DEF CompleteRun, ProtocolInv
<1>3. CASE ReportError
  BY <1>3 DEF ReportError, ProtocolInv
<1>4. ASSUME NEW b \in Batches, Aggregate(b)
      PROVE  ProtocolInv'
  <2>1. /\ main = "loop" /\ b \notin Taken /\ order \in Seq(Batches)
        /\ Taken' = Taken \cup {b}
    BY <1>0, <1>4 DEF Aggregate, Taken, RuntimeTypeOK
  <2>2. Len(order') = Len(order) + 1 /\ Len(order) \in Nat
    BY <1>4, <2>1 DEF Aggregate
  <2>3. Cardinality(Taken') = Len(order')
    BY <2>1, <2>2, TakenFinite DEF ProtocolInv
  <2>4. CASE main' = "raised" /\ UNCHANGED printed
    BY <2>1, <2>4 DEF ProtocolInv
  <2>5. CASE UNCHANGED main /\ printed' = Append(printed, Ev("batch", CompletedBatches(b)))
    <3>1. /\ Ev("batch", CompletedBatches(b)) \in Event
          /\ Ev("batch", CompletedBatches(b)).type \notin TerminalTypes
      BY <2>2, EventType DEF CompletedBatches, ScriptTypes, TerminalTypes
    <3>2. /\ Len(printed') = Len(printed) + 1
          /\ \A i \in 1 .. Len(printed') : printed'[i].type \notin TerminalTypes
      BY <2>1, <2>5, <3>1, PrintedMore DEF RuntimeTypeOK, ProtocolInv
    <3> QED
      BY <2>1, <2>2, <2>3, <2>5, <3>2 DEF ProtocolInv
  <2> QED
    BY <1>4, <2>4, <2>5 DEF Aggregate
<1>5. ASSUME NEW b \in Batches, AggregateFailed(b)
      PROVE  ProtocolInv'
  BY <1>5 DEF AggregateFailed, ProtocolInv
<1>6. CASE PoolBreaks \/ \E b \in Batches : StartBatch(b) \/ FinishBatch(b)
  <2>1. Taken' = Taken
    BY <1>0, <1>6 DEF PoolBreaks, StartBatch, FinishBatch, Taken, RuntimeTypeOK
  <2> QED
    BY <1>6, <2>1 DEF PoolBreaks, StartBatch, FinishBatch, ProtocolInv
<1>7. CASE UNCHANGED vars
  BY <1>0, <1>7 DEF vars, ProtocolInv, Taken
<1> QED
  BY <1>1, <1>2, <1>3, <1>4, <1>5, <1>6, <1>7 DEF Next, Main, Workers

\* What the main process prints is the next event of the protocol.
LEMMA PrintsNext ==
  ASSUME RuntimeTypeOK, FuturesInv, ProtocolInv, [Next]_vars, printed' # printed
  PROVE  /\ \A i \in DOMAIN printed : printed[i].type \notin TerminalTypes
         /\ \E event \in ScriptEvents(Len(printed), Len(Plan)) :
              printed' = Append(printed, event)
<1>0. /\ Begin \/ CompleteRun \/ ReportError \/ \E b \in Batches : Aggregate(b)
      /\ Len(order) \in Nat /\ Len(printed) \in Nat
      /\ DOMAIN printed = 1 .. Len(printed)
  <2>1. Begin \/ CompleteRun \/ ReportError \/ \E b \in Batches : Aggregate(b)
    BY DEF Next, Main, Workers, AggregateFailed, StartBatch, FinishBatch, PoolBreaks,
           vars
  <2>2. printed \in Seq(Event) /\ order \in Seq(Batches)
    BY DEF RuntimeTypeOK
  <2> QED
    BY <2>1, <2>2
<1>1. main \in {"begin", "loop", "raised"}
  BY <1>0 DEF Begin, CompleteRun, ReportError, Aggregate
<1>2. \A i \in DOMAIN printed : printed[i].type \notin TerminalTypes
  BY <1>0, <1>1 DEF ProtocolInv
<1>3. \E event \in ScriptEvents(Len(printed), Len(Plan)) : printed' = Append(printed, event)
  <2>1. CASE Begin
    <3>1. printed = << >> /\ Len(printed) = 0 /\ printed' = Append(printed, Ev("start", 0))
      BY <2>1 DEF Begin, ProtocolInv
    <3> QED
      BY <3>1 DEF ScriptEvents
  <2>2. CASE CompleteRun
    <3>1. main = "loop" /\ Taken = Batches
      BY <2>2 DEF CompleteRun, Taken
    <3>2. Len(printed) = Len(Plan) + 1 /\ Len(Plan) \in Nat
      BY <3>1, TakenFinite DEF ProtocolInv
    <3>3. printed' = Append(printed, Ev("complete", 0))
      BY <2>2 DEF CompleteRun
    <3>4. Ev("complete", 0) \in ScriptEvents(Len(printed), Len(Plan))
      BY <3>2 DEF ScriptEvents
    <3> QED
      BY <3>3, <3>4
  <2>3. CASE ReportError
    <3>1. printed' = Append(printed, Ev("error", 0))
      BY <2>3 DEF ReportError
    <3> QED
      BY <3>1 DEF ScriptEvents
  <2>4. ASSUME NEW b \in Batches, Aggregate(b)
        PROVE  \E event \in ScriptEvents(Len(printed), Len(Plan)) :
                 printed' = Append(printed, event)
    <3>1. /\ main = "loop" /\ b \in Batches \ Taken
          /\ printed' = Append(printed, Ev("batch", Len(order) + 1))
      BY <2>4 DEF Aggregate, CompletedBatches, Taken
    <3>2. /\ Len(printed) = Len(order) + 1 /\ Len(printed) <= Len(Plan)
          /\ Len(printed) # 0 /\ Len(Plan) \in Nat
      <4>1. Len(printed) = Len(order) + 1 /\ Cardinality(Taken) = Len(order)
        BY <3>1 DEF ProtocolInv
      <4>2. Cardinality(Taken) + 1 <= Len(Plan) /\ Len(Plan) \in Nat
        BY <3>1, TakenFinite
      <4> QED
        BY <1>0, <4>1, <4>2
    <3>3. Ev("batch", Len(order) + 1) \in ScriptEvents(Len(printed), Len(Plan))
      BY <3>2 DEF ScriptEvents
    <3> QED
      BY <3>1, <3>3
  <2> QED
    BY <1>0, <2>1, <2>2, <2>3, <2>4
<1> QED
  BY <1>2, <1>3

\* The script keeps to the protocol that JobProcess assumes of it, for every
\* number of iterations and size of batch.
THEOREM ScriptKeepsProtocol == Spec => ScriptProtocol
<1>1. RuntimeTypeOK /\ FuturesInv /\ ProtocolInv /\ [Next]_vars => ProtocolInv'
  BY ProtocolNext
<1>2. RuntimeTypeOK /\ FuturesInv /\ ProtocolInv /\ [Next]_vars =>
        [printed' # printed =>
           /\ \A i \in DOMAIN printed : printed[i].type \notin TerminalTypes
           /\ \E event \in ScriptEvents(Len(printed), Len(Plan)) :
                printed' = Append(printed, event)]_vars
  BY PrintsNext
<1> QED
  BY <1>1, <1>2, ProtocolInit, RuntimeTyped, FuturesHold, PTL DEF Spec, ScriptProtocol
=============================================================================
