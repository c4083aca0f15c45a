---------------------------- MODULE TotalsProofs ----------------------------
(***************************************************************************)
(* The totals that the script publishes are exact, for every number of     *)
(* iterations, size of batch, pool of workers and results: theorems about  *)
(* the aggregation in GeneratedRuntime.                                    *)
(***************************************************************************)
EXTENDS GeneratedRuntimeProofs

-----------------------------------------------------------------------------
(* A family of finite sets that is not empty has a minimal member: the     *)
(* form of induction over sets used here.                                  *)

LEMMA MinimalSet ==
  ASSUME NEW D, IsFiniteSet(D), NEW F, F \subseteq SUBSET D, F # {}
  PROVE  \E S \in F : \A x \in S : S \ {x} \notin F
<1>1. F \subseteq FiniteSubsetsOf(D)
  BY FS_Subset DEF FiniteSubsetsOf
<1>2. IsWellFoundedOn(StrictSubsetOrdering(D), FiniteSubsetsOf(D))
  BY FS_StrictSubsetOrderingWellFounded
<1>3. PICK S \in F : \A U \in F : <<U, S>> \notin StrictSubsetOrdering(D)
  BY <1>1, <1>2, WFMin
<1>4. ASSUME NEW x \in S, S \ {x} \in F PROVE FALSE
  <2>1. <<S \ {x}, S>> \in StrictSubsetOrdering(D)
    BY <1>4 DEF StrictSubsetOrdering
  <2> QED
    BY <1>3, <1>4, <2>1
<1> QED
  BY <1>4

LEMMA PartsFinite ==
  ASSUME NEW S, IsFiniteSet(S), NEW T \in SUBSET S
  PROVE  /\ IsFiniteSet(T) /\ Cardinality(T) \in Nat /\ Cardinality(T) <= Cardinality(S)
         /\ T = {} <=> Cardinality(T) = 0
         /\ \A x \in T : Cardinality(T \ {x}) = Cardinality(T) - 1
<1>1. IsFiniteSet(T) /\ Cardinality(T) <= Cardinality(S)
  BY FS_Subset
<1> QED
  BY <1>1, FS_CardinalityType, FS_EmptySet, FS_RemoveElement

\* A fold over the subsets of a finite set, whichever element it takes first.
Folding(S, A, base, step, pick) ==
  /\ IsFiniteSet(S)
  /\ base \in A /\ step \in [S \X A -> A]
  /\ \A T \in SUBSET S : T # {} => pick[T] \in T

Folded(iter, S, A, base, step, pick) ==
  /\ iter \in [SUBSET S -> A]
  /\ iter[{}] = base
  /\ \A T \in SUBSET S : T # {} => iter[T] = step[<<pick[T], iter[T \ {pick[T]}]>>]

LEMMA FoldsExist ==
  ASSUME NEW S, NEW A, NEW base, NEW step, NEW pick, Folding(S, A, base, step, pick)
  PROVE  \E iter : Folded(iter, S, A, base, step, pick)
<1> DEFINE Small(n) == {T \in SUBSET S : Cardinality(T) <= n}
           Value(f, T) == IF T = {} THEN base ELSE step[<<pick[T], f[T \ {pick[T]}]>>]
           Folds(f, n) == f \in [Small(n) -> A] /\ \A T \in Small(n) : f[T] = Value(f, T)
           Missing == {n \in Nat : ~\E f : Folds(f, n)}
<1>0. \A T \in SUBSET S : /\ Cardinality(T) \in Nat /\ Cardinality(T) <= Cardinality(S)
                          /\ T = {} <=> Cardinality(T) = 0
                          /\ \A x \in T : Cardinality(T \ {x}) = Cardinality(T) - 1
  BY PartsFinite DEF Folding
<1>b. /\ base \in A /\ step \in [S \X A -> A]
      /\ \A T \in SUBSET S : T # {} => pick[T] \in T
  BY DEF Folding
<1>1. Missing = {}
  <2> SUFFICES ASSUME Missing # {} PROVE FALSE
    OBVIOUS
  <2>1. PICK n \in Missing : \A m \in Missing : n <= m
    <3>1. Missing \subseteq Nat
      OBVIOUS
    <3> HIDE DEF Missing
    <3> QED
      BY <3>1, LeastNumber
  <2>2. n \in Nat /\ ~\E f : Folds(f, n)
    OBVIOUS
  <2>3. CASE n = 0
    <3> DEFINE f == [T \in Small(0) |-> base]
    <3>1. \A T \in Small(0) : T = {}
      BY <1>0
    <3>2. Folds(f, 0)
      BY <1>b, <3>1
    <3> QED
      BY <2>2, <2>3, <3>2
  <2>4. CASE n # 0
    <3>0. n - 1 \in Nat
      BY <2>2, <2>4
    <3>1. n - 1 \notin Missing
      <4> HIDE DEF Missing
      <4>1. ~(n <= n - 1)
        BY <2>2
      <4> QED
        BY <2>1, <4>1
    <3>2. PICK f : Folds(f, n - 1)
      BY <3>0, <3>1
    <3> DEFINE g == [T \in Small(n) |-> Value(f, T)]
    <3>3. \A T \in Small(n) : T # {} =>
            /\ pick[T] \in T /\ T \ {pick[T]} \in Small(n - 1)
            /\ T \ {pick[T]} \in Small(n)
      <4> SUFFICES ASSUME NEW T \in Small(n), T # {}
                   PROVE  /\ pick[T] \in T /\ T \ {pick[T]} \in Small(n - 1)
                          /\ T \ {pick[T]} \in Small(n)
        OBVIOUS
      <4>1. pick[T] \in T /\ T \ {pick[T]} \in SUBSET S
        BY <1>b
      <4>2. Cardinality(T \ {pick[T]}) = Cardinality(T) - 1 /\ Cardinality(T) \in Nat
        BY <1>0, <4>1
      <4>3. Cardinality(T) <= n
        OBVIOUS
      <4>4. Cardinality(T) - 1 <= n - 1 /\ Cardinality(T) - 1 <= n
        BY <2>2, <4>2, <4>3
      <4> QED
        BY <4>1, <4>2, <4>4
    <3>4. \A T \in Small(n) : Value(f, T) \in A
      <4> SUFFICES ASSUME NEW T \in Small(n), T # {}
                   PROVE  step[<<pick[T], f[T \ {pick[T]}]>>] \in A
        BY <1>b
      <4>1. f[T \ {pick[T]}] \in A /\ pick[T] \in S
        BY <3>2, <3>3
      <4> QED
        BY <1>b, <4>1
    <3>5. \A T \in Small(n - 1) : T \in Small(n) /\ g[T] = f[T]
      <4> SUFFICES ASSUME NEW T \in Small(n - 1) PROVE T \in Small(n) /\ g[T] = f[T]
        OBVIOUS
      <4>1. Cardinality(T) \in Nat /\ Cardinality(T) <= n - 1
        BY <1>0
      <4>2. T \in Small(n)
        BY <2>2, <4>1
      <4>3. f[T] = Value(f, T)
        BY <3>2
      <4> QED
        BY <4>2, <4>3
    <3>6. \A T \in Small(n) : g[T] = Value(g, T)
      BY <3>3, <3>5
    <3>7. g \in [Small(n) -> A]
      BY <3>4
    <3> HIDE DEF g, Small, Value
    <3>8. Folds(g, n)
      BY <3>6, <3>7
    <3> QED
      BY <2>2, <3>8
  <2> QED
    BY <2>3, <2>4
<1>2. Cardinality(S) \in Nat
  BY FS_CardinalityType DEF Folding
<1>3. PICK f : Folds(f, Cardinality(S))
  BY <1>1, <1>2
<1>4. Small(Cardinality(S)) = SUBSET S
  BY <1>0
<1>5. {} \in SUBSET S
  OBVIOUS
<1> HIDE DEF Small
<1> QED
  BY <1>3, <1>4, <1>5 DEF Folded

-----------------------------------------------------------------------------
(* Sums of integers over a finite set.                                     *)

\* The terms are the values of g on S.
Terms(g, S) == IsFiniteSet(S) /\ \A x \in S : g[x] \in Int

Chosen(T) == CHOOSE x \in T : TRUE

Sums(iter, g, S) ==
  iter = [T \in SUBSET S |-> IF T = {} THEN 0 ELSE g[Chosen(T)] + iter[T \ {Chosen(T)}]]

LEMMA SumIs ==
  ASSUME NEW S, NEW g, Terms(g, S)
  PROVE  \E iter : Sums(iter, g, S) /\ SumFunctionOnSet(g, S) = iter[S]
<1> DEFINE pick == [T \in SUBSET S |-> Chosen(T)]
           step == [p \in S \X Int |-> g[p[1]] + p[2]]
<1>1. step \in [S \X Int -> Int]
  BY DEF Terms
<1>2. \A T \in SUBSET S : pick[T] = Chosen(T) /\ (T # {} => pick[T] \in T)
  BY DEF Chosen
<1>3. \A x \in S, n \in Int : step[<<x, n>>] = g[x] + n
  OBVIOUS
<1> HIDE DEF pick, step
<1>4. PICK iter : Folded(iter, S, Int, 0, step, pick)
  <2>1. Folding(S, Int, 0, step, pick)
    BY <1>1, <1>2 DEF Folding, Terms
  <2> QED
    BY <2>1, FoldsExist
<1>5. \A T \in SUBSET S :
        iter[T] = IF T = {} THEN 0 ELSE g[Chosen(T)] + iter[T \ {Chosen(T)}]
  <2> SUFFICES ASSUME NEW T \in SUBSET S, T # {}
               PROVE  step[<<pick[T], iter[T \ {pick[T]}]>>]
                        = g[Chosen(T)] + iter[T \ {Chosen(T)}]
    BY <1>4 DEF Folded
  <2>1. pick[T] \in S /\ T \ {pick[T]} \in SUBSET S /\ pick[T] = Chosen(T)
    BY <1>2
  <2>2. iter[T \ {pick[T]}] \in Int
    BY <1>4, <2>1 DEF Folded
  <2>3. step[<<pick[T], iter[T \ {pick[T]}]>>] = g[pick[T]] + iter[T \ {pick[T]}]
    BY <1>3, <2>1, <2>2
  <2> QED
    BY <2>1, <2>3
<1>6. Sums(iter, g, S)
  <2>1. iter = [T \in SUBSET S |-> iter[T]]
    BY <1>4 DEF Folded
  <2> QED
    BY <1>5, <2>1 DEF Sums
<1>7. SumFunctionOnSet(g, S) = (CHOOSE i : Sums(i, g, S))[S]
  BY DEF SumFunctionOnSet, FoldFunctionOnSet, MapThenFoldSet, Sums, Chosen
<1> QED
  BY <1>6, <1>7

\* The sum over a set and the sums over its subsets are the same recursion.
LEMMA SumChoice ==
  ASSUME NEW S, NEW g, Terms(g, S)
  PROVE  \A T \in SUBSET S :
           /\ T = {} => SumFunctionOnSet(g, T) = 0
           /\ T # {} => /\ Chosen(T) \in T
                        /\ SumFunctionOnSet(g, T)
                             = g[Chosen(T)] + SumFunctionOnSet(g, T \ {Chosen(T)})
<1>1. PICK iter : Sums(iter, g, S)
  BY SumIs
<1>2. ASSUME NEW T \in SUBSET S PROVE SumFunctionOnSet(g, T) = iter[T]
  <2>1. IsFiniteSet(T) /\ Terms(g, T)
    BY PartsFinite DEF Terms
  <2>2. PICK part : Sums(part, g, T) /\ SumFunctionOnSet(g, T) = part[T]
    BY <2>1, SumIs
  <2> DEFINE Bad == {U \in SUBSET T : part[U] # iter[U]}
  <2>3. SUFFICES ASSUME Bad # {} PROVE FALSE
    BY <2>2
  <2>4. PICK U \in Bad : \A x \in U : U \ {x} \notin Bad
    <3>1. Bad \subseteq SUBSET T
      OBVIOUS
    <3> HIDE DEF Bad
    <3> QED
      BY <2>1, <2>3, <3>1, MinimalSet
  <2>5. CASE U = {}
    <3>1. part[U] = 0 /\ iter[U] = 0
      BY <1>1, <2>2, <2>5 DEF Sums
    <3> QED
      BY <3>1
  <2>6. CASE U # {}
    <3>1. Chosen(U) \in U
      BY <2>6 DEF Chosen
    <3>2. U \in SUBSET S /\ U \in SUBSET T
      OBVIOUS
    <3>3. /\ part[U] = g[Chosen(U)] + part[U \ {Chosen(U)}]
          /\ iter[U] = g[Chosen(U)] + iter[U \ {Chosen(U)}]
      BY <1>1, <2>2, <2>6, <3>2 DEF Sums
    <3>4. part[U \ {Chosen(U)}] = iter[U \ {Chosen(U)}]
      BY <2>4, <3>1
    <3> QED
      BY <3>3, <3>4
  <2> QED
    BY <2>5, <2>6
<1> SUFFICES ASSUME NEW T \in SUBSET S
             PROVE  /\ T = {} => SumFunctionOnSet(g, T) = 0
                    /\ T # {} => /\ Chosen(T) \in T
                                 /\ SumFunctionOnSet(g, T)
                                      = g[Chosen(T)] + SumFunctionOnSet(g, T \ {Chosen(T)})
  OBVIOUS
<1>3. T \ {Chosen(T)} \in SUBSET S
  OBVIOUS
<1>4. T # {} => Chosen(T) \in T
  BY DEF Chosen
<1>5. iter[T] = IF T = {} THEN 0 ELSE g[Chosen(T)] + iter[T \ {Chosen(T)}]
  BY <1>1 DEF Sums
<1> QED
  BY <1>2, <1>3, <1>4, <1>5

\* A sum is an integer, and any of its terms may be taken first.
LEMMA SumStep ==
  ASSUME NEW S, NEW g, Terms(g, S)
  PROVE  /\ SumFunctionOnSet(g, S) \in Int
         /\ S = {} => SumFunctionOnSet(g, S) = 0
         /\ \A x \in S : SumFunctionOnSet(g, S) = g[x] + SumFunctionOnSet(g, S \ {x})
<1> DEFINE Total(T) == SumFunctionOnSet(g, T)
           First(T) == Chosen(T)
<1>1. \A T \in SUBSET S : /\ T = {} => Total(T) = 0
                          /\ T # {} => First(T) \in T /\ Total(T) = g[First(T)] + Total(T \ {First(T)})
  BY SumChoice
<1>t. IsFiniteSet(S) /\ \A x \in S : g[x] \in Int
  BY DEF Terms
<1> HIDE DEF Total, First
<1>2. \A T \in SUBSET S : Total(T) \in Int
  <2> DEFINE Bad == {T \in SUBSET S : Total(T) \notin Int}
  <2>1. SUFFICES ASSUME Bad # {} PROVE FALSE
    OBVIOUS
  <2>2. PICK T \in Bad : \A x \in T : T \ {x} \notin Bad
    <3>1. Bad \subseteq SUBSET S
      OBVIOUS
    <3> HIDE DEF Bad
    <3> QED
      BY <2>1, <3>1, MinimalSet DEF Terms
  <2>3. T \in SUBSET S /\ T # {} /\ Total(T) \notin Int
    BY <1>1
  <2>4. First(T) \in T /\ Total(T) = g[First(T)] + Total(T \ {First(T)})
    BY <1>1, <2>3
  <2>5. T \ {First(T)} \in SUBSET S /\ T \ {First(T)} \notin Bad
    BY <2>2, <2>4
  <2>6. Total(T \ {First(T)}) \in Int /\ First(T) \in S
    BY <2>3, <2>4, <2>5
  <2>7. g[First(T)] \in Int
    BY <1>t, <2>6
  <2> HIDE DEF Bad
  <2> QED
    BY <2>3, <2>4, <2>6, <2>7
<1>3. \A T \in SUBSET S : \A x \in T : Total(T) = g[x] + Total(T \ {x})
  <2> DEFINE Bad == {T \in SUBSET S : \E x \in T : Total(T) # g[x] + Total(T \ {x})}
  <2>1. SUFFICES ASSUME Bad # {} PROVE FALSE
    OBVIOUS
  <2>2. PICK T \in Bad : \A x \in T : T \ {x} \notin Bad
    <3>1. Bad \subseteq SUBSET S
      OBVIOUS
    <3> HIDE DEF Bad
    <3> QED
      BY <2>1, <3>1, MinimalSet DEF Terms
  <2>3. PICK x \in T : Total(T) # g[x] + Total(T \ {x})
    OBVIOUS
  <2>4. T \in SUBSET S /\ T # {}
    OBVIOUS
  <2> DEFINE c == First(T)
  <2>5. c \in T /\ Total(T) = g[c] + Total(T \ {c})
    BY <1>1, <2>4
  <2> HIDE DEF c
  <2>6. x # c
    BY <2>3, <2>5
  <2>7. /\ T \ {c} \in SUBSET S /\ x \in T \ {c} /\ T \ {c} \notin Bad
        /\ T \ {x} \in SUBSET S /\ c \in T \ {x} /\ T \ {x} \notin Bad
    BY <2>2, <2>4, <2>5, <2>6
  <2>8. /\ Total(T \ {c}) = g[x] + Total((T \ {c}) \ {x})
        /\ Total(T \ {x}) = g[c] + Total((T \ {x}) \ {c})
    BY <2>7
  <2>9. (T \ {c}) \ {x} = (T \ {x}) \ {c} /\ (T \ {c}) \ {x} \in SUBSET S
    BY <2>4
  <2> DEFINE rest == Total((T \ {c}) \ {x})
  <2>10. rest \in Int /\ g[c] \in Int /\ g[x] \in Int
    BY <1>2, <2>4, <2>5, <2>9 DEF Terms
  <2>11. Total(T) = g[c] + (g[x] + rest) /\ Total(T \ {x}) = g[c] + rest
    BY <2>5, <2>8, <2>9
  <2>12. Total(T) # g[x] + (g[c] + rest)
    BY <2>3, <2>11
  <2> HIDE DEF rest
  <2>13. g[c] + (g[x] + rest) = g[x] + (g[c] + rest)
    BY <2>10
  <2> QED
    BY <2>11, <2>12, <2>13
<1>4. S \in SUBSET S
  OBVIOUS
<1> QED
  BY <1>1, <1>2, <1>3, <1>4 DEF Total

LEMMA SumSame ==
  ASSUME NEW S, NEW g, NEW h, Terms(g, S), Terms(h, S), \A x \in S : g[x] = h[x]
  PROVE  SumFunctionOnSet(g, S) = SumFunctionOnSet(h, S)
<1> DEFINE G(T) == SumFunctionOnSet(g, T)
           H(T) == SumFunctionOnSet(h, T)
           Bad == {T \in SUBSET S : G(T) # H(T)}
<1>1. SUFFICES ASSUME Bad # {} PROVE FALSE
  <2>1. S \in SUBSET S
    OBVIOUS
  <2> QED
    BY <2>1
<1>2. PICK T \in Bad : \A x \in T : T \ {x} \notin Bad
  <2>1. Bad \subseteq SUBSET S
    OBVIOUS
  <2> HIDE DEF Bad
  <2> QED
    BY <1>1, <2>1, MinimalSet DEF Terms
<1>3. Terms(g, T) /\ Terms(h, T)
  BY PartsFinite DEF Terms
<1>4. /\ T = {} => G(T) = 0 /\ H(T) = 0
      /\ \A x \in T : G(T) = g[x] + G(T \ {x}) /\ H(T) = h[x] + H(T \ {x})
  BY <1>3, SumStep
<1> HIDE DEF G, H
<1>5. PICK x \in T : TRUE
  BY <1>4
<1>6. G(T \ {x}) = H(T \ {x}) /\ g[x] = h[x]
  BY <1>2
<1> QED
  BY <1>4, <1>6

LEMMA SumUnion ==
  ASSUME NEW A, NEW B, NEW g, Terms(g, A \cup B), \A x \in A : x \notin B
  PROVE  SumFunctionOnSet(g, A \cup B) = SumFunctionOnSet(g, A) + SumFunctionOnSet(g, B)
<1> DEFINE G(T) == SumFunctionOnSet(g, T)
           Bad == {T \in SUBSET A : G(T \cup B) # G(T) + G(B)}
<1>1. SUFFICES ASSUME Bad # {} PROVE FALSE
  <2>1. A \in SUBSET A
    OBVIOUS
  <2> QED
    BY <2>1
<1>0. Terms(g, A) /\ Terms(g, B)
  <2>1. A \in SUBSET (A \cup B) /\ B \in SUBSET (A \cup B) /\ IsFiniteSet(A \cup B)
    BY DEF Terms
  <2> QED
    BY <2>1, PartsFinite DEF Terms
<1>2. PICK T \in Bad : \A x \in T : T \ {x} \notin Bad
  <2>1. Bad \subseteq SUBSET A
    OBVIOUS
  <2> HIDE DEF Bad
  <2> QED
    BY <1>0, <1>1, <2>1, MinimalSet DEF Terms
<1>3. Terms(g, T) /\ Terms(g, T \cup B)
  <2>1. T \in SUBSET (A \cup B) /\ T \cup B \in SUBSET (A \cup B) /\ IsFiniteSet(A \cup B)
    BY DEF Terms
  <2> QED
    BY <2>1, PartsFinite DEF Terms
<1>4. /\ T = {} => G(T) = 0
      /\ \A x \in T : G(T) = g[x] + G(T \ {x})
      /\ \A x \in T \cup B : G(T \cup B) = g[x] + G((T \cup B) \ {x})
  BY <1>3, SumStep
<1>5. G(B) \in Int /\ \A x \in T : G(T \ {x}) \in Int /\ g[x] \in Int
  <2>1. \A x \in T : Terms(g, T \ {x})
    <3>1. \A x \in T : T \ {x} \in SUBSET T /\ IsFiniteSet(T)
      BY <1>3 DEF Terms
    <3> QED
      BY <1>3, <3>1, PartsFinite DEF Terms
  <2> QED
    BY <1>0, <1>3, <2>1, SumStep DEF Terms
<1>6. T \in SUBSET A /\ G(T \cup B) # G(T) + G(B)
  OBVIOUS
<1>7. T # {}
  <2> SUFFICES ASSUME T = {} PROVE FALSE
    OBVIOUS
  <2>1. T \cup B = B /\ G(T) = 0
    BY <1>4
  <2>2. G(T \cup B) = G(B)
    BY <2>1
  <2> HIDE DEF G, Bad
  <2> QED
    BY <1>5, <1>6, <2>1, <2>2
<1>8. PICK x \in T : TRUE
  BY <1>7
<1>9. T \ {x} \in SUBSET A /\ T \ {x} \notin Bad /\ (T \cup B) \ {x} = (T \ {x}) \cup B
  BY <1>2, <1>6, <1>8
<1>10. G((T \ {x}) \cup B) = G(T \ {x}) + G(B)
  BY <1>9
<1>11. G((T \cup B) \ {x}) = G((T \ {x}) \cup B)
  BY <1>9
<1> HIDE DEF G, Bad
<1>12. G(T) = g[x] + G(T \ {x}) /\ G(T \cup B) = g[x] + G((T \cup B) \ {x})
  BY <1>4, <1>8
<1> QED
  BY <1>5, <1>6, <1>8, <1>10, <1>11, <1>12

\* The values of batch b, each at the place of the batch and the iteration.
Row(b, v) == [p \in {b} \X DOMAIN v |-> v[p[2]]]

\* The terms of h are those of g, in the row of b.
InRow(b, I, g, h) ==
  Terms(g, I) /\ Terms(h, {b} \X I) /\ \A i \in I : h[<<b, i>>] = g[i]

LEMMA SumRow ==
  ASSUME NEW b, NEW I, NEW g, NEW h, InRow(b, I, g, h)
  PROVE  SumFunctionOnSet(h, {b} \X I) = SumFunctionOnSet(g, I)
<1>a. Terms(g, I) /\ Terms(h, {b} \X I) /\ \A i \in I : h[<<b, i>>] = g[i]
  BY DEF InRow
<1> DEFINE G(T) == SumFunctionOnSet(g, T)
           H(T) == SumFunctionOnSet(h, {b} \X T)
           Bad == {T \in SUBSET I : G(T) # H(T)}
<1>1. SUFFICES ASSUME Bad # {} PROVE FALSE
  <2>1. I \in SUBSET I
    OBVIOUS
  <2> QED
    BY <2>1
<1>2. PICK T \in Bad : \A x \in T : T \ {x} \notin Bad
  <2>1. Bad \subseteq SUBSET I
    OBVIOUS
  <2> HIDE DEF Bad
  <2> QED
    BY <1>1, <1>a, <2>1, MinimalSet DEF Terms
<1>6. T \in SUBSET I /\ G(T) # H(T)
  OBVIOUS
<1>3. Terms(g, T) /\ Terms(h, {b} \X T)
  <2>1. {b} \X T \in SUBSET ({b} \X I)
    BY <1>6
  <2> QED
    BY <1>6, <1>a, <2>1, PartsFinite DEF Terms
<1>4. /\ T = {} => G(T) = 0
      /\ \A x \in T : G(T) = g[x] + G(T \ {x})
  BY <1>3, SumStep
<1>5. /\ {b} \X T = {} => H(T) = 0
      /\ \A p \in {b} \X T : H(T) = h[p] + SumFunctionOnSet(h, ({b} \X T) \ {p})
  BY <1>3, SumStep
<1>7. PICK x \in T : TRUE
  <2>1. T = {} => {b} \X T = {}
    OBVIOUS
  <2> QED
    BY <1>4, <1>5, <1>6, <2>1
<1>8. ({b} \X T) \ {<<b, x>>} = {b} \X (T \ {x}) /\ <<b, x>> \in {b} \X T
  OBVIOUS
<1>9. H(T) = g[x] + H(T \ {x})
  BY <1>5, <1>6, <1>8, <1>a
<1>10. T \ {x} \in SUBSET I /\ T \ {x} \notin Bad
  BY <1>2, <1>6
<1>11. G(T \ {x}) = H(T \ {x})
  BY <1>10
<1> HIDE DEF G, H, Bad
<1> QED
  BY <1>4, <1>6, <1>7, <1>9, <1>11

\* The squares of the values of g.
Squares(g, S) == [x \in S |-> g[x] * g[x]]

\* The distances to m of u times the values of g, squared, from their sum and
\* from the sum of their squares.
LEMMA SumDistances ==
  ASSUME NEW S, NEW g, NEW u \in Int, NEW m \in Int, Terms(g, S)
  PROVE  SumFunctionOnSet([x \in S |-> (u * g[x] - m) * (u * g[x] - m)], S)
           = (u * u) * SumFunctionOnSet(Squares(g, S), S)
             - (2 * u * m) * SumFunctionOnSet(g, S) + (m * m) * Cardinality(S)
<1> DEFINE d == [x \in S |-> (u * g[x] - m) * (u * g[x] - m)]
           q == Squares(g, S)
           D(T) == SumFunctionOnSet(d, T)
           Q(T) == SumFunctionOnSet(q, T)
           G(T) == SumFunctionOnSet(g, T)
           Want(T) == (u * u) * Q(T) - (2 * u * m) * G(T) + (m * m) * Cardinality(T)
           Bad == {T \in SUBSET S : D(T) # Want(T)}
<1>1. SUFFICES ASSUME Bad # {} PROVE FALSE
  <2>1. S \in SUBSET S
    OBVIOUS
  <2> QED
    BY <2>1
<1>0. \A x \in S : /\ g[x] \in Int
                   /\ d[x] = (u * g[x] - m) * (u * g[x] - m) /\ d[x] \in Int
                   /\ q[x] = g[x] * g[x] /\ q[x] \in Int
  BY DEF Terms, Squares
<1>f. IsFiniteSet(S)
  BY DEF Terms
<1> HIDE DEF d, q
<1>2. PICK T \in Bad : \A x \in T : T \ {x} \notin Bad
  <2>1. Bad \subseteq SUBSET S
    OBVIOUS
  <2> HIDE DEF Bad
  <2> QED
    BY <1>1, <1>f, <2>1, MinimalSet
<1>3. T \in SUBSET S /\ D(T) # Want(T)
  OBVIOUS
<1>4. \A U \in SUBSET S : Terms(g, U) /\ Terms(d, U) /\ Terms(q, U)
  BY <1>0, <1>f, PartsFinite DEF Terms
<1>5. \A U \in SUBSET S :
        /\ G(U) \in Int
        /\ U = {} => G(U) = 0
        /\ \A x \in U : G(U) = g[x] + G(U \ {x})
  BY <1>4, SumStep
<1>6. \A U \in SUBSET S :
        /\ D(U) \in Int
        /\ U = {} => D(U) = 0
        /\ \A x \in U : D(U) = d[x] + D(U \ {x})
  BY <1>4, SumStep
<1>7. \A U \in SUBSET S :
        /\ Q(U) \in Int
        /\ U = {} => Q(U) = 0
        /\ \A x \in U : Q(U) = q[x] + Q(U \ {x})
  BY <1>4, SumStep
<1> HIDE DEF D, Q, G
<1>8. Cardinality(T) \in Nat /\ (T = {} => Cardinality(T) = 0)
  BY <1>3, <1>f, PartsFinite
<1>9. T # {}
  <2> SUFFICES ASSUME T = {} PROVE FALSE
    OBVIOUS
  <2>a. T \in SUBSET S
    BY <1>3
  <2>b. G(T) = 0
    BY <1>5, <2>a
  <2>c. D(T) = 0
    BY <1>6, <2>a
  <2>d. Q(T) = 0
    BY <1>7, <2>a
  <2>1. G(T) = 0 /\ D(T) = 0 /\ Q(T) = 0 /\ Cardinality(T) = 0
    BY <1>8, <2>b, <2>c, <2>d
  <2>2. Want(T) = 0
    BY <2>1
  <2> HIDE DEF Want
  <2> QED
    BY <1>3, <2>1, <2>2
<1>10. PICK x \in T : TRUE
  BY <1>9
<1>11. T \ {x} \in SUBSET S /\ T \ {x} \notin Bad
  BY <1>2, <1>3
<1>12. D(T \ {x}) = Want(T \ {x})
  BY <1>11
<1>13. Cardinality(T \ {x}) = Cardinality(T) - 1 /\ Cardinality(T) \in Nat
  BY <1>3, <1>f, PartsFinite
<1>14. /\ G(T \ {x}) \in Int /\ D(T \ {x}) \in Int /\ Q(T \ {x}) \in Int
       /\ G(T) = g[x] + G(T \ {x}) /\ D(T) = d[x] + D(T \ {x}) /\ Q(T) = q[x] + Q(T \ {x})
  <2>1. T \in SUBSET S /\ T \ {x} \in SUBSET S /\ x \in T
    BY <1>3, <1>10
  <2> HIDE DEF Bad
  <2>2. G(T \ {x}) \in Int /\ G(T) = g[x] + G(T \ {x})
    BY <1>5, <2>1
  <2>3. D(T \ {x}) \in Int /\ D(T) = d[x] + D(T \ {x})
    BY <1>6, <2>1
  <2>4. Q(T \ {x}) \in Int /\ Q(T) = q[x] + Q(T \ {x})
    BY <1>7, <2>1
  <2> QED
    BY <2>2, <2>3, <2>4
<1>15. g[x] \in Int /\ d[x] = (u * g[x] - m) * (u * g[x] - m) /\ q[x] = g[x] * g[x]
  BY <1>0, <1>3
<1>16. D(T) = Want(T)
  <2> DEFINE x1 == g[x]
             c == Cardinality(T)
             s == G(T \ {x})
             r == Q(T \ {x})
  <2>1. x1 \in Int /\ c \in Int /\ s \in Int /\ r \in Int
    BY <1>13, <1>14, <1>15
  <2>2. D(T) = (u * x1 - m) * (u * x1 - m)
               + ((u * u) * r - (2 * u * m) * s + (m * m) * (c - 1))
    BY <1>12, <1>13, <1>14, <1>15
  <2>3. Want(T) = (u * u) * (x1 * x1 + r) - (2 * u * m) * (x1 + s) + (m * m) * c
    BY <1>14, <1>15
  <2> HIDE DEF x1, c, s, r, Want
  <2>4. (u * x1 - m) * (u * x1 - m) + ((u * u) * r - (2 * u * m) * s + (m * m) * (c - 1))
          = (u * u) * (x1 * x1 + r) - (2 * u * m) * (x1 + s) + (m * m) * c
    BY <2>1
  <2> QED
    BY <2>2, <2>3, <2>4
<1> QED
  BY <1>3, <1>16

-----------------------------------------------------------------------------
(* Extremes, divisions and cardinalities.                                  *)

LEMMA Extremes ==
  ASSUME NEW S, S \subseteq Int, IsFiniteSet(S), S # {}
  PROVE  /\ Max(S) \in S /\ \A y \in S : Max(S) >= y
         /\ Min(S) \in S /\ \A y \in S : Min(S) <= y
<1> DEFINE High(T) == \E x \in T : \A y \in T : x >= y
           Low(T) == \E x \in T : \A y \in T : x <= y
           Bad == {T \in SUBSET S : T # {} /\ ~(High(T) /\ Low(T))}
<1>1. Bad = {}
  <2> SUFFICES ASSUME Bad # {} PROVE FALSE
    OBVIOUS
  <2>1. PICK T \in Bad : \A x \in T : T \ {x} \notin Bad
    <3>1. Bad \subseteq SUBSET S
      OBVIOUS
    <3> HIDE DEF Bad
    <3> QED
      BY <3>1, MinimalSet
  <2>2. T \in SUBSET S /\ ~(High(T) /\ Low(T))
    OBVIOUS
  <2>3. PICK x \in T : TRUE
    OBVIOUS
  <2>4. CASE T = {x}
    BY <2>2, <2>4
  <2>5. CASE T # {x}
    <3>1. T \ {x} \in SUBSET S /\ T \ {x} # {} /\ T \ {x} \notin Bad
      BY <2>1, <2>2, <2>3, <2>5
    <3>2. High(T \ {x}) /\ Low(T \ {x})
      BY <3>1
    <3>3. PICK hi \in T \ {x} : \A y \in T \ {x} : hi >= y
      BY <3>2
    <3>4. PICK lo \in T \ {x} : \A y \in T \ {x} : lo <= y
      BY <3>2
    <3>5. \A y \in T : y \in Int
      BY <2>2
    <3>6. High(T)
      <4>1. CASE hi >= x
        BY <3>3, <4>1
      <4>2. CASE x > hi
        BY <3>3, <3>5, <4>2
      <4> QED
        BY <3>5, <4>1, <4>2
    <3>7. Low(T)
      <4>1. CASE lo <= x
        BY <3>4, <4>1
      <4>2. CASE x < lo
        BY <3>4, <3>5, <4>2
      <4> QED
        BY <3>5, <4>1, <4>2
    <3> QED
      BY <2>2, <3>6, <3>7
  <2> QED
    BY <2>4, <2>5
<1>2. High(S) /\ Low(S)
  BY <1>1
<1> QED
  BY <1>2 DEF Max, Min

LEMMA ExtremesAre ==
  ASSUME NEW S, S \subseteq Int, NEW x \in S
  PROVE  /\ (\A y \in S : x >= y) => Max(S) = x
         /\ (\A y \in S : x <= y) => Min(S) = x
<1>1. ASSUME \A y \in S : x >= y PROVE Max(S) = x
  <2>1. \A z \in S : (\A y \in S : z >= y) => z = x
    BY <1>1
  <2> QED
    BY <1>1, <2>1 DEF Max
<1>2. ASSUME \A y \in S : x <= y PROVE Min(S) = x
  <2>1. \A z \in S : (\A y \in S : z <= y) => z = x
    BY <1>2
  <2> QED
    BY <1>2, <2>1 DEF Min
<1> QED
  BY <1>1, <1>2

LEMMA ExtremesOfUnion ==
  ASSUME NEW S, NEW T, S \cup T \subseteq Int, IsFiniteSet(S), IsFiniteSet(T), S # {}, T # {}
  PROVE  /\ Max(S \cup T) = Max({Max(S), Max(T)})
         /\ Min(S \cup T) = Min({Min(S), Min(T)})
<1>1. /\ Max(S) \in S /\ \A y \in S : Max(S) >= y
      /\ Min(S) \in S /\ \A y \in S : Min(S) <= y
  BY Extremes
<1>2. /\ Max(T) \in T /\ \A y \in T : Max(T) >= y
      /\ Min(T) \in T /\ \A y \in T : Min(T) <= y
  BY Extremes
<1> DEFINE a == Max(S)
           b == Max(T)
           c == Min(S)
           d == Min(T)
           hi == IF a >= b THEN a ELSE b
           lo == IF c <= d THEN c ELSE d
<1>3. a \in Int /\ b \in Int /\ c \in Int /\ d \in Int
  BY <1>1, <1>2
<1>4. hi \in S \cup T /\ \A y \in S \cup T : hi >= y
  BY <1>1, <1>2, <1>3
<1>5. lo \in S \cup T /\ \A y \in S \cup T : lo <= y
  BY <1>1, <1>2, <1>3
<1>6. hi \in {a, b} /\ \A y \in {a, b} : hi >= y
  BY <1>3
<1>7. lo \in {c, d} /\ \A y \in {c, d} : lo <= y
  BY <1>3
<1>8. {a, b} \subseteq Int /\ {c, d} \subseteq Int
  BY <1>3
<1> HIDE DEF a, b, c, d, hi, lo
<1>9. Max(S \cup T) = hi /\ Min(S \cup T) = lo
  BY <1>4, <1>5, ExtremesAre
<1>10. Max({a, b}) = hi
  <2>1. \A x \in {a, b} : (\A y \in {a, b} : x >= y) => x = hi
    BY <1>6, <1>8
  <2> QED
    BY <1>6, <2>1 DEF Max
<1>11. Min({c, d}) = lo
  <2>1. \A x \in {c, d} : (\A y \in {c, d} : x <= y) => x = lo
    BY <1>7, <1>8
  <2> QED
    BY <1>7, <2>1 DEF Min
<1> QED
  BY <1>9, <1>10, <1>11 DEF a, b, c, d

LEMMA ExactDivision ==
  ASSUME NEW n \in Nat \ {0}, NEW x \in Int
  PROVE  (n * x) \div n = x /\ (x * n) \div n = x
OBVIOUS

LEMMA UnitType == Unit \in Nat \ {0}
BY RuntimeAssumption

LEMMA ShareOf ==
  ASSUME NEW n \in Nat \ {0}, Unit % n = 0
  PROVE  Unit \div n \in Nat \ {0} /\ n * (Unit \div n) = Unit
<1>1. Unit \in Nat \ {0}
  BY RuntimeAssumption
<1>2. Unit \div n \in Int /\ Unit = n * (Unit \div n) + (Unit % n)
  <2>1. \A u \in Nat : u \div n \in Int /\ u = n * (u \div n) + (u % n)
    OBVIOUS
  <2> QED
    BY <1>1, <2>1
<1> DEFINE q == Unit \div n
<1>3. q \in Int /\ Unit = n * q
  BY <1>1, <1>2
<1> HIDE DEF q
<1>4. q > 0
  BY <1>1, <1>3
<1> QED
  BY <1>3, <1>4 DEF q

LEMMA DisjointUnion ==
  ASSUME NEW A, NEW B, IsFiniteSet(A), IsFiniteSet(B), \A x \in A : x \notin B
  PROVE  /\ IsFiniteSet(A \cup B)
         /\ Cardinality(A \cup B) = Cardinality(A) + Cardinality(B)
<1>1. A \cap B = {}
  OBVIOUS
<1>2. Cardinality(A) \in Nat /\ Cardinality(B) \in Nat
  BY FS_CardinalityType
<1>3. Cardinality({}) = 0
  BY FS_EmptySet
<1>4. /\ IsFiniteSet(A \cup B)
      /\ Cardinality(A \cup B) = Cardinality(A) + Cardinality(B) - Cardinality(A \cap B)
  BY FS_Union
<1>5. Cardinality(A \cap B) = 0
  BY <1>1, <1>3
<1> QED
  BY <1>2, <1>4, <1>5

\* As many places in the row of a batch as iterations.
LEMMA RowFinite ==
  ASSUME NEW b, NEW I, IsFiniteSet(I)
  PROVE  IsFiniteSet({b} \X I) /\ Cardinality({b} \X I) = Cardinality(I)
<1> DEFINE f == [i \in I |-> <<b, i>>]
<1>0. f \in [I -> {b} \X I] /\ DOMAIN f = I /\ \A i \in I : f[i] = <<b, i>>
  OBVIOUS
<1>1. f \in Injection(I, {b} \X I)
  <2>1. \A i, j \in I : f[i] = f[j] => i = j
    BY <1>0
  <2> HIDE DEF f
  <2> QED
    BY <1>0, <2>1 DEF Injection, IsInjective
<1>2. f \in Surjection(I, {b} \X I)
  <2>1. \A p \in {b} \X I : \E i \in I : f[i] = p
    BY <1>0
  <2> HIDE DEF f
  <2> QED
    BY <1>0, <2>1 DEF Surjection
<1>3. ExistsBijection(I, {b} \X I)
  BY <1>1, <1>2 DEF ExistsBijection, Bijection
<1> QED
  BY <1>3, FS_Bijection

-----------------------------------------------------------------------------
(* Statistics.  Those of all the values at once, and of the merged batches *)
(* in the given order.                                                     *)

ExactStats(v, merged) ==
  LET n == Cardinality(DOMAIN v)
      mean == (Unit * SumFunction(v)) \div n
      squared == [i \in DOMAIN v |-> (Unit * v[i] - mean) * (Unit * v[i] - mean)]
  IN IF n = 0 THEN EmptyStats
     ELSE [n |-> n, mean |-> mean, m2 |-> SumFunction(squared) \div Unit,
           min |-> Min(Range(v)), max |-> Max(Range(v)), merged |-> merged]

LEMMA StatsOfBatch ==
  ASSUME NEW b, NEW v
  PROVE  StatsOf(b, v) = ExactStats(v, <<b>>)
BY DEF StatsOf, ExactStats

\* The numbers of a finite set of places.
Numbers(v) == IsFiniteSet(DOMAIN v) /\ v \in [DOMAIN v -> Int]

SumOfSquares(v) == SumFunctionOnSet(Squares(v, DOMAIN v), DOMAIN v)

LEMMA SumsTyped ==
  ASSUME NEW v, Numbers(v)
  PROVE  /\ Terms(v, DOMAIN v) /\ Terms(Squares(v, DOMAIN v), DOMAIN v)
         /\ SumFunction(v) = SumFunctionOnSet(v, DOMAIN v)
         /\ SumFunction(v) \in Int /\ SumOfSquares(v) \in Int
         /\ Cardinality(DOMAIN v) \in Nat
         /\ Cardinality(DOMAIN v) = 0 <=> DOMAIN v = {}
<1>1. Terms(v, DOMAIN v)
  BY DEF Numbers, Terms
<1>2. Terms(Squares(v, DOMAIN v), DOMAIN v)
  BY <1>1 DEF Terms, Squares
<1>3. SumFunction(v) = SumFunctionOnSet(v, DOMAIN v)
  BY DEF SumFunction
<1>4. SumFunction(v) \in Int /\ SumOfSquares(v) \in Int
  BY <1>1, <1>2, <1>3, SumStep DEF SumOfSquares
<1>5. /\ Cardinality(DOMAIN v) \in Nat
      /\ Cardinality(DOMAIN v) = 0 <=> DOMAIN v = {}
  BY FS_CardinalityType, FS_EmptySet DEF Numbers
<1> QED
  BY <1>1, <1>2, <1>3, <1>4, <1>5

LEMMA RangeTyped ==
  ASSUME NEW v, Numbers(v), DOMAIN v # {}
  PROVE  /\ Range(v) \subseteq Int /\ IsFiniteSet(Range(v)) /\ Range(v) # {}
         /\ Min(Range(v)) \in Int /\ Max(Range(v)) \in Int
<1>1. Range(v) \subseteq Int /\ Range(v) # {}
  BY DEF Range, Numbers
<1>2. v \in Surjection(DOMAIN v, Range(v))
  BY DEF Numbers, Range, Surjection
<1>3. IsFiniteSet(Range(v))
  BY <1>2, FS_Surjection DEF Numbers
<1> QED
  BY <1>1, <1>3, Extremes

\* The mean and the second moment from the sums, when no division rounds.
ClosedStats(n, s, q, lo, hi, merged) ==
  [n |-> n, mean |-> (Unit \div n) * s, m2 |-> Unit * q - (Unit \div n) * (s * s),
   min |-> lo, max |-> hi, merged |-> merged]

LEMMA StatsClosed ==
  ASSUME NEW v, NEW merged, Numbers(v), DOMAIN v # {}, Unit % Cardinality(DOMAIN v) = 0
  PROVE  ExactStats(v, merged)
           = ClosedStats(Cardinality(DOMAIN v), SumFunction(v), SumOfSquares(v),
                         Min(Range(v)), Max(Range(v)), merged)
<1> DEFINE S == DOMAIN v
           n == Cardinality(S)
           s == SumFunction(v)
           q == SumOfSquares(v)
           a == Unit \div n
           mean == (Unit * s) \div n
           squared == [i \in S |-> (Unit * v[i] - mean) * (Unit * v[i] - mean)]
<1>1. n \in Nat \ {0} /\ s \in Int /\ q \in Int /\ Terms(v, S)
  BY SumsTyped
<1>2. a \in Nat \ {0} /\ n * a = Unit /\ Unit \in Nat \ {0}
  BY <1>1, ShareOf, RuntimeAssumption
<1>3. mean = a * s
  <2> HIDE DEF n, s, a
  <2>1. Unit * s = n * (a * s)
    BY <1>1, <1>2
  <2>2. a * s \in Int
    BY <1>1, <1>2
  <2> QED
    BY <1>1, <2>1, <2>2, ExactDivision
<1>4. mean \in Int
  BY <1>1, <1>2, <1>3
<1>5. SumFunction(squared) = SumFunctionOnSet(squared, S)
  BY DEF SumFunction
<1>6. SumFunctionOnSet(squared, S)
        = (Unit * Unit) * q - (2 * Unit * mean) * s + (mean * mean) * n
  <2>1. Unit \in Int
    BY <1>2
  <2>2. s = SumFunctionOnSet(v, S) /\ q = SumFunctionOnSet(Squares(v, S), S)
    BY SumsTyped DEF SumOfSquares
  <2> HIDE DEF mean, s, q, n
  <2>3. SumFunctionOnSet(squared, S)
          = (Unit * Unit) * SumFunctionOnSet(Squares(v, S), S)
            - (2 * Unit * mean) * SumFunctionOnSet(v, S) + (mean * mean) * Cardinality(S)
    BY <1>1, <1>4, <2>1, SumDistances
  <2> QED
    BY <2>2, <2>3 DEF n
<1>7. SumFunction(squared) = Unit * (Unit * q - a * (s * s))
  <2> HIDE DEF mean, s, q, n, a, squared, S
  <2>1. (Unit * Unit) * q - (2 * Unit * (a * s)) * s + ((a * s) * (a * s)) * n
          = Unit * (Unit * q - a * (s * s))
    <3>1. ((a * s) * (a * s)) * n = (a * (s * s)) * (n * a)
      BY <1>1, <1>2
    <3>2. ((a * s) * (a * s)) * n = (a * (s * s)) * Unit
      BY <1>2, <3>1
    <3>3. (2 * Unit * (a * s)) * s = 2 * (Unit * (a * (s * s)))
      BY <1>1, <1>2
    <3> DEFINE t == a * (s * s)
    <3>4. t \in Int
      BY <1>1, <1>2
    <3> HIDE DEF t
    <3>5. (Unit * Unit) * q - 2 * (Unit * t) + t * Unit = Unit * (Unit * q - t)
      BY <1>1, <1>2, <3>4
    <3> QED
      BY <3>2, <3>3, <3>5 DEF t
  <2> QED
    BY <1>3, <1>5, <1>6, <2>1
<1>8. SumFunction(squared) \div Unit = Unit * q - a * (s * s)
  <2>1. Unit * q - a * (s * s) \in Int
    BY <1>1, <1>2
  <2> HIDE DEF mean, s, q, n, a, squared, S
  <2> QED
    BY <1>2, <1>7, <2>1, ExactDivision
<1>9. ExactStats(v, merged)
        = IF n = 0 THEN EmptyStats
          ELSE [n |-> n, mean |-> mean, m2 |-> SumFunction(squared) \div Unit,
                min |-> Min(Range(v)), max |-> Max(Range(v)), merged |-> merged]
  BY DEF ExactStats
<1> HIDE DEF mean, squared
<1> QED
  BY <1>1, <1>3, <1>8, <1>9 DEF ClosedStats

\* The formulas of Chan, Golub and LeVeque lose nothing: the distance between
\* the means is what the squares of the sums were short of.
LEMMA MergeClosed ==
  ASSUME NEW nl \in Nat \ {0}, NEW sl \in Int, NEW ql \in Int, NEW lol, NEW hil, NEW ml,
         NEW nr \in Nat \ {0}, NEW sr \in Int, NEW qr \in Int, NEW lor, NEW hir, NEW mr,
         Unit % nl = 0, Unit % nr = 0, Unit % (nl + nr) = 0
  PROVE  MergeStats(ClosedStats(nl, sl, ql, lol, hil, ml), ClosedStats(nr, sr, qr, lor, hir, mr))
           = ClosedStats(nl + nr, sl + sr, ql + qr, Min({lol, lor}), Max({hil, hir}), ml \o mr)
<1> DEFINE u == Unit
           n == nl + nr
           p == Unit \div nl
           q == Unit \div nr
           r == Unit \div n
           delta == q * sr - p * sl
           gap == p * (sl * sl) + q * (sr * sr) - r * ((sl + sr) * (sl + sr))
<1>1. n \in Nat \ {0} /\ u \in Nat \ {0}
  <2>1. Unit \in Nat \ {0}
    BY RuntimeAssumption
  <2>2. nl + nr \in Nat \ {0}
    OBVIOUS
  <2> QED
    BY <2>1, <2>2
<1>2. /\ p \in Nat \ {0} /\ nl * p = u
      /\ q \in Nat \ {0} /\ nr * q = u
      /\ r \in Nat \ {0} /\ n * r = u
  <2>1. p \in Nat \ {0} /\ nl * p = u
    BY ShareOf
  <2>2. q \in Nat \ {0} /\ nr * q = u
    BY ShareOf
  <2>3. r \in Nat \ {0} /\ n * r = u
    BY <1>1, ShareOf
  <2> QED
    BY <2>1, <2>2, <2>3
<1>n. n = nl + nr
  OBVIOUS
<1> HIDE DEF u, n, p, q, r
<1>3. delta \in Int /\ gap \in Int
  BY <1>2
<1>d. delta = q * sr - p * sl
  OBVIOUS
<1>g. gap = p * (sl * sl) + q * (sr * sr) - r * ((sl + sr) * (sl + sr))
  OBVIOUS
<1> HIDE DEF delta, gap
<1>4. p * sl + (delta * nr) \div n = r * (sl + sr)
  <2> DEFINE t == r * (sl + sr) - p * sl
  <2>1. t \in Int
    BY <1>2
  <2>2. n * t = (n * r) * (sl + sr) - (nl * p) * sl - nr * (p * sl)
    BY <1>1, <1>2, <1>n
  <2>3. n * t = u * sr - nr * (p * sl)
    BY <1>1, <1>2, <2>2
  <2>4. delta * nr = (nr * q) * sr - nr * (p * sl)
    BY <1>2, <1>d
  <2>5. delta * nr = n * t
    BY <1>2, <2>3, <2>4
  <2>e. t = r * (sl + sr) - p * sl
    OBVIOUS
  <2> HIDE DEF t
  <2>6. (delta * nr) \div n = t
    BY <1>1, <2>1, <2>5, ExactDivision
  <2>7. r * (sl + sr) \in Int /\ p * sl \in Int
    BY <1>2
  <2> QED
    BY <2>6, <2>7, <2>e
<1>5. delta * delta * nl * nr = (n * u) * gap
  <2>1. (p * sl) * nl = u * sl /\ (q * sr) * nr = u * sr
    BY <1>1, <1>2
  <2> DEFINE x == p * sl
             y == q * sr
  <2>x. x \in Int /\ y \in Int /\ x * nl = u * sl /\ y * nr = u * sr
    BY <1>2, <2>1
  <2>f. p * (sl * sl) = x * sl /\ q * (sr * sr) = y * sr /\ delta = y - x
    BY <1>2, <1>d
  <2>g. (n * u) * (r * ((sl + sr) * (sl + sr))) = (u * u) * ((sl + sr) * (sl + sr))
    <3>1. (n * u) * (r * ((sl + sr) * (sl + sr))) = ((n * r) * u) * ((sl + sr) * (sl + sr))
      BY <1>1, <1>2
    <3> QED
      BY <1>2, <3>1
  <2> HIDE DEF x, y
  <2>2. (y - x) * (y - x) * nl * nr
          = ((y * nr) * y) * nl - 2 * ((y * nr) * (x * nl)) + ((x * nl) * x) * nr
    BY <2>x
  <2>3. ((y * nr) * y) * nl = u * ((sr * y) * nl) /\ ((x * nl) * x) * nr = u * ((sl * x) * nr)
    <3>1. (y * nr) * y = (u * sr) * y /\ (x * nl) * x = (u * sl) * x
      BY <2>x
    <3> QED
      BY <1>1, <2>x, <3>1
  <2>4. (y * nr) * (x * nl) = (u * u) * (sr * sl)
    <3>1. (y * nr) * (x * nl) = (u * sr) * (u * sl)
      BY <2>x
    <3> QED
      BY <1>1, <3>1
  <2>5. (n * u) * gap = (n * u) * (x * sl + y * sr) - (u * u) * ((sl + sr) * (sl + sr))
    <3> DEFINE w == r * ((sl + sr) * (sl + sr))
    <3>a. (sl + sr) * (sl + sr) \in Int
      OBVIOUS
    <3>b. w \in Int
      BY <1>2, <3>a
    <3>1. w \in Int /\ (n * u) * w = (u * u) * ((sl + sr) * (sl + sr))
      BY <2>g, <3>b
    <3>2. gap = (x * sl + y * sr) - w
      <4>1. gap = p * (sl * sl) + q * (sr * sr) - w
        BY <1>g
      <4>2. x * sl \in Int /\ y * sr \in Int
        BY <2>x
      <4> HIDE DEF w
      <4> QED
        BY <2>f, <3>b, <4>1, <4>2
    <3>3. x * sl + y * sr \in Int /\ n * u \in Int
      BY <1>1, <2>x
    <3> HIDE DEF w
    <3>4. (n * u) * gap = (n * u) * (x * sl + y * sr) - (n * u) * w
      BY <3>1, <3>2, <3>3
    <3> QED
      BY <3>1, <3>4
  <2>6. (n * u) * (x * sl + y * sr)
          = u * ((x * nl) * sl) + u * ((y * nr) * sr) + u * ((sl * x) * nr) + u * ((sr * y) * nl)
    BY <1>1, <1>n, <2>x
  <2>7. u * ((x * nl) * sl) = (u * u) * (sl * sl) /\ u * ((y * nr) * sr) = (u * u) * (sr * sr)
    <3>1. (x * nl) * sl = (u * sl) * sl /\ (y * nr) * sr = (u * sr) * sr
      BY <2>x
    <3> QED
      BY <1>1, <3>1
  <2>8. (u * u) * ((sl + sr) * (sl + sr))
          = (u * u) * (sl * sl) + 2 * ((u * u) * (sr * sl)) + (u * u) * (sr * sr)
    BY <1>1
  <2> DEFINE a == u * ((sr * y) * nl)
             b == u * ((sl * x) * nr)
             c == (u * u) * (sr * sl)
             d == (u * u) * (sl * sl)
             e == (u * u) * (sr * sr)
  <2>9. a \in Int /\ b \in Int /\ c \in Int /\ d \in Int /\ e \in Int
    BY <1>1, <2>x
  <2>10. (y - x) * (y - x) * nl * nr = a - 2 * c + b
    BY <2>2, <2>3, <2>4
  <2>11. (n * u) * gap = (d + e + b + a) - (d + 2 * c + e)
    BY <2>5, <2>6, <2>7, <2>8
  <2> HIDE DEF a, b, c, d, e
  <2>12. a - 2 * c + b = (d + e + b + a) - (d + 2 * c + e)
    BY <2>9
  <2> QED
    BY <2>f, <2>10, <2>11, <2>12
<1>6. (delta * delta * nl * nr) \div (n * u) = gap
  <2>1. n * u \in Nat \ {0}
    BY <1>1
  <2> QED
    BY <1>3, <1>5, <2>1, ExactDivision
<1>7. (u * ql - p * (sl * sl)) + (u * qr - q * (sr * sr)) + gap
        = u * (ql + qr) - r * ((sl + sr) * (sl + sr))
  BY <1>1, <1>2, <1>g
<1> DEFINE left == ClosedStats(nl, sl, ql, lol, hil, ml)
           right == ClosedStats(nr, sr, qr, lor, hir, mr)
<1>8. /\ left.n = nl /\ left.mean = p * sl /\ left.m2 = u * ql - p * (sl * sl)
      /\ left.min = lol /\ left.max = hil /\ left.merged = ml
  BY DEF ClosedStats, u, p
<1>9. /\ right.n = nr /\ right.mean = q * sr /\ right.m2 = u * qr - q * (sr * sr)
      /\ right.min = lor /\ right.max = hir /\ right.merged = mr
  BY DEF ClosedStats, u, q
<1> HIDE DEF left, right
<1>10. MergeStats(left, right)
         = [n |-> n, mean |-> p * sl + (delta * nr) \div n,
            m2 |-> (u * ql - p * (sl * sl)) + (u * qr - q * (sr * sr))
                   + (delta * delta * nl * nr) \div (n * u),
            min |-> Min({lol, lor}), max |-> Max({hil, hir}), merged |-> ml \o mr]
  BY <1>8, <1>9, <1>d, <1>n DEF MergeStats, u
<1>11. MergeStats(left, right)
         = [n |-> n, mean |-> r * (sl + sr),
            m2 |-> u * (ql + qr) - r * ((sl + sr) * (sl + sr)),
            min |-> Min({lol, lor}), max |-> Max({hil, hir}), merged |-> ml \o mr]
  BY <1>4, <1>6, <1>7, <1>10
<1> QED
  BY <1>11 DEF ClosedStats, left, right, n, u, r

\* J has the numbers of L and of R, each at its place.
Joins(J, L, R) ==
  /\ Numbers(J) /\ Numbers(L) /\ Numbers(R)
  /\ DOMAIN J = DOMAIN L \cup DOMAIN R
  /\ \A x \in DOMAIN L : x \notin DOMAIN R /\ J[x] = L[x]
  /\ \A x \in DOMAIN R : J[x] = R[x]

\* No division by a number of these values rounds.
Even(v) == \A n \in 1 .. Cardinality(DOMAIN v) : Unit % n = 0

LEMMA JoinSums ==
  ASSUME NEW J, NEW L, NEW R, Joins(J, L, R)
  PROVE  /\ Cardinality(DOMAIN J) = Cardinality(DOMAIN L) + Cardinality(DOMAIN R)
         /\ SumFunction(J) = SumFunction(L) + SumFunction(R)
         /\ SumOfSquares(J) = SumOfSquares(L) + SumOfSquares(R)
         /\ Range(J) = Range(L) \cup Range(R)
<1> DEFINE S == DOMAIN L
           T == DOMAIN R
           qJ == Squares(J, DOMAIN J)
           qL == Squares(L, S)
           qR == Squares(R, T)
<1>1. /\ Numbers(J) /\ Numbers(L) /\ Numbers(R)
      /\ DOMAIN J = S \cup T
      /\ \A x \in S : x \notin T /\ J[x] = L[x]
      /\ \A x \in T : J[x] = R[x]
  BY DEF Joins
<1>2. /\ Terms(J, S \cup T) /\ Terms(L, S) /\ Terms(R, T)
      /\ Terms(qJ, S \cup T) /\ Terms(qL, S) /\ Terms(qR, T)
      /\ SumFunction(J) = SumFunctionOnSet(J, S \cup T)
      /\ SumFunction(L) = SumFunctionOnSet(L, S) /\ SumFunction(R) = SumFunctionOnSet(R, T)
      /\ SumOfSquares(J) = SumFunctionOnSet(qJ, S \cup T)
      /\ SumOfSquares(L) = SumFunctionOnSet(qL, S) /\ SumOfSquares(R) = SumFunctionOnSet(qR, T)
  BY <1>1, SumsTyped DEF SumOfSquares
<1>3. /\ \A x \in S : J[x] = L[x] /\ qJ[x] = qL[x]
      /\ \A x \in T : J[x] = R[x] /\ qJ[x] = qR[x]
  BY <1>1 DEF Squares
<1>4. Terms(J, S) /\ Terms(J, T) /\ Terms(qJ, S) /\ Terms(qJ, T)
  BY <1>1, <1>2 DEF Terms, Numbers
<1>5. Cardinality(DOMAIN J) = Cardinality(S) + Cardinality(T)
  BY <1>1, DisjointUnion DEF Numbers
<1> HIDE DEF qJ, qL, qR
<1>6. SumFunction(J) = SumFunction(L) + SumFunction(R)
  <2>1. SumFunctionOnSet(J, S \cup T) = SumFunctionOnSet(J, S) + SumFunctionOnSet(J, T)
    BY <1>1, <1>2, SumUnion
  <2>2. SumFunctionOnSet(J, S) = SumFunctionOnSet(L, S)
    BY <1>2, <1>3, <1>4, SumSame
  <2>3. SumFunctionOnSet(J, T) = SumFunctionOnSet(R, T)
    BY <1>2, <1>3, <1>4, SumSame
  <2> QED
    BY <1>2, <2>1, <2>2, <2>3
<1>7. SumOfSquares(J) = SumOfSquares(L) + SumOfSquares(R)
  <2>1. SumFunctionOnSet(qJ, S \cup T) = SumFunctionOnSet(qJ, S) + SumFunctionOnSet(qJ, T)
    BY <1>1, <1>2, SumUnion
  <2>2. SumFunctionOnSet(qJ, S) = SumFunctionOnSet(qL, S)
    BY <1>2, <1>3, <1>4, SumSame
  <2>3. SumFunctionOnSet(qJ, T) = SumFunctionOnSet(qR, T)
    BY <1>2, <1>3, <1>4, SumSame
  <2> QED
    BY <1>2, <2>1, <2>2, <2>3
<1>8. Range(J) = Range(L) \cup Range(R)
  <2>1. ASSUME NEW y \in Range(J) PROVE y \in Range(L) \cup Range(R)
    BY <1>1 DEF Range
  <2>2. ASSUME NEW y \in Range(L) \cup Range(R) PROVE y \in Range(J)
    BY <1>1 DEF Range
  <2> QED
    BY <2>1, <2>2
<1> QED
  BY <1>5, <1>6, <1>7, <1>8

\* _merge_stats: the merge of the statistics of two parts is those of the whole,
\* the mean and the second moment included.
THEOREM MergeExact ==
  ASSUME NEW J, NEW L, NEW R, NEW ml, NEW mr, Joins(J, L, R), Even(J)
  PROVE  /\ MergeStats(ExactStats(L, ml), ExactStats(R, mr))
              = ExactStats(J, IF DOMAIN R = {} THEN ml
                              ELSE IF DOMAIN L = {} THEN mr ELSE ml \o mr)
         /\ DOMAIN R = {} => J = L
         /\ DOMAIN L = {} => J = R
<1>1. /\ Numbers(J) /\ Numbers(L) /\ Numbers(R)
      /\ J \in [DOMAIN J -> Int] /\ L \in [DOMAIN L -> Int] /\ R \in [DOMAIN R -> Int]
      /\ DOMAIN J = DOMAIN L \cup DOMAIN R
      /\ \A x \in DOMAIN L : J[x] = L[x]
      /\ \A x \in DOMAIN R : J[x] = R[x]
  BY DEF Joins, Numbers
<1>2. DOMAIN R = {} => J = L
  BY <1>1
<1>3. DOMAIN L = {} => J = R
  BY <1>1
<1>4. \A v : Numbers(v) => /\ Cardinality(DOMAIN v) \in Nat
                           /\ Cardinality(DOMAIN v) = 0 <=> DOMAIN v = {}
  BY SumsTyped
<1>5. \A v, m : Cardinality(DOMAIN v) = 0 => ExactStats(v, m) = EmptyStats
  BY DEF ExactStats
<1>6. \A v, m : Cardinality(DOMAIN v) # 0 => ExactStats(v, m).n = Cardinality(DOMAIN v)
  BY DEF ExactStats
<1>7. CASE DOMAIN R = {}
  <2>1. ExactStats(R, mr).n = 0
    BY <1>1, <1>4, <1>5, <1>7 DEF EmptyStats
  <2>2. MergeStats(ExactStats(L, ml), ExactStats(R, mr)) = ExactStats(L, ml)
    BY <2>1 DEF MergeStats
  <2> QED
    BY <1>2, <1>3, <1>7, <2>2
<1>8. CASE DOMAIN R # {} /\ DOMAIN L = {}
  <2>1. ExactStats(R, mr).n # 0 /\ ExactStats(L, ml).n = 0
    BY <1>1, <1>4, <1>5, <1>6, <1>8 DEF EmptyStats
  <2>2. MergeStats(ExactStats(L, ml), ExactStats(R, mr)) = ExactStats(R, mr)
    BY <2>1 DEF MergeStats
  <2> QED
    BY <1>2, <1>3, <1>8, <2>2
<1>9. CASE DOMAIN R # {} /\ DOMAIN L # {}
  <2> DEFINE nl == Cardinality(DOMAIN L)
             nr == Cardinality(DOMAIN R)
  <2>1. /\ Cardinality(DOMAIN J) = nl + nr
        /\ SumFunction(J) = SumFunction(L) + SumFunction(R)
        /\ SumOfSquares(J) = SumOfSquares(L) + SumOfSquares(R)
        /\ Range(J) = Range(L) \cup Range(R)
    BY JoinSums
  <2>2. nl \in Nat \ {0} /\ nr \in Nat \ {0}
    BY <1>1, <1>4, <1>9
  <2>3. DOMAIN J # {}
    BY <1>1, <1>9
  <2>4. Unit % nl = 0 /\ Unit % nr = 0 /\ Unit % (nl + nr) = 0
    <3>1. nl \in 1 .. nl + nr /\ nr \in 1 .. nl + nr /\ nl + nr \in 1 .. nl + nr
      BY <2>2
    <3> QED
      BY <2>1, <3>1 DEF Even
  <2>5. /\ Max(Range(J)) = Max({Max(Range(L)), Max(Range(R))})
        /\ Min(Range(J)) = Min({Min(Range(L)), Min(Range(R))})
    <3>1. /\ Range(L) \subseteq Int /\ IsFiniteSet(Range(L)) /\ Range(L) # {}
          /\ Range(R) \subseteq Int /\ IsFiniteSet(Range(R)) /\ Range(R) # {}
      BY <1>1, <1>9, RangeTyped
    <3>2. Range(L) \cup Range(R) \subseteq Int
      BY <3>1
    <3> QED
      BY <2>1, <3>1, <3>2, ExtremesOfUnion
  <2>6. /\ SumFunction(L) \in Int /\ SumOfSquares(L) \in Int
        /\ SumFunction(R) \in Int /\ SumOfSquares(R) \in Int
    BY <1>1, SumsTyped
  <2>7. /\ ExactStats(L, ml) = ClosedStats(nl, SumFunction(L), SumOfSquares(L),
                                           Min(Range(L)), Max(Range(L)), ml)
        /\ ExactStats(R, mr) = ClosedStats(nr, SumFunction(R), SumOfSquares(R),
                                           Min(Range(R)), Max(Range(R)), mr)
    BY <1>1, <1>9, <2>4, StatsClosed
  <2>8. ExactStats(J, ml \o mr)
          = ClosedStats(nl + nr, SumFunction(J), SumOfSquares(J),
                        Min(Range(J)), Max(Range(J)), ml \o mr)
    BY <1>1, <2>1, <2>3, <2>4, StatsClosed
  <2> HIDE DEF nl, nr
  <2>9. MergeStats(ExactStats(L, ml), ExactStats(R, mr))
          = ClosedStats(nl + nr, SumFunction(L) + SumFunction(R), SumOfSquares(L) + SumOfSquares(R),
                        Min({Min(Range(L)), Min(Range(R))}), Max({Max(Range(L)), Max(Range(R))}),
                        ml \o mr)
    <3> DEFINE left == ClosedStats(nl, SumFunction(L), SumOfSquares(L),
                                   Min(Range(L)), Max(Range(L)), ml)
               right == ClosedStats(nr, SumFunction(R), SumOfSquares(R),
                                    Min(Range(R)), Max(Range(R)), mr)
    <3>1. MergeStats(left, right)
          = ClosedStats(nl + nr, SumFunction(L) + SumFunction(R), SumOfSquares(L) + SumOfSquares(R),
                        Min({Min(Range(L)), Min(Range(R))}), Max({Max(Range(L)), Max(Range(R))}),
                        ml \o mr)
      <4>1. ASSUME NEW sl \in Int, NEW ql \in Int, NEW lol, NEW hil,
                   NEW sr \in Int, NEW qr \in Int, NEW lor, NEW hir
            PROVE  MergeStats(ClosedStats(nl, sl, ql, lol, hil, ml),
                              ClosedStats(nr, sr, qr, lor, hir, mr))
                     = ClosedStats(nl + nr, sl + sr, ql + qr,
                                   Min({lol, lor}), Max({hil, hir}), ml \o mr)
        BY <2>2, <2>4, MergeClosed
      <4> QED
        BY <2>6, <4>1
    <3>2. ExactStats(L, ml) = left /\ ExactStats(R, mr) = right
      BY <2>7
    <3> QED
      BY <3>1, <3>2
  <2>10. MergeStats(ExactStats(L, ml), ExactStats(R, mr)) = ExactStats(J, ml \o mr)
    BY <2>1, <2>5, <2>8, <2>9
  <2> QED
    BY <1>9, <2>10
<1> QED
  BY <1>7, <1>8, <1>9

\* The bins of the whole are the sums of those of the parts.
LEMMA HistogramJoin ==
  ASSUME NEW J, NEW L, NEW R, NEW lo, NEW hi, Joins(J, L, R)
  PROVE  Histogram(J, lo, hi) = AddCounts(Histogram(L, lo, hi), Histogram(R, lo, hi))
<1> DEFINE In(v, k) == {i \in DOMAIN v : v[i] \in lo .. hi /\ Bin(v[i], lo, hi) = k}
<1>1. ASSUME NEW k \in 1 .. HistogramBins
      PROVE  Cardinality(In(J, k)) = Cardinality(In(L, k)) + Cardinality(In(R, k))
  <2>1. /\ In(J, k) = In(L, k) \cup In(R, k)
        /\ \A x \in In(L, k) : x \notin In(R, k)
    BY DEF Joins
  <2>2. IsFiniteSet(In(L, k)) /\ IsFiniteSet(In(R, k))
    <3>1. In(L, k) \in SUBSET DOMAIN L /\ In(R, k) \in SUBSET DOMAIN R
      OBVIOUS
    <3> QED
      BY <3>1, FS_Subset DEF Joins, Numbers
  <2> HIDE DEF In
  <2> QED
    BY <2>1, <2>2, DisjointUnion
<1>2. /\ Histogram(J, lo, hi) = [k \in 1 .. HistogramBins |-> Cardinality(In(J, k))]
      /\ Histogram(L, lo, hi) = [k \in 1 .. HistogramBins |-> Cardinality(In(L, k))]
      /\ Histogram(R, lo, hi) = [k \in 1 .. HistogramBins |-> Cardinality(In(R, k))]
  BY DEF Histogram
<1> HIDE DEF In
<1>3. AddCounts(Histogram(L, lo, hi), Histogram(R, lo, hi))
        = [k \in 1 .. HistogramBins |-> Cardinality(In(L, k)) + Cardinality(In(R, k))]
  BY <1>2 DEF AddCounts
<1> QED
  BY <1>1, <1>2, <1>3

LEMMA RowSame ==
  ASSUME NEW b, NEW v, Numbers(v)
  PROVE  /\ Numbers(Row(b, v)) /\ DOMAIN Row(b, v) = {b} \X DOMAIN v
         /\ Cardinality(DOMAIN Row(b, v)) = Cardinality(DOMAIN v)
         /\ DOMAIN Row(b, v) = {} <=> DOMAIN v = {}
         /\ \A m : ExactStats(Row(b, v), m) = ExactStats(v, m)
         /\ \A lo, hi : Histogram(Row(b, v), lo, hi) = Histogram(v, lo, hi)
<1> DEFINE I == DOMAIN v
           P == {b} \X I
           w == Row(b, v)
<1>1. /\ IsFiniteSet(I) /\ \A i \in I : v[i] \in Int
      /\ IsFiniteSet(P) /\ Cardinality(P) = Cardinality(I)
  BY RowFinite DEF Numbers
<1>2. DOMAIN w = P /\ w \in [P -> Int] /\ \A i \in I : w[<<b, i>>] = v[i]
  BY <1>1 DEF Row
<1>3. Numbers(w)
  BY <1>1, <1>2 DEF Numbers
<1>4. P = {} <=> I = {}
  <2>1. \A i \in I : <<b, i>> \in P
    OBVIOUS
  <2>2. \A p \in P : p[2] \in I
    OBVIOUS
  <2> QED
    BY <2>1, <2>2
<1> HIDE DEF w
<1>5. SumFunction(w) = SumFunction(v)
  <2>1. InRow(b, I, v, w)
    BY <1>1, <1>2 DEF Terms, InRow
  <2>2. SumFunctionOnSet(w, P) = SumFunctionOnSet(v, I)
    BY <2>1, SumRow
  <2> QED
    BY <1>2, <2>2 DEF SumFunction
<1>6. Range(w) = Range(v)
  <2>1. ASSUME NEW y \in Range(v) PROVE y \in Range(w)
    BY <1>2 DEF Range
  <2>2. ASSUME NEW y \in Range(w) PROVE y \in Range(v)
    <3>1. PICK p \in P : y = w[p]
      BY <1>2 DEF Range
    <3>2. PICK i \in I : p = <<b, i>>
      OBVIOUS
    <3> QED
      BY <1>2, <3>1, <3>2 DEF Range
  <2> QED
    BY <2>1, <2>2
<1>7. ASSUME NEW m PROVE ExactStats(w, m) = ExactStats(v, m)
  <2> DEFINE n == Cardinality(I)
             mean == (Unit * SumFunction(v)) \div n
             sv == [i \in I |-> (Unit * v[i] - mean) * (Unit * v[i] - mean)]
             sw == [p \in P |-> (Unit * w[p] - mean) * (Unit * w[p] - mean)]
  <2>1. CASE n = 0
    BY <1>1, <1>2, <2>1 DEF ExactStats
  <2>2. CASE n # 0
    <3>1. n \in Nat \ {0}
      BY <1>1, <2>2, FS_CardinalityType
    <3>2. mean \in Int
      <4>0. Unit \in Int /\ SumFunction(v) \in Int
        BY SumsTyped, UnitType
      <4>1. Unit * SumFunction(v) \in Int
        BY <4>0
      <4> HIDE DEF n
      <4> QED
        BY <3>1, <4>1
    <3>3. Unit \in Int
      BY UnitType
    <3> HIDE DEF mean
    <3>4. InRow(b, I, sv, sw)
      <4>1. \A i \in I : sv[i] \in Int
        BY <1>1, <3>2, <3>3
      <4>2. \A p \in P : sw[p] \in Int
        BY <1>2, <3>2, <3>3
      <4>3. \A i \in I : sw[<<b, i>>] = sv[i]
        BY <1>2
      <4> QED
        BY <1>1, <4>1, <4>2, <4>3 DEF Terms, InRow
    <3> HIDE DEF sv, sw
    <3>5. SumFunctionOnSet(sw, P) = SumFunctionOnSet(sv, I)
      BY <3>4, SumRow
    <3>6. SumFunction(sw) = SumFunction(sv)
      BY <3>5 DEF SumFunction, sv, sw
    <3>7. ExactStats(v, m) = IF n = 0 THEN EmptyStats
                             ELSE [n |-> n, mean |-> mean, m2 |-> SumFunction(sv) \div Unit,
                                   min |-> Min(Range(v)), max |-> Max(Range(v)), merged |-> m]
      BY DEF ExactStats, mean, sv
    <3>8. ExactStats(w, m) = IF n = 0 THEN EmptyStats
                             ELSE [n |-> n, mean |-> mean, m2 |-> SumFunction(sw) \div Unit,
                                   min |-> Min(Range(w)), max |-> Max(Range(w)), merged |-> m]
      <4>1. Cardinality(DOMAIN w) = n /\ DOMAIN w = P
        BY <1>1, <1>2
      <4> QED
        BY <1>5, <4>1 DEF ExactStats, mean, sw
    <3> QED
      BY <1>6, <3>6, <3>7, <3>8
  <2> QED
    BY <2>1, <2>2
<1>8. ASSUME NEW lo, NEW hi PROVE Histogram(w, lo, hi) = Histogram(v, lo, hi)
  <2> DEFINE In(k) == {i \in I : v[i] \in lo .. hi /\ Bin(v[i], lo, hi) = k}
             Shifted(k) == {p \in P : w[p] \in lo .. hi /\ Bin(w[p], lo, hi) = k}
  <2>1. ASSUME NEW k \in 1 .. HistogramBins PROVE Cardinality(Shifted(k)) = Cardinality(In(k))
    <3>1. Shifted(k) = {b} \X In(k)
      <4>1. ASSUME NEW p \in Shifted(k) PROVE p \in {b} \X In(k)
        BY <1>2
      <4>2. ASSUME NEW p \in {b} \X In(k) PROVE p \in Shifted(k)
        BY <1>2
      <4> HIDE DEF Shifted, In
      <4> QED
        BY <4>1, <4>2
    <3>2. IsFiniteSet(In(k))
      <4>1. In(k) \in SUBSET I
        OBVIOUS
      <4> QED
        BY <1>1, <4>1, FS_Subset
    <3> HIDE DEF In, Shifted
    <3> QED
      BY <3>1, <3>2, RowFinite
  <2>2. /\ Histogram(w, lo, hi) = [k \in 1 .. HistogramBins |-> Cardinality(Shifted(k))]
        /\ Histogram(v, lo, hi) = [k \in 1 .. HistogramBins |-> Cardinality(In(k))]
    BY <1>2 DEF Histogram
  <2> HIDE DEF In, Shifted
  <2> QED
    BY <2>1, <2>2
<1> QED
  BY <1>1, <1>2, <1>3, <1>4, <1>7, <1>8 DEF w

\* The values of the batches in T, at their places.
Places(vals, T) == {p \in T \X (1 .. BatchSize) : p[2] \in DOMAIN vals[p[1]]}
AllValues(vals, T) == [p \in Places(vals, T) |-> vals[p[1]][p[2]]]

Rows(vals, T) ==
  /\ IsFiniteSet(T)
  /\ \A b \in T : vals[b] \in [DOMAIN vals[b] -> Int] /\ DOMAIN vals[b] \subseteq 1 .. BatchSize

LEMMA PlacesFinite ==
  ASSUME NEW vals, NEW T, IsFiniteSet(T)
  PROVE  IsFiniteSet(Places(vals, T))
<1>1. IsFiniteSet(1 .. BatchSize)
  <2>1. 1 \in Int /\ BatchSize \in Int
    BY BatchSizeType
  <2> QED
    BY <2>1, FS_Interval
<1>2. IsFiniteSet(T \X (1 .. BatchSize))
  BY <1>1, FS_Product
<1>3. Places(vals, T) \in SUBSET (T \X (1 .. BatchSize))
  BY DEF Places
<1> QED
  BY <1>2, <1>3, FS_Subset

LEMMA AllNumbers ==
  ASSUME NEW vals, NEW T, Rows(vals, T)
  PROVE  /\ Numbers(AllValues(vals, T)) /\ DOMAIN AllValues(vals, T) = Places(vals, T)
         /\ \A b \in T : Numbers(vals[b])
<1>1. DOMAIN AllValues(vals, T) = Places(vals, T)
  BY DEF AllValues
<1>2. AllValues(vals, T) \in [Places(vals, T) -> Int]
  <2>1. \A p \in Places(vals, T) : vals[p[1]][p[2]] \in Int
    BY DEF Rows, Places
  <2> QED
    BY <2>1 DEF AllValues
<1>3. IsFiniteSet(Places(vals, T))
  BY PlacesFinite DEF Rows
<1>4. ASSUME NEW b \in T PROVE Numbers(vals[b])
  <2>1. 1 \in Int /\ BatchSize \in Int
    BY BatchSizeType
  <2>2. IsFiniteSet(1 .. BatchSize)
    BY <2>1, FS_Interval
  <2>3. DOMAIN vals[b] \in SUBSET (1 .. BatchSize) /\ vals[b] \in [DOMAIN vals[b] -> Int]
    BY DEF Rows
  <2>4. IsFiniteSet(DOMAIN vals[b])
    BY <2>2, <2>3, FS_Subset
  <2> QED
    BY <2>3, <2>4 DEF Numbers
<1> QED
  BY <1>1, <1>2, <1>3, <1>4 DEF Numbers

LEMMA AllJoins ==
  ASSUME NEW vals, NEW T, NEW b \in T, Rows(vals, T)
  PROVE  Joins(AllValues(vals, T), AllValues(vals, T \ {b}), Row(b, vals[b]))
<1> DEFINE J == AllValues(vals, T)
           L == AllValues(vals, T \ {b})
           R == Row(b, vals[b])
<1>1. Rows(vals, T \ {b})
  BY FS_RemoveElement DEF Rows
<1>2. /\ Numbers(J) /\ DOMAIN J = Places(vals, T)
      /\ Numbers(L) /\ DOMAIN L = Places(vals, T \ {b})
      /\ Numbers(R) /\ DOMAIN R = {b} \X DOMAIN vals[b]
  BY <1>1, AllNumbers, RowSame
<1>3. Places(vals, T) = Places(vals, T \ {b}) \cup ({b} \X DOMAIN vals[b])
  <2>1. ASSUME NEW p \in Places(vals, T)
        PROVE  p \in Places(vals, T \ {b}) \cup ({b} \X DOMAIN vals[b])
    BY DEF Places
  <2>2. ASSUME NEW p \in Places(vals, T \ {b}) PROVE p \in Places(vals, T)
    BY DEF Places
  <2>3. ASSUME NEW p \in {b} \X DOMAIN vals[b] PROVE p \in Places(vals, T)
    <3>1. DOMAIN vals[b] \subseteq 1 .. BatchSize
      BY DEF Rows
    <3> QED
      BY <3>1 DEF Places
  <2> QED
    BY <2>1, <2>2, <2>3
<1>4. \A p \in Places(vals, T \ {b}) : p \notin {b} \X DOMAIN vals[b] /\ p \in Places(vals, T)
  BY DEF Places
<1>5. \A p \in Places(vals, T \ {b}) : J[p] = L[p]
  BY <1>4 DEF AllValues
<1>6. \A p \in {b} \X DOMAIN vals[b] : J[p] = R[p]
  <2>1. \A p \in {b} \X DOMAIN vals[b] : p \in Places(vals, T) /\ p[1] = b
    BY <1>3
  <2> QED
    BY <2>1 DEF AllValues, Row
<1> HIDE DEF J, L, R
<1>7. Joins(J, L, R)
  BY <1>2, <1>3, <1>4, <1>5, <1>6 DEF Joins
<1> QED
  BY <1>7 DEF J, L, R

-----------------------------------------------------------------------------
(* The batches in ascending order, and their statistics merged so.         *)

\* The fold that is Ascending.
AscendingFold(iter, S) ==
  /\ iter \in [SUBSET S -> Seq(Int)]
  /\ iter = [T \in SUBSET S |-> IF T = {} THEN << >>
                                ELSE Append(iter[T \ {Max(T)}], Max(T))]

\* A finite set of integers.
Finitely(S) == IsFiniteSet(S) /\ S \subseteq Int

LEMMA PartHasMax ==
  ASSUME NEW S, Finitely(S)
  PROVE  \A T \in SUBSET S : Finitely(T) /\ (T # {} => Max(T) \in T /\ \A y \in T : Max(T) >= y)
<1> SUFFICES ASSUME NEW T \in SUBSET S
             PROVE  Finitely(T) /\ (T # {} => Max(T) \in T /\ \A y \in T : Max(T) >= y)
  OBVIOUS
<1>1. IsFiniteSet(T) /\ T \subseteq Int
  BY FS_Subset DEF Finitely
<1> QED
  BY <1>1, Extremes DEF Finitely

LEMMA AscendingIs ==
  ASSUME NEW S, Finitely(S)
  PROVE  \E iter : AscendingFold(iter, S) /\ Ascending(S) = iter[S]
<1> DEFINE pick == [T \in SUBSET S |-> Max(T)]
           step == [p \in S \X Seq(Int) |-> Append(p[2], p[1])]
           Fold(i) == i = [T \in SUBSET S |-> IF T = {} THEN << >>
                                              ELSE Append(i[T \ {Max(T)}], Max(T))]
<1>1. step \in [S \X Seq(Int) -> Seq(Int)]
  <2>1. \A p \in S \X Seq(Int) : p[1] \in Int /\ p[2] \in Seq(Int)
    BY DEF Finitely
  <2>2. \A p \in S \X Seq(Int) : Append(p[2], p[1]) \in Seq(Int)
    BY <2>1
  <2> QED
    BY <2>2
<1>2. \A T \in SUBSET S : pick[T] = Max(T) /\ (T # {} => pick[T] \in T)
  BY PartHasMax
<1>3. \A x \in S, s \in Seq(Int) : step[<<x, s>>] = Append(s, x)
  OBVIOUS
<1> HIDE DEF pick, step
<1>4. PICK iter : Folded(iter, S, Seq(Int), << >>, step, pick)
  <2>1. Folding(S, Seq(Int), << >>, step, pick)
    BY <1>1, <1>2 DEF Folding, Finitely
  <2> QED
    BY <2>1, FoldsExist
<1>5. \A T \in SUBSET S :
        iter[T] = IF T = {} THEN << >> ELSE Append(iter[T \ {Max(T)}], Max(T))
  <2> SUFFICES ASSUME NEW T \in SUBSET S, T # {}
               PROVE  step[<<pick[T], iter[T \ {pick[T]}]>>] = Append(iter[T \ {Max(T)}], Max(T))
    BY <1>4 DEF Folded
  <2>1. pick[T] \in S /\ T \ {pick[T]} \in SUBSET S /\ pick[T] = Max(T)
    BY <1>2
  <2>2. iter[T \ {pick[T]}] \in Seq(Int)
    BY <1>4, <2>1 DEF Folded
  <2>3. step[<<pick[T], iter[T \ {pick[T]}]>>] = Append(iter[T \ {pick[T]}], pick[T])
    BY <1>3, <2>1, <2>2
  <2> QED
    BY <2>1, <2>3
<1>6. iter \in [SUBSET S -> Seq(Int)] /\ iter = [T \in SUBSET S |-> iter[T]]
  BY <1>4 DEF Folded
<1>7. Fold(iter)
  BY <1>5, <1>6
<1>8. Ascending(S) = (CHOOSE i : Fold(i))[S]
  BY DEF Ascending, MapThenFoldSet
<1> DEFINE best == CHOOSE i : Fold(i)
<1>9. Fold(best)
  BY <1>7
<1> HIDE DEF Fold, best
<1>10. ASSUME NEW i, Fold(i) PROVE i \in [SUBSET S -> Seq(Int)]
  <2> DEFINE Bad == {T \in SUBSET S : i[T] \notin Seq(Int)}
  <2>0. /\ i = [T \in SUBSET S |-> i[T]]
        /\ \A T \in SUBSET S : i[T] = IF T = {} THEN << >> ELSE Append(i[T \ {Max(T)}], Max(T))
    BY <1>10 DEF Fold
  <2>1. Bad = {}
    <3> SUFFICES ASSUME Bad # {} PROVE FALSE
      OBVIOUS
    <3>1. PICK T \in Bad : \A x \in T : T \ {x} \notin Bad
      <4>1. Bad \subseteq SUBSET S
        OBVIOUS
      <4> HIDE DEF Bad
      <4> QED
        BY <4>1, MinimalSet DEF Finitely
    <3>2. T \in SUBSET S /\ i[T] \notin Seq(Int)
      OBVIOUS
    <3> DEFINE rest == T \ {Max(T)}
    <3>a. i[T] = IF T = {} THEN << >> ELSE Append(i[rest], Max(T))
      BY <2>0, <3>2
    <3>b. << >> \in Seq(Int) /\ \A s \in Seq(Int), x \in Int : Append(s, x) \in Seq(Int)
      OBVIOUS
    <3>3. T # {}
      BY <3>2, <3>a, <3>b
    <3>4. Max(T) \in T /\ Max(T) \in Int
      BY <3>2, <3>3, PartHasMax DEF Finitely
    <3>5. i[rest] \in Seq(Int)
      BY <3>1, <3>2, <3>4
    <3> HIDE DEF rest, Bad
    <3> QED
      BY <3>2, <3>3, <3>4, <3>5, <3>a, <3>b
  <2> QED
    BY <2>0, <2>1
<1>11. best \in [SUBSET S -> Seq(Int)]
  BY <1>9, <1>10
<1>12. AscendingFold(best, S)
  BY <1>9, <1>11 DEF AscendingFold, Fold
<1> QED
  BY <1>8, <1>12 DEF best

LEMMA AscendingStep ==
  ASSUME NEW S, Finitely(S)
  PROVE  /\ Ascending(S) \in Seq(Int)
         /\ S = {} => Ascending(S) = << >>
         /\ S # {} => Ascending(S) = Append(Ascending(S \ {Max(S)}), Max(S))
<1>1. PICK iter : AscendingFold(iter, S) /\ Ascending(S) = iter[S]
  BY AscendingIs
<1>2. ASSUME NEW T \in SUBSET S PROVE Ascending(T) = iter[T]
  <2>1. Finitely(T)
    BY PartHasMax
  <2>2. PICK part : AscendingFold(part, T) /\ Ascending(T) = part[T]
    BY <2>1, AscendingIs
  <2> DEFINE Bad == {U \in SUBSET T : part[U] # iter[U]}
  <2>3. SUFFICES ASSUME Bad # {} PROVE FALSE
    BY <2>2
  <2>4. PICK U \in Bad : \A x \in U : U \ {x} \notin Bad
    <3>1. Bad \subseteq SUBSET T
      OBVIOUS
    <3> HIDE DEF Bad
    <3> QED
      BY <2>1, <2>3, <3>1, MinimalSet DEF Finitely
  <2>5. CASE U = {}
    <3>1. part[U] = << >> /\ iter[U] = << >>
      BY <1>1, <2>2, <2>5 DEF AscendingFold
    <3> QED
      BY <3>1
  <2>6. CASE U # {}
    <3>2. U \in SUBSET S /\ U \in SUBSET T
      OBVIOUS
    <3>1. Max(U) \in U
      BY <2>6, <3>2, PartHasMax
    <3>3. /\ part[U] = Append(part[U \ {Max(U)}], Max(U))
          /\ iter[U] = Append(iter[U \ {Max(U)}], Max(U))
      BY <1>1, <2>2, <2>6, <3>2 DEF AscendingFold
    <3>4. part[U \ {Max(U)}] = iter[U \ {Max(U)}]
      BY <2>4, <3>1
    <3> QED
      BY <3>3, <3>4
  <2> QED
    BY <2>5, <2>6
<1>3. S \in SUBSET S /\ S \ {Max(S)} \in SUBSET S
  OBVIOUS
<1>4. iter[S] = IF S = {} THEN << >> ELSE Append(iter[S \ {Max(S)}], Max(S))
  BY <1>1, <1>3 DEF AscendingFold
<1>5. iter[S] \in Seq(Int)
  BY <1>1, <1>3 DEF AscendingFold
<1>6. Ascending(S \ {Max(S)}) = iter[S \ {Max(S)}]
  BY <1>2, <1>3
<1> QED
  BY <1>1, <1>4, <1>5, <1>6

\* The batches of T with a value.
NonEmpty(vals, T) == {b \in T : DOMAIN vals[b] # {}}

\* The statistics of the values of T, as a merge by index gives them.
IndexStats(vals, T) == ExactStats(AllValues(vals, T), Ascending(NonEmpty(vals, T)))

LEMMA PlacesOf ==
  ASSUME NEW vals, NEW T, Rows(vals, T)
  PROVE  Places(vals, T) = {} <=> NonEmpty(vals, T) = {}
<1>1. ASSUME NEW b \in NonEmpty(vals, T) PROVE Places(vals, T) # {}
  <2>1. b \in T /\ DOMAIN vals[b] \subseteq 1 .. BatchSize
    BY DEF NonEmpty, Rows
  <2>2. PICK i \in DOMAIN vals[b] : TRUE
    BY DEF NonEmpty
  <2>3. <<b, i>> \in Places(vals, T)
    BY <2>1, <2>2 DEF Places
  <2> QED
    BY <2>3
<1>2. ASSUME NEW p \in Places(vals, T) PROVE NonEmpty(vals, T) # {}
  BY DEF Places, NonEmpty
<1> QED
  BY <1>1, <1>2

LEMMA EvenPart ==
  ASSUME NEW vals, NEW S, NEW T \in SUBSET S, Rows(vals, S), Even(AllValues(vals, S))
  PROVE  Rows(vals, T) /\ Even(AllValues(vals, T))
<1>1. Rows(vals, T)
  BY FS_Subset DEF Rows
<1>2. Places(vals, T) \in SUBSET Places(vals, S) /\ IsFiniteSet(Places(vals, S))
  BY PlacesFinite DEF Places, Rows
<1>3. Cardinality(Places(vals, T)) <= Cardinality(Places(vals, S))
  BY <1>2, FS_Subset
<1>4. Cardinality(Places(vals, T)) \in Nat /\ Cardinality(Places(vals, S)) \in Nat
  BY <1>2, FS_Subset, FS_CardinalityType
<1>5. DOMAIN AllValues(vals, T) = Places(vals, T) /\ DOMAIN AllValues(vals, S) = Places(vals, S)
  BY DEF AllValues
<1>6. 1 .. Cardinality(Places(vals, T)) \subseteq 1 .. Cardinality(Places(vals, S))
  BY <1>3, <1>4
<1>7. Even(AllValues(vals, T))
  BY <1>5, <1>6 DEF Even
<1> QED
  BY <1>1, <1>7

LEMMA AscendingLast ==
  ASSUME NEW vals, NEW T, Finitely(T), T # {}
  PROVE  /\ DOMAIN vals[Max(T)] = {} => NonEmpty(vals, T) = NonEmpty(vals, T \ {Max(T)})
         /\ DOMAIN vals[Max(T)] # {} =>
              Ascending(NonEmpty(vals, T))
                = Append(Ascending(NonEmpty(vals, T \ {Max(T)})), Max(T))
<1> DEFINE m == Max(T)
           N == NonEmpty(vals, T)
<1>1. m \in T /\ \A y \in T : m >= y
  BY PartHasMax
<1> HIDE DEF m
<1>2. DOMAIN vals[m] = {} => N = NonEmpty(vals, T \ {m})
  BY DEF NonEmpty
<1>3. ASSUME DOMAIN vals[m] # {} PROVE Ascending(N) = Append(Ascending(NonEmpty(vals, T \ {m})), m)
  <2>1. m \in N /\ \A y \in N : m >= y
    BY <1>1, <1>3 DEF NonEmpty
  <2>2. Finitely(N)
    <3>1. N \in SUBSET T
      BY DEF NonEmpty
    <3> QED
      BY <3>1, PartHasMax
  <2>3. Max(N) = m
    BY <2>1, <2>2, ExtremesAre DEF Finitely
  <2>4. N \ {m} = NonEmpty(vals, T \ {m})
    BY DEF NonEmpty
  <2> HIDE DEF N
  <2>5. Ascending(N) = Append(Ascending(N \ {Max(N)}), Max(N))
    BY <2>1, <2>2, AscendingStep
  <2> QED
    BY <2>3, <2>4, <2>5
<1> QED
  BY <1>2, <1>3 DEF m

\* The batch with the greatest index is merged last.
LEMMA MergeLast ==
  ASSUME NEW vals, NEW T, Finitely(T), T # {}, Rows(vals, T), Even(AllValues(vals, T))
  PROVE  MergeStats(IndexStats(vals, T \ {Max(T)}), StatsOf(Max(T), vals[Max(T)]))
           = IndexStats(vals, T)
<1> DEFINE m == Max(T)
           J == AllValues(vals, T)
           L == AllValues(vals, T \ {m})
           R == Row(m, vals[m])
           ml == Ascending(NonEmpty(vals, T \ {m}))
           mj == Ascending(NonEmpty(vals, T))
<1>1. m \in T
  BY PartHasMax
<1>2. Joins(J, L, R) /\ Numbers(vals[m])
  BY <1>1, AllJoins, AllNumbers
<1>3. StatsOf(m, vals[m]) = ExactStats(R, <<m>>) /\ (DOMAIN R = {} <=> DOMAIN vals[m] = {})
  BY <1>2, StatsOfBatch, RowSame
<1>4. MergeStats(ExactStats(L, ml), ExactStats(R, <<m>>))
        = ExactStats(J, IF DOMAIN R = {} THEN ml
                        ELSE IF DOMAIN L = {} THEN <<m>> ELSE ml \o <<m>>)
  BY <1>2, MergeExact
<1>5. Finitely(NonEmpty(vals, T \ {m})) /\ Rows(vals, T \ {m})
  <2>1. NonEmpty(vals, T \ {m}) \in SUBSET T /\ T \ {m} \in SUBSET T
    BY DEF NonEmpty
  <2> QED
    BY <2>1, PartHasMax, EvenPart
<1>6. ml \in Seq(Int) /\ m \in Int
  BY <1>1, <1>5, AscendingStep DEF Finitely
<1>7. CASE DOMAIN R = {}
  <2>1. mj = ml
    BY <1>3, <1>7, AscendingLast
  <2> HIDE DEF J, L, R, m, ml, mj
  <2> QED
    BY <1>3, <1>4, <1>7, <2>1 DEF IndexStats, J, L, m, ml, mj
<1>8. CASE DOMAIN R # {}
  <2>1. mj = Append(ml, m)
    BY <1>3, <1>8, AscendingLast
  <2>2. Append(ml, m) = ml \o <<m>>
    <3> HIDE DEF ml, m
    <3> QED
      BY <1>6
  <2>3. DOMAIN L = {} => ml = << >>
    <3>1. DOMAIN L = Places(vals, T \ {m})
      BY DEF AllValues
    <3>2. DOMAIN L = {} => NonEmpty(vals, T \ {m}) = {}
      BY <1>5, <3>1, PlacesOf
    <3> QED
      BY <1>5, <3>2, AscendingStep
  <2>4. DOMAIN L = {} => ml \o <<m>> = <<m>>
    <3> HIDE DEF ml, m, L
    <3> QED
      BY <1>6, <2>3
  <2> HIDE DEF J, L, R, m, ml, mj
  <2>5. MergeStats(ExactStats(L, ml), ExactStats(R, <<m>>)) = ExactStats(J, mj)
    BY <1>4, <1>8, <2>1, <2>2, <2>4
  <2> QED
    BY <1>3, <2>5 DEF IndexStats, J, L, m, ml, mj
<1> QED
  BY <1>7, <1>8

\* The fold by which StatsFromBatchStates merges.
StatsFold(iter, D, states) ==
  iter = [T \in SUBSET D |-> IF T = {} THEN EmptyStats
                             ELSE MergeStats(iter[T \ {Max(T)}], states[Max(T)])]

\* _stats_from_batch_states: what the merge by index gives is the statistics
\* of all the values, whichever the batches and their order of arrival.
THEOREM MergedByIndex ==
  ASSUME NEW vals, NEW states, NEW D, DOMAIN states = D, Finitely(D),
         Rows(vals, D), Even(AllValues(vals, D)),
         \A b \in D : states[b] = StatsOf(b, vals[b])
  PROVE  StatsFromBatchStates(states) = IndexStats(vals, D)
<1> DEFINE exact == [T \in SUBSET D |-> IndexStats(vals, T)]
           Fold(i) == StatsFold(i, D, states)
<1>1. ASSUME NEW T \in SUBSET D, T # {}
      PROVE  /\ Max(T) \in T
             /\ MergeStats(IndexStats(vals, T \ {Max(T)}), states[Max(T)]) = IndexStats(vals, T)
  <2>1. Finitely(T) /\ Max(T) \in T /\ Max(T) \in D
    BY <1>1, PartHasMax
  <2>2. Rows(vals, T) /\ Even(AllValues(vals, T))
    BY EvenPart
  <2>3. states[Max(T)] = StatsOf(Max(T), vals[Max(T)])
    BY <2>1
  <2> QED
    BY <1>1, <2>1, <2>2, <2>3, MergeLast
<1>2. IndexStats(vals, {}) = EmptyStats
  <2>1. DOMAIN AllValues(vals, {}) = {}
    BY DEF AllValues, Places
  <2>2. Cardinality({}) = 0
    BY FS_EmptySet
  <2> QED
    BY <2>1, <2>2 DEF IndexStats, ExactStats
<1>3. Fold(exact)
  <2>1. ASSUME NEW T \in SUBSET D
        PROVE  exact[T] = IF T = {} THEN EmptyStats
                          ELSE MergeStats(exact[T \ {Max(T)}], states[Max(T)])
    <3>1. exact[T] = IndexStats(vals, T) /\ exact[T \ {Max(T)}] = IndexStats(vals, T \ {Max(T)})
      OBVIOUS
    <3> HIDE DEF exact
    <3> QED
      BY <1>1, <1>2, <3>1
  <2>2. exact = [T \in SUBSET D |-> exact[T]]
    OBVIOUS
  <2> HIDE DEF exact
  <2> QED
    BY <2>1, <2>2 DEF StatsFold
<1>4. StatsFromBatchStates(states) = (CHOOSE i : Fold(i))[D]
  BY DEF StatsFromBatchStates, MapThenFoldSet, StatsFold
<1> DEFINE best == CHOOSE i : Fold(i)
<1>5. Fold(best)
  BY <1>3
<1> HIDE DEF best, Fold
<1>6. ASSUME NEW T \in SUBSET D
      PROVE  best[T] = IF T = {} THEN EmptyStats
                       ELSE MergeStats(best[T \ {Max(T)}], states[Max(T)])
  BY <1>5 DEF Fold, StatsFold
<1> DEFINE Bad == {T \in SUBSET D : best[T] # IndexStats(vals, T)}
<1>7. Bad = {}
  <2> SUFFICES ASSUME Bad # {} PROVE FALSE
    OBVIOUS
  <2>1. PICK T \in Bad : \A x \in T : T \ {x} \notin Bad
    <3>1. Bad \subseteq SUBSET D
      OBVIOUS
    <3> HIDE DEF Bad
    <3> QED
      BY <3>1, MinimalSet DEF Finitely
  <2>2. T \in SUBSET D /\ best[T] # IndexStats(vals, T)
    OBVIOUS
  <2>3. T # {}
    BY <1>2, <1>6, <2>2
  <2>4. Max(T) \in T
    BY <1>1, <2>2, <2>3
  <2>5. best[T \ {Max(T)}] = IndexStats(vals, T \ {Max(T)})
    BY <2>1, <2>2, <2>4
  <2> HIDE DEF Bad
  <2>6. best[T] = MergeStats(best[T \ {Max(T)}], states[Max(T)])
    BY <1>6, <2>2, <2>3
  <2>7. MergeStats(IndexStats(vals, T \ {Max(T)}), states[Max(T)]) = IndexStats(vals, T)
    BY <1>1, <2>2, <2>3
  <2> QED
    BY <2>2, <2>5, <2>6, <2>7
<1>8. D \in SUBSET D
  OBVIOUS
<1> QED
  BY <1>4, <1>7, <1>8 DEF best

-----------------------------------------------------------------------------
(* The chunks, and the histogram over them.                                *)

\* The values of a batch.
Chunk == UNION {[I -> Int] : I \in SUBSET (1 .. BatchSize)}

LEMMA ChunkTyped ==
  ASSUME NEW v
  PROVE  /\ v \in Chunk <=> v \in [DOMAIN v -> Int] /\ DOMAIN v \subseteq 1 .. BatchSize
         /\ v \in Chunk => Numbers(v)
<1>1. v \in Chunk <=> v \in [DOMAIN v -> Int] /\ DOMAIN v \subseteq 1 .. BatchSize
  <2>1. ASSUME v \in Chunk PROVE v \in [DOMAIN v -> Int] /\ DOMAIN v \subseteq 1 .. BatchSize
    BY <2>1 DEF Chunk
  <2>2. ASSUME v \in [DOMAIN v -> Int], DOMAIN v \subseteq 1 .. BatchSize PROVE v \in Chunk
    BY <2>2 DEF Chunk
  <2> QED
    BY <2>1, <2>2
<1>2. ASSUME v \in Chunk PROVE Numbers(v)
  <2>1. 1 \in Int /\ BatchSize \in Int
    BY BatchSizeType
  <2>2. IsFiniteSet(1 .. BatchSize)
    BY <2>1, FS_Interval
  <2>3. DOMAIN v \in SUBSET (1 .. BatchSize)
    BY <1>1, <1>2
  <2> QED
    BY <1>1, <1>2, <2>2, <2>3, FS_Subset DEF Numbers
<1> QED
  BY <1>1, <1>2

LEMMA HistogramTyped ==
  ASSUME NEW v, NEW lo, NEW hi, Numbers(v)
  PROVE  /\ Histogram(v, lo, hi) \in [1 .. HistogramBins -> Nat]
         /\ DOMAIN v = {} => Histogram(v, lo, hi) = NoCounts
<1> DEFINE In(k) == {i \in DOMAIN v : v[i] \in lo .. hi /\ Bin(v[i], lo, hi) = k}
<1>1. ASSUME NEW k \in 1 .. HistogramBins
      PROVE  Cardinality(In(k)) \in Nat /\ (DOMAIN v = {} => Cardinality(In(k)) = 0)
  <2>1. In(k) \in SUBSET DOMAIN v
    OBVIOUS
  <2>2. IsFiniteSet(In(k))
    BY <2>1, FS_Subset DEF Numbers
  <2>3. DOMAIN v = {} => In(k) = {}
    OBVIOUS
  <2> HIDE DEF In
  <2> QED
    BY <2>2, <2>3, FS_CardinalityType, FS_EmptySet
<1>2. Histogram(v, lo, hi) = [k \in 1 .. HistogramBins |-> Cardinality(In(k))]
  BY DEF Histogram
<1> HIDE DEF In
<1> QED
  BY <1>1, <1>2 DEF NoCounts

LEMMA RecomputeNone ==
  ASSUME NEW lo, NEW hi
  PROVE  RecomputeHistogram(<< >>, lo, hi) = NoCounts
<1> DEFINE heights(k) == [i \in DOMAIN << >> |-> Histogram(<< >>[i], lo, hi)[k]]
<1>1. ASSUME NEW k \in 1 .. HistogramBins PROVE SumFunction(heights(k)) = 0
  <2>1. DOMAIN heights(k) = {}
    OBVIOUS
  <2> HIDE DEF heights
  <2>2. Terms(heights(k), {})
    BY FS_EmptySet DEF Terms
  <2>3. SumFunctionOnSet(heights(k), {}) = 0
    BY <2>2, SumStep
  <2> QED
    BY <2>1, <2>3 DEF SumFunction
<1>2. RecomputeHistogram(<< >>, lo, hi) = [k \in 1 .. HistogramBins |-> SumFunction(heights(k))]
  BY DEF RecomputeHistogram
<1> HIDE DEF heights
<1> QED
  BY <1>1, <1>2 DEF NoCounts

LEMMA RecomputeMore ==
  ASSUME NEW chunks \in Seq(Chunk), NEW v \in Chunk, NEW lo, NEW hi
  PROVE  RecomputeHistogram(Append(chunks, v), lo, hi)
           = AddCounts(RecomputeHistogram(chunks, lo, hi), Histogram(v, lo, hi))
<1> DEFINE more == Append(chunks, v)
           n == Len(chunks)
           g(k) == [i \in DOMAIN chunks |-> Histogram(chunks[i], lo, hi)[k]]
           h(k) == [i \in DOMAIN more |-> Histogram(more[i], lo, hi)[k]]
<1>1. /\ n \in Nat /\ DOMAIN chunks = 1 .. n /\ DOMAIN more = 1 .. n + 1
      /\ more[n + 1] = v
      /\ \A i \in 1 .. n : chunks[i] \in Chunk /\ more[i] = chunks[i]
  OBVIOUS
<1> HIDE DEF more, n
<1>2. ASSUME NEW k \in 1 .. HistogramBins
      PROVE  SumFunction(h(k)) = SumFunction(g(k)) + Histogram(v, lo, hi)[k]
  <2>1. \A i \in 1 .. n : Histogram(chunks[i], lo, hi)[k] \in Int
    <3> SUFFICES ASSUME NEW i \in 1 .. n PROVE Histogram(chunks[i], lo, hi)[k] \in Int
      OBVIOUS
    <3>1. Numbers(chunks[i])
      BY <1>1, ChunkTyped
    <3>2. Histogram(chunks[i], lo, hi) \in [1 .. HistogramBins -> Nat]
      BY <3>1, HistogramTyped
    <3> HIDE DEF g, h
    <3>3. \A f \in [1 .. HistogramBins -> Nat] : f[k] \in Int
      OBVIOUS
    <3> QED
      BY <3>2, <3>3
  <2>2. Histogram(v, lo, hi)[k] \in Int
    <3>1. Numbers(v)
      BY ChunkTyped
    <3>2. Histogram(v, lo, hi) \in [1 .. HistogramBins -> Nat]
      BY <3>1, HistogramTyped
    <3> QED
      BY <3>2
  <2>3. /\ DOMAIN g(k) = 1 .. n /\ DOMAIN h(k) = 1 .. n + 1
        /\ \A i \in 1 .. n : g(k)[i] = Histogram(chunks[i], lo, hi)[k] /\ h(k)[i] = g(k)[i]
        /\ h(k)[n + 1] = Histogram(v, lo, hi)[k]
    BY <1>1
  <2>4. /\ IsFiniteSet(1 .. n) /\ IsFiniteSet(1 .. n + 1)
        /\ (1 .. n + 1) \ {n + 1} = 1 .. n /\ n + 1 \in 1 .. n + 1
    <3>1. 1 \in Int /\ n \in Int /\ n + 1 \in Int
      BY <1>1
    <3>2. IsFiniteSet(1 .. n) /\ IsFiniteSet(1 .. n + 1)
      BY <3>1, FS_Interval
    <3>3. n + 1 \in 1 .. n + 1 /\ \A x : x \in (1 .. n + 1) \ {n + 1} <=> x \in 1 .. n
      BY <1>1
    <3> QED
      BY <3>2, <3>3
  <2> DEFINE gk == g(k)
             hk == h(k)
  <2>5. Terms(gk, 1 .. n) /\ Terms(hk, 1 .. n)
    BY <2>1, <2>3, <2>4 DEF Terms
  <2>6. \A i \in 1 .. n + 1 : hk[i] \in Int
    <3>1. \A i \in 1 .. n + 1 : i \in 1 .. n \/ i = n + 1
      BY <1>1
    <3> QED
      BY <2>1, <2>2, <2>3, <3>1
  <2>7. Terms(hk, 1 .. n + 1)
    BY <2>4, <2>6 DEF Terms
  <2>8. \A i \in 1 .. n : gk[i] = hk[i]
    BY <2>3
  <2>9. SumFunction(hk) = SumFunctionOnSet(hk, 1 .. n + 1) /\ SumFunction(gk) = SumFunctionOnSet(gk, 1 .. n)
    BY <2>3 DEF SumFunction
  <2>10. hk[n + 1] = Histogram(v, lo, hi)[k]
    BY <2>3
  <2> HIDE DEF gk, hk
  <2>11. SumFunctionOnSet(gk, 1 .. n) = SumFunctionOnSet(hk, 1 .. n)
    BY <2>5, <2>8, SumSame
  <2>12. SumFunctionOnSet(hk, 1 .. n + 1)
           = hk[n + 1] + SumFunctionOnSet(hk, (1 .. n + 1) \ {n + 1})
    BY <2>4, <2>7, SumStep
  <2>13. SumFunctionOnSet(hk, 1 .. n) \in Int
    BY <2>5, SumStep
  <2>14. SumFunction(hk) = SumFunction(gk) + Histogram(v, lo, hi)[k]
    <3>1. SumFunctionOnSet(hk, 1 .. n + 1) = hk[n + 1] + SumFunctionOnSet(hk, 1 .. n)
      BY <2>4, <2>12
    <3>2. SumFunctionOnSet(hk, 1 .. n + 1) = SumFunctionOnSet(hk, 1 .. n) + Histogram(v, lo, hi)[k]
      BY <2>2, <2>10, <2>13, <3>1
    <3> QED
      BY <2>9, <2>11, <3>2
  <2> QED
    BY <2>14 DEF gk, hk
<1>3. /\ RecomputeHistogram(more, lo, hi) = [k \in 1 .. HistogramBins |-> SumFunction(h(k))]
      /\ RecomputeHistogram(chunks, lo, hi) = [k \in 1 .. HistogramBins |-> SumFunction(g(k))]
  BY DEF RecomputeHistogram
<1> HIDE DEF g, h
<1>4. AddCounts(RecomputeHistogram(chunks, lo, hi), Histogram(v, lo, hi))
        = [k \in 1 .. HistogramBins |-> SumFunction(g(k)) + Histogram(v, lo, hi)[k]]
  BY <1>3 DEF AddCounts
<1>5. RecomputeHistogram(more, lo, hi)
        = AddCounts(RecomputeHistogram(chunks, lo, hi), Histogram(v, lo, hi))
  BY <1>2, <1>3, <1>4
<1> QED
  BY <1>5 DEF more

-----------------------------------------------------------------------------
(* What the state of a series stands for.                                  *)

Counted == {"candidate", "valid", "discarded", "stats", "batchStats", "chunks"}
Drawn == {"edges", "counts"}

\* The totals kept in state are those of the batches in D, of the given sizes,
\* whose values are vals; each field in terms of these alone, but for the
\* order in which the running statistics were merged.
Represents(state, vals, sizes, D) ==
  /\ Counted \subseteq DOMAIN state
  /\ state.candidate = SumFunctionOnSet(sizes, D)
  /\ state.valid = Cardinality(Places(vals, D))
  /\ state.discarded = state.candidate - state.valid
  /\ \E m : state.stats = ExactStats(AllValues(vals, D), m)
  /\ DOMAIN state.batchStats = D
  /\ \A b \in D : state.batchStats[b] = StatsOf(b, vals[b])
  /\ state.chunks \in Seq(Chunk)
  /\ state.chunks = << >> <=> Places(vals, D) = {}
  /\ \A lo, hi :
       RecomputeHistogram(state.chunks, lo, hi) = Histogram(AllValues(vals, D), lo, hi)

\* The extremes of the values, and their histogram between them.
Low(vals, D) == Min(Range(AllValues(vals, D)))
High(vals, D) == Max(Range(AllValues(vals, D)))

Draws(state, vals, D) ==
  /\ Drawn \subseteq DOMAIN state
  /\ Places(vals, D) = {} => state.edges = <<0, 0>> /\ state.counts = NoCounts
  /\ Places(vals, D) # {} =>
       /\ state.edges = <<Low(vals, D), High(vals, D)>>
       /\ state.counts = Histogram(AllValues(vals, D), Low(vals, D), High(vals, D))

Tallied(t, state, b, size, v, stats) ==
  Counted \subseteq DOMAIN state /\ t = Tally(state, b, size, v, stats)

LEMMA TallyFields ==
  ASSUME NEW state, NEW b, NEW size, NEW v, NEW stats,
         NEW t, Tallied(t, state, b, size, v, stats)
  PROVE  /\ DOMAIN t = DOMAIN state
         /\ t.stats = MergeStats(state.stats, stats)
         /\ DOMAIN t.batchStats = DOMAIN state.batchStats \cup {b}
         /\ t.batchStats[b] = stats
         /\ \A x \in DOMAIN state.batchStats : x # b => t.batchStats[x] = state.batchStats[x]
         /\ Drawn \subseteq DOMAIN state => t.edges = state.edges /\ t.counts = state.counts
<1>1. /\ "candidate" \in DOMAIN state /\ "valid" \in DOMAIN state
      /\ "discarded" \in DOMAIN state /\ "stats" \in DOMAIN state
      /\ "batchStats" \in DOMAIN state /\ "chunks" \in DOMAIN state
  BY DEF Counted, Tallied
<1>2. Drawn \subseteq DOMAIN state => "edges" \in DOMAIN state /\ "counts" \in DOMAIN state
  BY DEF Drawn
<1>3. t = Tally(state, b, size, v, stats)
  BY DEF Tallied
<1> QED
  BY <1>1, <1>2, <1>3 DEF Tally

LEMMA TallyCounts ==
  ASSUME NEW state, NEW b, NEW size, NEW v, NEW stats,
         NEW t, Tallied(t, state, b, size, v, stats)
  PROVE  /\ t.candidate = state.candidate + size
         /\ t.valid = state.valid + Cardinality(DOMAIN v)
         /\ t.discarded = state.discarded + size - Cardinality(DOMAIN v)
<1>1. /\ "candidate" \in DOMAIN state /\ "valid" \in DOMAIN state
      /\ "discarded" \in DOMAIN state /\ "stats" \in DOMAIN state
      /\ "batchStats" \in DOMAIN state /\ "chunks" \in DOMAIN state
  BY DEF Counted, Tallied
<1>3. t = Tally(state, b, size, v, stats)
  BY DEF Tallied
<1> QED
  BY <1>1, <1>3 DEF Tally

LEMMA TallyChunks ==
  ASSUME NEW state, NEW b, NEW size, NEW v, NEW stats,
         NEW t, Tallied(t, state, b, size, v, stats)
  PROVE  /\ DOMAIN v = {} => t.chunks = state.chunks
         /\ DOMAIN v # {} => t.chunks = Append(state.chunks, v)
<1>1. /\ "candidate" \in DOMAIN state /\ "valid" \in DOMAIN state
      /\ "discarded" \in DOMAIN state /\ "stats" \in DOMAIN state
      /\ "batchStats" \in DOMAIN state /\ "chunks" \in DOMAIN state
  BY DEF Counted, Tallied
<1>3. t = Tally(state, b, size, v, stats)
  BY DEF Tallied
<1> QED
  BY <1>1, <1>3 DEF Tally

LEMMA AccumulateFields ==
  ASSUME NEW state, NEW b, NEW size, NEW v, NEW stats,
         Drawn \subseteq DOMAIN state,
         NEW t, Tallied(t, state, b, size, v, stats),
         NEW a, a = Accumulate(state, b, size, v, stats)
  PROVE  /\ DOMAIN a = DOMAIN state
         /\ \A f \in Counted : a[f] = t[f]
         /\ a.candidate = t.candidate /\ a.valid = t.valid /\ a.discarded = t.discarded
         /\ a.stats = t.stats /\ a.batchStats = t.batchStats /\ a.chunks = t.chunks
         /\ DOMAIN v # {} /\ EdgesMoved(state, t.stats) =>
              /\ a.edges = <<t.stats.min, t.stats.max>>
              /\ a.counts = RecomputeHistogram(t.chunks, t.stats.min, t.stats.max)
         /\ ~(DOMAIN v # {} /\ EdgesMoved(state, t.stats)) =>
              /\ a.edges = state.edges
              /\ a.counts = AddCounts(state.counts, Histogram(v, state.edges[1], state.edges[2]))
<1>1. DOMAIN t = DOMAIN state /\ t.edges = state.edges /\ t.counts = state.counts
  <2>1. DOMAIN t = DOMAIN state
    BY TallyFields
  <2>2. Drawn \subseteq DOMAIN state => t.edges = state.edges /\ t.counts = state.counts
    BY TallyFields
  <2> QED
    BY <2>1, <2>2
<1>2. "edges" \in DOMAIN t /\ "counts" \in DOMAIN t
  BY <1>1 DEF Drawn
<1> DEFINE moved == DOMAIN v # {} /\ EdgesMoved(state, t.stats)
<1>3. a = [t EXCEPT
             !.edges = IF moved THEN <<t.stats.min, t.stats.max>> ELSE @,
             !.counts = IF moved
                        THEN RecomputeHistogram(t.chunks, t.stats.min, t.stats.max)
                        ELSE AddCounts(@, Histogram(v, state.edges[1], state.edges[2]))]
  BY DEF Accumulate, Tallied
<1>4. /\ "candidate" \in DOMAIN t /\ "valid" \in DOMAIN t
      /\ "discarded" \in DOMAIN t /\ "stats" \in DOMAIN t
      /\ "batchStats" \in DOMAIN t /\ "chunks" \in DOMAIN t
  BY <1>1 DEF Counted, Tallied
<1> HIDE DEF moved
<1>5. /\ DOMAIN a = DOMAIN t
      /\ a.candidate = t.candidate /\ a.valid = t.valid /\ a.discarded = t.discarded
      /\ a.stats = t.stats /\ a.batchStats = t.batchStats /\ a.chunks = t.chunks
  BY <1>2, <1>3, <1>4
<1>6. /\ a.edges = IF moved THEN <<t.stats.min, t.stats.max>> ELSE t.edges
      /\ a.counts = IF moved THEN RecomputeHistogram(t.chunks, t.stats.min, t.stats.max)
                    ELSE AddCounts(t.counts, Histogram(v, state.edges[1], state.edges[2]))
  BY <1>2, <1>3
<1>7. \A f \in Counted : a[f] = t[f]
  BY <1>5 DEF Counted
<1> QED
  BY <1>1, <1>5, <1>6, <1>7 DEF moved

\* The batch b is not one of D, and its numbers may join those of D.
MayJoin(b, vals, sizes, D) ==
  /\ b \notin D
  /\ Rows(vals, D \cup {b}) /\ Even(AllValues(vals, D \cup {b}))
  /\ Terms(sizes, D \cup {b})

LEMMA BatchJoins ==
  ASSUME NEW b, NEW vals, NEW sizes, NEW D, MayJoin(b, vals, sizes, D)
  PROVE  /\ Joins(AllValues(vals, D \cup {b}), AllValues(vals, D), Row(b, vals[b]))
         /\ Even(AllValues(vals, D \cup {b}))
         /\ Rows(vals, D)
         /\ Numbers(vals[b]) /\ vals[b] \in Chunk
         /\ DOMAIN AllValues(vals, D) = Places(vals, D)
         /\ DOMAIN AllValues(vals, D \cup {b}) = Places(vals, D \cup {b})
         /\ Places(vals, D \cup {b}) = Places(vals, D) \cup DOMAIN Row(b, vals[b])
         /\ DOMAIN Row(b, vals[b]) = {} <=> DOMAIN vals[b] = {}
<1> DEFINE E == D \cup {b}
<1>1. E \ {b} = D /\ b \in E /\ D \in SUBSET E
  BY DEF MayJoin
<1>2. Rows(vals, E) /\ Even(AllValues(vals, E))
  BY DEF MayJoin
<1> HIDE DEF E
<1>3. Joins(AllValues(vals, E), AllValues(vals, D), Row(b, vals[b]))
  BY <1>1, <1>2, AllJoins
<1>4. Rows(vals, D)
  BY <1>1, <1>2, EvenPart
<1>5. Numbers(vals[b]) /\ vals[b] \in Chunk
  BY <1>1, <1>2, AllNumbers, ChunkTyped DEF Rows
<1>6. /\ DOMAIN AllValues(vals, D) = Places(vals, D)
      /\ DOMAIN AllValues(vals, E) = Places(vals, E)
  BY DEF AllValues
<1>7. Places(vals, E) = Places(vals, D) \cup DOMAIN Row(b, vals[b])
  BY <1>3, <1>6 DEF Joins
<1>8. DOMAIN Row(b, vals[b]) = {} <=> DOMAIN vals[b] = {}
  BY <1>5, RowSame
<1> QED
  BY <1>2, <1>3, <1>4, <1>5, <1>6, <1>7, <1>8 DEF E

\* One more batch, in any order, leaves the totals those of the batches.
LEMMA RepresentsMore ==
  ASSUME NEW state, NEW vals, NEW sizes, NEW D, NEW b, NEW t,
         Represents(state, vals, sizes, D), MayJoin(b, vals, sizes, D),
         Tallied(t, state, b, sizes[b], vals[b], StatsOf(b, vals[b]))
  PROVE  /\ Represents(t, vals, sizes, D \cup {b})
         /\ \E m : t.stats = ExactStats(AllValues(vals, D \cup {b}), m)
<1> DEFINE E == D \cup {b}
           v == vals[b]
           J == AllValues(vals, E)
           L == AllValues(vals, D)
           R == Row(b, v)
<1>1. E \ {b} = D /\ b \in E /\ Terms(sizes, E) /\ Terms(sizes, D)
  <2>1. E \ {b} = D /\ b \in E /\ Terms(sizes, E)
    BY DEF MayJoin
  <2>2. D \in SUBSET E
    OBVIOUS
  <2>3. IsFiniteSet(D)
    BY <2>1, <2>2, FS_Subset DEF Terms
  <2> QED
    BY <2>1, <2>2, <2>3 DEF Terms
<1>2. /\ Joins(J, L, R) /\ Even(J) /\ Rows(vals, D) /\ Numbers(v) /\ v \in Chunk
      /\ DOMAIN L = Places(vals, D) /\ DOMAIN J = Places(vals, E)
      /\ Places(vals, E) = Places(vals, D) \cup DOMAIN R
      /\ DOMAIN R = {} <=> DOMAIN v = {}
  <2>1. Joins(J, L, R) /\ Even(J) /\ Rows(vals, D) /\ Numbers(v) /\ v \in Chunk
    BY BatchJoins
  <2>2. DOMAIN L = Places(vals, D) /\ DOMAIN J = Places(vals, E)
    BY DEF AllValues
  <2>3. Places(vals, E) = Places(vals, D) \cup DOMAIN R
    <3> HIDE DEF J, L, R, E
    <3> QED
      BY <2>1, <2>2 DEF Joins
  <2>4. DOMAIN R = {} <=> DOMAIN v = {}
    BY BatchJoins
  <2> QED
    BY <2>1, <2>2, <2>3, <2>4
<1>s. /\ Counted \subseteq DOMAIN state
      /\ state.candidate = SumFunctionOnSet(sizes, D)
      /\ state.valid = Cardinality(Places(vals, D))
      /\ state.discarded = state.candidate - state.valid
  BY DEF Represents
<1>m. \E m : state.stats = ExactStats(L, m)
  BY DEF Represents
<1>b. DOMAIN state.batchStats = D /\ \A x \in D : state.batchStats[x] = StatsOf(x, vals[x])
  BY DEF Represents
<1>c. /\ state.chunks \in Seq(Chunk)
      /\ state.chunks = << >> <=> Places(vals, D) = {}
      /\ \A lo, hi : RecomputeHistogram(state.chunks, lo, hi) = Histogram(L, lo, hi)
  BY DEF Represents
<1>3. Counted \subseteq DOMAIN t
  BY TallyFields DEF Tallied
<1>4. /\ t.candidate = SumFunctionOnSet(sizes, E)
      /\ t.candidate = state.candidate + sizes[b]
      /\ state.candidate \in Int /\ sizes[b] \in Int
  <2>1. SumFunctionOnSet(sizes, E) = sizes[b] + SumFunctionOnSet(sizes, E \ {b})
    BY <1>1, SumStep
  <2>2. SumFunctionOnSet(sizes, D) \in Int /\ sizes[b] \in Int
    BY <1>1, SumStep DEF Terms
  <2>3. t.candidate = state.candidate + sizes[b]
    BY TallyCounts
  <2>4. SumFunctionOnSet(sizes, E) = sizes[b] + SumFunctionOnSet(sizes, D)
    BY <1>1, <2>1
  <2> HIDE DEF E
  <2> QED
    BY <1>s, <2>2, <2>3, <2>4
<1>5. /\ t.valid = Cardinality(Places(vals, E))
      /\ t.valid = state.valid + Cardinality(DOMAIN v)
      /\ state.valid \in Int /\ Cardinality(DOMAIN v) \in Int
  <2>1. Cardinality(DOMAIN J) = Cardinality(DOMAIN L) + Cardinality(DOMAIN R)
    BY <1>2, JoinSums
  <2>2. Cardinality(DOMAIN R) = Cardinality(DOMAIN v)
    BY <1>2, RowSame
  <2>3. t.valid = state.valid + Cardinality(DOMAIN v)
    BY TallyCounts
  <2>4. Cardinality(DOMAIN L) \in Nat /\ Cardinality(DOMAIN v) \in Nat
    BY <1>2, SumsTyped DEF Joins
  <2> HIDE DEF E, J, L, R, v
  <2> QED
    BY <1>2, <1>s, <2>1, <2>2, <2>3, <2>4
<1>6. t.discarded = t.candidate - t.valid
  <2>1. t.discarded = state.discarded + sizes[b] - Cardinality(DOMAIN v)
    BY TallyCounts
  <2> DEFINE c == state.candidate
             n == state.valid
             k == Cardinality(DOMAIN v)
             z == sizes[b]
  <2>2. c \in Int /\ n \in Int /\ k \in Int /\ z \in Int
    BY <1>4, <1>5
  <2>3. t.discarded = (c - n) + z - k /\ t.candidate = c + z /\ t.valid = n + k
    BY <1>4, <1>5, <1>s, <2>1
  <2> HIDE DEF c, n, k, z
  <2> QED
    BY <2>2, <2>3
<1>7. \E m : t.stats = ExactStats(J, m)
  <2>1. PICK ml : state.stats = ExactStats(L, ml)
    BY <1>m
  <2>2. StatsOf(b, v) = ExactStats(R, <<b>>)
    <3>1. StatsOf(b, v) = ExactStats(v, <<b>>)
      BY StatsOfBatch
    <3>2. \A m : ExactStats(R, m) = ExactStats(v, m)
      BY <1>2, RowSame
    <3> HIDE DEF R, v
    <3> QED
      BY <3>1, <3>2
  <2>3. t.stats = MergeStats(state.stats, StatsOf(b, v))
    BY TallyFields
  <2> HIDE DEF J, L, R, v
  <2>4. t.stats = ExactStats(J, IF DOMAIN R = {} THEN ml
                                ELSE IF DOMAIN L = {} THEN <<b>> ELSE ml \o <<b>>)
    <3>1. \A mr : MergeStats(ExactStats(L, ml), ExactStats(R, mr))
                   = ExactStats(J, IF DOMAIN R = {} THEN ml
                                   ELSE IF DOMAIN L = {} THEN mr ELSE ml \o mr)
      BY SMTT(30), <1>2, MergeExact
    <3> QED
      BY <2>1, <2>2, <2>3, <3>1
  <2> QED
    BY <2>4
<1>8. DOMAIN t.batchStats = E /\ \A x \in E : t.batchStats[x] = StatsOf(x, vals[x])
  <2>1. /\ DOMAIN t.batchStats = D \cup {b} /\ t.batchStats[b] = StatsOf(b, v)
        /\ \A x \in D : x # b => t.batchStats[x] = state.batchStats[x]
    BY <1>b, TallyFields
  <2>2. b \notin D
    BY DEF MayJoin
  <2>3. ASSUME NEW x \in D PROVE t.batchStats[x] = StatsOf(x, vals[x])
    BY <1>b, <2>1, <2>2, <2>3
  <2>4. \A x \in E : x \in D \/ x = b
    OBVIOUS
  <2>5. DOMAIN t.batchStats = E
    BY <1>b, <2>1
  <2> HIDE DEF E
  <2> QED
    BY <2>1, <2>3, <2>4, <2>5
<1>v. /\ DOMAIN v = {} => t.chunks = state.chunks
      /\ DOMAIN v # {} => t.chunks = Append(state.chunks, v)
  <2>1. Tallied(t, state, b, sizes[b], v, StatsOf(b, v))
    OBVIOUS
  <2>2. PICK size, stats : Tallied(t, state, b, size, v, stats)
    BY <2>1
  <2> HIDE DEF v, E, J, L, R
  <2>3. DOMAIN v = {} => t.chunks = state.chunks
    BY <2>2, TallyChunks
  <2>4. DOMAIN v # {} => t.chunks = Append(state.chunks, v)
    BY <2>2, TallyChunks
  <2> QED
    BY <2>3, <2>4
<1>r. \A lo, hi : Histogram(R, lo, hi) = Histogram(v, lo, hi)
  <2>1. Numbers(v)
    BY <1>2
  <2> QED
    BY <2>1, RowSame
<1>9. CASE DOMAIN v = {}
  <2>1. t.chunks = state.chunks
    BY <1>9, <1>v
  <2>2. J = L /\ Places(vals, E) = Places(vals, D)
    BY <1>2, <1>9, MergeExact
  <2>3. /\ t.chunks \in Seq(Chunk)
        /\ t.chunks = << >> <=> Places(vals, E) = {}
        /\ \A lo, hi : RecomputeHistogram(t.chunks, lo, hi) = Histogram(J, lo, hi)
    BY <1>c, <2>1, <2>2
  <2> HIDE DEF E, J
  <2> QED
    BY <1>3, <1>4, <1>5, <1>6, <1>7, <1>8, <2>3 DEF Represents, E, J
<1>10. CASE DOMAIN v # {}
  <2>1. t.chunks = Append(state.chunks, v)
    BY <1>10, <1>v
  <2>2. t.chunks \in Seq(Chunk) /\ t.chunks # << >>
    BY <1>2, <1>c, <2>1
  <2>3. Places(vals, E) # {}
    BY <1>2, <1>10
  <2>4. ASSUME NEW lo, NEW hi PROVE RecomputeHistogram(t.chunks, lo, hi) = Histogram(J, lo, hi)
    <3>1. RecomputeHistogram(Append(state.chunks, v), lo, hi)
            = AddCounts(RecomputeHistogram(state.chunks, lo, hi), Histogram(v, lo, hi))
      BY <1>2, <1>c, RecomputeMore
    <3>2. Histogram(J, lo, hi) = AddCounts(Histogram(L, lo, hi), Histogram(R, lo, hi))
      BY <1>2, HistogramJoin
    <3>3. Histogram(R, lo, hi) = Histogram(v, lo, hi)
      BY <1>r
    <3>4. RecomputeHistogram(state.chunks, lo, hi) = Histogram(L, lo, hi)
      BY <1>c
    <3> QED
      BY <2>1, <3>1, <3>2, <3>3, <3>4
  <2> HIDE DEF E, J
  <2> QED
    BY <1>3, <1>4, <1>5, <1>6, <1>7, <1>8, <2>2, <2>3, <2>4 DEF Represents, E, J
<1> QED
  BY <1>7, <1>9, <1>10

LEMMA AddNone ==
  ASSUME NEW c \in [1 .. HistogramBins -> Nat]
  PROVE  AddCounts(c, NoCounts) = c
<1>1. \A k \in 1 .. HistogramBins : c[k] + NoCounts[k] = c[k]
  BY DEF NoCounts
<1> QED
  BY <1>1 DEF AddCounts

LEMMA ExactExtremes ==
  ASSUME NEW vals, NEW D, NEW m, Rows(vals, D), Places(vals, D) # {}
  PROVE  /\ ExactStats(AllValues(vals, D), m).min = Low(vals, D)
         /\ ExactStats(AllValues(vals, D), m).max = High(vals, D)
<1> DEFINE v == AllValues(vals, D)
<1>1. DOMAIN v = Places(vals, D) /\ Numbers(v)
  BY AllNumbers
<1>2. Cardinality(DOMAIN v) # 0
  BY <1>1, SumsTyped
<1> QED
  BY <1>2 DEF ExactStats, Low, High

\* The start of a run: no batch is in.
LEMMA RepresentsNone ==
  ASSUME NEW vals, NEW sizes
  PROVE  /\ Represents(NewBranch, vals, sizes, {}) /\ Draws(NewBranch, vals, {})
         /\ Represents(NewPaired, vals, sizes, {})
<1>1. Places(vals, {}) = {} /\ Cardinality({}) = 0
  BY FS_EmptySet DEF Places
<1>2. SumFunctionOnSet(sizes, {}) = 0
  <2>1. Terms(sizes, {})
    BY FS_EmptySet DEF Terms
  <2> QED
    BY <2>1, SumStep
<1>3. DOMAIN AllValues(vals, {}) = {}
  BY <1>1 DEF AllValues
<1>4. EmptyStats = ExactStats(AllValues(vals, {}), << >>)
  BY <1>1, <1>3 DEF ExactStats
<1>5. ASSUME NEW lo, NEW hi
      PROVE  RecomputeHistogram(<< >>, lo, hi) = Histogram(AllValues(vals, {}), lo, hi)
  <2>1. Numbers(AllValues(vals, {}))
    <3>1. Rows(vals, {})
      BY FS_EmptySet DEF Rows
    <3> QED
      BY <3>1, AllNumbers
  <2>2. Histogram(AllValues(vals, {}), lo, hi) = NoCounts
    BY <1>3, <2>1, HistogramTyped
  <2> QED
    BY <2>2, RecomputeNone
<1>6. << >> \in Seq(Chunk) /\ DOMAIN << >> = {}
  OBVIOUS
<1>7. ASSUME NEW s, Counted \subseteq DOMAIN s, s.candidate = 0, s.valid = 0, s.discarded = 0,
             s.stats = EmptyStats, s.batchStats = << >>, s.chunks = << >>
      PROVE  Represents(s, vals, sizes, {})
  <2>1. s.candidate = SumFunctionOnSet(sizes, {}) /\ s.valid = Cardinality(Places(vals, {}))
    BY <1>1, <1>2, <1>7
  <2>2. s.discarded = s.candidate - s.valid
    BY <1>7
  <2>3. \E m : s.stats = ExactStats(AllValues(vals, {}), m)
    BY <1>4, <1>7
  <2>4. DOMAIN s.batchStats = {}
    BY <1>6, <1>7
  <2>5. s.chunks \in Seq(Chunk) /\ s.chunks = << >> /\ Places(vals, {}) = {}
    BY <1>1, <1>6, <1>7
  <2>6. \A lo, hi : RecomputeHistogram(s.chunks, lo, hi) = Histogram(AllValues(vals, {}), lo, hi)
    BY <1>5, <1>7
  <2> QED
    BY <1>7, <2>1, <2>2, <2>3, <2>4, <2>5, <2>6 DEF Represents
<1>8. Represents(NewBranch, vals, sizes, {})
  <2>1. Counted \subseteq DOMAIN NewBranch
    BY DEF NewBranch, Counted
  <2>2. /\ NewBranch.candidate = 0 /\ NewBranch.valid = 0 /\ NewBranch.discarded = 0
        /\ NewBranch.stats = EmptyStats /\ NewBranch.batchStats = << >>
        /\ NewBranch.chunks = << >>
    BY DEF NewBranch
  <2> QED
    BY <1>7, <2>1, <2>2
<1>9. Represents(NewPaired, vals, sizes, {})
  <2>1. Counted \subseteq DOMAIN NewPaired
    BY DEF NewPaired, Counted
  <2>2. /\ NewPaired.candidate = 0 /\ NewPaired.valid = 0 /\ NewPaired.discarded = 0
        /\ NewPaired.stats = EmptyStats /\ NewPaired.batchStats = << >>
        /\ NewPaired.chunks = << >>
    BY DEF NewPaired
  <2> QED
    BY <1>7, <2>1, <2>2
<1>10. Draws(NewBranch, vals, {})
  <2>1. Drawn \subseteq DOMAIN NewBranch
    BY DEF NewBranch, Drawn
  <2>2. NewBranch.edges = <<0, 0>> /\ NewBranch.counts = NoCounts
    BY DEF NewBranch
  <2> QED
    BY <1>1, <2>1, <2>2 DEF Draws
<1> QED
  BY <1>8, <1>9, <1>10

\* The histogram that is updated as the batches arrive is that of all of them.
LEMMA DrawsMore ==
  ASSUME NEW state, NEW vals, NEW sizes, NEW D, NEW b, NEW a,
         Represents(state, vals, sizes, D), Draws(state, vals, D),
         MayJoin(b, vals, sizes, D),
         a = Accumulate(state, b, sizes[b], vals[b], StatsOf(b, vals[b]))
  PROVE  Represents(a, vals, sizes, D \cup {b}) /\ Draws(a, vals, D \cup {b})
<1> DEFINE E == D \cup {b}
           v == vals[b]
           J == AllValues(vals, E)
           L == AllValues(vals, D)
           R == Row(b, v)
           t == Tally(state, b, sizes[b], v, StatsOf(b, v))
<1>1. Tallied(t, state, b, sizes[b], v, StatsOf(b, v))
  BY DEF Tallied, Represents
<1>2. Represents(t, vals, sizes, E)
  <2> HIDE DEF t
  <2> QED
    BY <1>1, RepresentsMore
<1>3. Joins(J, L, R) /\ Numbers(v) /\ Rows(vals, D) /\ Rows(vals, E)
  <2>1. Joins(J, L, R) /\ Numbers(v) /\ Rows(vals, D)
    BY BatchJoins
  <2>2. Rows(vals, E)
    BY DEF MayJoin
  <2> QED
    BY <2>1, <2>2
<1>4. Drawn \subseteq DOMAIN state /\ Counted \subseteq DOMAIN state
  BY DEF Draws, Represents
<1>5. DOMAIN L = Places(vals, D) /\ DOMAIN J = Places(vals, E)
  BY DEF AllValues
<1>6. /\ DOMAIN R = {} <=> DOMAIN v = {}
      /\ \A lo, hi : Histogram(R, lo, hi) = Histogram(v, lo, hi)
  <2>1. Numbers(v)
    BY <1>3
  <2> QED
    BY <2>1, RowSame
<1> DEFINE moved == DOMAIN v # {} /\ EdgesMoved(state, t.stats)
<1> HIDE DEF t, E, v, J, L, R
<1>7. /\ DOMAIN a = DOMAIN state
      /\ a.candidate = t.candidate /\ a.valid = t.valid /\ a.discarded = t.discarded
      /\ a.stats = t.stats /\ a.batchStats = t.batchStats /\ a.chunks = t.chunks
      /\ moved => /\ a.edges = <<t.stats.min, t.stats.max>>
                  /\ a.counts = RecomputeHistogram(t.chunks, t.stats.min, t.stats.max)
      /\ ~moved =>
           /\ a.edges = state.edges
           /\ a.counts = AddCounts(state.counts, Histogram(v, state.edges[1], state.edges[2]))
  <2>1. a = Accumulate(state, b, sizes[b], v, StatsOf(b, v))
    BY DEF v
  <2>2. PICK size, stats : /\ Tallied(t, state, b, size, v, stats)
                           /\ a = Accumulate(state, b, size, v, stats)
    BY <1>1, <2>1
  <2> QED
    BY <1>4, <2>2, AccumulateFields
<1>8. Represents(a, vals, sizes, E)
  BY <1>2, <1>4, <1>7 DEF Represents
<1>9. Drawn \subseteq DOMAIN a
  BY <1>4, <1>7
<1>10. /\ Places(vals, E) # {} => t.stats.min = Low(vals, E) /\ t.stats.max = High(vals, E)
       /\ Places(vals, D) # {} => state.stats.min = Low(vals, D) /\ state.stats.max = High(vals, D)
  <2>1. PICK m : t.stats = ExactStats(J, m)
    BY <1>2 DEF Represents, J
  <2>2. PICK ml : state.stats = ExactStats(L, ml)
    BY DEF Represents, L
  <2> QED
    BY <1>3, <2>1, <2>2, ExactExtremes DEF J, L
<1>11. /\ Places(vals, D) = {} => state.edges = <<0, 0>> /\ state.counts = NoCounts
       /\ Places(vals, D) # {} =>
            /\ state.edges = <<Low(vals, D), High(vals, D)>>
            /\ state.counts = Histogram(L, Low(vals, D), High(vals, D))
  BY DEF Draws, L
<1>12. Histogram(J, Low(vals, E), High(vals, E))
         = AddCounts(Histogram(L, Low(vals, E), High(vals, E)),
                     Histogram(v, Low(vals, E), High(vals, E)))
  BY <1>3, <1>6, HistogramJoin
<1>13. CASE DOMAIN v = {}
  <2>1. J = L /\ Places(vals, E) = Places(vals, D)
    <3>1. DOMAIN R = {}
      BY <1>6, <1>13
    <3>2. J = L
      <4>1. /\ J \in [DOMAIN J -> Int] /\ L \in [DOMAIN L -> Int] /\ DOMAIN J = DOMAIN L
            /\ \A x \in DOMAIN L : J[x] = L[x]
        BY <1>3, <3>1 DEF Joins, Numbers
      <4> QED
        BY <4>1
    <3> QED
      BY <1>5, <3>2
  <2>2. Low(vals, E) = Low(vals, D) /\ High(vals, E) = High(vals, D)
    BY <2>1 DEF Low, High, J, L
  <2>3. ~moved
    BY <1>13
  <2>4. a.edges = state.edges /\ a.counts = AddCounts(state.counts, NoCounts)
    <3>1. \A lo, hi : Histogram(v, lo, hi) = NoCounts
      BY <1>3, <1>13, HistogramTyped
    <3> QED
      BY <1>7, <2>3, <3>1
  <2>5. state.counts \in [1 .. HistogramBins -> Nat]
    <3>1. NoCounts \in [1 .. HistogramBins -> Nat]
      BY DEF NoCounts
    <3>2. \A lo, hi : Histogram(L, lo, hi) \in [1 .. HistogramBins -> Nat]
      <4>1. Numbers(L)
        BY <1>3 DEF Joins
      <4> QED
        BY <4>1, HistogramTyped
    <3> QED
      BY <1>11, <3>1, <3>2
  <2>6. a.counts = state.counts
    BY <2>4, <2>5, AddNone
  <2>7. Draws(a, vals, E)
    BY <1>9, <1>11, <2>1, <2>2, <2>4, <2>6 DEF Draws, J, L
  <2> QED
    BY <1>8, <2>7 DEF E
<1>14. CASE DOMAIN v # {}
  <2>1. Places(vals, E) # {}
    BY <1>3, <1>5, <1>6, <1>14 DEF Joins
  <2>2. CASE moved
    <3>1. a.edges = <<Low(vals, E), High(vals, E)>>
      BY <1>7, <1>10, <2>1, <2>2
    <3>2. a.counts = RecomputeHistogram(t.chunks, Low(vals, E), High(vals, E))
      BY <1>7, <1>10, <2>1, <2>2
    <3>3. \A lo, hi : RecomputeHistogram(t.chunks, lo, hi) = Histogram(J, lo, hi)
      BY <1>2 DEF Represents, J
    <3>4. Draws(a, vals, E)
      BY <1>9, <2>1, <3>1, <3>2, <3>3 DEF Draws, J
    <3> QED
      BY <1>8, <3>4 DEF E
  <2>3. CASE ~moved
    <3>1. ~EdgesMoved(state, t.stats)
      BY <1>14, <2>3
    <3>2. state.chunks # << >> /\ t.stats.min = state.stats.min /\ t.stats.max = state.stats.max
      BY <3>1 DEF EdgesMoved
    <3>3. Places(vals, D) # {}
      BY <3>2 DEF Represents
    <3>4. Low(vals, E) = Low(vals, D) /\ High(vals, E) = High(vals, D)
      BY <1>10, <2>1, <3>2, <3>3
    <3>5. a.edges = <<Low(vals, E), High(vals, E)>>
      BY <1>7, <1>11, <2>3, <3>3, <3>4
    <3>6. state.edges[1] = Low(vals, E) /\ state.edges[2] = High(vals, E)
      BY <1>11, <3>3, <3>4
    <3>7. a.counts = AddCounts(Histogram(L, Low(vals, E), High(vals, E)),
                               Histogram(v, Low(vals, E), High(vals, E)))
      BY <1>7, <1>11, <2>3, <3>3, <3>4, <3>6
    <3>8. Draws(a, vals, E)
      BY <1>9, <1>12, <2>1, <3>5, <3>7 DEF Draws, J
    <3> QED
      BY <1>8, <3>8 DEF E
  <2> QED
    BY <2>2, <2>3
<1> QED
  BY <1>13, <1>14 DEF E

-----------------------------------------------------------------------------
(* The sizes of the batches.                                               *)

LEMMA SumPositive ==
  ASSUME NEW S, NEW g, Terms(g, S), \A x \in S : g[x] \in Nat
  PROVE  SumFunctionOnSet(g, S) \in Nat
<1> DEFINE G(T) == SumFunctionOnSet(g, T)
           Bad == {T \in SUBSET S : G(T) \notin Nat}
<1>1. SUFFICES ASSUME Bad # {} PROVE FALSE
  <2>1. S \in SUBSET S
    OBVIOUS
  <2> QED
    BY <2>1
<1>2. PICK T \in Bad : \A x \in T : T \ {x} \notin Bad
  <2>1. Bad \subseteq SUBSET S
    OBVIOUS
  <2> HIDE DEF Bad
  <2> QED
    BY <1>1, <2>1, MinimalSet DEF Terms
<1>3. T \in SUBSET S /\ G(T) \notin Nat
  OBVIOUS
<1>4. Terms(g, T)
  BY <1>3, PartsFinite DEF Terms
<1>5. /\ T = {} => G(T) = 0
      /\ \A x \in T : G(T) = g[x] + G(T \ {x})
  BY <1>4, SumStep
<1>6. PICK x \in T : TRUE
  BY <1>3, <1>5
<1>7. G(T \ {x}) \in Nat /\ g[x] \in Nat
  BY <1>2, <1>3
<1> HIDE DEF G, Bad
<1>8. G(T) = g[x] + G(T \ {x})
  BY <1>5
<1> QED
  BY <1>3, <1>7, <1>8

\* The batches of a plan add up to its iterations.
LEMMA PlanAddsUp ==
  ASSUME NEW plan, NEW n \in Nat \ {0}, Covers(plan, n)
  PROVE  /\ Terms(plan, 1 .. Len(plan)) /\ DOMAIN plan = 1 .. Len(plan)
         /\ \A b \in 1 .. Len(plan) : plan[b] \in 1 .. BatchSize
         /\ SumFunctionOnSet(plan, 1 .. Len(plan)) = n
<1> DEFINE len == Len(plan)
           G(k) == SumFunctionOnSet(plan, 1 .. k)
           Bad == {k \in 0 .. len - 1 : G(k) # k * BatchSize}
<1>1. plan \in Seq(1 .. BatchSize)
  BY DEF Covers
<1>2. /\ len \in Nat \ {0} /\ DOMAIN plan = 1 .. len
      /\ \A b \in 1 .. len : plan[b] \in 1 .. BatchSize
      /\ \A b \in 1 .. len - 1 : plan[b] = BatchSize
      /\ n = (len - 1) * BatchSize + plan[len]
  <2>1. plan # << >> /\ len \in Nat /\ DOMAIN plan = 1 .. len
    BY <1>1 DEF Covers
  <2>2. len # 0
    BY <1>1, <2>1
  <2>3. \A b \in 1 .. len : plan[b] \in 1 .. BatchSize
    BY <1>1, ElementOf
  <2> QED
    BY <2>1, <2>2, <2>3 DEF Covers
<1>3. BatchSize \in Nat \ {0}
  BY BatchSizeType
<1> HIDE DEF len
<1>4. ASSUME NEW k \in 0 .. len PROVE Terms(plan, 1 .. k)
  <2>1. 1 \in Int /\ k \in Int
    BY <1>2
  <2>2. IsFiniteSet(1 .. k)
    BY <2>1, FS_Interval
  <2>3. \A b \in 1 .. k : plan[b] \in Int
    BY <1>2, <1>3
  <2> QED
    BY <2>2, <2>3 DEF Terms
<1>5. G(0) = 0
  <2>1. 1 .. 0 = {} /\ 0 \in 0 .. len
    BY <1>2
  <2>2. Terms(plan, {})
    BY <1>4, <2>1
  <2> QED
    BY <2>1, <2>2, SumStep
<1>6. ASSUME NEW k \in 1 .. len PROVE G(k) = plan[k] + G(k - 1) /\ G(k - 1) \in Int
  <2>1. k \in 1 .. k /\ k - 1 \in 0 .. len /\ k \in 0 .. len
    BY <1>2
  <2>2. (1 .. k) \ {k} = 1 .. k - 1
    <3>1. \A x : x \in (1 .. k) \ {k} <=> x \in 1 .. k - 1
      BY <1>2
    <3> QED
      BY <3>1
  <2>3. Terms(plan, 1 .. k) /\ Terms(plan, 1 .. k - 1)
    BY <1>4, <2>1
  <2>4. SumFunctionOnSet(plan, 1 .. k) = plan[k] + SumFunctionOnSet(plan, (1 .. k) \ {k})
    BY <2>1, <2>3, SumStep
  <2>5. SumFunctionOnSet(plan, 1 .. k - 1) \in Int
    BY <2>3, SumStep
  <2> QED
    BY <2>2, <2>4, <2>5
<1>7. Bad = {}
  <2> SUFFICES ASSUME Bad # {} PROVE FALSE
    OBVIOUS
  <2>1. PICK k \in Bad : \A m \in Bad : k <= m
    <3>1. Bad \subseteq Nat
      BY <1>2
    <3> HIDE DEF Bad
    <3> QED
      BY <3>1, LeastNumber
  <2>2. k \in 0 .. len - 1 /\ G(k) # k * BatchSize
    OBVIOUS
  <2> HIDE DEF G
  <2>3. k # 0
    BY <1>3, <1>5, <2>2
  <2>4. k \in 1 .. len /\ k \in 1 .. len - 1 /\ k - 1 \in 0 .. len - 1 /\ ~(k <= k - 1)
    BY <1>2, <2>2, <2>3
  <2>5. G(k - 1) = (k - 1) * BatchSize
    BY <2>1, <2>4
  <2>6. G(k) = plan[k] + G(k - 1) /\ plan[k] = BatchSize
    BY <1>2, <1>6, <2>4
  <2>7. BatchSize + (k - 1) * BatchSize = k * BatchSize
    BY <1>3, <2>4
  <2> QED
    BY <2>2, <2>5, <2>6, <2>7
<1>8. G(len) = n
  <2>1. len \in 1 .. len /\ len - 1 \in 0 .. len - 1
    BY <1>2
  <2>2. G(len - 1) = (len - 1) * BatchSize
    BY <1>7, <2>1
  <2>3. G(len) = plan[len] + G(len - 1)
    BY <1>6, <2>1
  <2>4. plan[len] \in Int /\ (len - 1) * BatchSize \in Int
    BY <1>2, <1>3, <2>1
  <2> HIDE DEF G
  <2> QED
    BY <1>2, <2>2, <2>3, <2>4
<1>9. Terms(plan, 1 .. len)
  <2>1. len \in 0 .. len
    BY <1>2
  <2> QED
    BY <1>4, <2>1
<1> QED
  BY <1>2, <1>8, <1>9 DEF len

\* The values of a batch are at its iterations.
Fits(vals, sizes, T) ==
  /\ Rows(vals, T) /\ Terms(sizes, T)
  /\ \A b \in T : sizes[b] \in Nat /\ DOMAIN vals[b] \subseteq 1 .. sizes[b]

LEMMA PlacesCount ==
  ASSUME NEW vals, NEW sizes, NEW S, Fits(vals, sizes, S)
  PROVE  Cardinality(Places(vals, S)) <= SumFunctionOnSet(sizes, S)
<1> DEFINE N(T) == Cardinality(Places(vals, T))
           G(T) == SumFunctionOnSet(sizes, T)
           Bad == {T \in SUBSET S : ~(N(T) <= G(T))}
<1>1. SUFFICES ASSUME Bad # {} PROVE FALSE
  <2>1. S \in SUBSET S
    OBVIOUS
  <2> QED
    BY <2>1
<1>0. Rows(vals, S) /\ Terms(sizes, S) /\ IsFiniteSet(S)
  BY DEF Fits, Terms
<1>2. PICK T \in Bad : \A x \in T : T \ {x} \notin Bad
  <2>1. Bad \subseteq SUBSET S
    OBVIOUS
  <2> HIDE DEF Bad
  <2> QED
    BY <1>0, <1>1, <2>1, MinimalSet
<1>3. T \in SUBSET S /\ ~(N(T) <= G(T))
  OBVIOUS
<1>4. \A U \in SUBSET S : Rows(vals, U) /\ Terms(sizes, U)
  BY <1>0, PartsFinite DEF Rows, Terms
<1>5. /\ T = {} => G(T) = 0
      /\ \A x \in T : G(T) = sizes[x] + G(T \ {x})
  BY <1>3, <1>4, SumStep
<1>6. T = {} => N(T) = 0
  <2>1. Places(vals, {}) = {}
    BY DEF Places
  <2> QED
    BY <2>1, FS_EmptySet
<1>7. PICK x \in T : TRUE
  <2>1. T = {} => FALSE
    <3> HIDE DEF N, G, Bad
    <3> QED
      BY <1>3, <1>5, <1>6
  <2> QED
    BY <2>1
<1>8. T \ {x} \in SUBSET S /\ x \in S /\ N(T \ {x}) <= G(T \ {x})
  BY <1>2, <1>3, <1>7
<1>9. N(T) = N(T \ {x}) + Cardinality(DOMAIN vals[x])
  <2> DEFINE J == AllValues(vals, T)
             L == AllValues(vals, T \ {x})
             R == Row(x, vals[x])
  <2>1. Joins(J, L, R)
    BY <1>3, <1>4, <1>7, AllJoins
  <2>2. DOMAIN J = Places(vals, T) /\ DOMAIN L = Places(vals, T \ {x})
    BY DEF AllValues
  <2>3. Numbers(vals[x])
    BY <1>3, <1>4, <1>7, AllNumbers
  <2>4. Cardinality(DOMAIN R) = Cardinality(DOMAIN vals[x])
    BY <2>3, RowSame
  <2> HIDE DEF J, L, R
  <2>5. Cardinality(DOMAIN J) = Cardinality(DOMAIN L) + Cardinality(DOMAIN R)
    BY <2>1, JoinSums
  <2> QED
    BY <2>2, <2>4, <2>5
<1>10. Cardinality(DOMAIN vals[x]) <= sizes[x] /\ Cardinality(DOMAIN vals[x]) \in Nat /\ sizes[x] \in Nat
  <2>1. sizes[x] \in Nat /\ DOMAIN vals[x] \in SUBSET (1 .. sizes[x])
    BY <1>8 DEF Fits
  <2>2. 1 \in Int /\ sizes[x] \in Int
    BY <2>1
  <2>3. IsFiniteSet(1 .. sizes[x]) /\ Cardinality(1 .. sizes[x]) = sizes[x]
    BY SMTT(30), <2>1, <2>2, FS_Interval
  <2>4. Cardinality(DOMAIN vals[x]) <= sizes[x] /\ IsFiniteSet(DOMAIN vals[x])
    BY <2>1, <2>3, FS_Subset
  <2> QED
    BY <2>1, <2>4, FS_CardinalityType
<1>11. N(T \ {x}) \in Nat /\ G(T \ {x}) \in Int
  <2>1. Rows(vals, T \ {x}) /\ Terms(sizes, T \ {x})
    BY <1>4, <1>8
  <2>2. IsFiniteSet(Places(vals, T \ {x}))
    BY <2>1, PlacesFinite DEF Rows
  <2> QED
    BY <2>1, <2>2, FS_CardinalityType, SumStep
<1>12. G(T) = sizes[x] + G(T \ {x})
  BY <1>5, <1>7
<1> DEFINE n == N(T \ {x})
           g == G(T \ {x})
           c == Cardinality(DOMAIN vals[x])
           z == sizes[x]
<1>13. /\ n \in Nat /\ g \in Int /\ c \in Nat /\ z \in Nat /\ n <= g /\ c <= z
       /\ N(T) = n + c /\ G(T) = z + g
  BY <1>8, <1>9, <1>10, <1>11, <1>12
<1> HIDE DEF N, G, Bad, n, g, c, z
<1> QED
  BY <1>3, <1>13

-----------------------------------------------------------------------------
(* The totals that are published, and those that are expected.             *)

\* The totals of the values of the batches in D.
ClosedPayload(series, vals, sizes, D) ==
  LET candidate == SumFunctionOnSet(sizes, D)
      n == Cardinality(Places(vals, D))
      none == Places(vals, D) = {}
  IN IF series = Delta
     THEN [candidate |-> candidate, valid |-> n, discarded |-> candidate - n,
           stats |-> IndexStats(vals, D)]
     ELSE [candidate |-> candidate, valid |-> n, discarded |-> candidate - n,
           stats |-> IndexStats(vals, D),
           edges |-> IF none THEN <<0, 0>> ELSE <<Low(vals, D), High(vals, D)>>,
           counts |-> IF none THEN NoCounts
                      ELSE Histogram(AllValues(vals, D), Low(vals, D), High(vals, D))]

LEMMA PayloadIs ==
  ASSUME NEW series, NEW state, NEW vals, NEW sizes, NEW D,
         Represents(state, vals, sizes, D), series # Delta => Draws(state, vals, D),
         Finitely(D), Rows(vals, D), Even(AllValues(vals, D))
  PROVE  Payload(series, state) = ClosedPayload(series, vals, sizes, D)
<1>1. /\ state.candidate = SumFunctionOnSet(sizes, D)
      /\ state.valid = Cardinality(Places(vals, D))
      /\ state.discarded = SumFunctionOnSet(sizes, D) - Cardinality(Places(vals, D))
  BY DEF Represents
<1>2. StatsFromBatchStates(state.batchStats) = IndexStats(vals, D)
  <2>1. DOMAIN state.batchStats = D /\ \A b \in D : state.batchStats[b] = StatsOf(b, vals[b])
    BY DEF Represents
  <2> QED
    BY <2>1, MergedByIndex
<1>3. CASE series = Delta
  <2>1. Payload(series, state)
          = [candidate |-> state.candidate, valid |-> state.valid,
             discarded |-> state.discarded, stats |-> IndexStats(vals, D)]
    BY <1>2, <1>3 DEF Payload, PairedPayload
  <2>2. ClosedPayload(series, vals, sizes, D)
          = [candidate |-> state.candidate, valid |-> state.valid,
             discarded |-> state.discarded, stats |-> IndexStats(vals, D)]
    BY <1>1, <1>3 DEF ClosedPayload
  <2> QED
    BY <2>1, <2>2
<1>4. CASE series # Delta
  <2> DEFINE none == Places(vals, D) = {}
  <2>1. /\ state.edges = IF none THEN <<0, 0>> ELSE <<Low(vals, D), High(vals, D)>>
        /\ state.counts = IF none THEN NoCounts
                          ELSE Histogram(AllValues(vals, D), Low(vals, D), High(vals, D))
    BY <1>4 DEF Draws
  <2>2. Payload(series, state)
          = [candidate |-> state.candidate, valid |-> state.valid,
             discarded |-> state.discarded, stats |-> IndexStats(vals, D),
             edges |-> state.edges, counts |-> state.counts]
    BY <1>2, <1>4 DEF Payload, BranchPayload
  <2>3. ClosedPayload(series, vals, sizes, D)
          = [candidate |-> state.candidate, valid |-> state.valid,
             discarded |-> state.discarded, stats |-> IndexStats(vals, D),
             edges |-> state.edges, counts |-> state.counts]
    BY <1>1, <1>4, <2>1 DEF ClosedPayload
  <2> QED
    BY <2>2, <2>3
<1> QED
  BY <1>3, <1>4

\* What a worker reports of a batch.
Reported(b, r, size) ==
  /\ \A branch \in Branches : /\ r.arrays[branch] \in Seq(Int \cup {NaN})
                             /\ Len(r.arrays[branch]) = size
  /\ \A series \in Series :
       /\ r.values[series] = IF series = Delta THEN Differences(r.arrays)
                             ELSE Finite(r.arrays[series])
       /\ r.stats[series] = StatsOf(b, r.values[series])

LEMMA SimulatedReports ==
  ASSUME NEW b, NEW size \in Nat \ {0}, NEW arrays \in [Branches -> Results(size)]
  PROVE  Reported(b, Simulated(b, arrays), size)
<1>1. \A branch \in Branches : /\ arrays[branch] \in Seq(Int \cup {NaN})
                              /\ Len(arrays[branch]) = size
  BY ResultsTyped
<1> DEFINE values == [series \in Series |->
                        IF series = Delta THEN Differences(arrays) ELSE Finite(arrays[series])]
           r == Simulated(b, arrays)
<1>2. r.arrays = arrays /\ r.values = values
      /\ r.stats = [series \in Series |-> StatsOf(b, values[series])]
  BY DEF Simulated
<1>3. \A series \in Series :
        /\ values[series] = IF series = Delta THEN Differences(arrays) ELSE Finite(arrays[series])
        /\ r.stats[series] = StatsOf(b, values[series])
  BY <1>2
<1> HIDE DEF r, values
<1>4. Reported(b, r, size)
  BY <1>1, <1>2, <1>3 DEF Reported
<1> QED
  BY <1>4 DEF r

\* The branches that a series depends on.
Sources(series) == IF series = Delta THEN Branches ELSE {series}

\* The value of a series at an iteration.
ValueAt(series, arrays, i) ==
  IF series = Delta THEN arrays["plus"][i] - arrays["minus"][i] ELSE arrays[series][i]

LEMMA ReportedValues ==
  ASSUME NEW series \in Series, NEW b, NEW r, NEW size, size \in 1 .. BatchSize, Reported(b, r, size)
  PROVE  /\ r.values[series] \in Chunk
         /\ \A i : i \in DOMAIN r.values[series] <=>
                     i \in 1 .. size /\ \A s \in Sources(series) : r.arrays[s][i] # NaN
         /\ \A i \in DOMAIN r.values[series] :
              r.values[series][i] = ValueAt(series, r.arrays, i)
<1> DEFINE v == r.values[series]
           A == r.arrays
<1>b. BatchSize \in Nat /\ size \in Nat /\ 1 .. size \subseteq 1 .. BatchSize
  BY BatchSizeType
<1>n. NaN \notin Int
  BY RuntimeAssumption
<1>0. \A branch \in Branches :
        /\ DOMAIN A[branch] = 1 .. size
        /\ \A i \in 1 .. size : A[branch][i] # NaN => A[branch][i] \in Int
  <2> SUFFICES ASSUME NEW branch \in Branches
               PROVE  /\ DOMAIN A[branch] = 1 .. size
                      /\ \A i \in 1 .. size : A[branch][i] # NaN => A[branch][i] \in Int
    OBVIOUS
  <2> DEFINE q == A[branch]
  <2>1. q \in Seq(Int \cup {NaN}) /\ Len(q) = size
    BY DEF Reported
  <2> HIDE DEF q, A
  <2>2. DOMAIN q = 1 .. size /\ \A i \in 1 .. size : q[i] \in Int \cup {NaN}
    BY <2>1, <1>b, ElementOf
  <2> QED
    BY <2>2 DEF q
<1>1. CASE series = Delta
  <2>1. v = Differences(A)
    BY <1>1 DEF Reported
  <2>2. Branches = {"plus", "minus"}
    BY <1>1, RuntimeAssumption DEF Series, Delta
  <2> DEFINE I == {i \in DOMAIN A["plus"] : A["plus"][i] # NaN /\ A["minus"][i] # NaN}
  <2> HIDE DEF A, v
  <2>3. /\ DOMAIN A["plus"] = 1 .. size
        /\ \A i \in 1 .. size : A["plus"][i] # NaN => A["plus"][i] \in Int
        /\ \A i \in 1 .. size : A["minus"][i] # NaN => A["minus"][i] \in Int
    BY <1>0, <2>2
  <2>4. v = [i \in I |-> A["plus"][i] - A["minus"][i]]
    BY <2>1 DEF Differences
  <2>5. \A i : i \in I <=> i \in 1 .. size /\ \A s \in Sources(series) : A[s][i] # NaN
    BY <1>1, <2>2, <2>3 DEF Sources
  <2>6. \A i \in I : A["plus"][i] - A["minus"][i] \in Int
    BY <2>3
  <2>7. \A i \in I : v[i] = ValueAt(series, A, i)
    BY <1>1, <2>4 DEF ValueAt
  <2>8. DOMAIN v = I /\ v \in [I -> Int] /\ I \subseteq 1 .. BatchSize
    BY <1>b, <2>3, <2>4, <2>6
  <2> HIDE DEF I
  <2>9. v \in Chunk
    BY <2>8, ChunkTyped
  <2> QED
    BY <2>5, <2>7, <2>8, <2>9 DEF v, A
<1>2. CASE series # Delta
  <2>1. v = Finite(A[series]) /\ series \in Branches
    BY <1>2 DEF Reported, Series
  <2> DEFINE q == A[series]
             I == {i \in DOMAIN q : q[i] # NaN}
  <2>2. v = [i \in I |-> q[i]]
    BY <2>1 DEF Finite, Restrict
  <2>3. DOMAIN q = 1 .. size /\ \A i \in 1 .. size : q[i] # NaN => q[i] \in Int
    BY <1>0, <2>1
  <2> HIDE DEF A, v
  <2>5. \A i : i \in I <=> i \in 1 .. size /\ \A s \in Sources(series) : A[s][i] # NaN
    BY <1>2, <2>3 DEF Sources
  <2>7. \A i \in I : v[i] = ValueAt(series, A, i)
    BY <1>2, <2>2 DEF ValueAt
  <2>8. DOMAIN v = I /\ v \in [I -> Int] /\ I \subseteq 1 .. BatchSize
    BY <1>b, <2>2, <2>3
  <2> HIDE DEF I
  <2>9. v \in Chunk
    BY <2>8, ChunkTyped
  <2> QED
    BY <2>5, <2>7, <2>8, <2>9 DEF v, A
<1> QED
  BY <1>1, <1>2

\* The values of a series are those of the batches in D that are reported.
Yields(vals, series, D) ==
  /\ IsFiniteSet(D)
  /\ \A b \in D : /\ Plan[b] \in 1 .. BatchSize /\ Reported(b, result[b], Plan[b])
                  /\ vals[b] = result[b].values[series]

LEMMA YieldedValues ==
  ASSUME NEW series \in Series, NEW vals, NEW D, Yields(vals, series, D)
  PROVE  /\ Rows(vals, D) /\ \A b \in D : vals[b] \in Chunk
         /\ \A b \in D : \A i :
              i \in DOMAIN vals[b] <=>
                i \in 1 .. Plan[b] /\ \A s \in Sources(series) : result[b].arrays[s][i] # NaN
         /\ \A b \in D : \A i \in DOMAIN vals[b] :
              vals[b][i] = ValueAt(series, result[b].arrays, i)
<1>1. ASSUME NEW b \in D
      PROVE  /\ vals[b] \in Chunk
             /\ \A i : i \in DOMAIN vals[b] <=>
                         /\ i \in 1 .. Plan[b]
                         /\ \A s \in Sources(series) : result[b].arrays[s][i] # NaN
             /\ \A i \in DOMAIN vals[b] : vals[b][i] = ValueAt(series, result[b].arrays, i)
  <2>1. /\ Plan[b] \in 1 .. BatchSize /\ Reported(b, result[b], Plan[b])
        /\ vals[b] = result[b].values[series]
    BY DEF Yields
  <2> DEFINE r == result[b]
             size == Plan[b]
  <2>2. size \in 1 .. BatchSize /\ Reported(b, r, size) /\ vals[b] = r.values[series]
    BY <2>1
  <2> HIDE DEF r, size
  <2>3. /\ r.values[series] \in Chunk
        /\ \A i : i \in DOMAIN r.values[series] <=>
                    i \in 1 .. size /\ \A s \in Sources(series) : r.arrays[s][i] # NaN
        /\ \A i \in DOMAIN r.values[series] :
             r.values[series][i] = ValueAt(series, r.arrays, i)
    BY <2>2, ReportedValues
  <2> QED
    BY <2>2, <2>3 DEF r, size
<1>2. \A b \in D : vals[b] \in [DOMAIN vals[b] -> Int] /\ DOMAIN vals[b] \subseteq 1 .. BatchSize
  <2> SUFFICES ASSUME NEW b \in D
               PROVE  vals[b] \in [DOMAIN vals[b] -> Int] /\ DOMAIN vals[b] \subseteq 1 .. BatchSize
    OBVIOUS
  <2>1. vals[b] \in Chunk
    BY <1>1
  <2> QED
    BY <2>1, ChunkTyped
<1>3. Rows(vals, D)
  BY <1>2 DEF Rows, Yields
<1> QED
  BY <1>1, <1>3

\* The totals expected of the batches in D are those of their values.
LEMMA ExpectedIs ==
  ASSUME NEW series \in Series, NEW vals, NEW D, Yields(vals, series, D)
  PROVE  ExpectedPayload(series, D) = ClosedPayload(series, vals, Plan, D)
<1> DEFINE sources == IF series = Delta THEN Branches ELSE {series}
           finite == {v \in D \X (1 .. BatchSize) :
                        /\ v[2] <= Plan[v[1]]
                        /\ \A s \in sources : result[v[1]].arrays[s][v[2]] # NaN}
           Of(s, v) == result[v[1]].arrays[s][v[2]]
           values == [v \in finite |-> IF series = Delta THEN Of("plus", v) - Of("minus", v)
                                       ELSE Of(series, v)]
           n == Cardinality(finite)
           mean == (Unit * SumFunction(values)) \div n
           squared == [v \in finite |-> (Unit * values[v] - mean) * (Unit * values[v] - mean)]
           lo == Min(Range(values))
           hi == Max(Range(values))
           candidate == SumFunctionOnSet(Plan, D)
           stats == IF finite = {} THEN EmptyStats
                    ELSE [n |-> n, mean |-> mean, m2 |-> SumFunction(squared) \div Unit,
                          min |-> lo, max |-> hi, merged |-> Ascending({v[1] : v \in finite})]
           counts == [k \in 1 .. HistogramBins |->
                        Cardinality({v \in finite : Bin(values[v], lo, hi) = k})]
           edges == IF finite = {} THEN <<0, 0>> ELSE <<lo, hi>>
           heights == IF finite = {} THEN NoCounts ELSE counts
<1>1. ExpectedPayload(series, D)
        = IF series = Delta
          THEN [candidate |-> candidate, valid |-> n, discarded |-> candidate - n,
                stats |-> stats]
          ELSE [candidate |-> candidate, valid |-> n, discarded |-> candidate - n,
                stats |-> stats, edges |-> edges, counts |-> heights]
  BY DEF ExpectedPayload
<1>2. /\ Rows(vals, D)
      /\ \A b \in D : \A i :
           i \in DOMAIN vals[b] <=>
             i \in 1 .. Plan[b] /\ \A s \in sources : result[b].arrays[s][i] # NaN
      /\ \A b \in D : \A i \in DOMAIN vals[b] :
           vals[b][i] = ValueAt(series, result[b].arrays, i)
  BY YieldedValues DEF Sources
<1>3. finite = Places(vals, D)
  <2>1. \A b \in D : Plan[b] \in 1 .. BatchSize /\ BatchSize \in Nat
    BY BatchSizeType DEF Yields
  <2>2. ASSUME NEW v \in D \X (1 .. BatchSize)
        PROVE  v \in finite <=> v[2] \in DOMAIN vals[v[1]]
    <3>1. v[1] \in D /\ v[2] \in 1 .. BatchSize
      OBVIOUS
    <3>2. v[2] <= Plan[v[1]] <=> v[2] \in 1 .. Plan[v[1]]
      BY <2>1, <3>1
    <3> HIDE DEF sources
    <3> QED
      BY <1>2, <3>1, <3>2
  <2> QED
    BY <2>2 DEF Places
<1>4. values = AllValues(vals, D)
  <2>1. ASSUME NEW v \in Places(vals, D)
        PROVE  vals[v[1]][v[2]] = IF series = Delta THEN Of("plus", v) - Of("minus", v)
                                  ELSE Of(series, v)
    <3>1. v[1] \in D /\ v[2] \in DOMAIN vals[v[1]]
      BY DEF Places
    <3>2. vals[v[1]][v[2]] = ValueAt(series, result[v[1]].arrays, v[2])
      BY <1>2, <3>1
    <3> QED
      BY <3>2 DEF ValueAt
  <2> HIDE DEF Of, finite
  <2> QED
    BY <1>3, <2>1 DEF AllValues
<1>5. {v[1] : v \in finite} = NonEmpty(vals, D)
  <2>1. ASSUME NEW v \in Places(vals, D) PROVE v[1] \in NonEmpty(vals, D)
    BY DEF Places, NonEmpty
  <2>2. ASSUME NEW b \in NonEmpty(vals, D) PROVE \E v \in Places(vals, D) : v[1] = b
    <3>1. b \in D /\ DOMAIN vals[b] \subseteq 1 .. BatchSize
      BY <1>2 DEF NonEmpty, Rows
    <3>2. PICK i \in DOMAIN vals[b] : TRUE
      BY DEF NonEmpty
    <3>3. <<b, i>> \in Places(vals, D)
      BY <3>1, <3>2 DEF Places
    <3> QED
      BY <3>3
  <2> HIDE DEF finite
  <2> QED
    BY <1>3, <2>1, <2>2
<1> DEFINE V == AllValues(vals, D)
<1>6. /\ Numbers(V) /\ DOMAIN V = Places(vals, D)
      /\ n = 0 <=> finite = {}
  <2>1. Numbers(V) /\ DOMAIN V = Places(vals, D)
    BY <1>2, AllNumbers
  <2> HIDE DEF V, finite
  <2> QED
    BY <1>3, <2>1, SumsTyped
<1>7. stats = IndexStats(vals, D)
  <2>1. DOMAIN values = finite
    OBVIOUS
  <2> HIDE DEF finite, values
  <2>2. stats = ExactStats(values, Ascending({v[1] : v \in finite}))
    BY <1>6, <2>1 DEF ExactStats
  <2> QED
    BY <1>4, <1>5, <2>2 DEF IndexStats
<1>8. lo = Low(vals, D) /\ hi = High(vals, D)
  BY <1>4 DEF Low, High
<1>9. finite # {} => counts = Histogram(V, lo, hi)
  <2> SUFFICES ASSUME finite # {} PROVE counts = Histogram(V, lo, hi)
    OBVIOUS
  <2>1. DOMAIN V = finite /\ values = V
    BY <1>3, <1>4, <1>6
  <2> HIDE DEF finite, V, values
  <2>2. ASSUME NEW v \in finite PROVE V[v] \in lo .. hi
    <3>1. Range(V) \subseteq Int /\ IsFiniteSet(Range(V)) /\ Range(V) # {}
      BY <1>6, <2>1, RangeTyped
    <3>2. V[v] \in Range(V)
      BY <2>1 DEF Range
    <3>3. /\ Max(Range(V)) \in Range(V) /\ \A y \in Range(V) : Max(Range(V)) >= y
          /\ Min(Range(V)) \in Range(V) /\ \A y \in Range(V) : Min(Range(V)) <= y
      BY <3>1, Extremes
    <3>4. lo \in Int /\ hi \in Int /\ V[v] \in Int /\ lo <= V[v] /\ hi >= V[v]
      BY <2>1, <3>1, <3>2, <3>3
    <3> HIDE DEF lo, hi
    <3> QED
      BY <3>4
  <2> HIDE DEF lo, hi
  <2>3. \A k : {v \in finite : Bin(V[v], lo, hi) = k}
                 = {v \in DOMAIN V : V[v] \in lo .. hi /\ Bin(V[v], lo, hi) = k}
    BY <2>1, <2>2
  <2> QED
    BY <2>1, <2>3 DEF Histogram
<1> HIDE DEF n, finite, stats, lo, hi, counts, candidate, V
<1>10. /\ n = Cardinality(Places(vals, D)) /\ candidate = SumFunctionOnSet(Plan, D)
       /\ edges = IF Places(vals, D) = {} THEN <<0, 0>> ELSE <<Low(vals, D), High(vals, D)>>
       /\ heights = IF Places(vals, D) = {} THEN NoCounts
                    ELSE Histogram(AllValues(vals, D), Low(vals, D), High(vals, D))
  BY <1>3, <1>8, <1>9 DEF n, candidate, V
<1> HIDE DEF edges, heights
<1> QED
  BY <1>1, <1>7, <1>10 DEF ClosedPayload

-----------------------------------------------------------------------------
(* The state of the script.                                                *)

LEMMA PlanOfRun ==
  ASSUME total \in Totals
  PROVE  /\ Finitely(Batches) /\ Terms(Plan, Batches) /\ Batches # {}
         /\ \A b \in Batches : Plan[b] \in 1 .. BatchSize
         /\ SumFunctionOnSet(Plan, Batches) = total
<1>1. total \in Nat \ {0}
  BY RuntimeAssumption
<1>2. Covers(Plan, total)
  BY <1>1, PlanCovers DEF Plan
<1>3. /\ Terms(Plan, 1 .. Len(Plan)) /\ \A b \in 1 .. Len(Plan) : Plan[b] \in 1 .. BatchSize
      /\ SumFunctionOnSet(Plan, 1 .. Len(Plan)) = total
  BY <1>1, <1>2, PlanAddsUp
<1>4. Batches = 1 .. Len(Plan) /\ Len(Plan) \in Nat /\ IsFiniteSet(Batches)
  BY BatchesFinite
<1>5. Finitely(Batches)
  BY <1>4 DEF Finitely
<1>6. Batches # {}
  <2>1. Plan \in Seq(1 .. BatchSize) /\ Plan # << >>
    BY <1>1, <1>2 DEF Covers
  <2>2. Len(Plan) # 0
    BY <2>1
  <2>3. 1 \in 1 .. Len(Plan)
    BY <1>4, <2>2
  <2> QED
    BY <1>4, <2>3
<1> QED
  BY <1>3, <1>4, <1>5, <1>6

\* No division of the totals of a run rounds.
LEMMA EvenBatches ==
  ASSUME total \in Totals, NEW D \in SUBSET Batches,
         NEW series \in Series, NEW vals, Yields(vals, series, D)
  PROVE  Rows(vals, D) /\ Even(AllValues(vals, D)) /\ Terms(Plan, D) /\ Finitely(D)
<1>1. /\ Finitely(Batches) /\ Terms(Plan, Batches)
      /\ \A b \in Batches : Plan[b] \in 1 .. BatchSize
      /\ SumFunctionOnSet(Plan, Batches) = total
  BY PlanOfRun
<1>2. Rows(vals, D)
  BY YieldedValues
<1>3. Finitely(D) /\ Terms(Plan, D) /\ Terms(Plan, Batches \ D)
  <2>1. IsFiniteSet(D) /\ IsFiniteSet(Batches \ D)
    <3>1. IsFiniteSet(Batches) /\ Batches \ D \in SUBSET Batches
      BY <1>1 DEF Finitely
    <3> QED
      BY <3>1, FS_Subset
  <2> QED
    BY <1>1, <2>1 DEF Finitely, Terms
<1>4. \A b \in Batches : Plan[b] \in Nat
  BY <1>1, BatchSizeType
<1>5. Fits(vals, Plan, D)
  <2>1. \A b \in D : DOMAIN vals[b] \subseteq 1 .. Plan[b]
    BY YieldedValues
  <2> QED
    BY <1>2, <1>3, <1>4, <2>1 DEF Fits
<1> DEFINE n == Cardinality(Places(vals, D))
           in == SumFunctionOnSet(Plan, D)
           out == SumFunctionOnSet(Plan, Batches \ D)
<1>6. n <= in
  BY <1>5, PlacesCount
<1>7. in \in Nat /\ out \in Nat
  <2>1. \A b \in D : Plan[b] \in Nat
    BY <1>4
  <2>2. \A b \in Batches \ D : Plan[b] \in Nat
    BY <1>4
  <2> QED
    BY <1>3, <2>1, <2>2, SumPositive
<1>8. total = in + out
  <2> DEFINE B == Batches \ D
  <2>1. D \cup B = Batches /\ \A b \in D : b \notin B
    OBVIOUS
  <2>2. Terms(Plan, D \cup B)
    BY <1>1, <2>1
  <2> HIDE DEF B
  <2>3. SumFunctionOnSet(Plan, D \cup B) = SumFunctionOnSet(Plan, D) + SumFunctionOnSet(Plan, B)
    BY <2>1, <2>2, SumUnion
  <2> QED
    BY <1>1, <2>1, <2>3 DEF B
<1>9. n \in Nat
  <2>1. IsFiniteSet(Places(vals, D))
    BY <1>2, PlacesFinite DEF Rows
  <2> QED
    BY <2>1, FS_CardinalityType
<1> HIDE DEF n, in, out
<1>10. \A k \in 1 .. n : k \in 1 .. total
  BY <1>6, <1>7, <1>8, <1>9
<1>11. \A k \in 1 .. total : Unit % k = 0
  BY RuntimeAssumption
<1>12. DOMAIN AllValues(vals, D) = Places(vals, D)
  BY DEF AllValues
<1>13. Even(AllValues(vals, D))
  BY <1>10, <1>11, <1>12 DEF Even, n
<1> QED
  BY <1>2, <1>3, <1>13

\* The totals of a series, whatever names the values of its batches.
Totalled(series, state, D) ==
  \A vals : Yields(vals, series, D) =>
    /\ Represents(state, vals, Plan, D)
    /\ series # Delta => Draws(state, vals, D)

LEMMA TotalledNone ==
  ASSUME NEW series \in Series
  PROVE  Totalled(series, IF series = Delta THEN NewPaired ELSE NewBranch, {})
<1> SUFFICES ASSUME NEW vals
             PROVE  /\ Represents(IF series = Delta THEN NewPaired ELSE NewBranch,
                                  vals, Plan, {})
                    /\ series # Delta => Draws(NewBranch, vals, {})
  BY DEF Totalled
<1> QED
  BY RepresentsNone

LEMMA TotalledMore ==
  ASSUME total \in Totals, NEW D \in SUBSET Batches, NEW b \in Batches, b \notin D,
         NEW series \in Series, Reported(b, result[b], Plan[b]),
         DOMAIN branches = Series, Totalled(series, branches[series], D)
  PROVE  Totalled(series, Accumulated(series, b), D \cup {b})
<1> DEFINE E == D \cup {b}
           a == Accumulated(series, b)
           state == branches[series]
<1>1. SUFFICES ASSUME NEW vals, Yields(vals, series, E)
               PROVE  Represents(a, vals, Plan, E) /\ (series # Delta => Draws(a, vals, E))
  BY DEF Totalled
<1>2. E \in SUBSET Batches
  OBVIOUS
<1>3. Rows(vals, E) /\ Even(AllValues(vals, E)) /\ Terms(Plan, E)
  <2> HIDE DEF E
  <2> QED
    BY <1>1, <1>2, EvenBatches
<1>4. MayJoin(b, vals, Plan, D)
  BY <1>3 DEF MayJoin
<1>5. Yields(vals, series, D) /\ vals[b] = result[b].values[series]
  <2>1. IsFiniteSet(E) /\ D \in SUBSET E
    BY <1>1 DEF Yields
  <2>2. IsFiniteSet(D)
    BY <2>1, FS_Subset
  <2> QED
    BY <1>1, <2>2 DEF Yields
<1>6. Represents(state, vals, Plan, D) /\ (series # Delta => Draws(state, vals, D))
  BY <1>5 DEF Totalled
<1>7. result[b].stats[series] = StatsOf(b, vals[b])
  BY <1>5 DEF Reported
<1>8. CASE series = Delta
  <2>1. a = Tally(state, b, Plan[b], vals[b], StatsOf(b, vals[b]))
    BY <1>5, <1>7, <1>8 DEF Accumulated
  <2> HIDE DEF a, state
  <2>2. Tallied(a, state, b, Plan[b], vals[b], StatsOf(b, vals[b]))
    BY <1>6, <2>1 DEF Tallied, Represents
  <2>3. Represents(a, vals, Plan, D \cup {b})
    BY <1>4, <1>6, <2>2, RepresentsMore
  <2> QED
    BY <1>8, <2>3
<1>9. CASE series # Delta
  <2>1. a = Accumulate(state, b, Plan[b], vals[b], StatsOf(b, vals[b]))
    BY <1>5, <1>7, <1>9 DEF Accumulated
  <2>2. Draws(state, vals, D)
    BY <1>6, <1>9
  <2> HIDE DEF a, state
  <2>3. Represents(a, vals, Plan, D \cup {b}) /\ Draws(a, vals, D \cup {b})
    BY <1>4, <1>6, <2>1, <2>2, DrawsMore
  <2> QED
    BY <2>3
<1> QED
  BY <1>8, <1>9

\* The payload of a series is the one expected.
LEMMA PayloadExpected ==
  ASSUME total \in Totals, NEW D \in SUBSET Batches,
         \A b \in D : Reported(b, result[b], Plan[b]),
         NEW series \in Series, NEW state, Totalled(series, state, D)
  PROVE  Payload(series, state) = ExpectedPayload(series, D)
<1> DEFINE vals == [b \in D |-> result[b].values[series]]
<1>1. Yields(vals, series, D)
  <2>1. Finitely(Batches) /\ \A b \in Batches : Plan[b] \in 1 .. BatchSize
    BY PlanOfRun
  <2>2. IsFiniteSet(D)
    BY <2>1, FS_Subset DEF Finitely
  <2> QED
    BY <2>1, <2>2 DEF Yields
<1> HIDE DEF vals
<1>2. Rows(vals, D) /\ Even(AllValues(vals, D)) /\ Finitely(D)
  BY <1>1, EvenBatches
<1>3. Represents(state, vals, Plan, D) /\ (series # Delta => Draws(state, vals, D))
  BY <1>1 DEF Totalled
<1>4. Payload(series, state) = ClosedPayload(series, vals, Plan, D)
  BY <1>2, <1>3, PayloadIs
<1> QED
  BY <1>1, <1>4, ExpectedIs

\* The counts of the payload of a series.
LEMMA PayloadCounts ==
  ASSUME total \in Totals, NEW D \in SUBSET Batches,
         \A b \in D : Reported(b, result[b], Plan[b]),
         NEW series \in Series, NEW state, Totalled(series, state, D)
  PROVE  /\ Payload(series, state).candidate = SumFunctionOnSet(Plan, D)
         /\ Payload(series, state).stats.n = state.valid
         /\ state.valid \in Nat
<1> DEFINE vals == [b \in D |-> result[b].values[series]]
<1>1. Yields(vals, series, D)
  <2>1. Finitely(Batches) /\ \A b \in Batches : Plan[b] \in 1 .. BatchSize
    BY PlanOfRun
  <2>2. IsFiniteSet(D)
    BY <2>1, FS_Subset DEF Finitely
  <2> QED
    BY <2>1, <2>2 DEF Yields
<1> HIDE DEF vals
<1>2. Rows(vals, D) /\ Even(AllValues(vals, D)) /\ Finitely(D)
  BY <1>1, EvenBatches
<1>3. Represents(state, vals, Plan, D) /\ (series # Delta => Draws(state, vals, D))
  BY <1>1 DEF Totalled
<1>4. Payload(series, state) = ClosedPayload(series, vals, Plan, D)
  BY <1>2, <1>3, PayloadIs
<1>5. /\ Payload(series, state).candidate = SumFunctionOnSet(Plan, D)
      /\ Payload(series, state).stats = IndexStats(vals, D)
  BY <1>4 DEF ClosedPayload
<1>6. state.valid = Cardinality(Places(vals, D)) /\ state.valid \in Nat
  <2>1. IsFiniteSet(Places(vals, D))
    BY <1>2, PlacesFinite DEF Rows
  <2> QED
    BY <1>3, <2>1, FS_CardinalityType DEF Represents
<1>7. DOMAIN AllValues(vals, D) = Places(vals, D)
  BY DEF AllValues
<1>8. IndexStats(vals, D).n = Cardinality(Places(vals, D))
  BY <1>7 DEF IndexStats, ExactStats, EmptyStats
<1> QED
  BY <1>5, <1>6, <1>8

\* A batch is aggregated once, when its worker has reported it; while the loop
\* runs, every future that was taken was aggregated.
AggregatedInv ==
  /\ ToSet(order) \subseteq Batches
  /\ \A b \in ToSet(order) : future[b] = "yielded"
  /\ main \in {"begin", "loop"} => \A b \in Batches : future[b] = "yielded" => b \in ToSet(order)
  /\ \A b \in Batches : future[b] = "done" \/ b \in ToSet(order) =>
       Reported(b, result[b], Plan[b])

\* The states of the series stand for the batches aggregated, whatever their
\* order.
TotalsInv ==
  /\ DOMAIN branches = Series
  /\ \A series \in Series : Totalled(series, branches[series], ToSet(order))

\* What was published is what the states say, but for a script that failed; a
\* complete one has aggregated every batch and has a finite result.
PublishedInv ==
  /\ main \in {"begin", "loop", "exit 0"} =>
       published = [series \in Series |-> Payload(series, branches[series])]
  /\ main = "exit 0" =>
       /\ ToSet(order) = Batches
       /\ \E branch \in Branches : branches[branch].valid # 0

LEMMA OrderMore ==
  ASSUME NEW S, NEW sequence \in Seq(S), NEW x \in S
  PROVE  ToSet(Append(sequence, x)) = ToSet(sequence) \cup {x}
<1> DEFINE more == Append(sequence, x)
           n == Len(sequence)
<1>1. /\ n \in Nat /\ DOMAIN sequence = 1 .. n /\ DOMAIN more = 1 .. n + 1
      /\ more[n + 1] = x /\ \A i \in 1 .. n : more[i] = sequence[i]
  OBVIOUS
<1> HIDE DEF more, n
<1>2. \A i : i \in 1 .. n + 1 <=> i \in 1 .. n \/ i = n + 1
  BY <1>1
<1>3. ToSet(more) = ToSet(sequence) \cup {x}
  BY <1>1, <1>2 DEF ToSet
<1> QED
  BY <1>3 DEF more

LEMMA TotalsInit == Init => AggregatedInv /\ TotalsInv /\ PublishedInv
<1> SUFFICES ASSUME Init PROVE AggregatedInv /\ TotalsInv /\ PublishedInv
  OBVIOUS
<1>1. ToSet(order) = {}
  BY DEF Init, ToSet
<1>2. AggregatedInv
  BY <1>1 DEF Init, AggregatedInv
<1>3. TotalsInv
  <2>1. DOMAIN branches = Series
    BY DEF Init
  <2>2. \A series \in Series :
          branches[series] = IF series = Delta THEN NewPaired ELSE NewBranch
    BY DEF Init
  <2>3. ASSUME NEW series \in Series PROVE Totalled(series, branches[series], {})
    BY <2>2, TotalledNone
  <2> QED
    BY <1>1, <2>1, <2>3 DEF TotalsInv
<1>4. PublishedInv
  BY DEF Init, PublishedInv
<1> QED
  BY <1>2, <1>3, <1>4

LEMMA TotalsSame ==
  ASSUME TotalsInv, Plan' = Plan, order' = order, branches' = branches,
         \A b \in ToSet(order) : result'[b] = result[b]
  PROVE  TotalsInv'
<1>1. DOMAIN branches' = Series
  BY DEF TotalsInv
<1>2. \A vals, series : Yields(vals, series, ToSet(order))' => Yields(vals, series, ToSet(order))
  BY DEF Yields
<1>3. \A series \in Series : Totalled(series, branches[series], ToSet(order))'
  BY <1>2 DEF TotalsInv, Totalled
<1> QED
  BY <1>1, <1>3 DEF TotalsInv

LEMMA TotalsNext ==
  ASSUME RuntimeTypeOK, FuturesInv, AggregatedInv, TotalsInv, PublishedInv, [Next]_vars
  PROVE  (AggregatedInv /\ TotalsInv /\ PublishedInv)'
<1>0. total' = total /\ Batches' = Batches /\ Plan' = Plan
  BY SameBatches
<1>1. CASE Begin
  <2>1. UNCHANGED <<future, result, branches, order, published>> /\ main = "begin" /\ main' = "loop"
    BY <1>1 DEF Begin
  <2>2. TotalsInv'
    BY <1>0, <2>1, TotalsSame
  <2>3. AggregatedInv'
    BY <1>0, <2>1 DEF AggregatedInv
  <2>4. PublishedInv'
    BY <2>1 DEF PublishedInv
  <2> QED
    BY <2>2, <2>3, <2>4
<1>2. CASE CompleteRun
  <2>1. /\ UNCHANGED <<future, result, branches, order>>
        /\ main = "loop" /\ \A b \in Batches : future[b] = "yielded"
        /\ main' = "raised" \/
             /\ main' = "exit 0"
             /\ \E branch \in Branches : branches[branch].valid # 0
             /\ published' = [series \in Series |-> Payload(series, branches[series])]
    BY <1>2 DEF CompleteRun
  <2>2. TotalsInv'
    BY <1>0, <2>1, TotalsSame
  <2>3. AggregatedInv'
    BY <1>0, <2>1 DEF AggregatedInv
  <2>4. ToSet(order) = Batches
    BY <2>1 DEF AggregatedInv
  <2>5. PublishedInv'
    BY <1>0, <2>1, <2>4 DEF PublishedInv
  <2> QED
    BY <2>2, <2>3, <2>5
<1>3. CASE ReportError
  <2>1. UNCHANGED <<future, result, branches, order>> /\ main' = "exit 1"
    BY <1>3 DEF ReportError
  <2>2. TotalsInv'
    BY <1>0, <2>1, TotalsSame
  <2>3. AggregatedInv' /\ PublishedInv'
    BY <1>0, <2>1 DEF AggregatedInv, PublishedInv
  <2> QED
    BY <2>2, <2>3
<1>4. ASSUME NEW b \in Batches, Aggregate(b)
      PROVE  (AggregatedInv /\ TotalsInv /\ PublishedInv)'
  <2> DEFINE D == ToSet(order)
  <2>1. /\ main = "loop" /\ future[b] = "done" /\ result' = result
        /\ future' = [future EXCEPT ![b] = "yielded"]
        /\ order' = Append(order, b)
        /\ branches' = [series \in Series |-> Accumulated(series, b)]
        /\ main' = "raised" \/
             /\ main' = main
             /\ published' = [series \in Series |-> Payload(series, branches'[series])]
    BY <1>4 DEF Aggregate
  <2>2. ToSet(order') = D \cup {b} /\ D \in SUBSET Batches /\ b \notin D
    <3>1. order \in Seq(Batches)
      BY DEF RuntimeTypeOK
    <3>2. ToSet(order') = D \cup {b}
      BY <2>1, <3>1, OrderMore
    <3> QED
      BY <2>1, <3>2 DEF AggregatedInv
  <2>3. /\ DOMAIN future = Batches /\ DOMAIN future' = Batches
        /\ future'[b] = "yielded" /\ \A c \in Batches : c # b => future'[c] = future[c]
    BY <2>1 DEF RuntimeTypeOK
  <2>4. AggregatedInv'
    <3>1. ToSet(order') \subseteq Batches /\ \A c \in ToSet(order') : future'[c] = "yielded"
      BY <2>2, <2>3 DEF AggregatedInv
    <3>2. \A c \in Batches : future'[c] = "yielded" => c \in ToSet(order')
      BY <2>1, <2>2, <2>3 DEF AggregatedInv
    <3>3. ASSUME NEW c \in Batches, future'[c] = "done" \/ c \in ToSet(order')
          PROVE  Reported(c, result[c], Plan[c])
      BY <2>1, <2>2, <2>3, <3>3 DEF AggregatedInv
    <3> QED
      BY <1>0, <2>1, <3>1, <3>2, <3>3 DEF AggregatedInv
  <2>5. TotalsInv'
    <3>1. total \in Totals /\ DOMAIN branches = Series /\ Reported(b, result[b], Plan[b])
      BY <2>1 DEF RuntimeTypeOK, TotalsInv, AggregatedInv
    <3>2. ASSUME NEW series \in Series
          PROVE  Totalled(series, Accumulated(series, b), D \cup {b})
      <4>1. Totalled(series, branches[series], D)
        BY DEF TotalsInv
      <4> HIDE DEF D
      <4> QED
        BY <2>2, <3>1, <4>1, TotalledMore
    <3>3. \A series \in Series : branches'[series] = Accumulated(series, b)
      BY <2>1
    <3>4. \A vals, series :
            Yields(vals, series, ToSet(order))' => Yields(vals, series, D \cup {b})
      BY <1>0, <2>1, <2>2 DEF Yields
    <3>5. \A series \in Series : Totalled(series, branches[series], ToSet(order))'
      <4> HIDE DEF D
      <4> QED
        BY <1>0, <2>2, <3>2, <3>3, <3>4 DEF Totalled
    <3> QED
      BY <2>1, <3>5 DEF TotalsInv
  <2>6. PublishedInv'
    BY <2>1 DEF PublishedInv
  <2> QED
    BY <2>4, <2>5, <2>6
<1>5. ASSUME NEW b \in Batches, AggregateFailed(b)
      PROVE  (AggregatedInv /\ TotalsInv /\ PublishedInv)'
  <2>1. /\ UNCHANGED <<result, branches, order>> /\ main' = "raised"
        /\ future' = [future EXCEPT ![b] = "yielded"]
    BY <1>5 DEF AggregateFailed
  <2>2. TotalsInv'
    BY <1>0, <2>1, TotalsSame
  <2>3. \A c \in Batches : future'[c] = IF c = b THEN "yielded" ELSE future[c]
    BY <2>1 DEF RuntimeTypeOK
  <2>4. AggregatedInv'
    BY <1>0, <2>1, <2>3 DEF AggregatedInv
  <2>5. PublishedInv'
    BY <2>1 DEF PublishedInv
  <2> QED
    BY <2>2, <2>4, <2>5
<1>6. ASSUME NEW b \in Batches, StartBatch(b)
      PROVE  (AggregatedInv /\ TotalsInv /\ PublishedInv)'
  <2>1. /\ UNCHANGED <<result, branches, order, main, published>> /\ future[b] = "pending"
        /\ future' = [future EXCEPT ![b] = "running"]
    BY <1>6 DEF StartBatch
  <2>2. TotalsInv'
    BY <1>0, <2>1, TotalsSame
  <2>3. \A c \in Batches : future'[c] = IF c = b THEN "running" ELSE future[c]
    BY <2>1 DEF RuntimeTypeOK
  <2>4. AggregatedInv'
    BY <1>0, <2>1, <2>3 DEF AggregatedInv
  <2>5. PublishedInv'
    BY <1>0, <2>1 DEF PublishedInv
  <2> QED
    BY <2>2, <2>4, <2>5
<1>7. ASSUME NEW b \in Batches, FinishBatch(b)
      PROVE  (AggregatedInv /\ TotalsInv /\ PublishedInv)'
  <2>1. UNCHANGED <<branches, order, main, published>> /\ future[b] = "running"
    BY <1>7 DEF FinishBatch
  <2>2. /\ \A c \in Batches : c # b => future'[c] = future[c] /\ result'[c] = result[c]
        /\ future'[b] # "yielded"
        /\ future'[b] = "done" => Reported(b, result'[b], Plan[b])
    <3>1. CASE UNCHANGED result /\ future' = [future EXCEPT ![b] = "failed"]
      BY <3>1 DEF RuntimeTypeOK
    <3>2. ASSUME NEW arrays \in [Branches -> Results(Plan[b])],
                 result' = [result EXCEPT ![b] = Simulated(b, arrays)],
                 future' = [future EXCEPT ![b] = "done"]
          PROVE  /\ \A c \in Batches : c # b => future'[c] = future[c] /\ result'[c] = result[c]
                 /\ future'[b] # "yielded"
                 /\ Reported(b, result'[b], Plan[b])
      <4>1. Plan[b] \in Nat \ {0}
        BY PlanSizes
      <4>2. Reported(b, Simulated(b, arrays), Plan[b])
        BY <4>1, SimulatedReports
      <4>3. result'[b] = Simulated(b, arrays)
        BY <3>2 DEF RuntimeTypeOK
      <4>4. /\ future'[b] = "done"
            /\ \A c \in Batches : c # b => future'[c] = future[c] /\ result'[c] = result[c]
        BY <3>2 DEF RuntimeTypeOK
      <4> QED
        BY <4>2, <4>3, <4>4
    <3> QED
      BY <1>7, <3>1, <3>2 DEF FinishBatch
  <2>3. b \notin ToSet(order) /\ ToSet(order) \subseteq Batches
    BY <2>1 DEF AggregatedInv
  <2>4. TotalsInv'
    <3>1. \A c \in ToSet(order) : result'[c] = result[c]
      BY <2>2, <2>3
    <3> QED
      BY <1>0, <2>1, <3>1, TotalsSame
  <2>5. AggregatedInv'
    BY <1>0, <2>1, <2>2, <2>3 DEF AggregatedInv
  <2>6. PublishedInv'
    BY <1>0, <2>1 DEF PublishedInv
  <2> QED
    BY <2>4, <2>5, <2>6
<1>8. CASE PoolBreaks
  <2>1. /\ UNCHANGED <<result, branches, order, main, published>>
        /\ \A c \in Batches : future'[c] = IF future[c] \in {"pending", "running"}
                                           THEN "failed" ELSE future[c]
    BY <1>8 DEF PoolBreaks
  <2>2. TotalsInv'
    BY <1>0, <2>1, TotalsSame
  <2>3. AggregatedInv'
    BY <1>0, <2>1 DEF AggregatedInv
  <2>4. PublishedInv'
    BY <1>0, <2>1 DEF PublishedInv
  <2> QED
    BY <2>2, <2>3, <2>4
<1>9. CASE UNCHANGED vars
  <2>1. UNCHANGED <<future, result, branches, order, main, published>>
    BY <1>9 DEF vars
  <2>2. TotalsInv'
    BY <1>0, <2>1, TotalsSame
  <2>3. AggregatedInv' /\ PublishedInv'
    BY <1>0, <2>1 DEF AggregatedInv, PublishedInv
  <2> QED
    BY <2>2, <2>3
<1> QED
  BY <1>1, <1>2, <1>3, <1>4, <1>5, <1>6, <1>7, <1>8, <1>9 DEF Next, Main, Workers

\* The inductive invariant of the aggregation: each batch is aggregated once and
\* as its worker reported it, the states of the series stand for the batches
\* aggregated, and what is published is what they say.
THEOREM TotalsHold == Spec => [](AggregatedInv /\ TotalsInv /\ PublishedInv)
BY TotalsInit, TotalsNext, RuntimeTyped, FuturesHold, PTL DEF Spec

\* The totals that a script publishes while it runs are those of the batches
\* aggregated, all their values taken at once: they do not depend on the order
\* in which the batches completed, nor on how the iterations were cut into them.
THEOREM TotalsExact == Spec => []TotalsAreExact
<1>1. ASSUME RuntimeTypeOK, AggregatedInv, TotalsInv, PublishedInv
      PROVE  TotalsAreExact
  <2> SUFFICES ASSUME main = "loop"
               PROVE  published = [series \in Series |-> ExpectedPayload(series, ToSet(order))]
    BY DEF TotalsAreExact
  <2>1. /\ total \in Totals /\ ToSet(order) \in SUBSET Batches
        /\ \A b \in ToSet(order) : Reported(b, result[b], Plan[b])
    BY <1>1 DEF RuntimeTypeOK, AggregatedInv
  <2>2. ASSUME NEW series \in Series
        PROVE  Payload(series, branches[series]) = ExpectedPayload(series, ToSet(order))
    <3>1. Totalled(series, branches[series], ToSet(order))
      BY <1>1 DEF TotalsInv
    <3> QED
      BY <2>1, <3>1, PayloadExpected
  <2>3. published = [series \in Series |-> Payload(series, branches[series])]
    BY <1>1 DEF PublishedInv
  <2> QED
    BY <2>2, <2>3
<1> QED
  BY <1>1, TotalsHold, RuntimeTyped, PTL

\* A script that reports completion has counted each of its iterations once,
\* publishes the totals of all of them and has a finite result.
THEOREM CompleteIsWhole == Spec => []CompleteCoversAll
<1>1. ASSUME RuntimeTypeOK, AggregatedInv, TotalsInv, PublishedInv
      PROVE  CompleteCoversAll
  <2>0. SUFFICES ASSUME main = "exit 0"
                 PROVE  /\ \A series \in Series :
                             /\ published[series].candidate = total
                             /\ published[series] = ExpectedPayload(series, Batches)
                        /\ \E branch \in Branches : published[branch].stats.n > 0
    BY DEF CompleteCoversAll
  <2>1. /\ total \in Totals /\ ToSet(order) = Batches
        /\ \A b \in Batches : Reported(b, result[b], Plan[b])
    BY <1>1, <2>0 DEF RuntimeTypeOK, AggregatedInv, PublishedInv
  <2>2. \A series \in Series : published[series] = Payload(series, branches[series])
    BY <1>1, <2>0 DEF PublishedInv
  <2>3. ASSUME NEW series \in Series
        PROVE  /\ published[series] = ExpectedPayload(series, Batches)
               /\ published[series].candidate = total
               /\ published[series].stats.n = branches[series].valid
               /\ branches[series].valid \in Nat
    <3>1. Totalled(series, branches[series], Batches)
      BY <1>1, <2>1 DEF TotalsInv
    <3>2. Batches \in SUBSET Batches
      OBVIOUS
    <3>3. Payload(series, branches[series]) = ExpectedPayload(series, Batches)
      BY <2>1, <3>1, <3>2, PayloadExpected
    <3>4. /\ Payload(series, branches[series]).candidate = SumFunctionOnSet(Plan, Batches)
          /\ Payload(series, branches[series]).stats.n = branches[series].valid
          /\ branches[series].valid \in Nat
      BY <2>1, <3>1, <3>2, PayloadCounts
    <3>5. SumFunctionOnSet(Plan, Batches) = total
      BY <2>1, PlanOfRun
    <3> QED
      BY <2>2, <3>3, <3>4, <3>5
  <2>4. PICK branch \in Branches : branches[branch].valid # 0
    BY <1>1, <2>0 DEF PublishedInv
  <2>5. branch \in Series
    BY DEF Series
  <2>6. published[branch].stats.n > 0
    BY <2>3, <2>4, <2>5
  <2> QED
    BY <2>3, <2>6
<1> QED
  BY <1>1, TotalsHold, RuntimeTyped, PTL
=============================================================================
