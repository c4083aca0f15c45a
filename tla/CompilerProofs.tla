---------------------------- MODULE CompilerProofs ----------------------------
(***************************************************************************)
(* Theorems about Compiler, for every set of texts and streams of tokens:  *)
(* what a program that compiles is guaranteed.                             *)
(***************************************************************************)
EXTENDS Compiler, LexerProofs

-----------------------------------------------------------------------------
(* Recursive functions.  A set of natural numbers that is not empty has a  *)
(* least element, and a recursion that looks back only defines a function: *)
(* the forms of induction and recursion used here.                         *)

\* A set of natural numbers that is not empty has a least element.
LEMMA LeastNumber ==
  ASSUME NEW S, S \subseteq Nat, S # {}
  PROVE  \E n \in S : \A m \in S : n <= m
<1> DEFINE T == {0 .. n : n \in S}
<1>1. T \subseteq FiniteSubsetsOf(Nat) /\ T # {}
  <2>1. ASSUME NEW n \in S PROVE 0 .. n \in FiniteSubsetsOf(Nat)
    <3>1. 0 \in Int /\ n \in Int
      OBVIOUS
    <3>2. IsFiniteSet(0 .. n)
      BY <3>1, FS_Interval
    <3> QED
      BY <3>2 DEF FiniteSubsetsOf
  <2> QED
    BY <2>1
<1>2. IsWellFoundedOn(StrictSubsetOrdering(Nat), FiniteSubsetsOf(Nat))
  BY FS_StrictSubsetOrderingWellFounded
<1> HIDE DEF T
<1>3. \E x \in T : \A y \in T : ~(<<y, x>> \in StrictSubsetOrdering(Nat))
  BY <1>1, <1>2, WFMin
<1>4. PICK n \in S : \A m \in S : <<0 .. m, 0 .. n>> \notin StrictSubsetOrdering(Nat)
  BY <1>3 DEF T
<1>5. ASSUME NEW m \in S, m < n PROVE FALSE
  <2>1. 0 .. m \in SUBSET Nat /\ 0 .. n \in SUBSET Nat
    OBVIOUS
  <2>2. 0 .. m \subseteq 0 .. n /\ n \in 0 .. n /\ n \notin 0 .. m
    BY <1>5
  <2>3. <<0 .. m, 0 .. n>> \in StrictSubsetOrdering(Nat)
    BY <2>1, <2>2 DEF StrictSubsetOrdering
  <2> QED
    BY <1>4, <2>3
<1> QED
  BY <1>5

\* What holds of a number whenever it holds of all smaller ones holds of all.
LEMMA SmallerFirst ==
  ASSUME NEW m \in Nat, NEW n \in Nat, NEW H,
         \A k \in m .. n : (\A j \in m .. k - 1 : j \in H) => k \in H
  PROVE  \A k \in m .. n : k \in H
<1> SUFFICES ASSUME {k \in m .. n : k \notin H} # {} PROVE FALSE
  OBVIOUS
<1>1. PICK k \in {i \in m .. n : i \notin H} : \A j \in {i \in m .. n : i \notin H} : k <= j
  <2>1. {i \in m .. n : i \notin H} \subseteq Nat
    OBVIOUS
  <2> QED
    BY <2>1, LeastNumber
<1>2. \A j \in m .. k - 1 : j \in H
  BY <1>1
<1> QED
  BY <1>1, <1>2

\* The value of step at k and f depends on what f is below k.
LooksBack(step, m, n, V) ==
  /\ step \in [m .. n -> [[m .. n -> V] -> V]]
  /\ \A k \in m .. n : \A f, g \in [m .. n -> V] :
       (\A j \in m .. k - 1 : f[j] = g[j]) => step[k][f] = step[k][g]

Recursive(f, step, m, n, V) ==
  f \in [m .. n -> V] /\ \A k \in m .. n : f[k] = step[k][f]

\* A recursion that looks back only has a solution, so the CHOOSE of a
\* recursive function definition takes one.
LEMMA RecursionDefines ==
  ASSUME NEW m \in Nat, NEW n \in Nat, NEW V, V # {}, NEW step, LooksBack(step, m, n, V)
  PROVE  \E f : Recursive(f, step, m, n, V)
<1> DEFINE Upto(i) == \E f \in [m .. n -> V] : \A k \in m .. i : f[k] = step[k][f]
           H == {i \in m .. n : Upto(i)}
           some == [k \in m .. n |-> CHOOSE v : v \in V]
<1>1. some \in [m .. n -> V]
  OBVIOUS
<1>2. ASSUME NEW k \in m .. n, \A j \in m .. k - 1 : j \in H PROVE k \in H
  <2>1. PICK f \in [m .. n -> V] : \A j \in m .. k - 1 : f[j] = step[j][f]
    <3>1. CASE k = m
      <4>1. \A j \in m .. k - 1 : FALSE
        BY <3>1
      <4> QED
        BY <1>1, <4>1
    <3>2. CASE k # m
      <4>1. k - 1 \in m .. k - 1
        BY <3>2
      <4> QED
        BY <1>2, <4>1
    <3> QED
      BY <3>1, <3>2
  <2> DEFINE g == [f EXCEPT ![k] = step[k][f]]
  <2>2. step[k][f] \in V
    BY DEF LooksBack
  <2>3. g \in [m .. n -> V] /\ g[k] = step[k][f]
        /\ \A j \in m .. k - 1 : j \in m .. n /\ g[j] = f[j]
    BY <2>2
  <2> HIDE DEF g
  <2>4. ASSUME NEW j \in m .. k PROVE g[j] = step[j][g]
    <3>1. j \in m .. n /\ \A i \in m .. j - 1 : f[i] = g[i]
      BY <2>3
    <3>2. step[j][f] = step[j][g]
      BY <2>3, <3>1 DEF LooksBack
    <3>3. g[j] = step[j][f]
      <4>1. j = k \/ j \in m .. k - 1
        OBVIOUS
      <4> QED
        BY <2>1, <2>3, <4>1
    <3> QED
      BY <3>2, <3>3
  <2> QED
    BY <2>3, <2>4
<1>3. \A k \in m .. n : k \in H
  <2>1. \A k \in m .. n : (\A j \in m .. k - 1 : j \in H) => k \in H
    BY <1>2
  <2> HIDE DEF H
  <2> QED
    BY <2>1, SmallerFirst
<1>4. CASE m <= n
  BY <1>3, <1>4 DEF Recursive
<1>5. CASE ~(m <= n)
  <2>1. \A k \in m .. n : FALSE
    BY <1>5
  <2> QED
    BY <1>1, <2>1 DEF Recursive
<1> QED
  BY <1>4, <1>5

-----------------------------------------------------------------------------
(* Decimal arithmetic                                                      *)

\* The characters of a number.
Figures == Digits \cup {"."}

\* A digit stands for a number from 0 to 9.
LEMMA DigitType ==
  ASSUME NEW ch \in Digits
  PROVE  Digit(ch) \in 0 .. 9
<1> DEFINE names == <<"0", "1", "2", "3", "4", "5", "6", "7", "8", "9">>
<1>1. \E d \in 0 .. 9 : names[d + 1] = ch
  <2>1. /\ names[0 + 1] = "0" /\ names[1 + 1] = "1" /\ names[2 + 1] = "2" /\ names[3 + 1] = "3"
        /\ names[4 + 1] = "4" /\ names[5 + 1] = "5" /\ names[6 + 1] = "6" /\ names[7 + 1] = "7"
        /\ names[8 + 1] = "8" /\ names[9 + 1] = "9"
    OBVIOUS
  <2> HIDE DEF names
  <2>2. {0, 1, 2, 3, 4, 5, 6, 7, 8, 9} \subseteq 0 .. 9
    OBVIOUS
  <2> QED
    BY <2>1, <2>2, Zenon DEF Digits
<1> HIDE DEF names
<1>2. (CHOOSE d \in 0 .. 9 : names[d + 1] = ch) \in 0 .. 9
  BY <1>1
<1> QED
  BY <1>2 DEF Digit, names

\* The two recursions of DecimalOf.
NumberOf(number, lexeme) ==
  number = [n \in 0 .. Len(lexeme) |->
              IF n = 0 THEN 0
              ELSE IF lexeme[n] = "." THEN number[n - 1] ELSE 10 * number[n - 1] + Digit(lexeme[n])]
UnitOf(unit, lexeme) ==
  unit = [n \in 0 .. Len(lexeme) |->
            IF \E k \in 1 .. n - 1 : lexeme[k] = "." THEN 10 * unit[n - 1] ELSE 1]

\* DecimalOf reads the digits of a lexeme from the right: the value it takes exists.
LEMMA NumberExists ==
  ASSUME NEW lexeme \in Seq(Figures)
  PROVE  \E number : NumberOf(number, lexeme)
<1> DEFINE N == Len(lexeme)
           value(k, f) == IF k = 0 THEN 0
                          ELSE IF lexeme[k] = "." THEN f[k - 1] ELSE 10 * f[k - 1] + Digit(lexeme[k])
           step == [k \in 0 .. N |-> [f \in [0 .. N -> Nat] |-> value(k, f)]]
<1>1. ASSUME NEW k \in 0 .. N, NEW f \in [0 .. N -> Nat]
      PROVE  value(k, f) \in Nat
  <2>1. CASE k # 0
    <3>1. k \in 1 .. N /\ k - 1 \in 0 .. N /\ f[k - 1] \in Nat
      BY <2>1
    <3>2. lexeme[k] # "." => Digit(lexeme[k]) \in Nat
      BY <3>1, DigitType DEF Figures
    <3> QED
      BY <3>1, <3>2
  <2> QED
    BY <2>1
<1> HIDE DEF value
<1>2. \A k \in 0 .. N, f \in [0 .. N -> Nat] : step[k][f] = value(k, f)
  OBVIOUS
<1>3. LooksBack(step, 0, N, Nat)
  <2>1. step \in [0 .. N -> [[0 .. N -> Nat] -> Nat]]
    BY <1>1
  <2>2. ASSUME NEW k \in 0 .. N, NEW f \in [0 .. N -> Nat], NEW g \in [0 .. N -> Nat],
               \A j \in 0 .. k - 1 : f[j] = g[j]
        PROVE  value(k, f) = value(k, g)
    <3>1. CASE k # 0
      <4>1. k - 1 \in 0 .. k - 1
        BY <3>1
      <4>2. f[k - 1] = g[k - 1]
        BY <2>2, <4>1
      <4> QED
        BY <4>2 DEF value
    <3>2. CASE k = 0
      BY <3>2 DEF value
    <3> QED
      BY <3>1, <3>2
  <2> HIDE DEF step
  <2>3. ASSUME NEW k \in 0 .. N, NEW f \in [0 .. N -> Nat], NEW g \in [0 .. N -> Nat],
               \A j \in 0 .. k - 1 : f[j] = g[j]
        PROVE  step[k][f] = step[k][g]
    <3>1. value(k, f) = value(k, g)
      BY <2>2, <2>3
    <3> QED
      BY <1>2, <3>1
  <2> QED
    BY <2>1, <2>3 DEF LooksBack
<1> HIDE DEF step
<1>4. PICK f : Recursive(f, step, 0, N, Nat)
  <2>1. N \in Nat /\ 0 \in Nat
    OBVIOUS
  <2>2. Nat # {}
    BY <2>1, Zenon
  <2> QED
    BY <1>3, <2>1, <2>2, RecursionDefines
<1>5. f = [k \in 0 .. N |-> value(k, f)]
  BY <1>2, <1>4 DEF Recursive
<1> QED
  BY <1>5 DEF value, NumberOf

\* The unit of the last digit of a lexeme exists.
LEMMA UnitExists ==
  ASSUME NEW lexeme \in Seq(Figures)
  PROVE  \E unit : UnitOf(unit, lexeme)
<1> DEFINE N == Len(lexeme)
           more(k) == \E j \in 1 .. k - 1 : lexeme[j] = "."
           value(k, f) == IF more(k) THEN 10 * f[k - 1] ELSE 1
           step == [k \in 0 .. N |-> [f \in [0 .. N -> Nat] |-> value(k, f)]]
<1>0. \A k \in 0 .. N : more(k) => k - 1 \in 0 .. N /\ k - 1 \in 0 .. k - 1
  OBVIOUS
<1> HIDE DEF more
<1>1. ASSUME NEW k \in 0 .. N, NEW f \in [0 .. N -> Nat]
      PROVE  value(k, f) \in Nat
  BY <1>0
<1> HIDE DEF value
<1>2. \A k \in 0 .. N, f \in [0 .. N -> Nat] : step[k][f] = value(k, f)
  OBVIOUS
<1>3. LooksBack(step, 0, N, Nat)
  <2>1. step \in [0 .. N -> [[0 .. N -> Nat] -> Nat]]
    BY <1>1
  <2>2. ASSUME NEW k \in 0 .. N, NEW f \in [0 .. N -> Nat], NEW g \in [0 .. N -> Nat],
               \A j \in 0 .. k - 1 : f[j] = g[j]
        PROVE  value(k, f) = value(k, g)
    <3>1. more(k) => f[k - 1] = g[k - 1]
      BY <1>0, <2>2
    <3> QED
      BY <3>1 DEF value
  <2> HIDE DEF step
  <2>3. ASSUME NEW k \in 0 .. N, NEW f \in [0 .. N -> Nat], NEW g \in [0 .. N -> Nat],
               \A j \in 0 .. k - 1 : f[j] = g[j]
        PROVE  step[k][f] = step[k][g]
    <3>1. value(k, f) = value(k, g)
      BY <2>2, <2>3
    <3> QED
      BY <1>2, <3>1
  <2> QED
    BY <2>1, <2>3 DEF LooksBack
<1> HIDE DEF step
<1>4. PICK f : Recursive(f, step, 0, N, Nat)
  <2>1. N \in Nat /\ 0 \in Nat
    OBVIOUS
  <2>2. Nat # {}
    BY <2>1, Zenon
  <2> QED
    BY <1>3, <2>1, <2>2, RecursionDefines
<1>5. f = [k \in 0 .. N |-> value(k, f)]
  BY <1>2, <1>4 DEF Recursive
<1> QED
  BY <1>5 DEF value, more, UnitOf

\* Rounding gives an integer and keeps the sign.
LEMMA NearestType ==
  ASSUME NEW a \in Int, NEW b \in Nat \ {0}
  PROVE  /\ Nearest(a, b) \in Int
         /\ a >= 0 => Nearest(a, b) >= 0
<1>1. /\ Abs(a) \in Nat /\ Abs(b) = b /\ SignOfNumber(b) = 1 /\ SignOfNumber(a) \in {-1, 1}
      /\ a >= 0 => SignOfNumber(a) = 1
  BY DEF Abs, SignOfNumber
<1> DEFINE q == (2 * Abs(a) + Abs(b)) \div (2 * Abs(b))
<1>2. q \in Nat
  <2>1. 2 * Abs(a) + Abs(b) \in Nat /\ 2 * Abs(b) \in Nat \ {0}
    BY <1>1
  <2>2. \A n \in Nat, d \in Nat \ {0} : n \div d \in Nat
    OBVIOUS
  <2> QED
    BY <2>1, <2>2
<1>3. Nearest(a, b) = SignOfNumber(a) * SignOfNumber(b) * q
  BY DEF Nearest
<1> HIDE DEF q
<1>4. SignOfNumber(a) * SignOfNumber(b) = SignOfNumber(a)
  BY <1>1
<1>5. CASE SignOfNumber(a) = 1
  BY <1>2, <1>3, <1>4, <1>5
<1>6. CASE SignOfNumber(a) = -1 /\ ~(a >= 0)
  BY <1>2, <1>3, <1>4, <1>6
<1> QED
  BY <1>1, <1>5, <1>6

\* What Decimal makes of the lexeme of a NUMBER is a number and not negative.
LEMMA DecimalType ==
  ASSUME NEW lexeme \in Seq(Figures)
  PROVE  DecimalOf(lexeme) \in Nat
<1> DEFINE N == Len(lexeme)
           number == CHOOSE f : NumberOf(f, lexeme)
           unit == CHOOSE f : UnitOf(f, lexeme)
<1>1. NumberOf(number, lexeme) /\ UnitOf(unit, lexeme)
  BY NumberExists, UnitExists
<1>2. DecimalOf(lexeme) = Nearest(Scale * number[N], unit[N])
  BY DEF DecimalOf, NumberOf, UnitOf
<1> HIDE DEF number, unit
<1>3. number[N] \in Nat
  <2> DEFINE H == {n \in 0 .. N : number[n] \in Nat}
  <2>1. ASSUME NEW n \in 0 .. N, \A j \in 0 .. n - 1 : j \in H PROVE n \in H
    <3>1. n # 0 => n - 1 \in 0 .. n - 1 /\ n \in 1 .. N
      OBVIOUS
    <3>2. n # 0 /\ lexeme[n] # "." => Digit(lexeme[n]) \in Nat
      BY <3>1, DigitType DEF Figures
    <3>3. number[n] = IF n = 0 THEN 0
                      ELSE IF lexeme[n] = "." THEN number[n - 1]
                      ELSE 10 * number[n - 1] + Digit(lexeme[n])
      BY <1>1 DEF NumberOf
    <3> QED
      BY <2>1, <3>1, <3>2, <3>3
  <2>2. \A n \in 0 .. N : (\A j \in 0 .. n - 1 : j \in H) => n \in H
    BY <2>1
  <2> HIDE DEF H
  <2>3. N \in Nat /\ 0 \in Nat /\ N \in 0 .. N
    OBVIOUS
  <2>4. \A n \in 0 .. N : n \in H
    BY <2>2, <2>3, SmallerFirst
  <2>5. N \in H
    BY <2>3, <2>4
  <2> QED
    BY <2>5 DEF H
<1>4. unit[N] \in Nat \ {0}
  <2> DEFINE H == {n \in 0 .. N : unit[n] \in Nat \ {0}}
  <2>1. ASSUME NEW n \in 0 .. N, \A j \in 0 .. n - 1 : j \in H PROVE n \in H
    <3> DEFINE more == \E k \in 1 .. n - 1 : lexeme[k] = "."
    <3>1. more => n - 1 \in 0 .. n - 1
      OBVIOUS
    <3>2. unit[n] = IF more THEN 10 * unit[n - 1] ELSE 1
      BY <1>1 DEF UnitOf
    <3> HIDE DEF more
    <3>3. more => unit[n - 1] \in Nat \ {0}
      BY <2>1, <3>1
    <3> QED
      BY <3>2, <3>3
  <2>2. \A n \in 0 .. N : (\A j \in 0 .. n - 1 : j \in H) => n \in H
    BY <2>1
  <2> HIDE DEF H
  <2>3. N \in Nat /\ 0 \in Nat /\ N \in 0 .. N
    OBVIOUS
  <2>4. \A n \in 0 .. N : n \in H
    BY <2>2, <2>3, SmallerFirst
  <2>5. N \in H
    BY <2>3, <2>4
  <2> QED
    BY <2>5 DEF H
<1>5. Scale * number[N] \in Nat
  BY <1>3, SemanticAssumption
<1>6. Nearest(Scale * number[N], unit[N]) \in Int /\ Nearest(Scale * number[N], unit[N]) >= 0
  <2>1. Scale * number[N] \in Int /\ Scale * number[N] >= 0
    BY <1>5
  <2> QED
    BY <1>4, <2>1, NearestType, Zenon
<1> QED
  BY <1>2, <1>6

\* float keeps integers integers and does not turn a sign.
LEMMA ConvertedType ==
  ASSUME NEW n \in Int
  PROVE  /\ Converted(n) \in Int
         /\ n >= 0 => Converted(n) >= 0
<1>1. FloatStep \in Nat \ {0}
  BY GeneratorAssumption
<1>2. Nearest(n, FloatStep) \in Int /\ (n >= 0 => Nearest(n, FloatStep) >= 0)
  BY <1>1, NearestType, Zenon
<1>3. FloatStep * Nearest(n, FloatStep) \in Int
  BY <1>1, <1>2
<1>4. n >= 0 => FloatStep * Nearest(n, FloatStep) >= 0
  BY <1>1, <1>2
<1> QED
  BY <1>3, <1>4 DEF Converted

-----------------------------------------------------------------------------
(* What the parser makes                                                   *)

\* A stream is a sequence of tokens in which a number is written as one, and
\* which ends with EOF.
IsStream(ts) ==
  /\ Len(ts) \in Nat \ {0} /\ DOMAIN ts = 1 .. Len(ts)
  /\ ts[Len(ts)].type = "EOF"
  /\ \A i \in DOMAIN ts :
       /\ ts[i].lexeme \in Seq(STRING)
       /\ ts[i].type = "NUMBER" => ts[i].lexeme \in Seq(Figures)

Places == Nat \ {0}
Failures == SyntaxCodes \cup {"RecursionError"}

\* After a success there is a token left to look at.
Results(ts, T) ==
  [ok : {TRUE}, value : T, next : DOMAIN ts] \cup [ok : {FALSE}, value : Failures, next : Places]

\* After every token but EOF there is another one (_advance, _peek).
LEMMA TokenAfter ==
  ASSUME NEW ts, IsStream(ts), NEW i \in DOMAIN ts
  PROVE  /\ i \in Nat /\ i > 0 /\ i \in Places
         /\ ts[i].type # "EOF" => i + 1 \in DOMAIN ts
<1>1. i \in 1 .. Len(ts) /\ Len(ts) \in Nat
  BY DEF IsStream
<1>2. ts[i].type # "EOF" => i # Len(ts)
  BY DEF IsStream
<1>3. ts[i].type # "EOF" => i + 1 \in 1 .. Len(ts)
  BY <1>1, <1>2
<1> QED
  BY <1>1, <1>3 DEF IsStream, Places

\* A parse function returns a value with the index after it, or fails.
LEMMA ResultCases ==
  ASSUME NEW ts, NEW T, NEW r \in Results(ts, T)
  PROVE  /\ r.ok \in BOOLEAN
         /\ r.ok => r.value \in T /\ r.next \in DOMAIN ts
         /\ ~r.ok => r.value \in Failures /\ \A U : r \in Results(ts, U)
BY DEF Results

\* Both kinds of results are results.
LEMMA ResultIs ==
  ASSUME NEW ts, NEW T
  PROVE  /\ \A v \in T, j \in DOMAIN ts :
              /\ Parsed(v, j) \in Results(ts, T) /\ Parsed(v, j).ok
              /\ Parsed(v, j).value = v /\ Parsed(v, j).next = j
         /\ \A c \in Failures, j \in Places :
              /\ Failed(c, j) \in Results(ts, T) /\ ~Failed(c, j).ok
              /\ Failed(c, j).value = c /\ Failed(c, j).next = j
BY DEF Parsed, Failed, Results

\* Min of the community modules is the least element.
LEMMA LeastIsMin ==
  ASSUME NEW S, S \subseteq Nat, S # {}
  PROVE  Min(S) \in S /\ \A k \in S : Min(S) <= k
<1>1. \E n \in S : \A m \in S : n <= m
  BY LeastNumber
<1>2. Min(S) = CHOOSE n \in S : \A m \in S : n <= m
  BY DEF Min
<1> QED
  BY <1>1, <1>2

IsSequence(s) == Len(s) \in Nat /\ DOMAIN s = 1 .. Len(s)

Consumed(ts, i, types) ==
  /\ Consume(ts, i, types).ok \in BOOLEAN
  /\ ~Consume(ts, i, types).ok => \A T : Consume(ts, i, types) \in Results(ts, T)
  /\ Consume(ts, i, types).ok =>
       /\ Consume(ts, i, types) = Parsed(i + Len(types) - 1, i + Len(types))
       /\ \A k \in 1 .. Len(types) :
            i + k - 1 \in DOMAIN ts /\ ts[i + k - 1].type = types[k]

\* _consume of a list of types stays in the stream, and succeeds where they stand.
LEMMA ConsumeType ==
  ASSUME NEW ts, IsStream(ts), NEW i \in DOMAIN ts, NEW types, IsSequence(types)
  PROVE  Consumed(ts, i, types)
<1> DEFINE wrong == {k \in DOMAIN types : i + k - 1 > Len(ts) \/ ts[i + k - 1].type # types[k]}
<1>0. i \in Places
  BY TokenAfter
<1>1. CASE wrong = {}
  <2>1. Consume(ts, i, types) = Parsed(i + Len(types) - 1, i + Len(types))
    BY <1>1 DEF Consume
  <2>2. Consume(ts, i, types).ok
    BY <2>1 DEF Parsed
  <2>3. \A k \in 1 .. Len(types) : i + k - 1 \in DOMAIN ts /\ ts[i + k - 1].type = types[k]
    <3>1. \A k \in 1 .. Len(types) : ~(i + k - 1 > Len(ts)) /\ ts[i + k - 1].type = types[k]
      BY <1>1 DEF IsSequence
    <3>2. \A k \in 1 .. Len(types) : i + k - 1 \in DOMAIN ts
      BY <1>0, <3>1 DEF IsStream, IsSequence, Places
    <3> QED
      BY <3>1, <3>2
  <2> QED
    BY <2>1, <2>2, <2>3 DEF Consumed
<1>2. CASE wrong # {}
  <2>1. Consume(ts, i, types) = Failed("SYN001", i + Min(wrong) - 1)
    BY <1>2 DEF Consume
  <2>2. wrong \subseteq Nat /\ \A k \in wrong : k >= 1
    BY DEF IsSequence
  <2> HIDE DEF wrong
  <2>3. Min(wrong) \in Nat /\ Min(wrong) >= 1
    BY <1>2, <2>2, LeastIsMin
  <2>4. i + Min(wrong) - 1 \in Places
    BY <1>0, <2>3 DEF Places
  <2>5. "SYN001" \in Failures
    BY DEF Failures, SyntaxCodes
  <2>6. Consume(ts, i, types).ok = FALSE /\ \A T : Consume(ts, i, types) \in Results(ts, T)
    <3>1. Consume(ts, i, types).ok = FALSE
      BY <2>1 DEF Failed
    <3>2. ASSUME NEW T PROVE Consume(ts, i, types) \in Results(ts, T)
      BY <2>1, <2>4, <2>5, ResultIs
    <3> QED
      BY <3>1, <3>2
  <2> QED
    BY <2>6 DEF Consumed
<1> QED
  BY <1>1, <1>2

\* Unless it is EOF, what is consumed is not the last token.
LEMMA ConsumeStays ==
  ASSUME NEW ts, IsStream(ts), NEW i \in DOMAIN ts, NEW types, IsSequence(types),
         Len(types) > 0, types[Len(types)] # "EOF"
  PROVE  Consume(ts, i, types) \in Results(ts, Nat)
<1> DEFINE c == Consume(ts, i, types)
           last == i + Len(types) - 1
<1>1. Consumed(ts, i, types)
  BY ConsumeType
<1>2. i \in Nat /\ Len(types) \in Nat /\ last \in Nat /\ last + 1 = i + Len(types)
      /\ Len(types) \in 1 .. Len(types)
  BY TokenAfter DEF IsSequence
<1>3. CASE c.ok
  <2>1. c = Parsed(last, last + 1) /\ last \in DOMAIN ts /\ ts[last].type # "EOF"
    BY <1>1, <1>2, <1>3 DEF Consumed
  <2> HIDE DEF c, last
  <2>2. last + 1 \in DOMAIN ts
    BY <2>1, TokenAfter
  <2>3. c \in Results(ts, Nat)
    BY <1>2, <2>1, <2>2, ResultIs
  <2> QED
    BY <2>3 DEF c
<1>4. CASE ~c.ok
  BY <1>1, <1>4 DEF Consumed
<1> QED
  BY <1>3, <1>4

\* The same for the short sequences of types that the parser consumes.
LEMMA ConsumeOne ==
  ASSUME NEW ts, IsStream(ts), NEW i \in DOMAIN ts, NEW a, a # "EOF"
  PROVE  /\ Consume(ts, i, <<a>>) \in Results(ts, Nat)
         /\ Consume(ts, i, <<a>>).ok => i \in DOMAIN ts /\ ts[i].type = a /\ Consume(ts, i, <<a>>).value = i
<1> DEFINE types == <<a>>
<1>0. i \in Nat /\ i + 1 - 1 = i /\ i + 2 - 1 = i + 1 /\ i + 3 - 1 = i + 2
  BY TokenAfter
<1>1. IsSequence(types) /\ Len(types) = 1 /\ Len(types) > 0 /\ types[Len(types)] # "EOF"
  BY DEF IsSequence
<1>6. types[1] = a
  OBVIOUS
<1>2. \A k \in {1} : k \in 1 .. Len(types)
  OBVIOUS
<1> HIDE DEF types
<1>3. /\ Consume(ts, i, types) \in Results(ts, Nat)
      /\ Consume(ts, i, types).ok =>
           \A k \in 1 .. Len(types) : i + k - 1 \in DOMAIN ts /\ ts[i + k - 1].type = types[k]
  BY <1>1, ConsumeType, ConsumeStays DEF Consumed
<1>4. Consume(ts, i, types).ok =>
        \A k \in {1} : i + k - 1 \in DOMAIN ts /\ ts[i + k - 1].type = types[k]
  BY <1>2, <1>3
<1>5. Consume(ts, i, types).ok => i \in DOMAIN ts /\ ts[i].type = a
  BY <1>0, <1>4, <1>6
<1>7. Consume(ts, i, types).ok => Consume(ts, i, types).value = i
  <2>1. Consume(ts, i, types).ok => Consume(ts, i, types) = Parsed(i + Len(types) - 1, i + Len(types))
    BY <1>1, ConsumeType DEF Consumed
  <2> QED
    BY <1>0, <1>1, <2>1 DEF Parsed
<1> QED
  BY <1>3, <1>5, <1>7 DEF types

\* The same of two types.
LEMMA ConsumeTwo ==
  ASSUME NEW ts, IsStream(ts), NEW i \in DOMAIN ts, NEW a, NEW b, b # "EOF"
  PROVE  /\ Consume(ts, i, <<a, b>>) \in Results(ts, Nat)
         /\ Consume(ts, i, <<a, b>>).ok => i + 1 \in DOMAIN ts /\ ts[i + 1].type = b
<1> DEFINE types == <<a, b>>
<1>0. i \in Nat /\ i + 1 - 1 = i /\ i + 2 - 1 = i + 1 /\ i + 3 - 1 = i + 2
  BY TokenAfter
<1>1. IsSequence(types) /\ Len(types) = 2 /\ Len(types) > 0 /\ types[Len(types)] # "EOF"
  BY DEF IsSequence
<1>6. types[1] = a /\ types[2] = b
  OBVIOUS
<1>2. \A k \in {1, 2} : k \in 1 .. Len(types)
  OBVIOUS
<1> HIDE DEF types
<1>3. /\ Consume(ts, i, types) \in Results(ts, Nat)
      /\ Consume(ts, i, types).ok =>
           \A k \in 1 .. Len(types) : i + k - 1 \in DOMAIN ts /\ ts[i + k - 1].type = types[k]
  BY <1>1, ConsumeType, ConsumeStays DEF Consumed
<1>4. Consume(ts, i, types).ok =>
        \A k \in {1, 2} : i + k - 1 \in DOMAIN ts /\ ts[i + k - 1].type = types[k]
  BY <1>2, <1>3
<1>5. Consume(ts, i, types).ok => i + 1 \in DOMAIN ts /\ ts[i + 1].type = b
  BY <1>0, <1>4, <1>6
<1> QED
  BY <1>3, <1>5 DEF types

\* The same of three types.
LEMMA ConsumeThree ==
  ASSUME NEW ts, IsStream(ts), NEW i \in DOMAIN ts, NEW a, NEW b, NEW c, c # "EOF"
  PROVE  /\ Consume(ts, i, <<a, b, c>>) \in Results(ts, Nat)
         /\ Consume(ts, i, <<a, b, c>>).ok => 
              /\ i \in DOMAIN ts /\ i + 1 \in DOMAIN ts /\ i + 2 \in DOMAIN ts
              /\ ts[i].type = a /\ ts[i + 1].type = b /\ ts[i + 2].type = c
<1> DEFINE types == <<a, b, c>>
<1>0. i \in Nat /\ i + 1 - 1 = i /\ i + 2 - 1 = i + 1 /\ i + 3 - 1 = i + 2
  BY TokenAfter
<1>1. IsSequence(types) /\ Len(types) = 3 /\ Len(types) > 0 /\ types[Len(types)] # "EOF"
  BY DEF IsSequence
<1>6. types[1] = a /\ types[2] = b /\ types[3] = c
  OBVIOUS
<1>2. \A k \in {1, 2, 3} : k \in 1 .. Len(types)
  OBVIOUS
<1> HIDE DEF types
<1>3. /\ Consume(ts, i, types) \in Results(ts, Nat)
      /\ Consume(ts, i, types).ok =>
           \A k \in 1 .. Len(types) : i + k - 1 \in DOMAIN ts /\ ts[i + k - 1].type = types[k]
  BY <1>1, ConsumeType, ConsumeStays DEF Consumed
<1>4. Consume(ts, i, types).ok =>
        \A k \in {1, 2, 3} : i + k - 1 \in DOMAIN ts /\ ts[i + k - 1].type = types[k]
  BY <1>2, <1>3
<1>5. Consume(ts, i, types).ok => 
              /\ i \in DOMAIN ts /\ i + 1 \in DOMAIN ts /\ i + 2 \in DOMAIN ts
              /\ ts[i].type = a /\ ts[i + 1].type = b /\ ts[i + 2].type = c
  BY <1>0, <1>4, <1>6
<1> QED
  BY <1>3, <1>5 DEF types

\* The same of four types.
LEMMA ConsumeFour ==
  ASSUME NEW ts, IsStream(ts), NEW i \in DOMAIN ts, NEW a, NEW b, NEW c, NEW d, d # "EOF"
  PROVE  /\ Consume(ts, i, <<a, b, c, d>>) \in Results(ts, Nat)
         /\ Consume(ts, i, <<a, b, c, d>>).ok => 
              /\ i + 2 \in DOMAIN ts /\ ts[i + 2].type = c
<1> DEFINE types == <<a, b, c, d>>
<1>0. i \in Nat /\ i + 1 - 1 = i /\ i + 2 - 1 = i + 1 /\ i + 3 - 1 = i + 2
  BY TokenAfter
<1>1. IsSequence(types) /\ Len(types) = 4 /\ Len(types) > 0 /\ types[Len(types)] # "EOF"
  BY DEF IsSequence
<1>6. types[1] = a /\ types[2] = b /\ types[3] = c /\ types[4] = d
  OBVIOUS
<1>2. \A k \in {1, 2, 3, 4} : k \in 1 .. Len(types)
  OBVIOUS
<1> HIDE DEF types
<1>3. /\ Consume(ts, i, types) \in Results(ts, Nat)
      /\ Consume(ts, i, types).ok =>
           \A k \in 1 .. Len(types) : i + k - 1 \in DOMAIN ts /\ ts[i + k - 1].type = types[k]
  BY <1>1, ConsumeType, ConsumeStays DEF Consumed
<1>4. Consume(ts, i, types).ok =>
        \A k \in {1, 2, 3, 4} : i + k - 1 \in DOMAIN ts /\ ts[i + k - 1].type = types[k]
  BY <1>2, <1>3
<1>5. Consume(ts, i, types).ok => 
              /\ i + 2 \in DOMAIN ts /\ ts[i + 2].type = c
  BY <1>0, <1>4, <1>6
<1> QED
  BY <1>3, <1>5 DEF types

SignedNumbers == [negative : BOOLEAN, lexeme : Seq(Figures)]

\* _parse_signed_number returns a signed number and stays in the stream.
LEMMA SignedType ==
  ASSUME NEW ts, IsStream(ts), NEW i \in DOMAIN ts
  PROVE  ParseSigned(ts, i) \in Results(ts, SignedNumbers)
<1> DEFINE n == IF ts[i].type \in {"PLUS", "MINUS"} THEN i + 1 ELSE i
           number == Consume(ts, n, <<"NUMBER">>)
           signed == [negative |-> ts[i].type = "MINUS", lexeme |-> ts[n].lexeme]
<1>1. n \in DOMAIN ts
  BY TokenAfter
<1>2. ParseSigned(ts, i) = IF number.ok THEN Parsed(signed, number.next) ELSE number
  BY DEF ParseSigned, Then
<1> HIDE DEF n
<1>3. /\ number \in Results(ts, Nat)
      /\ number.ok => n \in DOMAIN ts /\ ts[n].type = "NUMBER"
  BY <1>1, ConsumeOne
<1> HIDE DEF number
<1>4. number.ok => signed \in SignedNumbers
  BY <1>3 DEF IsStream, SignedNumbers
<1> HIDE DEF signed
<1> QED
  BY <1>2, <1>3, <1>4, ResultCases, ResultIs

Spans == Nat \X Nat
Pairs == [value : SignedNumbers, probability : Seq(Figures), span : Spans]

\* _parse_distribution_pair, for one pair.
LEMMA PairType ==
  ASSUME NEW ts, IsStream(ts), NEW i \in DOMAIN ts
  PROVE  ParsePair(ts, i) \in Results(ts, Pairs)
<1> DEFINE open == Consume(ts, i, <<"LBRACE">>)
           value == ParseSigned(ts, open.next)
           k == value.next
           close == Consume(ts, k, <<"COMMA", "NUMBER", "RBRACE">>)
           pair == [value |-> value.value, probability |-> ts[k + 1].lexeme,
                    span |-> <<i, close.value>>]
<1>1. ParsePair(ts, i) = IF open.ok
                         THEN IF value.ok
                              THEN IF close.ok THEN Parsed(pair, close.next) ELSE close
                              ELSE value
                         ELSE open
  BY DEF ParsePair, Then
<1>2. open \in Results(ts, Nat)
  BY ConsumeOne
<1> HIDE DEF open
<1>3. open.ok => value \in Results(ts, SignedNumbers)
  BY <1>2, ResultCases, SignedType
<1> HIDE DEF value
<1>4. open.ok /\ value.ok =>
        close \in Results(ts, Nat) /\ (close.ok => k + 1 \in DOMAIN ts /\ ts[k + 1].type = "NUMBER")
  <2> HAVE open.ok /\ value.ok
  <2>1. k \in DOMAIN ts
    BY <1>3, ResultCases
  <2> HIDE DEF k
  <2> QED
    BY <2>1, ConsumeThree
<1> HIDE DEF close, k
<1>5. open.ok /\ value.ok /\ close.ok => pair \in Pairs
  <2> HAVE open.ok /\ value.ok /\ close.ok
  <2>1. value.value \in SignedNumbers /\ close.value \in Nat
    BY <1>3, <1>4, ResultCases
  <2>2. ts[k + 1].lexeme \in Seq(Figures)
    BY <1>4 DEF IsStream
  <2>3. <<i, close.value>> \in Spans
    BY <2>1, TokenAfter DEF Spans
  <2> QED
    BY <2>1, <2>2, <2>3 DEF Pairs
<1> HIDE DEF pair
<1> QED
  BY <1>1, <1>2, <1>3, <1>4, <1>5, ResultCases, ResultIs

-----------------------------------------------------------------------------
(* Loops of the parser                                                     *)

GoesOn(ts, types, r) == r.ok /\ ts[r.next].type \in types

\* The values of a loop that does round where it goes on.
Loop(after, ts, result, types, round) ==
  after = [n \in 0 .. Len(ts) |->
             IF n = 0 THEN result
             ELSE IF GoesOn(ts, types, after[n - 1]) THEN round[after[n - 1]] ELSE after[n - 1]]

\* A loop of the parser (While) has a state after each of its rounds.
LEMMA LoopExists ==
  ASSUME NEW ts, IsStream(ts), NEW V, NEW result \in V, NEW types, NEW round \in [V -> V]
  PROVE  \E after \in [0 .. Len(ts) -> V] : Loop(after, ts, result, types, round)
<1> DEFINE N == Len(ts)
           value(n, f) == IF n = 0 THEN result
                          ELSE IF GoesOn(ts, types, f[n - 1]) THEN round[f[n - 1]] ELSE f[n - 1]
           step == [n \in 0 .. N |-> [f \in [0 .. N -> V] |-> value(n, f)]]
<1>0. N \in Nat /\ 0 \in Nat /\ V # {}
  BY DEF IsStream
<1> HIDE DEF N
<1>1. ASSUME NEW n \in 0 .. N, NEW f \in [0 .. N -> V] PROVE value(n, f) \in V
  <2>1. CASE n # 0
    <3>1. n - 1 \in 0 .. N
      BY <1>0, <2>1
    <3>2. f[n - 1] \in V
      BY <3>1
    <3> QED
      BY <3>2
  <2> QED
    BY <2>1
<1>2. ASSUME NEW n \in 0 .. N, NEW f \in [0 .. N -> V], NEW g \in [0 .. N -> V],
             \A j \in 0 .. n - 1 : f[j] = g[j]
      PROVE  value(n, f) = value(n, g)
  <2>1. CASE n # 0
    <3>1. n - 1 \in 0 .. n - 1
      BY <1>0, <2>1
    <3>2. f[n - 1] = g[n - 1]
      BY <1>2, <3>1
    <3> QED
      BY <3>2
  <2> QED
    BY <2>1
<1> HIDE DEF value
<1>3. \A n \in 0 .. N, f \in [0 .. N -> V] : step[n][f] = value(n, f)
  OBVIOUS
<1>4. LooksBack(step, 0, N, V)
  <2>1. step \in [0 .. N -> [[0 .. N -> V] -> V]]
    BY <1>1
  <2> HIDE DEF step
  <2>2. ASSUME NEW n \in 0 .. N, NEW f \in [0 .. N -> V], NEW g \in [0 .. N -> V],
               \A j \in 0 .. n - 1 : f[j] = g[j]
        PROVE  step[n][f] = step[n][g]
    <3>1. value(n, f) = value(n, g)
      BY <1>2, <2>2
    <3> QED
      BY <1>3, <3>1
  <2> QED
    BY <2>1, <2>2 DEF LooksBack
<1> HIDE DEF step
<1>5. PICK f : Recursive(f, step, 0, N, V)
  BY <1>0, <1>4, RecursionDefines
<1>6. f \in [0 .. N -> V] /\ f = [n \in 0 .. N |-> value(n, f)]
  BY <1>3, <1>5 DEF Recursive
<1> QED
  BY <1>6 DEF value, Loop, N

\* What is typed after a round if it was before is typed at the end.
Keeps(after, N, V) ==
  \A n \in 0 .. N : (n # 0 => after[n - 1] \in V) => after[n] \in V

\* What the rounds of a loop keep is kept by any number of them.
LEMMA LoopStays ==
  ASSUME NEW N \in Nat, NEW V, NEW after, Keeps(after, N, V)
  PROVE  \A n \in 0 .. N : after[n] \in V
<1> DEFINE H == {n \in 0 .. N : after[n] \in V}
<1>1. ASSUME NEW n \in 0 .. N, \A j \in 0 .. n - 1 : j \in H PROVE n \in H
  <2>1. n # 0 => n - 1 \in 0 .. n - 1
    OBVIOUS
  <2>2. n # 0 => after[n - 1] \in V
    BY <1>1, <2>1
  <2> QED
    BY <2>2 DEF Keeps
<1>2. \A n \in 0 .. N : (\A j \in 0 .. n - 1 : j \in H) => n \in H
  BY <1>1
<1> HIDE DEF H
<1>3. \A n \in 0 .. N : n \in H
  BY <1>2, SmallerFirst
<1> QED
  BY <1>3 DEF H

\* The result of a loop is the state after one of its rounds.
LEMMA LoopResult ==
  ASSUME NEW N \in Nat, NEW V, NEW after, \A n \in 0 .. N : after[n] \in V, NEW ends
  PROVE  after[CHOOSE n \in 0 .. N : n = N \/ ends[n]] \in V
<1>1. N \in 0 .. N
  OBVIOUS
<1>2. (CHOOSE n \in 0 .. N : n = N \/ ends[n]) \in 0 .. N
  BY <1>1
<1> QED
  BY <1>2

\* The loop over the pairs of a discrete distribution.
LEMMA PairsType ==
  ASSUME NEW ts, IsStream(ts), NEW i \in DOMAIN ts
  PROVE  ParsePairs(ts, i) \in Results(ts, Seq(Pairs))
<1> DEFINE V == Results(ts, Seq(Pairs))
           N == Len(ts)
           pair(j) == ParsePair(ts, j)
           result == IF pair(i).ok THEN Parsed(<<pair(i).value>>, pair(i).next) ELSE pair(i)
           Round(pairs, j) ==
             IF ts[j + 1].type # "LBRACE" THEN Failed("SYN021", j + 1)
             ELSE IF pair(j + 1).ok THEN Parsed(Append(pairs, pair(j + 1).value), pair(j + 1).next)
             ELSE pair(j + 1)
           Body(a) == [n \in 0 .. N |->
                         IF n = 0 THEN result
                         ELSE IF GoesOn(ts, {"COMMA"}, a[n - 1])
                         THEN Round(a[n - 1].value, a[n - 1].next) ELSE a[n - 1]]
           after == CHOOSE a : a = Body(a)
<1>1. ParsePairs(ts, i) = after[CHOOSE n \in 0 .. N : n = N \/ ~GoesOn(ts, {"COMMA"}, after[n])]
  BY DEF ParsePairs, While, Then, GoesOn
<1>2. N \in Nat
  BY DEF IsStream
<1>3. \A j \in DOMAIN ts : pair(j) \in Results(ts, Pairs)
  BY PairType
<1> HIDE DEF pair, N
<1>4. result \in V
  <2>1. pair(i) \in Results(ts, Pairs)
    BY <1>3
  <2>2. pair(i).ok => <<pair(i).value>> \in Seq(Pairs) /\ pair(i).next \in DOMAIN ts
    BY <2>1, ResultCases
  <2>3. ~pair(i).ok => pair(i) \in V
    BY <2>1, ResultCases
  <2> QED
    BY <2>2, <2>3, ResultIs
<1> HIDE DEF result
<1>5. ASSUME NEW pairs \in Seq(Pairs), NEW j \in DOMAIN ts, ts[j].type = "COMMA"
      PROVE  Round(pairs, j) \in V
  <2>1. j + 1 \in DOMAIN ts /\ j + 1 \in Places /\ "SYN021" \in Failures
    <3>1. j + 1 \in DOMAIN ts
      BY <1>5, TokenAfter
    <3> QED
      BY <3>1, TokenAfter DEF Failures, SyntaxCodes
  <2>2. pair(j + 1) \in Results(ts, Pairs)
    BY <1>3, <2>1
  <2>3. pair(j + 1).ok => Append(pairs, pair(j + 1).value) \in Seq(Pairs) /\ pair(j + 1).next \in DOMAIN ts
    BY <2>2, ResultCases
  <2>4. ~pair(j + 1).ok => pair(j + 1) \in V
    BY <2>2, ResultCases
  <2> QED
    BY <2>1, <2>3, <2>4, ResultIs
<1> HIDE DEF Round
<1>6. \A r \in V : GoesOn(ts, {"COMMA"}, r) => Round(r.value, r.next) \in V
  BY <1>5, ResultCases DEF GoesOn
<1> HIDE DEF V
<1>7. after = Body(after)
  <2> DEFINE round == [r \in V |-> IF GoesOn(ts, {"COMMA"}, r) THEN Round(r.value, r.next) ELSE r]
  <2>1. round \in [V -> V]
    BY <1>6
  <2>2. \A r \in V : GoesOn(ts, {"COMMA"}, r) => round[r] = Round(r.value, r.next)
    OBVIOUS
  <2> HIDE DEF round
  <2>3. PICK f \in [0 .. Len(ts) -> V] : Loop(f, ts, result, {"COMMA"}, round)
    BY <1>4, <2>1, LoopExists
  <2>4. f = Body(f)
    <3>1. \A n \in 0 .. N : n # 0 => f[n - 1] \in V
      BY <1>2, <2>3 DEF N
    <3>2. \A n \in 0 .. N :
            f[n] = IF n = 0 THEN result
                   ELSE IF GoesOn(ts, {"COMMA"}, f[n - 1])
                   THEN Round(f[n - 1].value, f[n - 1].next) ELSE f[n - 1]
      BY <2>2, <2>3, <3>1 DEF Loop, N
    <3>3. f = [n \in 0 .. N |-> f[n]]
      BY <2>3 DEF N
    <3> QED
      BY <3>2, <3>3
  <2> HIDE DEF Body
  <2> QED
    BY <2>4
<1> HIDE DEF after
<1>8. Keeps(after, N, V)
  BY <1>4, <1>6, <1>7 DEF Keeps
<1>9. \A n \in 0 .. N : after[n] \in V
  BY <1>2, <1>8, LoopStays
<1> DEFINE ends == [n \in 0 .. N |-> ~GoesOn(ts, {"COMMA"}, after[n])]
<1>10. after[CHOOSE n \in 0 .. N : n = N \/ ends[n]] \in V
  <2> HIDE DEF ends
  <2> QED
    BY <1>2, <1>9, LoopResult
<1>11. \A n \in 0 .. N : ends[n] = ~GoesOn(ts, {"COMMA"}, after[n])
  OBVIOUS
<1> QED
  BY <1>1, <1>10, <1>11 DEF V

Distributions ==
  [kind : {"NORMAL", "UNIFORM"}, variable : Seq(STRING),
   parameters : SignedNumbers \X SignedNumbers, span : Spans]
    \cup [kind : {"DISTRIB"}, variable : Seq(STRING), parameters : Seq(Pairs), span : Spans]

\* _parse_normal and _parse_uniform.
LEMMA TwoParametersType ==
  ASSUME NEW ts, IsStream(ts), NEW i \in DOMAIN ts, ts[i].type \in {"NORMAL", "UNIFORM"}
  PROVE  ParseTwoParameters(ts, i) \in Results(ts, Distributions)
<1> DEFINE open == Consume(ts, i, <<ts[i].type, "VARIABLE", "LBRACE">>)
           first == ParseSigned(ts, open.next)
           comma == Consume(ts, first.next, <<"COMMA">>)
           second == ParseSigned(ts, comma.next)
           close == Consume(ts, second.next, <<"RBRACE">>)
           d == [kind |-> ts[i].type, variable |-> ts[i + 1].lexeme,
                 parameters |-> <<first.value, second.value>>, span |-> <<i, close.value>>]
<1>1. ParseTwoParameters(ts, i) =
        IF open.ok
        THEN IF first.ok
             THEN IF comma.ok
                  THEN IF second.ok
                       THEN IF close.ok THEN Parsed(d, close.next) ELSE close
                       ELSE second
                  ELSE comma
             ELSE first
        ELSE open
  BY DEF ParseTwoParameters, Then
<1>2. open \in Results(ts, Nat) /\ (open.ok => i + 1 \in DOMAIN ts)
  BY ConsumeThree
<1> HIDE DEF open
<1>3. open.ok => first \in Results(ts, SignedNumbers)
  BY <1>2, ResultCases, SignedType
<1> HIDE DEF first
<1>4. open.ok /\ first.ok => comma \in Results(ts, Nat)
  BY <1>3, ResultCases, ConsumeOne
<1> HIDE DEF comma
<1>5. open.ok /\ first.ok /\ comma.ok => second \in Results(ts, SignedNumbers)
  BY <1>4, ResultCases, SignedType
<1> HIDE DEF second
<1>6. open.ok /\ first.ok /\ comma.ok /\ second.ok => close \in Results(ts, Nat)
  BY <1>5, ResultCases, ConsumeOne
<1> HIDE DEF close
<1>7. open.ok /\ first.ok /\ comma.ok /\ second.ok /\ close.ok => d \in Distributions
  <2> HAVE open.ok /\ first.ok /\ comma.ok /\ second.ok /\ close.ok
  <2>1. first.value \in SignedNumbers /\ second.value \in SignedNumbers /\ close.value \in Nat
    BY <1>3, <1>5, <1>6, ResultCases
  <2>2. ts[i + 1].lexeme \in Seq(STRING)
    BY <1>2 DEF IsStream
  <2>3. <<i, close.value>> \in Spans
    BY <2>1, TokenAfter DEF Spans
  <2> QED
    BY <2>1, <2>2, <2>3 DEF Distributions
<1> HIDE DEF d
<1>8. open.ok /\ first.ok /\ comma.ok /\ second.ok /\ close.ok =>
        Parsed(d, close.next) \in Results(ts, Distributions)
  BY <1>6, <1>7, ResultCases, ResultIs
<1>9. /\ ~open.ok => open \in Results(ts, Distributions)
      /\ open.ok /\ ~first.ok => first \in Results(ts, Distributions)
      /\ open.ok /\ first.ok /\ ~comma.ok => comma \in Results(ts, Distributions)
      /\ open.ok /\ first.ok /\ comma.ok /\ ~second.ok => second \in Results(ts, Distributions)
      /\ open.ok /\ first.ok /\ comma.ok /\ second.ok /\ ~close.ok => close \in Results(ts, Distributions)
  BY <1>2, <1>3, <1>4, <1>5, <1>6, ResultCases
<1> QED
  BY <1>1, <1>8, <1>9

\* _parse_discrete.
LEMMA DiscreteType ==
  ASSUME NEW ts, IsStream(ts), NEW i \in DOMAIN ts
  PROVE  ParseDiscrete(ts, i) \in Results(ts, Distributions)
<1> DEFINE open == Consume(ts, i, <<"DISTRIB", "VARIABLE", "LBRACE">>)
           pairs == ParsePairs(ts, open.next)
           close == Consume(ts, pairs.next, <<"RBRACE">>)
           d == [kind |-> "DISTRIB", variable |-> ts[i + 1].lexeme,
                 parameters |-> pairs.value, span |-> <<i, close.value>>]
<1>1. ParseDiscrete(ts, i) =
        IF open.ok
        THEN IF ts[open.next].type # "LBRACE" THEN Failed("SYN020", open.next)
             ELSE IF pairs.ok
                  THEN IF ts[pairs.next].type = "LBRACE" THEN Failed("SYN022", pairs.next)
                       ELSE IF close.ok THEN Parsed(d, close.next) ELSE close
                  ELSE pairs
        ELSE open
  BY DEF ParseDiscrete, Then
<1>2. open \in Results(ts, Nat) /\ (open.ok => i + 1 \in DOMAIN ts)
  BY ConsumeThree
<1> HIDE DEF open
<1>3. open.ok => pairs \in Results(ts, Seq(Pairs))
  BY <1>2, ResultCases, PairsType
<1> HIDE DEF pairs
<1>4. open.ok /\ pairs.ok => close \in Results(ts, Nat)
  BY <1>3, ResultCases, ConsumeOne
<1> HIDE DEF close
<1>5. open.ok /\ pairs.ok /\ close.ok => d \in Distributions
  <2> HAVE open.ok /\ pairs.ok /\ close.ok
  <2>1. pairs.value \in Seq(Pairs) /\ close.value \in Nat
    BY <1>3, <1>4, ResultCases
  <2>2. ts[i + 1].lexeme \in Seq(STRING)
    BY <1>2 DEF IsStream
  <2>3. <<i, close.value>> \in Spans
    BY <2>1, TokenAfter DEF Spans
  <2> QED
    BY <2>1, <2>2, <2>3 DEF Distributions
<1> HIDE DEF d
<1>6. /\ open.ok /\ pairs.ok /\ close.ok => Parsed(d, close.next) \in Results(ts, Distributions)
      /\ ~open.ok => open \in Results(ts, Distributions)
      /\ open.ok /\ ~pairs.ok => pairs \in Results(ts, Distributions)
      /\ open.ok /\ pairs.ok /\ ~close.ok => close \in Results(ts, Distributions)
  BY <1>2, <1>3, <1>4, <1>5, ResultCases, ResultIs
<1>7. "SYN020" \in Failures /\ "SYN022" \in Failures
  BY DEF Failures, SyntaxCodes
<1>8. /\ open.ok => Failed("SYN020", open.next) \in Results(ts, Distributions)
      /\ open.ok /\ pairs.ok => Failed("SYN022", pairs.next) \in Results(ts, Distributions)
  BY <1>2, <1>3, <1>7, ResultCases, ResultIs, TokenAfter
<1> QED
  BY <1>1, <1>6, <1>8

\* One declaration of a distribution.
LEMMA ConfigurationType ==
  ASSUME NEW ts, IsStream(ts), NEW i \in DOMAIN ts, ts[i].type \in ConfigurationStarters
  PROVE  ParseConfiguration(ts, i) \in Results(ts, Distributions)
BY TwoParametersType, DiscreteType DEF ParseConfiguration, ConfigurationStarters

\* There is one distribution at least.
Declarations == {s \in Seq(Distributions) : s # << >>}

\* The loop over the declarations.
LEMMA ConfigurationsType ==
  ASSUME NEW ts, IsStream(ts), NEW i \in DOMAIN ts
  PROVE  ParseConfigurations(ts, i) \in Results(ts, Declarations)
<1> DEFINE V == Results(ts, Seq(Distributions))
           W == Results(ts, Declarations)
           N == Len(ts)
           goesOn(r) == GoesOn(ts, ConfigurationStarters, r)
           result == Parsed(<< >>, i)
           next(j) == ParseConfiguration(ts, j)
           Round(done, j) ==
             IF next(j).ok THEN Parsed(Append(done, next(j).value), next(j).next) ELSE next(j)
           Body(a) == [n \in 0 .. N |->
                         IF n = 0 THEN result
                         ELSE IF goesOn(a[n - 1])
                         THEN Round(a[n - 1].value, a[n - 1].next) ELSE a[n - 1]]
           after == CHOOSE a : a = Body(a)
<1>1. ParseConfigurations(ts, i) =
        IF ts[i].type \notin ConfigurationStarters THEN Failed("SYN010", i)
        ELSE after[CHOOSE n \in 0 .. N : n = N \/ ~goesOn(after[n])]
  BY DEF ParseConfigurations, While, Then, GoesOn
<1>2. N \in Nat /\ N # 0
  BY DEF IsStream
<1>3. \A j \in DOMAIN ts : ts[j].type \in ConfigurationStarters => next(j) \in Results(ts, Distributions)
  BY ConfigurationType
<1> HIDE DEF next, N
<1>4. result \in V
  <2>1. << >> \in Seq(Distributions)
    OBVIOUS
  <2> QED
    BY <2>1, ResultIs
<1> HIDE DEF result
<1>5. ASSUME NEW done \in Seq(Distributions), NEW j \in DOMAIN ts, ts[j].type \in ConfigurationStarters
      PROVE  Round(done, j) \in V /\ Round(done, j) \in W
  <2>1. next(j) \in Results(ts, Distributions)
    BY <1>3, <1>5
  <2>2. next(j).ok => Append(done, next(j).value) \in Seq(Distributions) /\ next(j).next \in DOMAIN ts
    BY <2>1, ResultCases
  <2>3. ~next(j).ok => next(j) \in V /\ next(j) \in W
    BY <2>1, ResultCases
  <2>4. next(j).ok => Append(done, next(j).value) \in Declarations
    <3>1. Append(done, next(j).value) # << >>
      OBVIOUS
    <3> QED
      BY <2>2, <3>1 DEF Declarations
  <2> QED
    BY <2>2, <2>3, <2>4, ResultIs
<1> HIDE DEF Round
<1>6. \A r \in V : goesOn(r) => Round(r.value, r.next) \in V /\ Round(r.value, r.next) \in W
  BY <1>5, ResultCases DEF GoesOn
<1>12. Failed("SYN010", i) \in W
  BY ResultIs, TokenAfter DEF Failures, SyntaxCodes
<1>13. W \subseteq V
  BY DEF Results, Declarations
<1>14. ts[i].type \in ConfigurationStarters => goesOn(result)
  BY DEF GoesOn, result, Parsed
<1> HIDE DEF V, W, goesOn
<1>7. after = Body(after)
  <2> DEFINE round == [r \in V |-> IF goesOn(r) THEN Round(r.value, r.next) ELSE r]
  <2>1. round \in [V -> V]
    BY <1>6
  <2>2. \A r \in V : goesOn(r) => round[r] = Round(r.value, r.next)
    OBVIOUS
  <2> HIDE DEF round
  <2>3. PICK f \in [0 .. Len(ts) -> V] : Loop(f, ts, result, ConfigurationStarters, round)
    BY <1>4, <2>1, LoopExists
  <2>4. f = Body(f)
    <3>1. \A n \in 0 .. N : n # 0 => f[n - 1] \in V
      BY <1>2, <2>3 DEF N
    <3>2. \A n \in 0 .. N :
            f[n] = IF n = 0 THEN result
                   ELSE IF goesOn(f[n - 1]) THEN Round(f[n - 1].value, f[n - 1].next) ELSE f[n - 1]
      BY <2>2, <2>3, <3>1 DEF Loop, N, goesOn
    <3>3. f = [n \in 0 .. N |-> f[n]]
      BY <2>3 DEF N
    <3> QED
      BY <3>2, <3>3
  <2> HIDE DEF Body
  <2> QED
    BY <2>4
<1> HIDE DEF after
<1> DEFINE later == [n \in 0 .. N |-> IF n = 0 THEN after[1] ELSE after[n]]
           ends == [n \in 0 .. N |-> ~goesOn(after[n])]
           last == CHOOSE n \in 0 .. N : n = N \/ ends[n]
<1>15. ASSUME ts[i].type \in ConfigurationStarters PROVE after[last] \in W
  <2>1. after[0] = result /\ after[0] \in V
    BY <1>2, <1>4, <1>7
  <2>2. goesOn(after[0])
    BY <1>14, <1>15, <2>1
  <2>3. after[1] \in W
    <3>1. 1 \in 0 .. N /\ 1 - 1 = 0 /\ 1 # 0
      BY <1>2
    <3>2. after[1] = Round(after[0].value, after[0].next)
      BY <1>7, <2>2, <3>1
    <3> QED
      BY <1>6, <2>1, <2>2, <3>2
  <2>4. Keeps(later, N, W)
    <3> SUFFICES ASSUME NEW n \in 0 .. N, n # 0 => later[n - 1] \in W PROVE later[n] \in W
      BY DEF Keeps
    <3>1. CASE n \in {0, 1}
      BY <2>3, <3>1
    <3>2. CASE n \notin {0, 1}
      <4>1. n - 1 \in 0 .. N /\ n - 1 # 0 /\ n # 0
        BY <1>2, <3>2
      <4>2. after[n - 1] \in W /\ later[n] = after[n]
        BY <4>1
      <4>3. after[n] = IF goesOn(after[n - 1])
                       THEN Round(after[n - 1].value, after[n - 1].next) ELSE after[n - 1]
        BY <1>7, <4>1
      <4> QED
        BY <1>6, <1>13, <4>2, <4>3
    <3> QED
      BY <3>1, <3>2
  <2>5. last \in 0 .. N /\ (last = N \/ ends[last])
    <3>1. N \in 0 .. N
      BY <1>2
    <3> QED
      BY <3>1
  <2>6. last # 0
    <3>1. 0 \in 0 .. N
      BY <1>2
    <3>2. ~ends[0]
      BY <2>2, <3>1
    <3> HIDE DEF ends, last
    <3> QED
      BY <1>2, <2>5, <3>2
  <2>7. later[last] \in W
    <3> HIDE DEF later, last
    <3> QED
      BY <1>2, <2>4, <2>5, LoopStays
  <2> QED
    BY <2>5, <2>6, <2>7
<1>16. \A n \in 0 .. N : ends[n] = ~goesOn(after[n])
  OBVIOUS
<1> QED
  BY <1>1, <1>12, <1>15, <1>16 DEF W

-----------------------------------------------------------------------------
(* Expressions are trees in postfix order                                  *)

Binaries == Sums \cup Products \cup {"frac", "power"}
Operations == Leaves \cup Unaries \cup {"sqrt"} \cup Binaries
Nodes == [op : Operations, lexeme : Seq(STRING), size : Places, span : Spans]

\* The operands of node k end where its size says.
Formed(e, k) ==
  /\ e[k].op \in Leaves => e[k].size = 1
  /\ e[k].op \in Unaries \cup {"sqrt"} => k > 1 /\ e[k].size = e[k - 1].size + 1
  /\ e[k].op \in Binaries =>
       /\ k > 1 /\ k - 1 > e[k - 1].size
       /\ e[k].size = e[k - 1].size + e[k - 1 - e[k - 1].size].size + 1
  /\ e[k].size <= k
  /\ e[k].op = "number" => e[k].lexeme \in Seq(Figures)

Trees ==
  {e \in Seq(Nodes) :
     Len(e) > 0 /\ e[Len(e)].size = Len(e) /\ \A k \in 1 .. Len(e) : Formed(e, k)}

\* Operations are leaves, unary or binary, and only one of them.
LEMMA OperationsDiffer ==
  /\ \A op \in Leaves : op \notin Unaries \cup {"sqrt"} /\ op \notin Binaries
  /\ \A op \in Unaries \cup {"sqrt"} : op \notin Leaves /\ op \notin Binaries
  /\ \A op \in Binaries : op \notin Leaves /\ op \notin Unaries \cup {"sqrt"}
  /\ Operations = Leaves \cup (Unaries \cup {"sqrt"}) \cup Binaries
BY DEF Leaves, Unaries, Binaries, Sums, Products, Operations

\* What is known of a tree.
LEMMA TreeFacts ==
  ASSUME NEW e \in Trees
  PROVE  /\ e \in Seq(Nodes) /\ Len(e) \in Nat /\ Len(e) > 0 /\ e[Len(e)].size = Len(e)
         /\ \A k \in 1 .. Len(e) :
              Formed(e, k) /\ e[k] \in Nodes /\ e[k].size \in Nat /\ e[k].size > 0
<1>1. /\ e \in Seq(Nodes) /\ Len(e) \in Nat /\ Len(e) > 0 /\ e[Len(e)].size = Len(e)
      /\ \A k \in 1 .. Len(e) : Formed(e, k)
  BY DEF Trees
<1>2. \A k \in 1 .. Len(e) : e[k] \in Nodes
  BY <1>1
<1>3. \A node \in Nodes : node.size \in Nat /\ node.size > 0
  BY DEF Nodes, Places
<1> QED
  BY <1>1, <1>2, <1>3

\* What there is to know of a tree.
LEMMA IsTree ==
  ASSUME NEW e \in Seq(Nodes), Len(e) > 0, e[Len(e)].size = Len(e),
         \A k \in 1 .. Len(e) : Formed(e, k)
  PROVE  e \in Trees
BY DEF Trees

\* A NumberNode or a VariableNode is a tree.
LEMMA LeafTree ==
  ASSUME NEW op \in Leaves, NEW lexeme \in Seq(STRING), NEW i \in Places,
         op = "number" => lexeme \in Seq(Figures)
  PROVE  Leaf(op, lexeme, i) \in Trees
<1> DEFINE node == Node(op, lexeme, 1, i, i)
           e == <<node>>
<1>1. node \in Nodes /\ node.op = op /\ node.lexeme = lexeme /\ node.size = 1
  BY DEF Node, Nodes, Operations, Places, Spans
<1> HIDE DEF node
<1>2. e \in Seq(Nodes) /\ Len(e) = 1 /\ e[1] = node
  BY <1>1
<1>3. Leaf(op, lexeme, i) = e
  BY DEF Leaf, node
<1> HIDE DEF e
<1>4. Formed(e, 1)
  BY <1>1, <1>2, OperationsDiffer DEF Formed
<1>5. \A k \in 1 .. Len(e) : Formed(e, k)
  <2>1. \A k \in 1 .. Len(e) : k = 1
    BY <1>2
  <2> QED
    BY <1>4, <2>1
<1>6. Len(e) > 0 /\ e[Len(e)].size = Len(e)
  BY <1>1, <1>2
<1> QED
  BY <1>2, <1>3, <1>5, <1>6, IsTree

\* A unary operator over a tree is a tree.
LEMMA UnaryTree ==
  ASSUME NEW e \in Trees, NEW op \in Unaries \cup {"sqrt"}, NEW from \in Nat, NEW to \in Nat
  PROVE  Unary(op, e, from, to) \in Trees
<1> DEFINE n == Len(e)
           node == Node(op, << >>, n + 1, from, to)
           f == Append(e, node)
<1>1. /\ e \in Seq(Nodes) /\ n \in Nat /\ n > 0 /\ e[n].size = n
      /\ \A k \in 1 .. n : Formed(e, k) /\ e[k].size \in Nat /\ e[k].size > 0
  BY TreeFacts
<1>2. node \in Nodes /\ node.op = op /\ node.size = n + 1
  <2>1. << >> \in Seq(STRING) /\ n + 1 \in Places /\ <<from, to>> \in Spans /\ op \in Operations
    BY <1>1 DEF Places, Spans, Operations
  <2> QED
    BY <2>1 DEF Node, Nodes
<1> HIDE DEF node
<1>3. /\ f \in Seq(Nodes) /\ Len(f) = n + 1 /\ f[n + 1] = node
      /\ \A k \in 1 .. n : f[k] = e[k]
  BY <1>1, <1>2
<1>4. Unary(op, e, from, to) = f
  BY DEF Unary, node
<1> HIDE DEF f
<1>5. \A k \in 1 .. n : Formed(f, k)
  <2> SUFFICES ASSUME NEW k \in 1 .. n PROVE Formed(f, k)
    OBVIOUS
  <2>1. Formed(e, k) /\ f[k] = e[k]
    BY <1>1, <1>3
  <2>2. k > 1 => k - 1 \in 1 .. n /\ f[k - 1] = e[k - 1]
    BY <1>1, <1>3
  <2>3. k > 1 /\ k - 1 > e[k - 1].size => f[k - 1 - e[k - 1].size] = e[k - 1 - e[k - 1].size]
    <3>1. k > 1 => e[k - 1].size \in Nat
      BY <1>1, <2>2
    <3>2. k > 1 /\ k - 1 > e[k - 1].size => k - 1 - e[k - 1].size \in 1 .. n
      BY <1>1, <3>1
    <3> QED
      BY <1>3, <3>2
  <2> QED
    BY <2>1, <2>2, <2>3 DEF Formed
<1>6. Formed(f, n + 1)
  <2>1. op \notin Leaves /\ op \notin Binaries /\ op # "number"
    BY OperationsDiffer DEF Leaves
  <2>2. n + 1 > 1 /\ n + 1 - 1 = n /\ f[n] = e[n] /\ n + 1 <= n + 1
    BY <1>1, <1>3
  <2> QED
    BY <1>1, <1>2, <1>3, <2>1, <2>2 DEF Formed
<1>7. \A k \in 1 .. Len(f) : k \in 1 .. n \/ k = n + 1
  BY <1>1, <1>3
<1> QED
  BY <1>1, <1>2, <1>3, <1>4, <1>5, <1>6, <1>7 DEF Trees

\* A binary operator over two trees is a tree.
LEMMA BinaryTree ==
  ASSUME NEW l \in Trees, NEW r \in Trees, NEW op \in Binaries, NEW from \in Nat, NEW to \in Nat
  PROVE  Binary(op, l, r, from, to) \in Trees
<1> DEFINE m == Len(l)
           n == Len(r)
           node == Node(op, << >>, m + n + 1, from, to)
           f == Append(l \o r, node)
<1>1. /\ l \in Seq(Nodes) /\ m \in Nat /\ m > 0 /\ l[m].size = m
      /\ \A k \in 1 .. m : Formed(l, k) /\ l[k].size \in Nat /\ l[k].size > 0
  BY TreeFacts
<1>2. /\ r \in Seq(Nodes) /\ n \in Nat /\ n > 0 /\ r[n].size = n
      /\ \A k \in 1 .. n : Formed(r, k) /\ r[k].size \in Nat /\ r[k].size > 0
  BY TreeFacts
<1>3. node \in Nodes /\ node.op = op /\ node.size = m + n + 1
  <2>1. << >> \in Seq(STRING) /\ m + n + 1 \in Places /\ <<from, to>> \in Spans /\ op \in Operations
    BY <1>1, <1>2 DEF Places, Spans, Operations
  <2> QED
    BY <2>1 DEF Node, Nodes
<1> HIDE DEF node
<1>4. /\ l \o r \in Seq(Nodes) /\ Len(l \o r) = m + n
      /\ \A k \in 1 .. m : (l \o r)[k] = l[k]
      /\ \A k \in 1 .. n : (l \o r)[m + k] = r[k]
  BY <1>1, <1>2
<1>5. /\ f \in Seq(Nodes) /\ Len(f) = m + n + 1 /\ f[m + n + 1] = node
      /\ \A k \in 1 .. m + n : f[k] = (l \o r)[k]
  BY <1>1, <1>2, <1>3, <1>4
<1>6. Binary(op, l, r, from, to) = f
  BY DEF Binary, node
<1>7. /\ \A k \in 1 .. m : f[k] = l[k]
      /\ \A k \in 1 .. n : f[m + k] = r[k]
  BY <1>1, <1>2, <1>4, <1>5
<1> HIDE DEF f
<1>8. \A k \in 1 .. m : Formed(f, k)
  <2> SUFFICES ASSUME NEW k \in 1 .. m PROVE Formed(f, k)
    OBVIOUS
  <2>1. Formed(l, k) /\ f[k] = l[k]
    BY <1>1, <1>7
  <2>2. k > 1 => k - 1 \in 1 .. m /\ f[k - 1] = l[k - 1]
    BY <1>1, <1>7
  <2>3. k > 1 /\ k - 1 > l[k - 1].size => f[k - 1 - l[k - 1].size] = l[k - 1 - l[k - 1].size]
    BY <1>1, <1>7, <2>2
  <2> QED
    BY <2>1, <2>2, <2>3 DEF Formed
<1>9. \A k \in 1 .. n : Formed(f, m + k)
  <2> SUFFICES ASSUME NEW k \in 1 .. n PROVE Formed(f, m + k)
    OBVIOUS
  <2>1. Formed(r, k) /\ f[m + k] = r[k] /\ r[k].size \in Nat
    BY <1>2, <1>7
  <2>2. k > 1 => m + k > 1 /\ m + k - 1 = m + (k - 1) /\ f[m + k - 1] = r[k - 1]
                   /\ r[k - 1].size \in Nat /\ r[k - 1].size > 0
    <3>1. k > 1 => k - 1 \in 1 .. n /\ m + k - 1 = m + (k - 1) /\ m + k > 1
      BY <1>1, <1>2
    <3> QED
      BY <1>2, <1>7, <3>1
  <2>3. k > 1 /\ k - 1 > r[k - 1].size =>
          /\ m + k - 1 > r[k - 1].size
          /\ f[m + k - 1 - r[k - 1].size] = r[k - 1 - r[k - 1].size]
    <3> HAVE k > 1 /\ k - 1 > r[k - 1].size
    <3>1. /\ k - 1 - r[k - 1].size \in 1 .. n /\ m + k - 1 > r[k - 1].size
          /\ m + k - 1 - r[k - 1].size = m + (k - 1 - r[k - 1].size)
      BY <1>1, <1>2, <2>2
    <3> QED
      BY <1>7, <3>1
  <2>4. r[k].size <= m + k
    BY <1>1, <1>2, <2>1 DEF Formed, Places
  <2> DEFINE K == m + k
  <2>5. f[K] = r[k] /\ f[K].size <= K
    BY <2>1, <2>4
  <2>6. k > 1 => K > 1 /\ f[K - 1] = r[k - 1]
    BY <2>2
  <2>7. k > 1 /\ k - 1 > r[k - 1].size =>
          K - 1 > r[k - 1].size /\ f[K - 1 - r[k - 1].size] = r[k - 1 - r[k - 1].size]
    <3> HAVE k > 1 /\ k - 1 > r[k - 1].size
    <3>1. m + k - 1 > r[k - 1].size /\ f[m + k - 1 - r[k - 1].size] = r[k - 1 - r[k - 1].size]
      BY <2>3
    <3>2. \A x \in Nat : K - 1 = m + k - 1 /\ K - 1 - x = m + k - 1 - x
      BY <1>1
    <3>3. K - 1 = m + k - 1 /\ K - 1 - r[k - 1].size = m + k - 1 - r[k - 1].size
      BY <2>2, <3>2
    <3> HIDE DEF K
    <3> QED
      BY <3>1, <3>3
  <2> HIDE DEF K
  <2>8. Formed(f, K)
    BY <2>1, <2>5, <2>6, <2>7 DEF Formed
  <2> QED
    BY <2>8 DEF K
<1>10. Formed(f, m + n + 1)
  <2>1. op \notin Leaves /\ op \notin Unaries \cup {"sqrt"} /\ op # "number"
    BY OperationsDiffer DEF Leaves
  <2>2. /\ m + n + 1 > 1 /\ m + n + 1 - 1 = m + n /\ f[m + n] = r[n] /\ f[m] = l[m]
        /\ m + n + 1 - 1 > n /\ m + n + 1 - 1 - n = m /\ m + n + 1 <= m + n + 1
    BY <1>1, <1>2, <1>7
  <2>3. node.size = r[n].size + l[m].size + 1 /\ r[n].size = n
    BY <1>1, <1>2, <1>3
  <2> DEFINE K == m + n + 1
  <2>4. /\ f[K] = node /\ node.size <= K
        /\ K > 1 /\ K - 1 > n /\ f[K - 1] = r[n] /\ f[K - 1 - n] = l[m]
    BY <1>3, <1>5, <2>2
  <2> HIDE DEF K
  <2>5. Formed(f, K)
    BY <1>3, <2>1, <2>3, <2>4 DEF Formed
  <2> QED
    BY <2>5 DEF K
<1>11. \A k \in 1 .. Len(f) : k \in 1 .. m \/ k = m + n + 1 \/ (k - m \in 1 .. n /\ k = m + (k - m))
  <2>1. m \in Nat /\ n \in Nat /\ Len(f) = m + n + 1
    BY <1>1, <1>2, <1>5
  <2> HIDE DEF m, n
  <2> QED
    BY <2>1
<1>12. \A k \in 1 .. Len(f) : Formed(f, k)
  BY <1>8, <1>9, <1>10, <1>11
<1>13. Len(f) > 0 /\ f[Len(f)].size = Len(f)
  BY <1>1, <1>2, <1>3, <1>5
<1> QED
  BY <1>5, <1>6, <1>12, <1>13 DEF Trees

\* The span of a tree.
LEMMA SpanType ==
  ASSUME NEW e \in Trees
  PROVE  Span(e) \in Spans /\ Span(e)[1] \in Nat /\ Span(e)[2] \in Nat
<1>1. e[Len(e)] \in Nodes
  BY DEF Trees
<1> QED
  BY <1>1 DEF Span, Nodes, Spans

\* Braces around a tree leave it a tree (replace of its span).
LEMMA RegroupTree ==
  ASSUME NEW e \in Trees, NEW from \in Nat, NEW to \in Nat
  PROVE  Regroup(e, from, to) \in Trees
<1> DEFINE n == Len(e)
           f == [e EXCEPT ![n].span = <<from, to>>]
<1>1. /\ e \in Seq(Nodes) /\ n \in Nat /\ n > 0 /\ e[n].size = n
      /\ \A k \in 1 .. n : Formed(e, k) /\ e[k] \in Nodes /\ e[k].size \in Nat /\ e[k].size > 0
  BY TreeFacts
<1>2. <<from, to>> \in Spans
  BY DEF Spans
<1>3. [e[n] EXCEPT !.span = <<from, to>>] \in Nodes
  <2>1. e[n] \in Nodes
    BY <1>1
  <2> QED
    BY <1>2, <2>1 DEF Nodes
<1>4. f \in Seq(Nodes) /\ Len(f) = n
  BY <1>1, <1>3
<1>5. \A k \in 1 .. n : f[k].op = e[k].op /\ f[k].lexeme = e[k].lexeme /\ f[k].size = e[k].size
  BY <1>1 DEF Nodes
<1> HIDE DEF f
<1>6. \A k \in 1 .. n : Formed(f, k)
  <2> SUFFICES ASSUME NEW k \in 1 .. n PROVE Formed(f, k)
    OBVIOUS
  <2>1. /\ Formed(e, k)
        /\ f[k].op = e[k].op /\ f[k].lexeme = e[k].lexeme /\ f[k].size = e[k].size
    BY <1>1, <1>5
  <2>2. k > 1 => k - 1 \in 1 .. n /\ f[k - 1].size = e[k - 1].size
                   /\ e[k - 1].size \in Nat /\ e[k - 1].size > 0
    <3>1. k > 1 => k - 1 \in 1 .. n
      BY <1>1
    <3> QED
      BY <1>1, <1>5, <3>1
  <2>3. k > 1 /\ k - 1 > e[k - 1].size =>
          f[k - 1 - e[k - 1].size].size = e[k - 1 - e[k - 1].size].size
    <3>1. k > 1 /\ k - 1 > e[k - 1].size => k - 1 - e[k - 1].size \in 1 .. n
      BY <1>1, <2>2
    <3> QED
      BY <1>5, <3>1
  <2> QED
    BY <2>1, <2>2, <2>3 DEF Formed
<1> QED
  <2>1. Len(f) > 0 /\ f[Len(f)].size = Len(f)
    BY <1>1, <1>4, <1>5
  <2>2. f \in Trees
    BY <1>4, <1>6, <2>1, IsTree
  <2> QED
    BY <2>2 DEF Regroup, f

-----------------------------------------------------------------------------
(* What a tree says of the tokens it was parsed from                       *)

Count(S, i, j) == Cardinality({k \in i .. j : k \in S})

\* Counting from i to j is counting to m and from there.
LEMMA CountSplit ==
  ASSUME NEW S, NEW i \in Nat, NEW m \in Nat, NEW j \in Nat, i <= m + 1, m <= j
  PROVE  /\ Count(S, i, j) \in Nat /\ Count(S, i, m) \in Nat /\ Count(S, m + 1, j) \in Nat
         /\ Count(S, i, j) = Count(S, i, m) + Count(S, m + 1, j)
<1> DEFINE all == {k \in i .. j : k \in S}
           first == {k \in i .. m : k \in S}
           last == {k \in m + 1 .. j : k \in S}
<1>1. IsFiniteSet(all) /\ IsFiniteSet(first) /\ IsFiniteSet(last)
  <2>1. \A a, b \in Int : IsFiniteSet(a .. b)
    BY FS_Interval
  <2>2. IsFiniteSet(i .. j) /\ IsFiniteSet(i .. m) /\ IsFiniteSet(m + 1 .. j)
    BY <2>1
  <2>3. all \subseteq i .. j /\ first \subseteq i .. m /\ last \subseteq m + 1 .. j
    OBVIOUS
  <2> QED
    BY <2>2, <2>3, FS_Subset
<1>2. all = first \cup last /\ first \cap last = {}
  OBVIOUS
<1> HIDE DEF all, first, last
<1>3. /\ Cardinality(first \cup last)
           = Cardinality(first) + Cardinality(last) - Cardinality(first \cap last)
      /\ Cardinality({}) = 0
  BY <1>1, FS_Union, FS_EmptySet
<1>4. Cardinality(all) \in Nat /\ Cardinality(first) \in Nat /\ Cardinality(last) \in Nat
  BY <1>1, FS_CardinalityType
<1>5. /\ Count(S, i, j) = Cardinality(all) /\ Count(S, i, m) = Cardinality(first)
      /\ Count(S, m + 1, j) = Cardinality(last)
  BY DEF all, first, last, Count
<1>6. Cardinality(all) = Cardinality(first) + Cardinality(last) - 0
  BY <1>2, <1>3
<1> QED
  BY <1>4, <1>5, <1>6

\* The node before the operand that ends at the node before this one.
LEMMA NodeBefore ==
  ASSUME NEW n \in Nat, NEW k \in 1 .. n, NEW size \in Nat, k - 1 > size
  PROVE  k - 1 - size \in 1 .. n /\ k - 1 - size # n
OBVIOUS

LEMMA ShiftedBefore ==
  ASSUME NEW d \in Nat, NEW k \in Nat, NEW size \in Nat
  PROVE  (d + k) - 1 - size = d + (k - 1 - size)
OBVIOUS

\* The balance of braces adds up.
LEMMA BalanceSplit ==
  ASSUME NEW ts, NEW i \in Nat, NEW m \in Nat, NEW j \in Nat, i <= m + 1, m <= j
  PROVE  /\ Balance(ts, i, j) = Balance(ts, i, m) + Balance(ts, m + 1, j)
         /\ Balance(ts, i, j) \in Int /\ Balance(ts, i, m) \in Int
         /\ Balance(ts, m + 1, j) \in Int
<1> DEFINE L == {k \in Nat : ts[k].type = "LBRACE"}
           R == {k \in Nat : ts[k].type = "RBRACE"}
<1>1. ASSUME NEW a \in Nat, NEW b \in Nat
      PROVE  Balance(ts, a, b) = Count(L, a, b) - Count(R, a, b)
  <2>1. /\ {k \in a .. b : k \in L} = {k \in a .. b : ts[k].type = "LBRACE"}
        /\ {k \in a .. b : k \in R} = {k \in a .. b : ts[k].type = "RBRACE"}
    OBVIOUS
  <2> QED
    BY <2>1 DEF Balance, Count
<1> HIDE DEF L, R
<1>2. /\ Count(L, i, j) \in Nat /\ Count(L, i, m) \in Nat /\ Count(L, m + 1, j) \in Nat
      /\ Count(L, i, j) = Count(L, i, m) + Count(L, m + 1, j)
  BY CountSplit
<1>3. /\ Count(R, i, j) \in Nat /\ Count(R, i, m) \in Nat /\ Count(R, m + 1, j) \in Nat
      /\ Count(R, i, j) = Count(R, i, m) + Count(R, m + 1, j)
  BY CountSplit
<1>4. m + 1 \in Nat
  OBVIOUS
<1>5. /\ Balance(ts, i, j) = Count(L, i, j) - Count(R, i, j)
      /\ Balance(ts, i, m) = Count(L, i, m) - Count(R, i, m)
      /\ Balance(ts, m + 1, j) = Count(L, m + 1, j) - Count(R, m + 1, j)
  BY <1>1, <1>4
<1> QED
  BY <1>2, <1>3, <1>5

\* The balance of one token.
LEMMA BalanceOne ==
  ASSUME NEW ts, NEW i \in Nat
  PROVE  /\ ts[i].type = "LBRACE" => Balance(ts, i, i) = 1
         /\ ts[i].type = "RBRACE" => Balance(ts, i, i) = -1
         /\ ts[i].type \notin {"LBRACE", "RBRACE"} => Balance(ts, i, i) = 0
<1> DEFINE L == {k \in i .. i : ts[k].type = "LBRACE"}
           R == {k \in i .. i : ts[k].type = "RBRACE"}
<1>1. Cardinality({}) = 0 /\ Cardinality({i}) = 1
  BY FS_EmptySet, FS_Singleton
<1>2. Balance(ts, i, i) = Cardinality(L) - Cardinality(R)
  BY DEF Balance
<1>3. /\ ts[i].type = "LBRACE" => L = {i} /\ R = {}
      /\ ts[i].type = "RBRACE" => L = {} /\ R = {i}
      /\ ts[i].type \notin {"LBRACE", "RBRACE"} => L = {} /\ R = {}
  OBVIOUS
<1> HIDE DEF L, R
<1>4. ts[i].type = "LBRACE" => Balance(ts, i, i) = 1 - 0
  BY <1>1, <1>2, <1>3
<1>5. ts[i].type = "RBRACE" => Balance(ts, i, i) = 0 - 1
  BY <1>1, <1>2, <1>3
<1>6. ts[i].type \notin {"LBRACE", "RBRACE"} => Balance(ts, i, i) = 0 - 0
  BY <1>1, <1>2, <1>3
<1> QED
  BY <1>4, <1>5, <1>6

\* From token i to token j every brace that opens closes.
Balanced(ts, i, j) ==
  /\ i \in Nat /\ j \in Nat /\ i <= j
  /\ Balance(ts, i, j) = 0
  /\ \A k \in i .. j : Balance(ts, i, k) >= 0

\* A token that is no brace.
LEMMA TokenBalanced ==
  ASSUME NEW ts, NEW i \in Nat, ts[i].type \notin {"LBRACE", "RBRACE"}
  PROVE  Balanced(ts, i, i)
<1>1. Balance(ts, i, i) = 0 /\ \A k \in i .. i : k = i
  BY BalanceOne
<1> QED
  BY <1>1 DEF Balanced

\* One after the other.
LEMMA BothBalanced ==
  ASSUME NEW ts, NEW i, NEW m, NEW j, Balanced(ts, i, m), Balanced(ts, m + 1, j)
  PROVE  Balanced(ts, i, j)
<1>1. /\ i \in Nat /\ m \in Nat /\ j \in Nat /\ i <= m /\ m + 1 <= j
      /\ Balance(ts, i, m) = 0 /\ Balance(ts, m + 1, j) = 0
      /\ \A k \in i .. m : Balance(ts, i, k) >= 0
      /\ \A k \in m + 1 .. j : Balance(ts, m + 1, k) >= 0
  BY DEF Balanced
<1>2. \A k \in m + 1 .. j : Balance(ts, i, k) = Balance(ts, i, m) + Balance(ts, m + 1, k)
  <2> TAKE k \in m + 1 .. j
  <2>1. k \in Nat /\ i <= m + 1 /\ m <= k
    BY <1>1
  <2> QED
    BY <1>1, <2>1, BalanceSplit
<1>3. \A k \in m + 1 .. j : Balance(ts, i, k) = Balance(ts, m + 1, k)
  <2> TAKE k \in m + 1 .. j
  <2>1. k \in Nat /\ i <= m + 1 /\ m <= k
    BY <1>1
  <2>2. Balance(ts, m + 1, k) \in Int
    BY <1>1, <2>1, BalanceSplit
  <2> QED
    BY <1>1, <1>2, <2>2
<1>4. j \in m + 1 .. j /\ \A k \in i .. j : k \in i .. m \/ k \in m + 1 .. j
  BY <1>1
<1> QED
  BY <1>1, <1>3, <1>4 DEF Balanced

\* In braces, and the first brace closes with the last one.
LEMMA BracesBalanced ==
  ASSUME NEW ts, NEW i \in Nat, NEW c \in Nat, Balanced(ts, i + 1, c - 1),
         ts[i].type = "LBRACE", ts[c].type = "RBRACE"
  PROVE  Balanced(ts, i, c) /\ \A k \in i .. c - 1 : Balance(ts, i, k) > 0
<1>1. /\ i + 1 \in Nat /\ c - 1 \in Nat /\ i + 1 <= c - 1 /\ Balance(ts, i + 1, c - 1) = 0
      /\ \A k \in i + 1 .. c - 1 : Balance(ts, i + 1, k) >= 0
  BY DEF Balanced
<1>2. Balance(ts, i, i) = 1 /\ Balance(ts, c, c) = -1
  BY BalanceOne
<1>3. ASSUME NEW k \in i + 1 .. c - 1
      PROVE  Balance(ts, i, k) = 1 + Balance(ts, i + 1, k) /\ Balance(ts, i + 1, k) \in Int
  <2>1. k \in Nat /\ i <= i + 1 /\ i <= k
    BY <1>1
  <2>2. /\ Balance(ts, i, k) = Balance(ts, i, i) + Balance(ts, i + 1, k)
        /\ Balance(ts, i + 1, k) \in Int
    BY <2>1, BalanceSplit
  <2> QED
    BY <1>2, <2>2
<1>4. \A k \in i .. c - 1 : Balance(ts, i, k) > 0
  <2>1. \A k \in i .. c - 1 : k = i \/ k \in i + 1 .. c - 1
    BY <1>1
  <2>2. \A k \in i + 1 .. c - 1 : Balance(ts, i, k) > 0
    BY <1>1, <1>3
  <2> QED
    BY <1>2, <2>1, <2>2
<1>5. Balance(ts, i, c) = 0
  <2>1. c - 1 \in i + 1 .. c - 1 /\ c - 1 + 1 = c /\ i <= c - 1 + 1 /\ c - 1 <= c
    BY <1>1
  <2>2. Balance(ts, i, c - 1) = 1
    BY <1>1, <1>3, <2>1
  <2>3. Balance(ts, i, c) = Balance(ts, i, c - 1) + Balance(ts, c - 1 + 1, c)
    BY <1>1, <2>1, BalanceSplit
  <2> QED
    BY <1>2, <2>1, <2>2, <2>3
<1>6. i <= c /\ \A k \in i .. c : k = c \/ k \in i .. c - 1
  BY <1>1
<1>7. \A k \in i .. c - 1 : Balance(ts, i, k) >= 0
  <2> TAKE k \in i .. c - 1
  <2>1. k \in Nat /\ i <= i + 1 /\ i <= k
    OBVIOUS
  <2>2. Balance(ts, i, k) \in Int
    BY <2>1, BalanceSplit
  <2> QED
    BY <1>4, <2>2
<1> QED
  BY <1>4, <1>5, <1>6, <1>7 DEF Balanced

\* The span has from and to in as many braces as there are before from.
Wraps(ts, span, from, to) ==
  /\ span[1] \in Nat /\ span[2] \in Nat /\ from \in Nat /\ to \in Nat
  /\ span[1] <= from /\ to <= span[2] /\ from - span[1] = span[2] - to
  /\ \A k \in span[1] .. from - 1 : ts[k].type = "LBRACE"
  /\ \A k \in to + 1 .. span[2] : ts[k].type = "RBRACE"

\* An operator between its operands.
SitsBetween(ts, node, first, last) ==
  /\ Wraps(ts, node.span, first.span[1], last.span[2])
  /\ Binds(ts, first, IF node.op = "power" THEN 5 ELSE Level(node.op))
  /\ node.op \in Sums \cup Products =>
       Binds(ts, last, IF node.op = "juxt" THEN 4 ELSE Level(node.op) + 1)
  /\ TypesBetween(ts, first.span[2], last.span[1]) = OperatorTypes[node.op]
  /\ node.op = "juxt" => ts[last.span[1]].type # "NUMBER"

\* A sign before its operand.
SitsBefore(ts, node, first) ==
  /\ first.span[1] \in Places /\ Wraps(ts, node.span, first.span[1] - 1, first.span[2])
  /\ Binds(ts, first, 4)
  /\ ts[first.span[1] - 1].type = IF node.op = "plus" THEN "PLUS" ELSE "MINUS"

\* A fraction or a root and its operands in braces.
SitsAround(ts, node, first, last) ==
  /\ first.span[1] \in Places /\ last.span[2] \in Nat
  /\ Wraps(ts, node.span, first.span[1] - 2, last.span[2] + 1)
  /\ ts[first.span[1] - 2].type = IF node.op = "frac" THEN "FRAC" ELSE "SQRT"
  /\ ts[first.span[1] - 1].type = "LBRACE" /\ ts[last.span[2] + 1].type = "RBRACE"
  /\ node.op = "frac" =>
       TypesBetween(ts, first.span[2], last.span[1]) = <<"RBRACE", "LBRACE">>

\* How a node sits among the tokens, which is what WellGrouped says of it.
SitsOver(ts, node, first, last) ==
  /\ node.op \in DOMAIN OperatorTypes => SitsBetween(ts, node, first, last)
  /\ node.op \in Unaries => SitsBefore(ts, node, first)
  /\ node.op \in {"frac", "sqrt"} => SitsAround(ts, node, first, last)

FirstOperand(e, k) == IF e[k].op \in Binaries THEN k - 1 - e[k - 1].size ELSE k - 1
Sits(ts, e, k) == e[k].op \in Leaves \/ SitsOver(ts, e[k], e[FirstOperand(e, k)], e[k - 1])
AllSit(ts, e) == \A k \in 1 .. Len(e) : Sits(ts, e, k)

\* Where a part of a tree stands in the tree of an operator, it sits as before.
LEMMA SameSit ==
  ASSUME NEW ts, NEW e \in Trees, AllSit(ts, e), NEW f, NEW d \in Nat,
         \A k \in 1 .. Len(e) : f[d + k] = e[k]
  PROVE  \A k \in 1 .. Len(e) : Sits(ts, f, d + k)
<1> SUFFICES ASSUME NEW k \in 1 .. Len(e), e[k].op \notin Leaves
             PROVE  Sits(ts, f, d + k)
  BY DEF Sits
<1>1. Formed(e, k) /\ e[k].op \in Operations /\ Len(e) \in Nat /\ k \in Nat
  <2>1. Formed(e, k) /\ e[k] \in Nodes /\ Len(e) \in Nat
    BY TreeFacts
  <2> QED
    BY <2>1 DEF Nodes
<1>2. k > 1 /\ k - 1 \in 1 .. Len(e) /\ f[d + k] = e[k]
  BY <1>1, OperationsDiffer DEF Formed
<1>3. (d + k) - 1 = d + (k - 1) /\ f[(d + k) - 1] = e[k - 1] /\ e[k - 1].size \in Nat
  <2>1. (d + k) - 1 = d + (k - 1)
    BY <1>1
  <2> QED
    BY <1>2, <2>1, TreeFacts
<1>4. FirstOperand(f, d + k) = d + FirstOperand(e, k) /\ FirstOperand(e, k) \in 1 .. Len(e)
  <2>1. CASE e[k].op \in Binaries
    <3>1. k - 1 > e[k - 1].size
      BY <1>1, <2>1 DEF Formed
    <3>2. /\ k - 1 - e[k - 1].size \in 1 .. Len(e)
          /\ (d + k) - 1 - e[k - 1].size = d + (k - 1 - e[k - 1].size)
      <4> DEFINE size == e[k - 1].size
      <4>1. size \in Nat /\ k - 1 > size
        BY <1>3, <3>1
      <4> HIDE DEF size
      <4>2. k - 1 - size \in 1 .. Len(e)
        BY <1>1, <4>1, NodeBefore
      <4>3. (d + k) - 1 - size = d + (k - 1 - size)
        BY <1>1, <4>1, ShiftedBefore
      <4> QED
        BY <4>2, <4>3 DEF size
    <3>3. FirstOperand(e, k) = k - 1 - e[k - 1].size
      BY <2>1 DEF FirstOperand
    <3>4. FirstOperand(f, d + k) = (d + k) - 1 - f[(d + k) - 1].size
      BY <1>2, <2>1 DEF FirstOperand
    <3>5. FirstOperand(f, d + k) = (d + k) - 1 - e[k - 1].size
      BY <1>3, <3>4
    <3> QED
      BY <3>2, <3>3, <3>5
  <2>2. CASE e[k].op \notin Binaries
    <3>1. FirstOperand(e, k) = k - 1 /\ FirstOperand(f, d + k) = (d + k) - 1
      BY <1>2, <2>2 DEF FirstOperand
    <3> QED
      BY <1>2, <1>3, <3>1
  <2> QED
    BY <2>1, <2>2
<1>5. SitsOver(ts, e[k], e[FirstOperand(e, k)], e[k - 1])
  BY DEF AllSit, Sits
<1> QED
  BY <1>2, <1>3, <1>4, <1>5 DEF Sits

\* A leaf sits anywhere.
LEMMA LeafSits ==
  ASSUME NEW ts, NEW op \in Leaves, NEW lexeme, NEW i
  PROVE  /\ AllSit(ts, Leaf(op, lexeme, i)) /\ Len(Leaf(op, lexeme, i)) = 1
         /\ Leaf(op, lexeme, i)[1] = Node(op, lexeme, 1, i, i)
<1> DEFINE node == Node(op, lexeme, 1, i, i)
           e == <<node>>
<1>1. node.op = op
  BY DEF Node
<1> HIDE DEF node
<1>2. Len(e) = 1 /\ e[1] = node /\ \A k \in 1 .. Len(e) : k = 1
  OBVIOUS
<1>3. Leaf(op, lexeme, i) = e
  BY DEF Leaf, node
<1> HIDE DEF e
<1> QED
  BY <1>1, <1>2, <1>3 DEF AllSit, Sits, node

\* Any node of the operator with the span sits over the operands.
SitsAs(ts, op, from, to, first, last) ==
  \A node : node.op = op /\ node.span = <<from, to>> => SitsOver(ts, node, first, last)

\* A unary operator that sits over a tree.
LEMMA UnarySits ==
  ASSUME NEW ts, NEW e \in Trees, AllSit(ts, e), NEW op \in Unaries \cup {"sqrt"},
         NEW from \in Nat, NEW to \in Nat,
         SitsAs(ts, op, from, to, e[Len(e)], e[Len(e)])
  PROVE  LET f == Unary(op, e, from, to) IN
         AllSit(ts, f) /\ f[Len(f)].op = op /\ f[Len(f)].span = <<from, to>>
<1> DEFINE n == Len(e)
           node == Node(op, << >>, n + 1, from, to)
           f == Append(e, node)
<1>1. e \in Seq(Nodes) /\ n \in Nat /\ n > 0
  BY TreeFacts
<1>2. node.op = op /\ node.span = <<from, to>>
  BY DEF Node
<1> HIDE DEF node
<1>3. Len(f) = n + 1 /\ f[n + 1] = node /\ \A k \in 1 .. n : f[k] = e[k]
  BY <1>1
<1>4. Unary(op, e, from, to) = f
  BY DEF Unary, node
<1> HIDE DEF f
<1>5. \A k \in 1 .. n : Sits(ts, f, k)
  <2>1. \A k \in 1 .. n : f[0 + k] = e[k] /\ 0 + k = k
    BY <1>1, <1>3
  <2>2. \A k \in 1 .. n : Sits(ts, f, 0 + k)
    BY <2>1, SameSit
  <2> QED
    BY <2>1, <2>2
<1>6. Sits(ts, f, n + 1)
  <2>1. op \notin Binaries
    BY OperationsDiffer
  <2>2. n + 1 - 1 = n /\ f[n] = e[n]
    BY <1>1, <1>3
  <2>3. FirstOperand(f, n + 1) = n
    BY <1>2, <1>3, <2>1, <2>2 DEF FirstOperand
  <2> QED
    BY <1>2, <1>3, <2>2, <2>3 DEF Sits, SitsAs
<1>7. \A k \in 1 .. Len(f) : k \in 1 .. n \/ k = n + 1
  BY <1>1, <1>3
<1> QED
  BY <1>2, <1>3, <1>4, <1>5, <1>6, <1>7 DEF AllSit

\* A binary operator that sits over two trees.
LEMMA BinarySits ==
  ASSUME NEW ts, NEW l \in Trees, NEW r \in Trees, AllSit(ts, l), AllSit(ts, r),
         NEW op \in Binaries, NEW from \in Nat, NEW to \in Nat,
         SitsAs(ts, op, from, to, l[Len(l)], r[Len(r)])
  PROVE  LET f == Binary(op, l, r, from, to) IN
         AllSit(ts, f) /\ f[Len(f)].op = op /\ f[Len(f)].span = <<from, to>>
<1> DEFINE m == Len(l)
           n == Len(r)
           node == Node(op, << >>, m + n + 1, from, to)
           f == Append(l \o r, node)
<1>1. /\ l \in Seq(Nodes) /\ m \in Nat /\ m > 0 /\ r \in Seq(Nodes) /\ n \in Nat /\ n > 0
      /\ r[n].size = n
  BY TreeFacts
<1>2. node.op = op /\ node.span = <<from, to>>
  BY DEF Node
<1> HIDE DEF node
<1>3. /\ l \o r \in Seq(Nodes) /\ Len(l \o r) = m + n
      /\ \A k \in 1 .. m : (l \o r)[k] = l[k]
      /\ \A k \in 1 .. n : (l \o r)[m + k] = r[k]
  BY <1>1
<1>4. /\ Len(f) = m + n + 1 /\ f[m + n + 1] = node
      /\ \A k \in 1 .. m + n : f[k] = (l \o r)[k]
  BY <1>1, <1>3
<1>5. Binary(op, l, r, from, to) = f
  BY DEF Binary, node
<1>6. /\ \A k \in 1 .. m : f[k] = l[k]
      /\ \A k \in 1 .. n : f[m + k] = r[k]
  BY <1>1, <1>3, <1>4
<1> HIDE DEF f
<1>7. \A k \in 1 .. m : Sits(ts, f, k)
  <2>1. \A k \in 1 .. m : f[0 + k] = l[k] /\ 0 + k = k
    BY <1>1, <1>6
  <2>2. \A k \in 1 .. m : Sits(ts, f, 0 + k)
    BY <2>1, SameSit
  <2> QED
    BY <2>1, <2>2
<1>8. \A k \in 1 .. n : Sits(ts, f, m + k)
  BY <1>1, <1>6, SameSit
<1>9. Sits(ts, f, m + n + 1)
  <2> DEFINE K == m + n + 1
  <2>1. K - 1 = m + n /\ K - 1 - n = m /\ m \in 1 .. m /\ n \in 1 .. n
    <3>1. m \in Nat /\ m > 0 /\ n \in Nat /\ n > 0
      BY <1>1
    <3> HIDE DEF m, n
    <3> QED
      BY <3>1
  <2>2. f[K] = node
    BY <1>4
  <2> HIDE DEF K
  <2>3. f[K - 1] = r[n] /\ f[m] = l[m]
    BY <1>6, <2>1
  <2>4. FirstOperand(f, K) = m
    BY <1>1, <1>2, <2>1, <2>2, <2>3 DEF FirstOperand
  <2>5. SitsOver(ts, node, l[m], r[n])
    BY <1>2 DEF SitsAs
  <2>6. Sits(ts, f, K)
    BY <2>2, <2>3, <2>4, <2>5 DEF Sits
  <2> QED
    BY <2>6 DEF K
<1>10. \A k \in 1 .. Len(f) : k \in 1 .. m \/ k = m + n + 1 \/ (k - m \in 1 .. n /\ k = m + (k - m))
  <2>1. m \in Nat /\ n \in Nat /\ Len(f) = m + n + 1
    BY <1>1, <1>4
  <2> HIDE DEF m, n
  <2> QED
    BY <2>1
<1>11. AllSit(ts, f)
  <2>1. \A k \in 1 .. Len(f) : Sits(ts, f, k)
    BY <1>7, <1>8, <1>9, <1>10
  <2> QED
    BY <2>1 DEF AllSit
<1>12. f[Len(f)] = node
  BY <1>4
<1> QED
  BY <1>2, <1>5, <1>11, <1>12

\* One more pair of braces.
LEMMA WrapsMore ==
  ASSUME NEW ts, NEW i \in Nat, NEW c \in Nat, ts[i].type = "LBRACE", ts[c].type = "RBRACE",
         NEW from, NEW to, NEW span, Wraps(ts, span, from, to), span[1] = i + 1, span[2] = c - 1
  PROVE  Wraps(ts, <<i, c>>, from, to)
<1>1. /\ from \in Nat /\ to \in Nat /\ i + 1 <= from /\ to <= c - 1
      /\ from - (i + 1) = c - 1 - to
      /\ \A k \in i + 1 .. from - 1 : ts[k].type = "LBRACE"
      /\ \A k \in to + 1 .. c - 1 : ts[k].type = "RBRACE"
  BY DEF Wraps
<1>2. /\ i <= from /\ to <= c /\ from - i = c - to
      /\ \A k \in i .. from - 1 : k = i \/ k \in i + 1 .. from - 1
      /\ \A k \in to + 1 .. c : k = c \/ k \in to + 1 .. c - 1
  BY <1>1
<1>3. /\ \A k \in i .. from - 1 : ts[k].type = "LBRACE"
      /\ \A k \in to + 1 .. c : ts[k].type = "RBRACE"
  BY <1>1, <1>2
<1>4. <<i, c>>[1] = i /\ <<i, c>>[2] = c
  OBVIOUS
<1> DEFINE wide == <<i, c>>
<1>5. wide[1] = i /\ wide[2] = c
  BY <1>4
<1> HIDE DEF wide
<1>6. Wraps(ts, wide, from, to)
  BY <1>1, <1>2, <1>3, <1>5 DEF Wraps
<1> QED
  BY <1>6 DEF wide

\* A node sits in one more pair of braces as before.
LEMMA SitsWider ==
  ASSUME NEW ts, NEW i \in Nat, NEW c \in Nat, ts[i].type = "LBRACE", ts[c].type = "RBRACE",
         NEW node, NEW first, NEW last, SitsOver(ts, node, first, last),
         node.span[1] = i + 1, node.span[2] = c - 1,
         NEW wide, wide.op = node.op, wide.span = <<i, c>>
  PROVE  SitsOver(ts, wide, first, last)
<1>1. \A from, to : Wraps(ts, node.span, from, to) => Wraps(ts, wide.span, from, to)
  BY WrapsMore
<1>2. node.op \in DOMAIN OperatorTypes => SitsBetween(ts, wide, first, last)
  BY <1>1 DEF SitsOver, SitsBetween
<1>3. node.op \in Unaries => SitsBefore(ts, wide, first)
  BY <1>1 DEF SitsOver, SitsBefore
<1>4. node.op \in {"frac", "sqrt"} => SitsAround(ts, wide, first, last)
  BY <1>1 DEF SitsOver, SitsAround
<1> QED
  BY <1>2, <1>3, <1>4 DEF SitsOver

\* A group sits as the expression in its braces.
LEMMA RegroupSits ==
  ASSUME NEW ts, NEW e \in Trees, AllSit(ts, e), NEW i \in Nat, NEW c \in Nat,
         ts[i].type = "LBRACE", ts[c].type = "RBRACE", Span(e) = <<i + 1, c - 1>>
  PROVE  LET f == Regroup(e, i, c) IN
         AllSit(ts, f) /\ f[Len(f)].op = e[Len(e)].op /\ f[Len(f)].span = <<i, c>>
<1> DEFINE n == Len(e)
           wide == [e[n] EXCEPT !.span = <<i, c>>]
           f == [e EXCEPT ![n] = wide]
<1>1. e \in Seq(Nodes) /\ n \in Nat /\ n > 0 /\ e[n] \in Nodes /\ n \in 1 .. n
      /\ DOMAIN e = 1 .. n /\ \A k \in 1 .. n : Formed(e, k) /\ e[k] \in Nodes /\ e[k].size \in Nat
  BY TreeFacts
<1>2. wide.op = e[n].op /\ wide.span = <<i, c>> /\ wide \in Nodes
  <2>1. <<i, c>> \in Spans
    BY DEF Spans
  <2> QED
    BY <1>1, <2>1 DEF Nodes
<1>3. Regroup(e, i, c) = f
  BY DEF Regroup
<1> HIDE DEF wide
<1>4. Len(f) = n /\ f[n] = wide /\ \A k \in 1 .. n : k # n => f[k] = e[k]
  BY <1>1, <1>2
<1> HIDE DEF f
<1>5. ASSUME NEW k \in 1 .. n, e[k].op \notin Leaves
      PROVE  /\ f[k - 1] = e[k - 1] /\ FirstOperand(f, k) = FirstOperand(e, k)
             /\ f[FirstOperand(e, k)] = e[FirstOperand(e, k)]
             /\ SitsOver(ts, e[k], e[FirstOperand(e, k)], e[k - 1])
  <2>1. Formed(e, k) /\ e[k].op \in Operations
    BY <1>1 DEF Nodes
  <2>2. k > 1 /\ k - 1 \in 1 .. n /\ k - 1 # n
    BY <1>1, <1>5, <2>1, OperationsDiffer DEF Formed
  <2>3. f[k - 1] = e[k - 1] /\ f[k].op = e[k].op
    BY <1>2, <1>4, <2>2
  <2>4. FirstOperand(f, k) = FirstOperand(e, k)
    BY <2>3 DEF FirstOperand
  <2>5. FirstOperand(e, k) \in 1 .. n /\ FirstOperand(e, k) # n
    <3>1. CASE e[k].op \in Binaries
      <4>1. k - 1 > e[k - 1].size /\ e[k - 1].size \in Nat
        BY <1>1, <2>1, <2>2, <3>1 DEF Formed
      <4>2. k - 1 - e[k - 1].size \in 1 .. n /\ k - 1 - e[k - 1].size # n
        BY <1>1, <4>1, NodeBefore
      <4> QED
        BY <3>1, <4>2 DEF FirstOperand
    <3>2. CASE e[k].op \notin Binaries
      BY <2>2, <3>2 DEF FirstOperand
    <3> QED
      BY <3>1, <3>2
  <2>6. SitsOver(ts, e[k], e[FirstOperand(e, k)], e[k - 1])
    BY <1>5 DEF AllSit, Sits
  <2> QED
    BY <1>4, <2>3, <2>4, <2>5, <2>6
<1>6. \A k \in 1 .. n : Sits(ts, f, k)
  <2> SUFFICES ASSUME NEW k \in 1 .. n, f[k].op \notin Leaves PROVE Sits(ts, f, k)
    BY DEF Sits
  <2>1. e[k].op \notin Leaves
    BY <1>2, <1>4
  <2>2. CASE k # n
    <3>1. f[k] = e[k]
      BY <1>4, <2>2
    <3> QED
      BY <1>5, <2>1, <3>1 DEF Sits
  <2>3. CASE k = n
    <3>1. e[n].span[1] = i + 1 /\ e[n].span[2] = c - 1
      BY DEF Span
    <3>2. SitsOver(ts, wide, e[FirstOperand(e, k)], e[k - 1])
      <4>1. SitsOver(ts, e[k], e[FirstOperand(e, k)], e[k - 1])
        BY <1>5, <2>1
      <4> QED
        BY <1>2, <2>3, <3>1, <4>1, SitsWider
    <3> QED
      BY <1>4, <1>5, <2>1, <2>3, <3>2 DEF Sits
  <2> QED
    BY <2>2, <2>3
<1> QED
  BY <1>2, <1>3, <1>4, <1>6 DEF AllSit

\* The operators by their places.
LEMMA OperatorPlaces ==
  /\ DOMAIN OperatorTypes = Binaries \ {"frac"}
  /\ Binaries \ {"frac"} = Sums \cup Products \cup {"power"}
  /\ "frac" \in Binaries /\ "frac" \notin DOMAIN OperatorTypes
  /\ \A op \in DOMAIN OperatorTypes : op \notin {"frac", "sqrt"}
BY DEF OperatorTypes, Binaries, Sums, Products

-----------------------------------------------------------------------------
(* Parsed trees stand on their tokens                                      *)

\* A sequence of n elements.
Listed(s, n) == s = [i \in 1 .. n |-> s[i]]

\* Two sequences with the same elements are one.
LEMMA SameSequence ==
  ASSUME NEW n, NEW s, NEW t, Listed(s, n), Listed(t, n), \A i \in 1 .. n : s[i] = t[i]
  PROVE  s = t
BY DEF Listed

\* The tree is that of the tokens from i up to j, and binds at a level.
Stands(ts, e, i, j, level) ==
  /\ AllSit(ts, e) /\ Binds(ts, e[Len(e)], level)
  /\ Span(e)[1] = i /\ j = Span(e)[2] + 1 /\ Balanced(ts, i, Span(e)[2])

\* A span that wraps itself.
LEMMA WrapsItself ==
  ASSUME NEW ts, NEW from \in Nat, NEW to \in Nat, NEW span, span[1] = from, span[2] = to
  PROVE  Wraps(ts, span, from, to)
BY DEF Wraps

\* One token and the next.
Follows(n, m) == m \in Nat /\ n = m + 1

\* Balanced up to a token and from the next on.
LEMMA BalancedOn ==
  ASSUME NEW ts, NEW i, NEW m, NEW n, NEW j, Follows(n, m), Balanced(ts, i, m), Balanced(ts, n, j)
  PROVE  Balanced(ts, i, j)
BY BothBalanced DEF Follows

\* The types between a token and the next, or the one after that.
LEMMA NoneBetween ==
  ASSUME NEW ts, NEW from, NEW to, Follows(to, from)
  PROVE  TypesBetween(ts, from, to) = << >>
<1>1. to - from - 1 = 0
  BY DEF Follows
<1>2. TypesBetween(ts, from, to) = [i \in 1 .. 0 |-> ts[from + i].type]
  BY <1>1 DEF TypesBetween
<1>3. 1 .. 0 = {}
  OBVIOUS
<1>4. << >> = [i \in {} |-> ts[from + i].type]
  OBVIOUS
<1> QED
  BY <1>2, <1>3, <1>4

\* With one token between them.
LEMMA OneBetween ==
  ASSUME NEW ts, NEW from, NEW m, NEW to, Follows(m, from), Follows(to, m)
  PROVE  TypesBetween(ts, from, to) = <<ts[m].type>>
<1>1. to - from - 1 = 1 /\ from + 1 = m
  BY DEF Follows
<1>2. TypesBetween(ts, from, to) = [i \in 1 .. 1 |-> ts[from + i].type]
  BY <1>1 DEF TypesBetween
<1> DEFINE s == [i \in 1 .. 1 |-> ts[from + i].type]
           t == <<ts[m].type>>
<1>3. DOMAIN s = 1 .. 1 /\ s[1] = ts[m].type
  BY <1>1
<1>4. Listed(s, 1) /\ Listed(t, 1) /\ t[1] = ts[m].type
  BY DEF Listed
<1> HIDE DEF s, t
<1>5. s = t
  BY <1>3, <1>4, SameSequence
<1> QED
  BY <1>2, <1>5 DEF s, t

\* With two tokens between them.
LEMMA TwoBetween ==
  ASSUME NEW ts, NEW from, NEW m, NEW n, NEW to,
         Follows(m, from), Follows(n, m), Follows(to, n)
  PROVE  TypesBetween(ts, from, to) = <<ts[m].type, ts[n].type>>
<1>1. to - from - 1 = 2 /\ from + 1 = m /\ from + 2 = n
  BY DEF Follows
<1>2. TypesBetween(ts, from, to) = [i \in 1 .. 2 |-> ts[from + i].type]
  BY <1>1 DEF TypesBetween
<1> DEFINE s == [i \in 1 .. 2 |-> ts[from + i].type]
           t == <<ts[m].type, ts[n].type>>
<1>3. s[1] = ts[m].type /\ s[2] = ts[n].type
  BY <1>1
<1>4. Listed(s, 2) /\ Listed(t, 2) /\ t[1] = ts[m].type /\ t[2] = ts[n].type
  BY DEF Listed
<1> HIDE DEF s, t
<1>5. \A i \in 1 .. 2 : i = 1 \/ i = 2
  OBVIOUS
<1>6. s = t
  BY <1>3, <1>4, <1>5, SameSequence
<1> QED
  BY <1>2, <1>6 DEF s, t

\* What binds at a level binds at a lower one.
LEMMA StandsLower ==
  ASSUME NEW ts, NEW e, NEW i, NEW j, NEW level \in 1 .. 5, NEW lower \in 1 .. 5, lower <= level,
         Stands(ts, e, i, j, level)
  PROVE  Stands(ts, e, i, j, lower)
<1>1. \A op : Level(op) \in 1 .. 5
  BY DEF Level
<1> DEFINE node == e[Len(e)]
<1>2. Binds(ts, node, level)
  BY DEF Stands
<1>3. Level(node.op) \in 1 .. 5
  BY <1>1
<1>4. InBraces(ts, node) \/ Level(node.op) >= level
  BY <1>2 DEF Binds
<1> HIDE DEF node
<1>5. Level(node.op) >= level => Level(node.op) >= lower
  BY <1>3
<1>6. Binds(ts, node, lower)
  BY <1>4, <1>5 DEF Binds
<1> QED
  BY <1>6 DEF Stands, node

\* A leaf stands on its token.
LEMMA LeafStands ==
  ASSUME NEW ts, NEW op \in Leaves, NEW lexeme, NEW i \in Nat, NEW j, j = i + 1,
         ts[i].type \notin {"LBRACE", "RBRACE"}
  PROVE  Stands(ts, Leaf(op, lexeme, i), i, j, 5)
<1> DEFINE e == Leaf(op, lexeme, i)
           node == Node(op, lexeme, 1, i, i)
<1>1. AllSit(ts, e) /\ e[Len(e)] = node
  BY LeafSits
<1>2. node.op = op /\ node.span[1] = i /\ node.span[2] = i
  BY DEF Node
<1>3. Level(op) = 5
  BY OperationsDiffer DEF Leaves, Level, Sums, Products, Unaries
<1> HIDE DEF e, node
<1>4. Binds(ts, node, 5)
  BY <1>2, <1>3 DEF Binds
<1>5. Balanced(ts, i, i)
  BY TokenBalanced
<1> QED
  BY <1>1, <1>2, <1>4, <1>5 DEF Stands, Span, e

\* What stands, by its parts.
LEMMA StandsFacts ==
  ASSUME NEW ts, NEW e \in Trees, NEW i, NEW j, NEW level, Stands(ts, e, i, j, level)
  PROVE  /\ AllSit(ts, e) /\ Binds(ts, e[Len(e)], level)
         /\ e[Len(e)].span[1] = i /\ e[Len(e)].span[2] = Span(e)[2] /\ Span(e)[1] = i
         /\ Follows(j, Span(e)[2]) /\ i \in Nat /\ j \in Nat
         /\ Balanced(ts, i, Span(e)[2])
<1>1. Span(e)[2] \in Nat
  BY SpanType
<1>2. /\ AllSit(ts, e) /\ Binds(ts, e[Len(e)], level)
      /\ Span(e)[1] = i /\ j = Span(e)[2] + 1 /\ Balanced(ts, i, Span(e)[2])
  BY DEF Stands
<1>3. i \in Nat
  BY <1>2 DEF Balanced
<1> DEFINE last == Span(e)[2]
<1>4. j \in Nat
  <2>1. last \in Nat /\ j = last + 1
    BY <1>1, <1>2
  <2> HIDE DEF last
  <2> QED
    BY <2>1
<1> QED
  BY <1>1, <1>2, <1>3, <1>4 DEF Span, Follows

\* A sum or a product stands on its operands and the operator between them.
LEMMA JoinedStands ==
  ASSUME NEW ts, NEW l \in Trees, NEW r \in Trees, NEW op \in Sums \cup Products,
         NEW i, NEW j, NEW m, NEW k, NEW rest,
         Stands(ts, l, i, j, Level(op)), Stands(ts, r, m, k, rest),
         rest = IF op = "juxt" THEN 4 ELSE Level(op) + 1,
         \/ op # "juxt" /\ Follows(m, j) /\ OperatorTypes[op] = <<ts[j].type>>
              /\ ts[j].type \notin {"LBRACE", "RBRACE"}
         \/ op = "juxt" /\ m = j /\ ts[j].type # "NUMBER"
  PROVE  Joined(op, l, r) \in Trees /\ Stands(ts, Joined(op, l, r), i, k, Level(op))
<1> DEFINE p == Span(l)[2]
           q == Span(r)[2]
           first == l[Len(l)]
           last == r[Len(r)]
           e == Binary(op, l, r, i, q)
<1>1. /\ AllSit(ts, l) /\ Binds(ts, first, Level(op))
      /\ first.span[1] = i /\ first.span[2] = p /\ Span(l)[1] = i
      /\ Follows(j, p) /\ i \in Nat /\ j \in Nat /\ Balanced(ts, i, p)
  BY StandsFacts
<1>2. /\ AllSit(ts, r) /\ Binds(ts, last, rest)
      /\ last.span[1] = m /\ last.span[2] = q
      /\ Follows(k, q) /\ m \in Nat /\ k \in Nat /\ Balanced(ts, m, q)
  BY StandsFacts
<1>3. op \in Binaries /\ op # "power" /\ op \notin Unaries /\ op \notin {"frac", "sqrt"}
  BY DEF Binaries, Sums, Products, Unaries
<1> HIDE DEF p, q, first, last
<1>4. TypesBetween(ts, p, m) = OperatorTypes[op] /\ Balanced(ts, i, q)
  <2>1. CASE Follows(m, j) /\ OperatorTypes[op] = <<ts[j].type>> /\ ts[j].type \notin {"LBRACE", "RBRACE"}
    <3>1. TypesBetween(ts, p, m) = <<ts[j].type>>
      BY <1>1, <2>1, OneBetween
    <3>2. Balanced(ts, j, j)
      BY <1>1, <2>1, TokenBalanced
    <3>3. Balanced(ts, i, j)
      BY <1>1, <3>2, BalancedOn
    <3>4. Balanced(ts, i, q)
      BY <1>2, <2>1, <3>3, BalancedOn
    <3> QED
      BY <2>1, <3>1, <3>4
  <2>2. CASE op = "juxt" /\ m = j
    <3>1. TypesBetween(ts, p, m) = << >>
      BY <1>1, <2>2, NoneBetween
    <3>2. Balanced(ts, i, q)
      BY <1>1, <1>2, <2>2, BalancedOn
    <3> QED
      BY <2>2, <3>1, <3>2 DEF OperatorTypes
  <2> QED
    BY <2>1, <2>2
<1>5. op = "juxt" => ts[m].type # "NUMBER"
  OBVIOUS
<1>6. SitsAs(ts, op, i, q, first, last)
  <2> SUFFICES ASSUME NEW node, node.op = op, node.span = <<i, q>>
               PROVE  SitsOver(ts, node, first, last)
    BY DEF SitsAs
  <2>1. node.span[1] = i /\ node.span[2] = q
    OBVIOUS
  <2>2. Wraps(ts, node.span, first.span[1], last.span[2])
    BY <1>1, <1>2, <2>1, WrapsItself DEF Follows
  <2>3. SitsBetween(ts, node, first, last)
    BY <1>1, <1>2, <1>3, <1>4, <1>5, <2>2 DEF SitsBetween
  <2> QED
    BY <1>3, <2>3 DEF SitsOver
<1>7. AllSit(ts, e) /\ e[Len(e)].op = op /\ e[Len(e)].span = <<i, q>>
  BY <1>1, <1>2, <1>3, <1>6, BinarySits DEF first, last, Follows
<1>8. e \in Trees
  BY <1>1, <1>2, <1>3, BinaryTree DEF Follows
<1>9. Joined(op, l, r) = e
  BY <1>1 DEF Joined, q
<1> HIDE DEF e
<1>10. Binds(ts, e[Len(e)], Level(op))
  <2>1. Level(op) >= Level(op)
    BY DEF Level
  <2> QED
    BY <1>7, <2>1 DEF Binds
<1>11. Span(e)[1] = i /\ Span(e)[2] = q
  BY <1>7 DEF Span
<1>12. Stands(ts, e, i, k, Level(op))
  BY <1>2, <1>4, <1>7, <1>10, <1>11 DEF Stands, Follows
<1> QED
  BY <1>8, <1>9, <1>12

\* A power stands on its base and its exponent.
LEMMA PowerStands ==
  ASSUME NEW ts, NEW l \in Trees, NEW r \in Trees, NEW i, NEW j, NEW m, NEW k, Follows(m, j),
         Stands(ts, l, i, j, 5), Stands(ts, r, m, k, 3), ts[j].type = "POWER"
  PROVE  Stands(ts, Binary("power", l, r, i, Span(r)[2]), i, k, 4)
<1> DEFINE p == Span(l)[2]
           q == Span(r)[2]
           first == l[Len(l)]
           last == r[Len(r)]
           e == Binary("power", l, r, i, q)
<1>1. /\ AllSit(ts, l) /\ Binds(ts, first, 5)
      /\ first.span[1] = i /\ first.span[2] = p
      /\ Follows(j, p) /\ i \in Nat /\ j \in Nat /\ Balanced(ts, i, p)
  BY StandsFacts
<1>2. /\ AllSit(ts, r) /\ last.span[1] = m /\ last.span[2] = q
      /\ Follows(k, q) /\ m \in Nat /\ k \in Nat /\ Balanced(ts, m, q)
  BY StandsFacts
<1>3. /\ "power" \in Binaries /\ "power" \notin Unaries /\ "power" \notin Sums \cup Products
      /\ OperatorTypes["power"] = <<"POWER">> /\ Level("power") = 4
  BY DEF Binaries, Sums, Products, Unaries, OperatorTypes, Level
<1> HIDE DEF p, q, first, last
<1>4. TypesBetween(ts, p, m) = <<"POWER">> /\ Balanced(ts, i, q)
  <2>1. TypesBetween(ts, p, m) = <<ts[j].type>>
    BY <1>1, OneBetween
  <2>2. Balanced(ts, j, j)
    BY <1>1, TokenBalanced
  <2>3. Balanced(ts, i, j)
    BY <1>1, <2>2, BalancedOn
  <2>4. Balanced(ts, i, q)
    BY <1>2, <2>3, BalancedOn
  <2> QED
    BY <1>1, <2>1, <2>4
<1>5. SitsAs(ts, "power", i, q, first, last)
  <2> SUFFICES ASSUME NEW node, node.op = "power", node.span = <<i, q>>
               PROVE  SitsOver(ts, node, first, last)
    BY DEF SitsAs
  <2>1. node.span[1] = i /\ node.span[2] = q
    OBVIOUS
  <2>2. Wraps(ts, node.span, first.span[1], last.span[2])
    BY <1>1, <1>2, <2>1, WrapsItself DEF Follows
  <2>3. SitsBetween(ts, node, first, last)
    BY <1>1, <1>2, <1>3, <1>4, <2>2 DEF SitsBetween
  <2> QED
    BY <1>3, <2>3 DEF SitsOver
<1>6. AllSit(ts, e) /\ e[Len(e)].op = "power" /\ e[Len(e)].span = <<i, q>>
  BY <1>1, <1>2, <1>3, <1>5, BinarySits DEF first, last, Follows
<1> HIDE DEF e
<1>7. Binds(ts, e[Len(e)], 4)
  BY <1>3, <1>6 DEF Binds
<1>8. Span(e)[1] = i /\ Span(e)[2] = q
  BY <1>6 DEF Span
<1>9. Stands(ts, e, i, k, 4)
  BY <1>2, <1>4, <1>6, <1>7, <1>8 DEF Stands, Follows
<1> QED
  BY <1>9 DEF e, q

\* A sign stands before its operand.
LEMMA SignStands ==
  ASSUME NEW ts, NEW r \in Trees, NEW i \in Nat, NEW m, NEW k, Follows(m, i),
         Stands(ts, r, m, k, 4), ts[i].type \in {"PLUS", "MINUS"}
  PROVE  Stands(ts, Unary(SignOf(ts[i]), r, i, Span(r)[2]), i, k, 3)
<1> DEFINE q == Span(r)[2]
           op == SignOf(ts[i])
           last == r[Len(r)]
           e == Unary(op, r, i, q)
<1>1. /\ AllSit(ts, r) /\ Binds(ts, last, 4) /\ last.span[1] = m /\ last.span[2] = q
      /\ Follows(k, q) /\ m \in Nat /\ k \in Nat /\ Balanced(ts, m, q)
  BY StandsFacts
<1>2. op \in Unaries /\ ts[i].type = IF op = "plus" THEN "PLUS" ELSE "MINUS"
  BY DEF SignOf, Unaries
<1>3. op \notin DOMAIN OperatorTypes /\ op \notin {"frac", "sqrt"} /\ Level(op) = 3
  BY <1>2, OperatorPlaces, OperationsDiffer DEF Unaries, Level, Sums, Products
<1> HIDE DEF q, op, last
<1>4. Balanced(ts, i, q)
  <2>1. Balanced(ts, i, i)
    BY TokenBalanced
  <2> QED
    BY <1>1, <2>1, BalancedOn
<1>5. SitsAs(ts, op, i, q, last, last)
  <2> SUFFICES ASSUME NEW node, node.op = op, node.span = <<i, q>>
               PROVE  SitsOver(ts, node, last, last)
    BY DEF SitsAs
  <2>1. node.span[1] = i /\ node.span[2] = q
    OBVIOUS
  <2>2. Wraps(ts, node.span, i, last.span[2])
    BY <1>1, <2>1, WrapsItself DEF Follows
  <2>3. last.span[1] \in Places /\ last.span[1] - 1 = i
    BY <1>1 DEF Places, Follows
  <2>4. SitsBefore(ts, node, last)
    BY <1>1, <1>2, <2>2, <2>3 DEF SitsBefore
  <2> QED
    BY <1>3, <2>4 DEF SitsOver
<1>6. AllSit(ts, e) /\ e[Len(e)].op = op /\ e[Len(e)].span = <<i, q>>
  BY <1>1, <1>2, <1>5, UnarySits DEF last, Follows
<1> HIDE DEF e
<1>7. Binds(ts, e[Len(e)], 3)
  BY <1>3, <1>6 DEF Binds
<1>8. Span(e)[1] = i /\ Span(e)[2] = q
  BY <1>6 DEF Span
<1>9. Stands(ts, e, i, k, 3)
  BY <1>1, <1>4, <1>6, <1>7, <1>8 DEF Stands, Follows
<1> QED
  BY <1>9 DEF e, q, op

\* The tree is that of the tokens between two braces.
Enclosed(ts, e, open, close, next) ==
  /\ ts[open].type = "LBRACE" /\ ts[close].type = "RBRACE" /\ Follows(next, close)
  /\ \E m : Follows(m, open) /\ Stands(ts, e, m, close, 1)

\* What is enclosed, by its parts.
LEMMA EnclosedFacts ==
  ASSUME NEW ts, NEW e \in Trees, NEW i, NEW c, NEW k, Enclosed(ts, e, i, c, k)
  PROVE  /\ i \in Nat /\ c \in Nat /\ Follows(k, c)
         /\ ts[i].type = "LBRACE" /\ ts[c].type = "RBRACE"
         /\ AllSit(ts, e) /\ Span(e) = <<i + 1, c - 1>>
         /\ Follows(e[Len(e)].span[1], i) /\ Follows(c, e[Len(e)].span[2])
         /\ Balanced(ts, i, c) /\ \A n \in i .. c - 1 : Balance(ts, i, n) > 0
<1>1. ts[i].type = "LBRACE" /\ ts[c].type = "RBRACE" /\ Follows(k, c)
  BY DEF Enclosed
<1>2. PICK m : Follows(m, i) /\ Stands(ts, e, m, c, 1)
  BY DEF Enclosed
<1> DEFINE last == Span(e)[2]
<1>3. /\ AllSit(ts, e) /\ e[Len(e)].span[1] = m /\ e[Len(e)].span[2] = last /\ Span(e)[1] = m
      /\ Follows(c, last) /\ c \in Nat /\ Balanced(ts, m, last)
  BY <1>2, StandsFacts
<1>4. Span(e) = <<m, last>>
  <2>1. e[Len(e)] \in Nodes
    BY DEF Trees
  <2>2. Span(e) \in Spans
    BY <2>1 DEF Span, Nodes
  <2> QED
    BY <1>3, <2>2 DEF Spans
<1> HIDE DEF last
<1>5. i \in Nat /\ m = i + 1 /\ last = c - 1
  BY <1>2, <1>3 DEF Follows
<1>6. Balanced(ts, i + 1, c - 1)
  BY <1>3, <1>5
<1>7. Balanced(ts, i, c) /\ \A n \in i .. c - 1 : Balance(ts, i, n) > 0
  BY <1>1, <1>3, <1>5, <1>6, BracesBalanced
<1> QED
  BY <1>1, <1>2, <1>3, <1>4, <1>5, <1>7

\* A group stands on its braces and what they enclose.
LEMMA GroupStands ==
  ASSUME NEW ts, NEW e \in Trees, NEW i, NEW c, NEW k, Enclosed(ts, e, i, c, k)
  PROVE  Stands(ts, Regroup(e, i, c), i, k, 5)
<1> DEFINE f == Regroup(e, i, c)
           root == f[Len(f)]
<1>1. /\ i \in Nat /\ c \in Nat /\ Follows(k, c)
      /\ ts[i].type = "LBRACE" /\ ts[c].type = "RBRACE"
      /\ AllSit(ts, e) /\ Span(e) = <<i + 1, c - 1>>
      /\ Balanced(ts, i, c) /\ \A n \in i .. c - 1 : Balance(ts, i, n) > 0
  BY EnclosedFacts
<1>2. AllSit(ts, f) /\ root.span = <<i, c>>
  BY <1>1, RegroupSits
<1>3. root.span[1] = i /\ root.span[2] = c
  BY <1>2
<1>4. Span(f)[1] = i /\ Span(f)[2] = c
  BY <1>3 DEF Span
<1> HIDE DEF f
<1>5. Balance(ts, i, c) = 0
  BY <1>1 DEF Balanced
<1>6. InBraces(ts, root)
  BY <1>1, <1>3, <1>5 DEF InBraces
<1>7. Binds(ts, root, 5)
  BY <1>6 DEF Binds
<1> QED
  BY <1>1, <1>2, <1>4, <1>7 DEF Stands, Follows, f

\* A root stands on its name and its operand in braces.
LEMMA RootStands ==
  ASSUME NEW ts, NEW e \in Trees, NEW i \in Nat, NEW o, NEW c, NEW k,
         ts[i].type = "SQRT", Follows(o, i), Enclosed(ts, e, o, c, k)
  PROVE  Stands(ts, Unary("sqrt", e, i, c), i, k, 5)
<1> DEFINE f == Unary("sqrt", e, i, c)
           last == e[Len(e)]
<1>1. /\ o \in Nat /\ c \in Nat /\ Follows(k, c)
      /\ ts[o].type = "LBRACE" /\ ts[c].type = "RBRACE" /\ AllSit(ts, e)
      /\ Follows(last.span[1], o) /\ Follows(c, last.span[2]) /\ Balanced(ts, o, c)
  BY EnclosedFacts
<1>2. /\ "sqrt" \notin Unaries /\ "sqrt" \notin DOMAIN OperatorTypes /\ Level("sqrt") = 5
      /\ "sqrt" \in Unaries \cup {"sqrt"}
  BY OperatorPlaces DEF Unaries, Level, Sums, Products
<1>3. Balanced(ts, i, c)
  <2>1. Balanced(ts, i, i)
    BY TokenBalanced
  <2> QED
    BY <1>1, <2>1, BalancedOn
<1> HIDE DEF last
<1>4. SitsAs(ts, "sqrt", i, c, last, last)
  <2> SUFFICES ASSUME NEW node, node.op = "sqrt", node.span = <<i, c>>
               PROVE  SitsOver(ts, node, last, last)
    BY DEF SitsAs
  <2>1. node.span[1] = i /\ node.span[2] = c
    OBVIOUS
  <2>2. Wraps(ts, node.span, i, c)
    BY <1>1, <2>1, WrapsItself
  <2>3. /\ last.span[1] \in Places /\ last.span[1] - 1 = o /\ last.span[1] - 2 = i
        /\ last.span[2] \in Nat /\ last.span[2] + 1 = c
    BY <1>1 DEF Places, Follows
  <2>4. SitsAround(ts, node, last, last)
    BY <1>1, <2>2, <2>3 DEF SitsAround
  <2> QED
    BY <1>2, <2>4 DEF SitsOver
<1>5. AllSit(ts, f) /\ f[Len(f)].op = "sqrt" /\ f[Len(f)].span = <<i, c>>
  BY <1>1, <1>2, <1>4, UnarySits DEF last
<1> HIDE DEF f
<1>6. Binds(ts, f[Len(f)], 5)
  BY <1>2, <1>5 DEF Binds
<1>7. Span(f)[1] = i /\ Span(f)[2] = c
  BY <1>5 DEF Span
<1>8. Stands(ts, f, i, k, 5)
  BY <1>1, <1>3, <1>5, <1>6, <1>7 DEF Stands, Follows
<1> QED
  BY <1>8 DEF f

\* A fraction stands on its name and its operands, each in braces.
LEMMA FractionStands ==
  ASSUME NEW ts, NEW l \in Trees, NEW r \in Trees, NEW i \in Nat,
         NEW o, NEW c, NEW p, NEW d, NEW k,
         ts[i].type = "FRAC", Follows(o, i), Enclosed(ts, l, o, c, p), Enclosed(ts, r, p, d, k)
  PROVE  Stands(ts, Binary("frac", l, r, i, d), i, k, 5)
<1> DEFINE f == Binary("frac", l, r, i, d)
           first == l[Len(l)]
           last == r[Len(r)]
<1>1. /\ o \in Nat /\ c \in Nat /\ Follows(p, c)
      /\ ts[o].type = "LBRACE" /\ ts[c].type = "RBRACE" /\ AllSit(ts, l)
      /\ Follows(first.span[1], o) /\ Follows(c, first.span[2]) /\ Balanced(ts, o, c)
  BY EnclosedFacts
<1>2. /\ p \in Nat /\ d \in Nat /\ Follows(k, d)
      /\ ts[p].type = "LBRACE" /\ ts[d].type = "RBRACE" /\ AllSit(ts, r)
      /\ Follows(last.span[1], p) /\ Follows(d, last.span[2]) /\ Balanced(ts, p, d)
  BY EnclosedFacts
<1>3. /\ "frac" \notin Unaries /\ "frac" \notin DOMAIN OperatorTypes /\ Level("frac") = 5
      /\ "frac" \in Binaries
  BY OperatorPlaces DEF Unaries, Level, Sums, Products
<1>4. Balanced(ts, i, d)
  <2>1. Balanced(ts, i, i)
    BY TokenBalanced
  <2>2. Balanced(ts, i, c)
    BY <1>1, <2>1, BalancedOn
  <2> QED
    BY <1>1, <1>2, <2>2, BalancedOn
<1> HIDE DEF first, last
<1>5. TypesBetween(ts, first.span[2], last.span[1]) = <<"RBRACE", "LBRACE">>
  BY <1>1, <1>2, TwoBetween
<1>6. SitsAs(ts, "frac", i, d, first, last)
  <2> SUFFICES ASSUME NEW node, node.op = "frac", node.span = <<i, d>>
               PROVE  SitsOver(ts, node, first, last)
    BY DEF SitsAs
  <2>1. node.span[1] = i /\ node.span[2] = d
    OBVIOUS
  <2>2. Wraps(ts, node.span, i, d)
    BY <1>2, <2>1, WrapsItself
  <2>3. /\ first.span[1] \in Places /\ first.span[1] - 1 = o /\ first.span[1] - 2 = i
        /\ last.span[2] \in Nat /\ last.span[2] + 1 = d
    BY <1>1, <1>2 DEF Places, Follows
  <2>4. SitsAround(ts, node, first, last)
    BY <1>1, <1>2, <1>5, <2>2, <2>3 DEF SitsAround
  <2> QED
    BY <1>3, <2>4 DEF SitsOver
<1>7. AllSit(ts, f) /\ f[Len(f)].op = "frac" /\ f[Len(f)].span = <<i, d>>
  BY <1>1, <1>2, <1>3, <1>6, BinarySits DEF first, last
<1> HIDE DEF f
<1>8. Binds(ts, f[Len(f)], 5)
  BY <1>3, <1>7 DEF Binds
<1>9. Span(f)[1] = i /\ Span(f)[2] = d
  BY <1>7 DEF Span
<1>10. Stands(ts, f, i, k, 5)
  BY <1>2, <1>4, <1>7, <1>8, <1>9 DEF Stands, Follows
<1> QED
  BY <1>10 DEF f

-----------------------------------------------------------------------------
(* What an expression parses to                                            *)

\* One token of a type is followed by the next one.
LEMMA ConsumeNext ==
  ASSUME NEW ts, IsStream(ts), NEW i \in DOMAIN ts, NEW a, a # "EOF", Consume(ts, i, <<a>>).ok
  PROVE  Follows(Consume(ts, i, <<a>>).next, i)
<1> DEFINE types == <<a>>
<1>1. IsSequence(types) /\ Len(types) = 1 /\ types[Len(types)] # "EOF"
  BY DEF IsSequence
<1> HIDE DEF types
<1>2. Consume(ts, i, types).ok => Consume(ts, i, types) = Parsed(i + Len(types) - 1, i + Len(types))
  BY <1>1, ConsumeType DEF Consumed
<1>3. i \in Nat
  BY TokenAfter
<1> QED
  BY <1>1, <1>2, <1>3 DEF types, Parsed, Follows

\* Trees that stand from a token on and bind at a level, or failures.
ParsedTrees(ts, i, level) ==
  {r \in Results(ts, Trees) : r.ok => Stands(ts, r.value, i, r.next, level)}

\* Trees between a brace and the one that closes it, or failures.
Groups(ts, i) ==
  {r \in Results(ts, [e : Trees, close : Nat]) :
     r.ok => Enclosed(ts, r.value.e, i, r.value.close, r.next)}

\* A success with a tree that stands.
LEMMA TreeParsed ==
  ASSUME NEW ts, NEW e \in Trees, NEW i, NEW j \in DOMAIN ts, NEW level, Stands(ts, e, i, j, level)
  PROVE  Parsed(e, j) \in ParsedTrees(ts, i, level)
<1>1. Parsed(e, j) \in Results(ts, Trees) /\ Parsed(e, j).value = e /\ Parsed(e, j).next = j
  BY ResultIs
<1> QED
  BY <1>1 DEF ParsedTrees

\* A success with a group.
LEMMA GroupParsed ==
  ASSUME NEW ts, NEW v \in [e : Trees, close : Nat], NEW i, NEW j \in DOMAIN ts,
         Enclosed(ts, v.e, i, v.close, j)
  PROVE  Parsed(v, j) \in Groups(ts, i)
<1> DEFINE T == [e : Trees, close : Nat]
<1>1. v \in T
  OBVIOUS
<1> HIDE DEF T
<1>2. Parsed(v, j) \in Results(ts, T) /\ Parsed(v, j).value = v /\ Parsed(v, j).next = j
  BY <1>1, ResultIs
<1> QED
  BY <1>2 DEF Groups, T

\* A failure is one of any trees, and of any group.
LEMMA TreeFails ==
  ASSUME NEW ts, NEW T, NEW r \in Results(ts, T), ~r.ok, NEW i, NEW level
  PROVE  r \in ParsedTrees(ts, i, level) /\ r \in Groups(ts, i)
BY ResultCases DEF ParsedTrees, Groups

\* Trees, by what they are.
LEMMA TreeCases ==
  ASSUME NEW ts, NEW i, NEW level, NEW r \in ParsedTrees(ts, i, level)
  PROVE  /\ r \in Results(ts, Trees) /\ r.ok \in BOOLEAN
         /\ r.ok => r.value \in Trees /\ r.next \in DOMAIN ts /\ Stands(ts, r.value, i, r.next, level)
BY ResultCases DEF ParsedTrees

\* Groups, by what they are.
LEMMA GroupCases ==
  ASSUME NEW ts, NEW i, NEW r \in Groups(ts, i)
  PROVE  /\ r \in Results(ts, [e : Trees, close : Nat]) /\ r.ok \in BOOLEAN
         /\ r.ok => /\ r.value.e \in Trees /\ r.value.close \in Nat /\ r.next \in DOMAIN ts
                    /\ Enclosed(ts, r.value.e, i, r.value.close, r.next)
<1>1. r \in Results(ts, [e : Trees, close : Nat])
  BY DEF Groups
<1> DEFINE T == [e : Trees, close : Nat]
<1>2. \A v \in T : v.e \in Trees /\ v.close \in Nat
  OBVIOUS
<1> HIDE DEF T
<1>3. r.ok \in BOOLEAN /\ (r.ok => r.value \in T /\ r.next \in DOMAIN ts)
  BY <1>1, ResultCases DEF T
<1> QED
  BY <1>1, <1>2, <1>3 DEF Groups

\* What binds at a level binds at a lower one.
LEMMA TreeLower ==
  ASSUME NEW ts, NEW i, NEW level \in 1 .. 5, NEW lower \in 1 .. 5, lower <= level,
         NEW r \in ParsedTrees(ts, i, level)
  PROVE  r \in ParsedTrees(ts, i, lower)
BY StandsLower DEF ParsedTrees

\* The tree of a NUMBER token.
LEMMA NumberLeaf ==
  ASSUME NEW ts, IsStream(ts), NEW i \in DOMAIN ts, ts[i].type = "NUMBER"
  PROVE  Leaf("number", ts[i].lexeme, i) \in Trees
<1>1. i \in Places /\ "number" \in Leaves
  BY DEF IsStream, Places, Leaves
<1>2. ts[i].lexeme \in Seq(STRING) /\ ts[i].lexeme \in Seq(Figures)
  BY DEF IsStream
<1> QED
  BY <1>1, <1>2, LeafTree

\* It stands on its token.
LEMMA NumberStands ==
  ASSUME NEW ts, IsStream(ts), NEW i \in DOMAIN ts, ts[i].type = "NUMBER", NEW j, Follows(j, i)
  PROVE  LET e == Leaf("number", ts[i].lexeme, i) IN
         Stands(ts, e, i, j, 5) /\ Stands(ts, e, i, j, 4) /\ Stands(ts, e, i, j, 3)
           /\ Span(e)[2] = i
<1> DEFINE e == Leaf("number", ts[i].lexeme, i)
<1>1. i \in Nat /\ "number" \in Leaves /\ j = i + 1 /\ e \in Trees
  BY TokenAfter, NumberLeaf DEF Leaves, Follows
<1>2. Stands(ts, e, i, j, 5)
  BY <1>1, LeafStands
<1> HIDE DEF e
<1>3. Stands(ts, e, i, j, 4) /\ Stands(ts, e, i, j, 3)
  BY <1>2, StandsLower
<1>4. Follows(j, Span(e)[2])
  BY <1>1, <1>2, StandsFacts
<1>5. Span(e)[2] = i
  BY <1>1, <1>4 DEF Follows
<1> QED
  BY <1>2, <1>3, <1>5 DEF e

\* _parse_exponent.
LEMMA ExponentType ==
  ASSUME NEW ts, IsStream(ts), NEW i \in DOMAIN ts
  PROVE  ParseExponent(ts, i) \in ParsedTrees(ts, i, 3)
<1>1. CASE ts[i].type \in {"PLUS", "MINUS"}
  <2> DEFINE c == Consume(ts, i + 1, <<"NUMBER">>)
             op == SignOf(ts[i])
             n == Leaf("number", ts[c.value].lexeme, c.value)
             e == Unary(op, n, i, c.value)
  <2>1. ParseExponent(ts, i) = IF c.ok THEN Parsed(e, c.next) ELSE c
    BY <1>1 DEF ParseExponent, Then
  <2>2. i + 1 \in DOMAIN ts /\ i \in Nat
    BY <1>1, TokenAfter
  <2>3. /\ c \in Results(ts, Nat)
        /\ c.ok => c.value = i + 1 /\ c.value \in DOMAIN ts /\ ts[c.value].type = "NUMBER"
                     /\ Follows(c.next, c.value) /\ c.next \in DOMAIN ts
    BY <2>2, ConsumeOne, ConsumeNext, ResultCases
  <2> HIDE DEF c
  <2>4. c.ok => n \in Trees /\ Stands(ts, n, c.value, c.next, 4) /\ Span(n)[2] = c.value
    BY <2>3, NumberLeaf, NumberStands
  <2> HIDE DEF n
  <2>5. c.ok => e \in Trees
    <3>1. op \in Unaries \cup {"sqrt"}
      BY DEF SignOf, Unaries
    <3> HIDE DEF op
    <3> QED
      BY <2>2, <2>3, <2>4, <3>1, UnaryTree
  <2>6. c.ok => Stands(ts, e, i, c.next, 3)
    <3> HAVE c.ok
    <3>1. Follows(c.value, i)
      BY <2>2, <2>3 DEF Follows
    <3>2. Stands(ts, Unary(SignOf(ts[i]), n, i, Span(n)[2]), i, c.next, 3)
      BY <1>1, <2>2, <2>4, <3>1, SignStands
    <3> QED
      BY <2>4, <3>2
  <2> HIDE DEF e
  <2> QED
    BY <2>1, <2>3, <2>5, <2>6, TreeParsed, TreeFails
<1>2. CASE ts[i].type \notin {"PLUS", "MINUS"}
  <2> DEFINE c == Consume(ts, i, <<"NUMBER">>)
             e == Leaf("number", ts[i].lexeme, i)
  <2>1. ParseExponent(ts, i) = IF c.ok THEN Parsed(e, c.next) ELSE c
    BY <1>2 DEF ParseExponent, Then
  <2>2. /\ c \in Results(ts, Nat)
        /\ c.ok => ts[i].type = "NUMBER" /\ Follows(c.next, i) /\ c.next \in DOMAIN ts
    BY ConsumeOne, ConsumeNext, ResultCases
  <2> HIDE DEF c
  <2>3. c.ok => e \in Trees /\ Stands(ts, e, i, c.next, 3)
    BY <2>2, NumberLeaf, NumberStands
  <2> HIDE DEF e
  <2> QED
    BY <2>1, <2>2, <2>3, TreeParsed, TreeFails
<1> QED
  BY <1>1, <1>2

\* What an expression in braces parses to.
Inner(ts) ==
  {f \in [DOMAIN ts -> Results(ts, Trees)] : \A j \in DOMAIN ts : f[j] \in ParsedTrees(ts, j, 1)}

\* What stands in braces, with the expression that inner reads there.
LEMMA BracedType ==
  ASSUME NEW ts, IsStream(ts), NEW i \in DOMAIN ts, NEW inner \in Inner(ts)
  PROVE  Braced(ts, i, inner) \in Groups(ts, i)
<1> DEFINE open == Consume(ts, i, <<"LBRACE">>)
           e == inner[open.next]
           close == Consume(ts, e.next, <<"RBRACE">>)
           braced == [e |-> e.value, close |-> close.value]
           T == [e : Trees, close : Nat]
           r == Parsed(braced, close.next)
<1>1. Braced(ts, i, inner) =
        IF open.ok THEN IF e.ok THEN IF close.ok THEN r ELSE close ELSE e
        ELSE open
  BY DEF Braced, Then
<1>2. /\ open \in Results(ts, Nat)
      /\ open.ok => open.next \in DOMAIN ts /\ Follows(open.next, i) /\ ts[i].type = "LBRACE"
  BY ConsumeOne, ConsumeNext, ResultCases
<1> HIDE DEF open
<1>3. open.ok => e \in ParsedTrees(ts, open.next, 1)
  BY <1>2 DEF Inner
<1> HIDE DEF e
<1>4. open.ok /\ e.ok => e.value \in Trees /\ e.next \in DOMAIN ts
                           /\ Stands(ts, e.value, open.next, e.next, 1)
  BY <1>3, TreeCases
<1>5. open.ok /\ e.ok =>
        /\ close \in Results(ts, Nat)
        /\ close.ok => close.next \in DOMAIN ts /\ Follows(close.next, e.next)
                         /\ ts[e.next].type = "RBRACE" /\ close.value = e.next
  BY <1>4, ConsumeOne, ConsumeNext, ResultCases
<1> HIDE DEF close
<1>6. open.ok /\ e.ok /\ close.ok => r \in Groups(ts, i)
  <2> HAVE open.ok /\ e.ok /\ close.ok
  <2>1. close.value \in Nat
    BY <1>5, ResultCases
  <2>2. braced \in T /\ braced.e = e.value /\ braced.close = close.value
    BY <1>4, <2>1
  <2>3. Enclosed(ts, e.value, i, close.value, close.next)
    BY <1>2, <1>4, <1>5 DEF Enclosed
  <2> HIDE DEF braced
  <2> QED
    BY <1>5, <2>2, <2>3, GroupParsed DEF T
<1> HIDE DEF r
<1>7. /\ ~open.ok => open \in Groups(ts, i)
      /\ open.ok /\ ~e.ok => e \in Groups(ts, i)
      /\ open.ok /\ e.ok /\ ~close.ok => close \in Groups(ts, i)
  BY <1>2, <1>3, <1>5, TreeCases, TreeFails
<1> QED
  BY <1>1, <1>6, <1>7

\* _parse_fraction, _parse_square_root and the group of _parse_primary.
LEMMA BracedAtomType ==
  ASSUME NEW ts, IsStream(ts), NEW i \in DOMAIN ts, NEW inner \in Inner(ts),
         ts[i].type \in {"FRAC", "SQRT", "LBRACE"}
  PROVE  ParseBracedAtom(ts, i, inner) \in ParsedTrees(ts, i, 5)
<1> DEFINE b(j) == Braced(ts, j, inner)
<1>1. \A j \in DOMAIN ts : b(j) \in Groups(ts, j)
  BY BracedType
<1>2. i \in Nat /\ i + 1 \in DOMAIN ts /\ Follows(i + 1, i)
  BY TokenAfter DEF Follows
<1>4. CASE ts[i].type = "FRAC"
  <2> DEFINE num == b(i + 1)
             den == b(num.next)
             e == Binary("frac", num.value.e, den.value.e, i, den.value.close)
  <2>1. ParseBracedAtom(ts, i, inner) =
          IF num.ok THEN IF den.ok THEN Parsed(e, den.next) ELSE den ELSE num
    BY <1>4 DEF ParseBracedAtom, Then
  <2> HIDE DEF b
  <2>2. num \in Groups(ts, i + 1)
    BY <1>1, <1>2
  <2> HIDE DEF num
  <2>3. num.ok => den \in Groups(ts, num.next)
    BY <1>1, <2>2, GroupCases
  <2> HIDE DEF den
  <2>4. num.ok /\ den.ok => e \in Trees /\ den.next \in DOMAIN ts /\ Stands(ts, e, i, den.next, 5)
    <3> HAVE num.ok /\ den.ok
    <3>1. /\ num.value.e \in Trees /\ Enclosed(ts, num.value.e, i + 1, num.value.close, num.next)
          /\ den.value.e \in Trees /\ Enclosed(ts, den.value.e, num.next, den.value.close, den.next)
          /\ den.value.close \in Nat /\ den.next \in DOMAIN ts
      BY <2>2, <2>3, GroupCases
    <3>2. "frac" \in Binaries
      BY DEF Binaries
    <3>3. e \in Trees
      BY <1>2, <3>1, <3>2, BinaryTree
    <3>4. Stands(ts, e, i, den.next, 5)
      BY <1>2, <1>4, <3>1, FractionStands
    <3> QED
      BY <3>1, <3>3, <3>4
  <2> HIDE DEF e
  <2>5. /\ ~num.ok => num \in ParsedTrees(ts, i, 5)
        /\ num.ok /\ ~den.ok => den \in ParsedTrees(ts, i, 5)
        /\ num.ok /\ den.ok => Parsed(e, den.next) \in ParsedTrees(ts, i, 5)
    BY <2>2, <2>3, <2>4, GroupCases, TreeFails, TreeParsed
  <2> QED
    BY <2>1, <2>5
<1>5. CASE ts[i].type = "SQRT"
  <2> DEFINE arg == b(i + 1)
             e == Unary("sqrt", arg.value.e, i, arg.value.close)
  <2>1. ParseBracedAtom(ts, i, inner) = IF arg.ok THEN Parsed(e, arg.next) ELSE arg
    BY <1>5 DEF ParseBracedAtom, Then
  <2> HIDE DEF b
  <2>2. arg \in Groups(ts, i + 1)
    BY <1>1, <1>2
  <2> HIDE DEF arg
  <2>3. arg.ok => e \in Trees /\ arg.next \in DOMAIN ts /\ Stands(ts, e, i, arg.next, 5)
    <3> HAVE arg.ok
    <3>1. /\ arg.value.e \in Trees /\ Enclosed(ts, arg.value.e, i + 1, arg.value.close, arg.next)
          /\ arg.value.close \in Nat /\ arg.next \in DOMAIN ts
      BY <2>2, GroupCases
    <3> QED
      BY <1>2, <1>5, <3>1, UnaryTree, RootStands
  <2> HIDE DEF e
  <2> QED
    BY <2>1, <2>2, <2>3, GroupCases, TreeFails, TreeParsed
<1>6. CASE ts[i].type = "LBRACE"
  <2> DEFINE group == b(i)
             e == Regroup(group.value.e, i, group.value.close)
  <2>1. ParseBracedAtom(ts, i, inner) = IF group.ok THEN Parsed(e, group.next) ELSE group
    BY <1>6 DEF ParseBracedAtom, Then
  <2> HIDE DEF b
  <2>2. group \in Groups(ts, i)
    BY <1>1, <1>2
  <2> HIDE DEF group
  <2>3. group.ok => e \in Trees /\ group.next \in DOMAIN ts /\ Stands(ts, e, i, group.next, 5)
    <3> HAVE group.ok
    <3>1. /\ group.value.e \in Trees /\ Enclosed(ts, group.value.e, i, group.value.close, group.next)
          /\ group.value.close \in Nat /\ group.next \in DOMAIN ts
      BY <2>2, GroupCases
    <3> QED
      BY <1>2, <3>1, RegroupTree, GroupStands
  <2> HIDE DEF e
  <2> QED
    BY <2>1, <2>2, <2>3, GroupCases, TreeFails, TreeParsed
<1> QED
  BY <1>4, <1>5, <1>6

\* _parse_primary.
LEMMA AtomType ==
  ASSUME NEW ts, IsStream(ts), NEW i \in DOMAIN ts, NEW inner \in Inner(ts)
  PROVE  ParseAtom(ts, i, inner) \in ParsedTrees(ts, i, 5)
<1>1. /\ i \in Places /\ i \in Nat /\ "variable" \in Leaves /\ "variable" # "number"
      /\ "SYN041" \in Failures /\ Follows(i + 1, i)
      /\ ts[i].type \in {"VARIABLE", "NUMBER"} => i + 1 \in DOMAIN ts
  BY TokenAfter DEF Leaves, Failures, SyntaxCodes, Follows
<1>2. CASE ts[i].type = "VARIABLE"
  <2> DEFINE e == Leaf("variable", ts[i].lexeme, i)
  <2>1. ts[i].lexeme \in Seq(STRING)
    BY DEF IsStream
  <2>2. e \in Trees
    BY <1>1, <2>1, LeafTree
  <2>3. Stands(ts, e, i, i + 1, 5)
    BY <1>1, <1>2, LeafStands
  <2>4. ParseAtom(ts, i, inner) = Parsed(e, i + 1)
    BY <1>2 DEF ParseAtom
  <2> HIDE DEF e
  <2> QED
    BY <1>1, <1>2, <2>2, <2>3, <2>4, TreeParsed
<1>3. CASE ts[i].type = "NUMBER"
  <2> DEFINE e == Leaf("number", ts[i].lexeme, i)
  <2>1. e \in Trees /\ Stands(ts, e, i, i + 1, 5)
    BY <1>1, <1>3, NumberLeaf, NumberStands
  <2>2. ParseAtom(ts, i, inner) = Parsed(e, i + 1)
    BY <1>3 DEF ParseAtom
  <2> HIDE DEF e
  <2> QED
    BY <1>1, <1>3, <2>1, <2>2, TreeParsed
<1>4. CASE ts[i].type \in {"FRAC", "SQRT", "LBRACE"}
  BY <1>4, BracedAtomType DEF ParseAtom
<1>5. CASE ts[i].type \notin {"VARIABLE", "NUMBER", "FRAC", "SQRT", "LBRACE"}
  <2>1. ParseAtom(ts, i, inner) = Failed("SYN041", i)
    BY <1>5 DEF ParseAtom
  <2>2. Failed("SYN041", i) \in Results(ts, Trees) /\ ~Failed("SYN041", i).ok
    BY <1>1, ResultIs
  <2> QED
    BY <2>1, <2>2, TreeFails
<1> QED
  BY <1>2, <1>3, <1>4, <1>5

\* _parse_power.
LEMMA PowerType ==
  ASSUME NEW ts, IsStream(ts), NEW i \in DOMAIN ts, NEW inner \in Inner(ts)
  PROVE  ParsePower(ts, i, inner) \in ParsedTrees(ts, i, 4)
<1> DEFINE base == ParseAtom(ts, i, inner)
           exponent == ParseExponent(ts, base.next + 1)
           e == Binary("power", base.value, exponent.value, i, Span(exponent.value)[2])
<1>1. ParsePower(ts, i, inner) =
        IF base.ok
        THEN IF ts[base.next].type = "POWER"
             THEN IF exponent.ok THEN Parsed(e, exponent.next) ELSE exponent
             ELSE Parsed(base.value, base.next)
        ELSE base
  BY DEF ParsePower, Then
<1>2. base \in ParsedTrees(ts, i, 5)
  BY AtomType
<1> HIDE DEF base
<1>3. base.ok => base.value \in Trees /\ base.next \in DOMAIN ts
                   /\ Stands(ts, base.value, i, base.next, 5)
  BY <1>2, TreeCases
<1>4. base.ok /\ ts[base.next].type = "POWER" =>
        base.next + 1 \in DOMAIN ts /\ Follows(base.next + 1, base.next)
  BY <1>3, TokenAfter DEF Follows
<1>5. base.ok /\ ts[base.next].type = "POWER" => exponent \in ParsedTrees(ts, base.next + 1, 3)
  BY <1>4, ExponentType
<1> HIDE DEF exponent
<1>6. base.ok /\ ts[base.next].type = "POWER" /\ exponent.ok =>
        e \in Trees /\ exponent.next \in DOMAIN ts /\ Stands(ts, e, i, exponent.next, 4)
  <2> HAVE base.ok /\ ts[base.next].type = "POWER" /\ exponent.ok
  <2>1. /\ exponent.value \in Trees /\ exponent.next \in DOMAIN ts
        /\ Stands(ts, exponent.value, base.next + 1, exponent.next, 3)
    BY <1>5, TreeCases
  <2>2. i \in Nat /\ Span(exponent.value)[2] \in Nat /\ "power" \in Binaries
    BY <2>1, SpanType, TokenAfter DEF Binaries
  <2>3. e \in Trees
    BY <1>3, <2>1, <2>2, BinaryTree
  <2>4. Stands(ts, e, i, exponent.next, 4)
    BY <1>3, <1>4, <2>1, PowerStands
  <2> QED
    BY <2>1, <2>3, <2>4
<1> HIDE DEF e
<1>7. base.ok => Parsed(base.value, base.next) \in ParsedTrees(ts, i, 4)
  BY <1>3, StandsLower, TreeParsed
<1>8. /\ ~base.ok => base \in ParsedTrees(ts, i, 4)
      /\ base.ok /\ ts[base.next].type = "POWER" /\ ~exponent.ok => exponent \in ParsedTrees(ts, i, 4)
      /\ base.ok /\ ts[base.next].type = "POWER" /\ exponent.ok =>
           Parsed(e, exponent.next) \in ParsedTrees(ts, i, 4)
  BY <1>2, <1>5, <1>6, TreeCases, TreeFails, TreeParsed
<1> QED
  BY <1>1, <1>7, <1>8

\* _parse_unary.
LEMMA UnaryType ==
  ASSUME NEW ts, IsStream(ts), NEW i \in DOMAIN ts, NEW inner \in Inner(ts)
  PROVE  ParseUnary(ts, i, inner) \in ParsedTrees(ts, i, 3)
<1>1. CASE ts[i].type \in {"PLUS", "MINUS"}
  <2> DEFINE operand == ParsePower(ts, i + 1, inner)
             e == Unary(SignOf(ts[i]), operand.value, i, Span(operand.value)[2])
  <2>1. ParseUnary(ts, i, inner) = IF operand.ok THEN Parsed(e, operand.next) ELSE operand
    BY <1>1 DEF ParseUnary, Then
  <2>2. i \in Nat /\ i + 1 \in DOMAIN ts /\ Follows(i + 1, i)
    BY <1>1, TokenAfter DEF Follows
  <2>3. operand \in ParsedTrees(ts, i + 1, 4)
    BY <2>2, PowerType
  <2> HIDE DEF operand
  <2>4. operand.ok => e \in Trees /\ operand.next \in DOMAIN ts /\ Stands(ts, e, i, operand.next, 3)
    <3> HAVE operand.ok
    <3>1. /\ operand.value \in Trees /\ operand.next \in DOMAIN ts
          /\ Stands(ts, operand.value, i + 1, operand.next, 4)
      BY <2>3, TreeCases
    <3>2. Span(operand.value)[2] \in Nat /\ SignOf(ts[i]) \in Unaries \cup {"sqrt"}
      BY <3>1, SpanType DEF SignOf, Unaries
    <3>3. e \in Trees
      BY <2>2, <3>1, <3>2, UnaryTree
    <3>4. Stands(ts, e, i, operand.next, 3)
      BY <1>1, <2>2, <3>1, SignStands
    <3> QED
      BY <3>1, <3>3, <3>4
  <2> HIDE DEF e
  <2> QED
    BY <2>1, <2>3, <2>4, TreeCases, TreeFails, TreeParsed
<1>2. CASE ts[i].type \notin {"PLUS", "MINUS"}
  BY <1>2, PowerType, TreeLower DEF ParseUnary
<1> QED
  BY <1>1, <1>2

\* The operators that join, with their levels and their tokens.
LEMMA OperatorLevels ==
  /\ {"add", "subtract", "pm", "multiply", "divide", "juxt"} \subseteq Sums \cup Products
  /\ Level("add") = 1 /\ Level("subtract") = 1 /\ Level("pm") = 1
  /\ Level("multiply") = 2 /\ Level("divide") = 2 /\ Level("juxt") = 2
  /\ OperatorTypes["add"] = <<"PLUS">> /\ OperatorTypes["subtract"] = <<"MINUS">>
  /\ OperatorTypes["pm"] = <<"PM">> /\ OperatorTypes["multiply"] = <<"MULT">>
  /\ OperatorTypes["divide"] = <<"DIV">>
<1>1. /\ {"add", "subtract", "pm", "multiply", "divide", "juxt"} \subseteq Sums \cup Products
      /\ Level("add") = 1 /\ Level("subtract") = 1 /\ Level("pm") = 1
      /\ Level("multiply") = 2 /\ Level("divide") = 2 /\ Level("juxt") = 2
  <2>1. \A op \in Sums : Level(op) = 1
    <3>1. \A op \in Sums : op \notin Products /\ op \notin Unaries /\ op # "power"
      BY DEF Sums, Products, Unaries
    <3> QED
      BY <3>1 DEF Level
  <2>3. \A op \in Products : Level(op) = 2
    <3>1. \A op \in Products : op \notin Sums /\ op \notin Unaries /\ op # "power"
      BY DEF Sums, Products, Unaries
    <3> QED
      BY <3>1 DEF Level
  <2>4. /\ "add" \in Sums /\ "subtract" \in Sums /\ "pm" \in Sums
        /\ "multiply" \in Products /\ "divide" \in Products /\ "juxt" \in Products
    BY DEF Sums, Products
  <2> QED
    BY <2>1, <2>3, <2>4
<1>2. /\ OperatorTypes["add"] = <<"PLUS">> /\ OperatorTypes["subtract"] = <<"MINUS">>
      /\ OperatorTypes["pm"] = <<"PM">> /\ OperatorTypes["multiply"] = <<"MULT">>
      /\ OperatorTypes["divide"] = <<"DIV">>
  BY DEF OperatorTypes
<1> QED
  BY <1>1, <1>2

FactorTypes == {"MULT", "DIV"} \cup ImplicitFactorStarters

\* One round of the loop of _parse_multiplicative.
LEMMA FactorType ==
  ASSUME NEW ts, IsStream(ts), NEW left \in Trees, NEW i, NEW j \in DOMAIN ts,
         Stands(ts, left, i, j, 2), NEW inner \in Inner(ts), ts[j].type \in FactorTypes
  PROVE  NextFactor(ts, left, j, inner) \in ParsedTrees(ts, i, 2)
<1> DEFINE explicit == ts[j].type \in {"MULT", "DIV"}
           op == IF explicit THEN ProductOf(ts[j].type) ELSE "juxt"
           m == IF explicit THEN j + 1 ELSE j
           rest == IF op = "juxt" THEN 4 ELSE Level(op) + 1
           right == IF explicit THEN ParseUnary(ts, m, inner) ELSE ParsePower(ts, m, inner)
           e == Joined(op, left, right.value)
<1>1. NextFactor(ts, left, j, inner) = IF right.ok THEN Parsed(e, right.next) ELSE right
  BY DEF NextFactor, Then
<1>2. /\ op \in Sums \cup Products /\ Level(op) = 2
      /\ explicit => op # "juxt" /\ OperatorTypes[op] = <<ts[j].type>> /\ rest = 3
      /\ ~explicit => op = "juxt" /\ rest = 4
  <2>1. /\ ts[j].type = "MULT" => op = "multiply"
        /\ ts[j].type = "DIV" => op = "divide"
        /\ ~explicit => op = "juxt"
    BY DEF ProductOf
  <2>2. ts[j].type = "MULT" \/ ts[j].type = "DIV" \/ ~explicit
    OBVIOUS
  <2> HIDE DEF op
  <2> QED
    BY <2>1, <2>2, OperatorLevels
<1>3. /\ explicit => Follows(m, j) /\ m \in DOMAIN ts
      /\ ~explicit => m = j /\ m \in DOMAIN ts /\ ts[j].type # "NUMBER"
  BY TokenAfter DEF Follows, FactorTypes, ImplicitFactorStarters
<1>4. right \in ParsedTrees(ts, m, rest)
  BY <1>2, <1>3, UnaryType, PowerType
<1>5. /\ explicit => Follows(m, j) /\ OperatorTypes[op] = <<ts[j].type>> /\ op # "juxt"
                       /\ ts[j].type \notin {"LBRACE", "RBRACE"}
      /\ ~explicit => op = "juxt" /\ m = j /\ ts[j].type # "NUMBER"
  BY <1>2, <1>3
<1> HIDE DEF right, op, m, explicit
<1>6. right.ok => e \in Trees /\ right.next \in DOMAIN ts /\ Stands(ts, e, i, right.next, 2)
  <2> HAVE right.ok
  <2>1. right.value \in Trees /\ right.next \in DOMAIN ts /\ Stands(ts, right.value, m, right.next, rest)
    BY <1>4, TreeCases
  <2>2. Stands(ts, left, i, j, Level(op))
    BY <1>2
  <2>3. e \in Trees /\ Stands(ts, e, i, right.next, Level(op))
    BY <1>2, <1>5, <2>1, <2>2, JoinedStands
  <2> QED
    BY <1>2, <2>1, <2>3
<1> HIDE DEF e
<1> QED
  BY <1>1, <1>4, <1>6, TreeCases, TreeFails, TreeParsed

\* _parse_multiplicative.
LEMMA ProductType ==
  ASSUME NEW ts, IsStream(ts), NEW i \in DOMAIN ts, NEW inner \in Inner(ts)
  PROVE  ParseProduct(ts, i, inner) \in ParsedTrees(ts, i, 2)
<1> DEFINE V == ParsedTrees(ts, i, 2)
           N == Len(ts)
           goesOn(r) == GoesOn(ts, FactorTypes, r)
           result == ParseUnary(ts, i, inner)
           Round(left, j) == NextFactor(ts, left, j, inner)
           Body(a) == [n \in 0 .. N |->
                         IF n = 0 THEN result
                         ELSE IF goesOn(a[n - 1])
                         THEN Round(a[n - 1].value, a[n - 1].next) ELSE a[n - 1]]
           after == CHOOSE a : a = Body(a)
<1>1. ParseProduct(ts, i, inner) = after[CHOOSE n \in 0 .. N : n = N \/ ~goesOn(after[n])]
  BY DEF ParseProduct, While, Then, GoesOn, FactorTypes
<1>2. N \in Nat
  BY DEF IsStream
<1> HIDE DEF N
<1>4. result \in V
  BY UnaryType, TreeLower
<1> HIDE DEF result
<1>5. ASSUME NEW left \in Trees, NEW j \in DOMAIN ts, Stands(ts, left, i, j, 2),
             ts[j].type \in FactorTypes
      PROVE  Round(left, j) \in V
  BY <1>5, FactorType
<1> HIDE DEF Round
<1>6. \A r \in V : goesOn(r) => Round(r.value, r.next) \in V
  BY <1>5, TreeCases DEF GoesOn
<1> HIDE DEF V, goesOn
<1>7. after = Body(after)
  <2> DEFINE round == [r \in V |-> IF goesOn(r) THEN Round(r.value, r.next) ELSE r]
  <2>1. round \in [V -> V]
    BY <1>6
  <2>2. \A r \in V : goesOn(r) => round[r] = Round(r.value, r.next)
    OBVIOUS
  <2> HIDE DEF round
  <2>3. PICK f \in [0 .. Len(ts) -> V] : Loop(f, ts, result, FactorTypes, round)
    BY <1>4, <2>1, LoopExists
  <2>4. f = Body(f)
    <3>1. \A n \in 0 .. N : n # 0 => f[n - 1] \in V
      BY <1>2, <2>3 DEF N
    <3>2. \A n \in 0 .. N :
            f[n] = IF n = 0 THEN result
                   ELSE IF goesOn(f[n - 1]) THEN Round(f[n - 1].value, f[n - 1].next) ELSE f[n - 1]
      BY <2>2, <2>3, <3>1 DEF Loop, N, goesOn
    <3>3. f = [n \in 0 .. N |-> f[n]]
      BY <2>3 DEF N
    <3> QED
      BY <3>2, <3>3
  <2> HIDE DEF Body
  <2> QED
    BY <2>4
<1> HIDE DEF after
<1>8. Keeps(after, N, V)
  BY <1>4, <1>6, <1>7 DEF Keeps
<1>9. \A n \in 0 .. N : after[n] \in V
  BY <1>2, <1>8, LoopStays
<1> DEFINE ends == [n \in 0 .. N |-> ~goesOn(after[n])]
<1>10. after[CHOOSE n \in 0 .. N : n = N \/ ends[n]] \in V
  <2> HIDE DEF ends
  <2> QED
    BY <1>2, <1>9, LoopResult
<1>11. \A n \in 0 .. N : ends[n] = ~goesOn(after[n])
  OBVIOUS
<1> QED
  BY <1>1, <1>10, <1>11 DEF V

SumTypes == {"PLUS", "MINUS", "PM"}

\* _parse_additive.
LEMMA SumType ==
  ASSUME NEW ts, IsStream(ts), NEW i \in DOMAIN ts, NEW inner \in Inner(ts)
  PROVE  ParseSum(ts, i, inner) \in ParsedTrees(ts, i, 1)
<1> DEFINE V == ParsedTrees(ts, i, 1)
           N == Len(ts)
           goesOn(r) == GoesOn(ts, SumTypes, r)
           result == ParseProduct(ts, i, inner)
           next(j) == ParseProduct(ts, j + 1, inner)
           Round(left, j) ==
             IF next(j).ok THEN Parsed(Joined(SumOf(ts[j].type), left, next(j).value), next(j).next)
             ELSE next(j)
           Body(a) == [n \in 0 .. N |->
                         IF n = 0 THEN result
                         ELSE IF goesOn(a[n - 1])
                         THEN Round(a[n - 1].value, a[n - 1].next) ELSE a[n - 1]]
           after == CHOOSE a : a = Body(a)
<1>1. ParseSum(ts, i, inner) = after[CHOOSE n \in 0 .. N : n = N \/ ~goesOn(after[n])]
  BY DEF ParseSum, While, Then, GoesOn, SumTypes
<1>2. N \in Nat
  BY DEF IsStream
<1> HIDE DEF N
<1>4. result \in V
  BY ProductType, TreeLower
<1> HIDE DEF result
<1>3. \A j \in DOMAIN ts : ts[j].type \in SumTypes => next(j) \in ParsedTrees(ts, j + 1, 2)
  BY TokenAfter, ProductType DEF SumTypes
<1> HIDE DEF next
<1>5. ASSUME NEW left \in Trees, NEW j \in DOMAIN ts, Stands(ts, left, i, j, 1),
             ts[j].type \in SumTypes
      PROVE  Round(left, j) \in V
  <2> DEFINE op == SumOf(ts[j].type)
             m == j + 1
             e == Joined(op, left, next(j).value)
  <2>1. next(j) \in ParsedTrees(ts, m, 2)
    BY <1>3, <1>5
  <2>2. /\ op \in Sums \cup Products /\ Level(op) = 1 /\ op # "juxt"
        /\ OperatorTypes[op] = <<ts[j].type>> /\ ts[j].type \notin {"LBRACE", "RBRACE"}
        /\ 2 = IF op = "juxt" THEN 4 ELSE Level(op) + 1
    <3>1. /\ ts[j].type = "PLUS" => op = "add"
          /\ ts[j].type = "MINUS" => op = "subtract"
          /\ ts[j].type = "PM" => op = "pm"
      BY DEF SumOf
    <3>2. ts[j].type = "PLUS" \/ ts[j].type = "MINUS" \/ ts[j].type = "PM"
      BY <1>5 DEF SumTypes
    <3> HIDE DEF op
    <3> QED
      BY <3>1, <3>2, OperatorLevels
  <2>3. Follows(m, j)
    BY TokenAfter DEF Follows
  <2> HIDE DEF op, m
  <2>4. next(j).ok => e \in Trees /\ next(j).next \in DOMAIN ts /\ Stands(ts, e, i, next(j).next, 1)
    <3> HAVE next(j).ok
    <3>1. /\ next(j).value \in Trees /\ next(j).next \in DOMAIN ts
          /\ Stands(ts, next(j).value, m, next(j).next, 2)
      BY <2>1, TreeCases
    <3>2. Stands(ts, left, i, j, Level(op))
      BY <1>5, <2>2
    <3>3. e \in Trees /\ Stands(ts, e, i, next(j).next, Level(op))
      BY <2>2, <2>3, <3>1, <3>2, JoinedStands
    <3> QED
      BY <2>2, <3>1, <3>3
  <2> HIDE DEF e
  <2>5. next(j).ok => Parsed(e, next(j).next) \in V
    BY <2>4, TreeParsed
  <2>6. ~next(j).ok => next(j) \in V
    BY <2>1, TreeCases, TreeFails
  <2> QED
    BY <2>5, <2>6 DEF e, op
<1> HIDE DEF Round
<1>6. \A r \in V : goesOn(r) => Round(r.value, r.next) \in V
  BY <1>5, TreeCases DEF GoesOn
<1> HIDE DEF V, goesOn
<1>7. after = Body(after)
  <2> DEFINE round == [r \in V |-> IF goesOn(r) THEN Round(r.value, r.next) ELSE r]
  <2>1. round \in [V -> V]
    BY <1>6
  <2>2. \A r \in V : goesOn(r) => round[r] = Round(r.value, r.next)
    OBVIOUS
  <2> HIDE DEF round
  <2>3. PICK f \in [0 .. Len(ts) -> V] : Loop(f, ts, result, SumTypes, round)
    BY <1>4, <2>1, LoopExists
  <2>4. f = Body(f)
    <3>1. \A n \in 0 .. N : n # 0 => f[n - 1] \in V
      BY <1>2, <2>3 DEF N
    <3>2. \A n \in 0 .. N :
            f[n] = IF n = 0 THEN result
                   ELSE IF goesOn(f[n - 1]) THEN Round(f[n - 1].value, f[n - 1].next) ELSE f[n - 1]
      BY <2>2, <2>3, <3>1 DEF Loop, N, goesOn
    <3>3. f = [n \in 0 .. N |-> f[n]]
      BY <2>3 DEF N
    <3> QED
      BY <3>2, <3>3
  <2> HIDE DEF Body
  <2> QED
    BY <2>4
<1> HIDE DEF after
<1>8. Keeps(after, N, V)
  BY <1>4, <1>6, <1>7 DEF Keeps
<1>9. \A n \in 0 .. N : after[n] \in V
  BY <1>2, <1>8, LoopStays
<1> DEFINE ends == [n \in 0 .. N |-> ~goesOn(after[n])]
<1>10. after[CHOOSE n \in 0 .. N : n = N \/ ends[n]] \in V
  <2> HIDE DEF ends
  <2> QED
    BY <1>2, <1>9, LoopResult
<1>11. \A n \in 0 .. N : ends[n] = ~goesOn(after[n])
  OBVIOUS
<1> QED
  BY <1>1, <1>10, <1>11 DEF V

\* _parse_expression: any nesting of braces, or RecursionError.
LEMMA ExpressionType ==
  ASSUME NEW ts, IsStream(ts), NEW i \in DOMAIN ts
  PROVE  ParseExpression(ts, i) \in ParsedTrees(ts, i, 1)
<1> DEFINE depth == RecursionLimit \div FramesPerExpression
           failed == [j \in DOMAIN ts |-> Failed("RecursionError", j)]
           sum(inner) == [j \in DOMAIN ts |-> ParseSum(ts, j, inner)]
           value(n, f) == IF n = 0 THEN failed ELSE sum(f[n - 1])
           expression == CHOOSE f : f = [n \in 0 .. depth |->
             [j \in DOMAIN ts |-> IF n = 0 THEN Failed("RecursionError", j)
                                  ELSE ParseSum(ts, j, f[n - 1])]]
           step == [n \in 0 .. depth |-> [f \in [0 .. depth -> Inner(ts)] |-> value(n, f)]]
<1>1. depth \in Nat /\ depth \in 0 .. depth /\ 0 \in Nat
  <2>1. \A m \in Nat, d \in Nat \ {0} : m \div d \in Nat
    OBVIOUS
  <2>2. depth \in Nat
    BY <2>1, RecursionAssumption DEF FramesPerExpression
  <2> QED
    BY <2>2
<1>2. ParseExpression(ts, i) = expression[depth][i]
  BY DEF ParseExpression
<1> HIDE DEF depth
<1>3. failed \in Inner(ts)
  <2>1. \A j \in DOMAIN ts : /\ Failed("RecursionError", j) \in Results(ts, Trees)
                            /\ ~Failed("RecursionError", j).ok
    BY ResultIs, TokenAfter DEF Failures
  <2>2. \A j \in DOMAIN ts : Failed("RecursionError", j) \in ParsedTrees(ts, j, 1)
    BY <2>1, TreeFails
  <2> QED
    BY <2>1, <2>2 DEF Inner
<1>4. \A inner \in Inner(ts) : sum(inner) \in Inner(ts)
  <2> TAKE inner \in Inner(ts)
  <2>1. \A j \in DOMAIN ts : ParseSum(ts, j, inner) \in ParsedTrees(ts, j, 1)
    BY SumType
  <2>2. \A j \in DOMAIN ts : ParseSum(ts, j, inner) \in Results(ts, Trees)
    BY <2>1, TreeCases
  <2> QED
    BY <2>1, <2>2 DEF Inner
<1>5. expression = CHOOSE f : f = [n \in 0 .. depth |-> value(n, f)]
  <2>1. \A f : [n \in 0 .. depth |-> value(n, f)]
               = [n \in 0 .. depth |-> [j \in DOMAIN ts |->
                    IF n = 0 THEN Failed("RecursionError", j) ELSE ParseSum(ts, j, f[n - 1])]]
    OBVIOUS
  <2> QED
    BY <2>1
<1> HIDE DEF failed, sum, expression
<1>6. ASSUME NEW n \in 0 .. depth, NEW f \in [0 .. depth -> Inner(ts)] PROVE value(n, f) \in Inner(ts)
  <2>1. n # 0 => n - 1 \in 0 .. depth
    BY <1>1
  <2> QED
    BY <1>3, <1>4, <2>1
<1>7. ASSUME NEW n \in 0 .. depth, NEW f \in [0 .. depth -> Inner(ts)],
             NEW g \in [0 .. depth -> Inner(ts)], \A j \in 0 .. n - 1 : f[j] = g[j]
      PROVE  value(n, f) = value(n, g)
  <2>1. n # 0 => n - 1 \in 0 .. n - 1
    BY <1>1
  <2>2. n # 0 => f[n - 1] = g[n - 1]
    BY <1>7, <2>1
  <2> QED
    BY <2>2
<1> HIDE DEF value
<1>8. \A n \in 0 .. depth, f \in [0 .. depth -> Inner(ts)] : step[n][f] = value(n, f)
  OBVIOUS
<1>9. LooksBack(step, 0, depth, Inner(ts))
  <2>1. step \in [0 .. depth -> [[0 .. depth -> Inner(ts)] -> Inner(ts)]]
    BY <1>6
  <2> HIDE DEF step
  <2>2. ASSUME NEW n \in 0 .. depth, NEW f \in [0 .. depth -> Inner(ts)],
               NEW g \in [0 .. depth -> Inner(ts)], \A j \in 0 .. n - 1 : f[j] = g[j]
        PROVE  step[n][f] = step[n][g]
    <3>1. value(n, f) = value(n, g)
      BY <1>7, <2>2
    <3> QED
      BY <1>8, <3>1
  <2> QED
    BY <2>1, <2>2 DEF LooksBack
<1> HIDE DEF step
<1>10. PICK f : Recursive(f, step, 0, depth, Inner(ts))
  <2>1. Inner(ts) # {}
    BY <1>3
  <2> QED
    BY <1>1, <1>9, <2>1, RecursionDefines
<1>11. f = [n \in 0 .. depth |-> value(n, f)]
  BY <1>8, <1>10 DEF Recursive
<1>12. expression = [n \in 0 .. depth |-> value(n, expression)]
  BY <1>5, <1>11
<1>13. Keeps(expression, depth, Inner(ts))
  <2> SUFFICES ASSUME NEW n \in 0 .. depth, n # 0 => expression[n - 1] \in Inner(ts)
               PROVE  expression[n] \in Inner(ts)
    BY DEF Keeps
  <2>1. expression[n] = value(n, expression)
    BY <1>12
  <2> QED
    BY <1>3, <1>4, <2>1 DEF value
<1>14. expression[depth] \in Inner(ts)
  BY <1>1, <1>13, LoopStays
<1> QED
  BY <1>2, <1>14 DEF Inner

-----------------------------------------------------------------------------
(* What a program parses to                                                *)

\* One statistic of the response.
LEMMA StatisticType ==
  ASSUME NEW ts, IsStream(ts), NEW i \in DOMAIN ts, NEW done \in Seq(StatisticTypes)
  PROVE  ParseStatistic(ts, i, done) \in Results(ts, Seq(StatisticTypes))
<1>1. CASE ts[i].type \in StatisticTypes
  <2>1. Append(done, ts[i].type) \in Seq(StatisticTypes)
    BY <1>1
  <2>2. "EOF" \notin StatisticTypes
    BY DEF StatisticTypes
  <2>3. i + 1 \in DOMAIN ts
    BY <1>1, <2>2, TokenAfter
  <2> QED
    BY <1>1, <2>1, <2>3, ResultIs DEF ParseStatistic
<1>2. CASE ts[i].type \notin StatisticTypes
  <2>1. i \in Places /\ "SYN030" \in Failures
    BY TokenAfter DEF Failures, SyntaxCodes
  <2> QED
    BY <1>2, <2>1, ResultIs DEF ParseStatistic
<1> QED
  BY <1>1, <1>2

\* The list of statistics.
LEMMA StatisticsType ==
  ASSUME NEW ts, IsStream(ts), NEW i \in DOMAIN ts
  PROVE  ParseStatistics(ts, i) \in Results(ts, Seq(StatisticTypes))
<1> DEFINE V == Results(ts, Seq(StatisticTypes))
           N == Len(ts)
           goesOn(r) == GoesOn(ts, {"COMMA"}, r)
           result == ParseStatistic(ts, i, << >>)
           Round(done, j) == ParseStatistic(ts, j + 1, done)
           Body(a) == [n \in 0 .. N |->
                         IF n = 0 THEN result
                         ELSE IF goesOn(a[n - 1])
                         THEN Round(a[n - 1].value, a[n - 1].next) ELSE a[n - 1]]
           after == CHOOSE a : a = Body(a)
<1>1. ParseStatistics(ts, i) = after[CHOOSE n \in 0 .. N : n = N \/ ~goesOn(after[n])]
  BY DEF ParseStatistics, While, GoesOn
<1>2. N \in Nat
  BY DEF IsStream
<1> HIDE DEF N
<1>4. result \in V
  <2>1. << >> \in Seq(StatisticTypes)
    OBVIOUS
  <2> QED
    BY <2>1, StatisticType
<1> HIDE DEF result
<1>5. ASSUME NEW done \in Seq(StatisticTypes), NEW j \in DOMAIN ts, ts[j].type = "COMMA"
      PROVE  Round(done, j) \in V
  BY <1>5, TokenAfter, StatisticType
<1> HIDE DEF Round
<1>6. \A r \in V : goesOn(r) => Round(r.value, r.next) \in V
  BY <1>5, ResultCases DEF GoesOn
<1> HIDE DEF V, goesOn
<1>7. after = Body(after)
  <2> DEFINE round == [r \in V |-> IF goesOn(r) THEN Round(r.value, r.next) ELSE r]
  <2>1. round \in [V -> V]
    BY <1>6
  <2>2. \A r \in V : goesOn(r) => round[r] = Round(r.value, r.next)
    OBVIOUS
  <2> HIDE DEF round
  <2>3. PICK f \in [0 .. Len(ts) -> V] : Loop(f, ts, result, {"COMMA"}, round)
    BY <1>4, <2>1, LoopExists
  <2>4. f = Body(f)
    <3>1. \A n \in 0 .. N : n # 0 => f[n - 1] \in V
      BY <1>2, <2>3 DEF N
    <3>2. \A n \in 0 .. N :
            f[n] = IF n = 0 THEN result
                   ELSE IF goesOn(f[n - 1]) THEN Round(f[n - 1].value, f[n - 1].next) ELSE f[n - 1]
      BY <2>2, <2>3, <3>1 DEF Loop, N, goesOn
    <3>3. f = [n \in 0 .. N |-> f[n]]
      BY <2>3 DEF N
    <3> QED
      BY <3>2, <3>3
  <2> HIDE DEF Body
  <2> QED
    BY <2>4
<1> HIDE DEF after
<1>8. Keeps(after, N, V)
  BY <1>4, <1>6, <1>7 DEF Keeps
<1>9. \A n \in 0 .. N : after[n] \in V
  BY <1>2, <1>8, LoopStays
<1> DEFINE ends == [n \in 0 .. N |-> ~goesOn(after[n])]
<1>10. after[CHOOSE n \in 0 .. N : n = N \/ ends[n]] \in V
  <2> HIDE DEF ends
  <2> QED
    BY <1>2, <1>9, LoopResult
<1>11. \A n \in 0 .. N : ends[n] = ~goesOn(after[n])
  OBVIOUS
<1> QED
  BY <1>1, <1>10, <1>11 DEF V

Requests ==
  [iterations : [lexeme : Seq(Figures), span : Spans],
   response : [statistics : Seq(StatisticTypes), span : Spans]]

\* The result of what reads the stream to its end: no token is left.
Finishes(r, T) == r.ok \in BOOLEAN /\ IF r.ok THEN r.value \in T ELSE r.value \in Failures

\* A failure is the end of what contains it.
LEMMA EndsIf ==
  ASSUME NEW ts, NEW T, NEW U, NEW r \in Results(ts, T), ~r.ok
  PROVE  Finishes(r, U)
BY ResultCases DEF Finishes

\* The iterations, the response and EOF.
LEMMA RequestType ==
  ASSUME NEW ts, IsStream(ts), NEW i \in DOMAIN ts
  PROVE  Finishes(ParseRequest(ts, i), Requests)
<1> DEFINE iter == Consume(ts, i, <<"ITER", "LBRACE", "NUMBER", "RBRACE">>)
           open == Consume(ts, iter.next, <<"RESPONSE", "LBRACE">>)
           statistics == ParseStatistics(ts, open.next)
           eof == Consume(ts, statistics.next, <<"RBRACE", "EOF">>)
           request == [iterations |-> [lexeme |-> ts[i + 2].lexeme, span |-> <<i, iter.value>>],
                       response |-> [statistics |-> statistics.value,
                                     span |-> <<iter.next, statistics.next>>]]
<1>1. ParseRequest(ts, i) =
        IF iter.ok
        THEN IF open.ok
             THEN IF statistics.ok
                  THEN IF eof.ok THEN Parsed(request, eof.next) ELSE eof
                  ELSE statistics
             ELSE open
        ELSE iter
  BY DEF ParseRequest, Then
<1>2. /\ iter \in Results(ts, Nat)
      /\ iter.ok => i + 2 \in DOMAIN ts /\ ts[i + 2].type = "NUMBER"
  BY ConsumeFour
<1> HIDE DEF iter
<1>3. iter.ok => open \in Results(ts, Nat)
  BY <1>2, ResultCases, ConsumeTwo
<1> HIDE DEF open
<1>4. iter.ok /\ open.ok => statistics \in Results(ts, Seq(StatisticTypes))
  BY <1>3, ResultCases, StatisticsType
<1> HIDE DEF statistics
<1>5. iter.ok /\ open.ok /\ statistics.ok =>
        eof.ok \in BOOLEAN /\ (~eof.ok => eof \in Results(ts, Nat))
  <2> HAVE iter.ok /\ open.ok /\ statistics.ok
  <2>1. statistics.next \in DOMAIN ts
    BY <1>4, ResultCases
  <2>2. IsSequence(<<"RBRACE", "EOF">>)
    BY DEF IsSequence
  <2>3. Consumed(ts, statistics.next, <<"RBRACE", "EOF">>)
    BY <2>1, <2>2, ConsumeType
  <2> QED
    BY <2>3 DEF Consumed
<1> HIDE DEF eof
<1>6. iter.ok /\ open.ok /\ statistics.ok => request \in Requests
  <2> HAVE iter.ok /\ open.ok /\ statistics.ok
  <2>1. /\ iter.value \in Nat /\ iter.next \in DOMAIN ts /\ statistics.next \in DOMAIN ts
        /\ statistics.value \in Seq(StatisticTypes)
    BY <1>2, <1>4, ResultCases
  <2>2. <<i, iter.value>> \in Spans /\ <<iter.next, statistics.next>> \in Spans
    BY <2>1, TokenAfter DEF Spans
  <2>3. ts[i + 2].lexeme \in Seq(Figures)
    BY <1>2 DEF IsStream
  <2> QED
    BY <2>1, <2>2, <2>3 DEF Requests
<1> HIDE DEF request
<1>7. iter.ok /\ open.ok /\ statistics.ok /\ eof.ok => Finishes(Parsed(request, eof.next), Requests)
  BY <1>6 DEF Finishes, Parsed
<1>8. /\ ~iter.ok => Finishes(iter, Requests)
      /\ iter.ok /\ ~open.ok => Finishes(open, Requests)
      /\ iter.ok /\ open.ok /\ ~statistics.ok => Finishes(statistics, Requests)
      /\ iter.ok /\ open.ok /\ statistics.ok /\ ~eof.ok => Finishes(eof, Requests)
  BY <1>2, <1>3, <1>4, <1>5, EndsIf
<1> QED
  BY <1>1, <1>7, <1>8

Programs ==
  [output : Seq(STRING), expression : Trees, span : Spans, distributions : Declarations,
   iterations : [lexeme : Seq(Figures), span : Spans],
   response : [statistics : Seq(StatisticTypes), span : Spans]]

\* Programs of which the expression sits on the tokens.
ProgramsOf(ts) == {p \in Programs : AllSit(ts, p.expression)}

\* Every stream of tokens that ends with EOF is parsed to the tree of a whole program,
\* well formed in all its parts, or rejected with a code of the parser: it reads no token
\* behind EOF and every loop of it ends (Parser.parse_program).  Each node of the
\* expression sits on the tokens it was made of.
THEOREM ProgramType ==
  ASSUME NEW ts, IsStream(ts)
  PROVE  Finishes(ParseProgram(ts), ProgramsOf(ts))
<1> DEFINE assign == Consume(ts, 1, <<"MODEL", "LBRACE", "VARIABLE", "ASSIGN">>)
           expression == ParseExpression(ts, assign.next)
           close == Consume(ts, expression.next, <<"RBRACE">>)
           distributions == ParseConfigurations(ts, close.next)
           request == ParseRequest(ts, distributions.next)
           p == [output |-> ts[3].lexeme, expression |-> expression.value,
                 span |-> <<1, close.value>>, distributions |-> distributions.value,
                 iterations |-> request.value.iterations, response |-> request.value.response]
<1>1. ParseProgram(ts) =
        IF assign.ok
        THEN IF expression.ok
             THEN IF close.ok
                  THEN IF distributions.ok
                       THEN IF request.ok THEN Parsed(p, request.next) ELSE request
                       ELSE distributions
                  ELSE close
             ELSE expression
        ELSE assign
  BY DEF ParseProgram, Then
<1>2. 1 \in DOMAIN ts
  BY DEF IsStream
<1>3. assign \in Results(ts, Nat) /\ (assign.ok => 3 \in DOMAIN ts)
  <2>1. 1 + 2 = 3
    OBVIOUS
  <2> QED
    BY <1>2, <2>1, ConsumeFour
<1> HIDE DEF assign
<1>4. assign.ok => /\ expression \in Results(ts, Trees)
                   /\ expression.ok => Stands(ts, expression.value, assign.next, expression.next, 1)
  BY <1>3, ResultCases, ExpressionType, TreeCases
<1> HIDE DEF expression
<1>5. assign.ok /\ expression.ok => close \in Results(ts, Nat)
  BY <1>4, ResultCases, ConsumeOne
<1> HIDE DEF close
<1>6. assign.ok /\ expression.ok /\ close.ok => distributions \in Results(ts, Declarations)
  BY <1>5, ResultCases, ConfigurationsType
<1> HIDE DEF distributions
<1>7. assign.ok /\ expression.ok /\ close.ok /\ distributions.ok => Finishes(request, Requests)
  BY <1>6, ResultCases, RequestType
<1> HIDE DEF request
<1>8. assign.ok /\ expression.ok /\ close.ok /\ distributions.ok /\ request.ok => p \in ProgramsOf(ts)
  <2> HAVE assign.ok /\ expression.ok /\ close.ok /\ distributions.ok /\ request.ok
  <2>1. /\ expression.value \in Trees /\ close.value \in Nat
        /\ distributions.value \in Declarations
    BY <1>4, <1>5, <1>6, ResultCases
  <2>2. request.value \in Requests
    BY <1>7 DEF Finishes
  <2>3. <<1, close.value>> \in Spans
    BY <2>1 DEF Spans
  <2>4. ts[3].lexeme \in Seq(STRING)
    BY <1>3 DEF IsStream
  <2> QED
    <3>1. p \in Programs
      BY <2>1, <2>2, <2>3, <2>4 DEF Programs, Requests
    <3>2. AllSit(ts, expression.value)
      BY <1>4, <2>1 DEF Stands
    <3> QED
      BY <3>1, <3>2 DEF ProgramsOf
<1> HIDE DEF p
<1>9. assign.ok /\ expression.ok /\ close.ok /\ distributions.ok /\ request.ok =>
        Finishes(Parsed(p, request.next), ProgramsOf(ts))
  BY <1>8 DEF Finishes, Parsed
<1>10. /\ ~assign.ok => Finishes(assign, ProgramsOf(ts))
       /\ assign.ok /\ ~expression.ok => Finishes(expression, ProgramsOf(ts))
       /\ assign.ok /\ expression.ok /\ ~close.ok => Finishes(close, ProgramsOf(ts))
       /\ assign.ok /\ expression.ok /\ close.ok /\ ~distributions.ok => Finishes(distributions, ProgramsOf(ts))
  BY <1>3, <1>4, <1>5, <1>6, EndsIf
<1>11. assign.ok /\ expression.ok /\ close.ok /\ distributions.ok /\ ~request.ok =>
         Finishes(request, ProgramsOf(ts))
  BY <1>7 DEF Finishes
<1> QED
  BY <1>1, <1>9, <1>10, <1>11

-----------------------------------------------------------------------------
(* Sequences of diagnostics                                                *)

SemanticCodes ==
  {"SEM001", "SEM002", "SEM003", "SEM004", "SEM005", "SEM006", "SEM010", "SEM011", "SEM012",
   "SEM013", "SEM014", "SEM020", "SEM021", "SEM030", "SEM040", "SEM050", "SEM051", "SEM052"}

Diagnoses == [code : SemanticCodes, span : Spans]

\* The codes of a sequence of diagnostics.
CodesOf(s) == {s[i].code : i \in DOMAIN s}

\* A sequence of diagnostics with the codes of a set.
Reports(s, codes) == s \in Seq(Diagnoses) /\ CodesOf(s) = codes

\* No diagnostics have no codes.
LEMMA EmptyReports == Reports(<< >>, {})
BY DEF Reports, CodesOf

\* Diagnostics one after the other have the codes of both.
LEMMA JoinedReports ==
  ASSUME NEW a, NEW b, NEW A, NEW B, Reports(a, A), Reports(b, B)
  PROVE  Reports(a \o b, A \cup B)
<1>1. a \in Seq(Diagnoses) /\ b \in Seq(Diagnoses)
  BY DEF Reports
<1>2. /\ a \o b \in Seq(Diagnoses) /\ DOMAIN (a \o b) = 1 .. Len(a) + Len(b)
      /\ \A i \in 1 .. Len(a) : (a \o b)[i] = a[i]
      /\ \A i \in 1 .. Len(b) : (a \o b)[Len(a) + i] = b[i]
      /\ DOMAIN a = 1 .. Len(a) /\ DOMAIN b = 1 .. Len(b) /\ Len(a) \in Nat /\ Len(b) \in Nat
  BY <1>1
<1> DEFINE c == a \o b
<1> HIDE DEF c
<1>3. \A i \in DOMAIN c : i \in 1 .. Len(a) \/ (i - Len(a) \in 1 .. Len(b) /\ Len(a) + (i - Len(a)) = i)
  BY <1>2 DEF c
<1>4. \A i \in DOMAIN c : c[i].code \in A \cup B
  <2> SUFFICES ASSUME NEW i \in DOMAIN c PROVE c[i].code \in A \cup B
    OBVIOUS
  <2>1. CASE i \in 1 .. Len(a)
    <3>1. c[i] = a[i] /\ i \in DOMAIN a
      BY <1>2, <2>1 DEF c
    <3> QED
      BY <3>1 DEF Reports, CodesOf
  <2>2. CASE i - Len(a) \in 1 .. Len(b) /\ Len(a) + (i - Len(a)) = i
    <3>1. c[i] = b[i - Len(a)] /\ i - Len(a) \in DOMAIN b
      BY <1>2, <2>2 DEF c
    <3> QED
      BY <3>1 DEF Reports, CodesOf
  <2> QED
    BY <1>3, <2>1, <2>2
<1>5. \A x \in A : \E i \in DOMAIN c : c[i].code = x
  <2> SUFFICES ASSUME NEW x \in A PROVE \E i \in DOMAIN c : c[i].code = x
    OBVIOUS
  <2>1. PICK i \in DOMAIN a : a[i].code = x
    BY DEF Reports, CodesOf
  <2>2. i \in DOMAIN c /\ c[i] = a[i]
    BY <1>2 DEF c
  <2> QED
    BY <2>1, <2>2
<1>6. \A x \in B : \E i \in DOMAIN c : c[i].code = x
  <2> SUFFICES ASSUME NEW x \in B PROVE \E i \in DOMAIN c : c[i].code = x
    OBVIOUS
  <2>1. PICK i \in DOMAIN b : b[i].code = x
    BY DEF Reports, CodesOf
  <2>2. i \in 1 .. Len(b) /\ Len(a) + i \in 1 .. Len(a) + Len(b)
    BY <1>2
  <2>3. Len(a) + i \in DOMAIN c /\ c[Len(a) + i] = b[i]
    BY <1>2, <2>2 DEF c
  <2> QED
    BY <2>1, <2>3
<1>7. CodesOf(c) = A \cup B
  BY <1>4, <1>5, <1>6 DEF CodesOf
<1> QED
  BY <1>2, <1>7 DEF Reports, c

\* One diagnostic.
LEMMA OneReport ==
  ASSUME NEW code \in SemanticCodes, NEW span \in Spans
  PROVE  Reports(Diagnosed(code, span), {code})
<1> DEFINE d == [code |-> code, span |-> span]
           s == <<d>>
<1>1. d \in Diagnoses /\ d.code = code
  BY DEF Diagnoses
<1> HIDE DEF d
<1>2. s \in Seq(Diagnoses) /\ DOMAIN s = {1} /\ s[1] = d
  BY <1>1
<1>3. CodesOf(s) = {code}
  <2> HIDE DEF s
  <2> QED
    BY <1>1, <1>2 DEF CodesOf
<1> QED
  BY <1>2, <1>3 DEF Reports, Diagnosed, d

\* What ForEach joins has the codes of all its parts.
LEMMA JoinReports ==
  ASSUME NEW n \in Nat, NEW parts, DOMAIN parts = 1 .. n, parts \in Seq(Seq(Diagnoses))
  PROVE  Reports(FlattenSeq(parts), UNION {CodesOf(parts[i]) : i \in 1 .. n})
<1> DEFINE T == Seq(Diagnoses)
           value(k, f) == IF k = 1 THEN parts[k] ELSE f[k - 1] \o parts[k]
           step == [k \in 1 .. n |-> [f \in [1 .. n -> T] |-> value(k, f)]]
           flatten == CHOOSE f : f = [k \in 1 .. n |-> IF k = 1 THEN parts[k] ELSE f[k - 1] \o parts[k]]
<1>1. Len(parts) = n /\ \A k \in 1 .. n : parts[k] \in T
  OBVIOUS
<1>2. CASE n = 0
  <2>1. FlattenSeq(parts) = << >>
    BY <1>1, <1>2 DEF FlattenSeq
  <2>2. UNION {CodesOf(parts[i]) : i \in 1 .. n} = {}
    BY <1>2
  <2> QED
    BY <2>1, <2>2, EmptyReports
<1>3. CASE n # 0
  <2>1. FlattenSeq(parts) = flatten[n]
    BY <1>1, <1>3 DEF FlattenSeq
  <2>2. flatten = CHOOSE f : f = [k \in 1 .. n |-> value(k, f)]
    OBVIOUS
  <2> HIDE DEF flatten, T
  <2>3. ASSUME NEW k \in 1 .. n, NEW f \in [1 .. n -> T] PROVE value(k, f) \in T
    <3>1. k # 1 => k - 1 \in 1 .. n
      OBVIOUS
    <3>2. k # 1 => f[k - 1] \in T
      BY <3>1
    <3>3. parts[k] \in T
      BY <1>1
    <3>4. \A a \in T, b \in T : a \o b \in T
      BY DEF T
    <3> QED
      BY <3>2, <3>3, <3>4
  <2>4. ASSUME NEW k \in 1 .. n, NEW f \in [1 .. n -> T], NEW g \in [1 .. n -> T],
               \A j \in 1 .. k - 1 : f[j] = g[j]
        PROVE  value(k, f) = value(k, g)
    <3>1. k # 1 => k - 1 \in 1 .. k - 1
      OBVIOUS
    <3>2. k # 1 => f[k - 1] = g[k - 1]
      BY <2>4, <3>1
    <3> QED
      BY <3>2
  <2> HIDE DEF value
  <2>5. \A k \in 1 .. n, f \in [1 .. n -> T] : step[k][f] = value(k, f)
    OBVIOUS
  <2>6. LooksBack(step, 1, n, T)
    <3>1. step \in [1 .. n -> [[1 .. n -> T] -> T]]
      BY <2>3
    <3> HIDE DEF step
    <3>2. ASSUME NEW k \in 1 .. n, NEW f \in [1 .. n -> T], NEW g \in [1 .. n -> T],
                 \A j \in 1 .. k - 1 : f[j] = g[j]
          PROVE  step[k][f] = step[k][g]
      <4>1. value(k, f) = value(k, g)
        BY <2>4, <3>2
      <4> QED
        BY <2>5, <4>1
    <3> QED
      BY <3>1, <3>2 DEF LooksBack
  <2> HIDE DEF step
  <2>7. PICK f : Recursive(f, step, 1, n, T)
    <3>1. << >> \in T
      BY DEF T
    <3>2. T # {}
      BY <3>1
    <3>3. 1 \in Nat
      OBVIOUS
    <3> QED
      BY <2>6, <3>2, <3>3, RecursionDefines
  <2>8. f = [k \in 1 .. n |-> value(k, f)]
    BY <2>5, <2>7 DEF Recursive
  <2>9. flatten = [k \in 1 .. n |-> value(k, flatten)]
    BY <2>2, <2>8
  <2> DEFINE codes(k) == UNION {CodesOf(parts[i]) : i \in 1 .. k}
             H == {k \in 1 .. n : Reports(flatten[k], codes(k))}
  <2>10. ASSUME NEW k \in 1 .. n, \A j \in 1 .. k - 1 : j \in H PROVE k \in H
    <3>1. flatten[k] = IF k = 1 THEN parts[k] ELSE flatten[k - 1] \o parts[k]
      BY <2>9 DEF value
    <3>2. Reports(parts[k], CodesOf(parts[k]))
      BY <1>1 DEF Reports, T
    <3>3. CASE k = 1
      <4>1. codes(k) = CodesOf(parts[k])
        BY <3>3
      <4> QED
        BY <3>1, <3>2, <3>3, <4>1
    <3>4. CASE k # 1
      <4>1. k - 1 \in 1 .. k - 1
        BY <3>4
      <4>2. Reports(flatten[k - 1], codes(k - 1))
        BY <2>10, <4>1
      <4>3. codes(k) = codes(k - 1) \cup CodesOf(parts[k])
        <5>1. \A i : i \in 1 .. k <=> i \in 1 .. k - 1 \/ i = k
          OBVIOUS
        <5> QED
          BY <5>1
      <4> HIDE DEF codes
      <4>4. Reports(flatten[k - 1] \o parts[k], codes(k - 1) \cup CodesOf(parts[k]))
        BY <3>2, <4>2, JoinedReports
      <4> QED
        BY <3>1, <3>4, <4>3, <4>4
    <3> QED
      BY <3>3, <3>4
  <2>11. \A k \in 1 .. n : (\A j \in 1 .. k - 1 : j \in H) => k \in H
    BY <2>10
  <2> HIDE DEF H
  <2>12. \A k \in 1 .. n : k \in H
    BY <2>11, SmallerFirst
  <2>13. n \in 1 .. n
    BY <1>3
  <2>14. n \in H
    BY <2>12, <2>13
  <2> QED
    BY <2>1, <2>14 DEF H
<1> QED
  BY <1>2, <1>3

\* The codes that are reported for the elements of a sequence.
AllCodes(s, codes) == UNION {codes[i] : i \in DOMAIN s}

\* The diagnostics of each element in turn.
LEMMA EachReports ==
  ASSUME NEW s, IsSequence(s), NEW parts, parts = [i \in DOMAIN s |-> parts[i]],
         NEW codes, \A i \in DOMAIN s : Reports(parts[i], codes[i])
  PROVE  Reports(FlattenSeq(parts), AllCodes(s, codes))
<1> DEFINE n == Len(s)
<1>0. n \in Nat /\ DOMAIN s = 1 .. n
  BY DEF IsSequence
<1> HIDE DEF n
<1>1. \A i \in 1 .. n : parts[i] \in Seq(Diagnoses) /\ CodesOf(parts[i]) = codes[i]
  BY <1>0 DEF Reports
<1>2. parts \in Seq(Seq(Diagnoses)) /\ DOMAIN parts = 1 .. n
  <2>1. DOMAIN parts = 1 .. n
    BY <1>0
  <2>2. parts \in [1 .. n -> Seq(Diagnoses)]
    BY <1>0, <1>1
  <2> DEFINE T == Seq(Diagnoses)
  <2> HIDE DEF T
  <2>3. \A f \in [1 .. n -> T] : f \in Seq(T)
    BY <1>0
  <2> QED
    BY <2>1, <2>2, <2>3 DEF T
<1>3. Reports(FlattenSeq(parts), UNION {CodesOf(parts[i]) : i \in 1 .. n})
  BY <1>0, <1>2, JoinReports
<1>4. {CodesOf(parts[i]) : i \in 1 .. n} = {codes[i] : i \in 1 .. n}
  BY <1>1
<1> QED
  BY <1>0, <1>3, <1>4 DEF AllCodes

\* What is known of a program that was parsed.
LEMMA ProgramFacts ==
  ASSUME NEW p \in Programs
  PROVE  /\ p.output \in Seq(STRING) /\ p.expression \in Trees /\ p.span \in Spans
         /\ p.distributions \in Seq(Distributions) /\ Len(p.distributions) \in Nat
         /\ Len(p.distributions) # 0
         /\ DOMAIN p.distributions = 1 .. Len(p.distributions)
         /\ DOMAIN p.expression = 1 .. Len(p.expression)
         /\ \A i \in DOMAIN p.distributions :
              p.distributions[i] \in Distributions /\ p.distributions[i].span \in Spans
         /\ \A k \in DOMAIN p.expression :
              p.expression[k] \in Nodes /\ p.expression[k].span \in Spans
         /\ p.iterations.lexeme \in Seq(Figures) /\ p.iterations.span \in Spans
         /\ p.response.statistics \in Seq(StatisticTypes) /\ p.response.span \in Spans
<1>1. /\ p.output \in Seq(STRING) /\ p.expression \in Trees /\ p.span \in Spans
      /\ p.distributions \in Seq(Distributions) /\ p.distributions # << >>
      /\ p.iterations.lexeme \in Seq(Figures) /\ p.iterations.span \in Spans
      /\ p.response.statistics \in Seq(StatisticTypes) /\ p.response.span \in Spans
  BY DEF Programs, Declarations
<1>2. /\ Len(p.distributions) \in Nat /\ Len(p.distributions) # 0
      /\ DOMAIN p.distributions = 1 .. Len(p.distributions)
      /\ \A i \in DOMAIN p.distributions : p.distributions[i] \in Distributions
  BY <1>1
<1>3. \A d \in Distributions : d.span \in Spans
  BY DEF Distributions
<1>4. /\ DOMAIN p.expression = 1 .. Len(p.expression)
      /\ \A k \in DOMAIN p.expression : p.expression[k] \in Nodes
  <2>1. p.expression \in Seq(Nodes)
    BY <1>1 DEF Trees
  <2> QED
    BY <2>1
<1>5. \A node \in Nodes : node.span \in Spans
  BY DEF Nodes
<1> QED
  BY <1>1, <1>2, <1>3, <1>4, <1>5

\* A name belongs to its first declaration (SymbolTable.declare).
LEMMA FirstIs ==
  ASSUME NEW p \in Programs, NEW i \in DOMAIN p.distributions
  PROVE  LET d == p.distributions
             first == FirstOf(p, d[i].variable)
         IN /\ first \in DOMAIN d /\ first <= i /\ d[first].variable = d[i].variable
            /\ \A j \in DOMAIN d : d[j].variable = d[i].variable => first <= j
<1> DEFINE S == {j \in DOMAIN p.distributions : p.distributions[j].variable = p.distributions[i].variable}
<1>1. i \in S /\ S \subseteq Nat /\ S # {}
  BY ProgramFacts
<1>2. FirstOf(p, p.distributions[i].variable) = Min(S)
  BY DEF FirstOf
<1>3. Min(S) \in S /\ \A k \in S : Min(S) <= k
  <2> HIDE DEF S
  <2> QED
    BY <1>1, LeastIsMin
<1> QED
  BY <1>1, <1>2, <1>3

-----------------------------------------------------------------------------
(* What the analysis reports                                               *)

DeclarationCodes(p) ==
  [i \in DOMAIN p.distributions |->
     IF p.distributions[i].variable = p.output THEN {"SEM001"}
     ELSE IF FirstOf(p, p.distributions[i].variable) < i THEN {"SEM004"} ELSE {}]

\* _register_declarations reports the codes of DeclarationCodes.
LEMMA DeclarationReports ==
  ASSUME NEW p \in Programs
  PROVE  Reports(DeclarationDiagnostics(p),
           AllCodes(p.distributions, DeclarationCodes(p))
             \cup (IF RandomNames(p) = {} THEN {"SEM006"} ELSE {}))
<1> DEFINE ds == p.distributions
           parts == [i \in DOMAIN ds |->
                       IF ds[i].variable = p.output THEN Diagnosed("SEM001", ds[i].span)
                       ELSE When(FirstOf(p, ds[i].variable) < i, "SEM004", ds[i].span)]
           none == When(RandomNames(p) = {}, "SEM006", p.span)
<1>1. DeclarationDiagnostics(p) = FlattenSeq(parts) \o none
  BY DEF DeclarationDiagnostics, ForEach
<1>2. IsSequence(ds)
  BY ProgramFacts DEF IsSequence
<1>3. \A i \in DOMAIN ds : Reports(parts[i], DeclarationCodes(p)[i])
  <2> SUFFICES ASSUME NEW i \in DOMAIN ds PROVE Reports(parts[i], DeclarationCodes(p)[i])
    OBVIOUS
  <2>1. /\ Reports(Diagnosed("SEM001", ds[i].span), {"SEM001"})
        /\ Reports(Diagnosed("SEM004", ds[i].span), {"SEM004"}) /\ Reports(<< >>, {})
    BY ProgramFacts, OneReport, EmptyReports DEF SemanticCodes
  <2> QED
    BY <2>1 DEF When, DeclarationCodes
<1>4. parts = [i \in DOMAIN ds |-> parts[i]]
  OBVIOUS
<1> HIDE DEF parts
<1>5. Reports(FlattenSeq(parts), AllCodes(ds, DeclarationCodes(p)))
  BY <1>2, <1>3, <1>4, EachReports
<1>6. Reports(none, IF RandomNames(p) = {} THEN {"SEM006"} ELSE {})
  <2>1. Reports(Diagnosed("SEM006", p.span), {"SEM006"}) /\ Reports(<< >>, {})
    BY ProgramFacts, OneReport, EmptyReports DEF SemanticCodes
  <2> QED
    BY <2>1 DEF When
<1> DEFINE all == FlattenSeq(parts)
           A == AllCodes(ds, DeclarationCodes(p))
           B == IF RandomNames(p) = {} THEN {"SEM006"} ELSE {}
<1>7. Reports(all \o none, A \cup B)
  <2> HIDE DEF all, none, A, B
  <2>1. Reports(all, A) /\ Reports(none, B)
    BY <1>5, <1>6 DEF all, A, B
  <2> QED
    BY <2>1, JoinedReports
<1> HIDE DEF none, A, B
<1>8. Reports(DeclarationDiagnostics(p), A \cup B)
  BY <1>1, <1>7
<1> QED
  BY <1>8 DEF A, B

\* The pass over the constants reports no codes but those of the domain.
LEMMA DomainReports ==
  ASSUME NEW e \in Trees, NEW k \in 1 .. Len(e)
  PROVE  /\ Reports(DomainDiagnostics(e, k), CodesOf(DomainDiagnostics(e, k)))
         /\ CodesOf(DomainDiagnostics(e, k)) \subseteq {"SEM050", "SEM051", "SEM052"}
<1> DEFINE value(i) == ConstantValues(e)[Operands(e, k)[i]]
           Good(s) == Reports(s, CodesOf(s)) /\ CodesOf(s) \subseteq {"SEM050", "SEM051", "SEM052"}
<1>1. /\ Formed(e, k)
      /\ \A i \in 1 .. Len(e) : e[i].span \in Spans
  BY TreeFacts DEF Nodes
<1>2. \A i \in 1 .. Len(e), code \in {"SEM050", "SEM051", "SEM052"} : Good(Diagnosed(code, e[i].span))
  <2> SUFFICES ASSUME NEW i \in 1 .. Len(e), NEW code \in {"SEM050", "SEM051", "SEM052"}
               PROVE  Good(Diagnosed(code, e[i].span))
    OBVIOUS
  <2>1. Reports(Diagnosed(code, e[i].span), {code})
    BY <1>1, OneReport DEF SemanticCodes
  <2> QED
    BY <2>1 DEF Reports
<1>3. Good(<< >>)
  BY EmptyReports DEF Reports
<1> HIDE DEF Good
<1>4. CASE e[k].op \in {"divide", "frac"}
  <2>1. Operands(e, k)[2] = k - 1 /\ k > 1
    BY <1>1, <1>4 DEF Operands, Formed, Leaves, Unaries, Binaries, Products, Sums
  <2>2. DomainDiagnostics(e, k) = When(value(2) = Zero, "SEM050", e[k - 1].span)
    BY <1>4, <2>1 DEF DomainDiagnostics
  <2>3. k - 1 \in 1 .. Len(e)
    BY <2>1
  <2>4. Good(Diagnosed("SEM050", e[k - 1].span))
    BY <1>2, <2>3
  <2> QED
    BY <1>3, <2>2, <2>4 DEF When, Good
<1>5. CASE e[k].op = "power"
  <2>1. DomainDiagnostics(e, k) = When(value(1) = Zero /\ Negative(value(2)), "SEM052", e[k].span)
    BY <1>5 DEF DomainDiagnostics
  <2>2. Good(Diagnosed("SEM052", e[k].span))
    BY <1>2
  <2> QED
    BY <1>3, <2>1, <2>2 DEF When, Good
<1>6. CASE e[k].op = "sqrt"
  <2>1. Operands(e, k)[1] = k - 1 /\ k > 1
    BY <1>1, <1>6 DEF Operands, Formed, Leaves, Unaries
  <2>2. DomainDiagnostics(e, k) = When(Negative(value(1)), "SEM051", e[k - 1].span)
    BY <1>6, <2>1 DEF DomainDiagnostics
  <2>3. k - 1 \in 1 .. Len(e)
    BY <2>1
  <2>4. Good(Diagnosed("SEM051", e[k - 1].span))
    BY <1>2, <2>3
  <2> QED
    BY <1>3, <2>2, <2>4 DEF When, Good
<1>7. CASE e[k].op \notin {"divide", "frac", "power", "sqrt"}
  BY <1>3, <1>7 DEF DomainDiagnostics, Good
<1> QED
  BY <1>4, <1>5, <1>6, <1>7

ExpressionCodes(p) ==
  [k \in DOMAIN p.expression |->
     IF p.expression[k].op # "variable" THEN CodesOf(DomainDiagnostics(p.expression, k))
     ELSE IF p.expression[k].lexeme = p.output THEN {"SEM002"}
     ELSE IF p.expression[k].lexeme \notin RandomNames(p) THEN {"SEM003"} ELSE {}]

\* _register_reference and the pass over the constants.
LEMMA ExpressionReports ==
  ASSUME NEW p \in Programs
  PROVE  Reports(ExpressionDiagnostics(p), AllCodes(p.expression, ExpressionCodes(p)))
<1> DEFINE e == p.expression
           parts == [k \in DOMAIN e |->
                       IF e[k].op = "variable" THEN ReferenceDiagnostics(p, e[k])
                       ELSE DomainDiagnostics(e, k)]
<1>1. ExpressionDiagnostics(p) = FlattenSeq(parts)
  BY DEF ExpressionDiagnostics, ForEach
<1>2. IsSequence(e)
  <2>1. e \in Seq(Nodes)
    BY ProgramFacts DEF Trees
  <2> QED
    BY <2>1 DEF IsSequence
<1>3. \A k \in DOMAIN e : Reports(parts[k], ExpressionCodes(p)[k])
  <2> SUFFICES ASSUME NEW k \in DOMAIN e PROVE Reports(parts[k], ExpressionCodes(p)[k])
    OBVIOUS
  <2>1. /\ Reports(Diagnosed("SEM002", e[k].span), {"SEM002"})
        /\ Reports(Diagnosed("SEM003", e[k].span), {"SEM003"}) /\ Reports(<< >>, {})
    BY ProgramFacts, OneReport, EmptyReports DEF SemanticCodes
  <2>2. Reports(DomainDiagnostics(e, k), CodesOf(DomainDiagnostics(e, k)))
    BY ProgramFacts, DomainReports
  <2> QED
    BY <2>1, <2>2 DEF When, ReferenceDiagnostics, ExpressionCodes
<1>4. parts = [k \in DOMAIN e |-> parts[k]]
  OBVIOUS
<1> HIDE DEF parts
<1>5. Reports(FlattenSeq(parts), AllCodes(e, ExpressionCodes(p)))
  BY <1>2, <1>3, <1>4, EachReports
<1> QED
  BY <1>1, <1>5

UnusedCodes(p) ==
  [i \in DOMAIN p.distributions |->
     IF /\ p.distributions[i].variable \in RandomNames(p) \ UsedNames(p)
        /\ FirstOf(p, p.distributions[i].variable) = i
     THEN {"SEM005"} ELSE {}]

\* _validate_unused_distributions.
LEMMA UnusedReports ==
  ASSUME NEW p \in Programs
  PROVE  Reports(UnusedDiagnostics(p), AllCodes(p.distributions, UnusedCodes(p)))
<1> DEFINE ds == p.distributions
           parts == [i \in DOMAIN ds |->
                       When(ds[i].variable \in RandomNames(p) \ UsedNames(p)
                              /\ FirstOf(p, ds[i].variable) = i, "SEM005", ds[i].span)]
<1>1. UnusedDiagnostics(p) = FlattenSeq(parts)
  BY DEF UnusedDiagnostics, ForEach
<1>2. IsSequence(ds)
  BY ProgramFacts DEF IsSequence
<1>3. \A i \in DOMAIN ds : Reports(parts[i], UnusedCodes(p)[i])
  <2> SUFFICES ASSUME NEW i \in DOMAIN ds PROVE Reports(parts[i], UnusedCodes(p)[i])
    OBVIOUS
  <2>1. Reports(Diagnosed("SEM005", ds[i].span), {"SEM005"}) /\ Reports(<< >>, {})
    BY ProgramFacts, OneReport, EmptyReports DEF SemanticCodes
  <2> QED
    BY <2>1 DEF When, UnusedCodes
<1>4. parts = [i \in DOMAIN ds |-> parts[i]]
  OBVIOUS
<1> HIDE DEF parts
<1>5. Reports(FlattenSeq(parts), AllCodes(ds, UnusedCodes(p)))
  BY <1>2, <1>3, <1>4, EachReports
<1> QED
  BY <1>1, <1>5

\* The values of a discrete distribution are apart and its probabilities in range.
PairCodes(d) ==
  [k \in DOMAIN d.parameters |->
     (IF DecimalOf(d.parameters[k].probability) \notin 0 .. Scale THEN {"SEM012"} ELSE {})
       \cup (IF \E j \in 1 .. k - 1 :
                  SignedDecimal(d.parameters[j].value) = SignedDecimal(d.parameters[k].value)
             THEN {"SEM014"} ELSE {})]

TotalIsWrong(d) ==
  Abs(FoldLeft(LAMBDA sum, pair : sum + DecimalOf(pair.probability), 0, d.parameters) - Scale)
    > Tolerance

DiscreteCodes(d) ==
  AllCodes(d.parameters, PairCodes(d)) \cup (IF TotalIsWrong(d) THEN {"SEM013"} ELSE {})

\* _validate_discrete.
LEMMA DiscreteReports ==
  ASSUME NEW d \in Distributions, d.kind = "DISTRIB"
  PROVE  Reports(DiscreteDiagnostics(d), DiscreteCodes(d))
<1> DEFINE ps == d.parameters
           range(k) == When(DecimalOf(ps[k].probability) \notin 0 .. Scale, "SEM012", ps[k].span)
           apart(k) == When(\E j \in 1 .. k - 1 : SignedDecimal(ps[j].value) = SignedDecimal(ps[k].value),
                            "SEM014", ps[k].span)
           parts == [k \in DOMAIN ps |-> range(k) \o apart(k)]
           total == When(TotalIsWrong(d), "SEM013", d.span)
<1>1. DiscreteDiagnostics(d) = FlattenSeq(parts) \o total
  BY DEF DiscreteDiagnostics, ForEach, TotalIsWrong
<1>2. /\ ps \in Seq(Pairs) /\ d.span \in Spans /\ IsSequence(ps)
      /\ \A k \in DOMAIN ps : ps[k].span \in Spans
  <2>1. ps \in Seq(Pairs) /\ d.span \in Spans
    BY DEF Distributions
  <2>2. \A k \in DOMAIN ps : ps[k] \in Pairs
    BY <2>1
  <2> QED
    BY <2>1, <2>2 DEF IsSequence, Pairs
<1>3. \A k \in DOMAIN ps : Reports(parts[k], PairCodes(d)[k])
  <2> SUFFICES ASSUME NEW k \in DOMAIN ps PROVE Reports(parts[k], PairCodes(d)[k])
    OBVIOUS
  <2>1. /\ Reports(Diagnosed("SEM012", ps[k].span), {"SEM012"})
        /\ Reports(Diagnosed("SEM014", ps[k].span), {"SEM014"}) /\ Reports(<< >>, {})
    BY <1>2, OneReport, EmptyReports DEF SemanticCodes
  <2> DEFINE A == IF DecimalOf(ps[k].probability) \notin 0 .. Scale THEN {"SEM012"} ELSE {}
             B == IF \E j \in 1 .. k - 1 : SignedDecimal(ps[j].value) = SignedDecimal(ps[k].value)
                  THEN {"SEM014"} ELSE {}
  <2>2. Reports(range(k), A) /\ Reports(apart(k), B)
    BY <2>1 DEF When
  <2>3. parts[k] = range(k) \o apart(k) /\ PairCodes(d)[k] = A \cup B
    BY DEF PairCodes
  <2> HIDE DEF parts, range, apart, A, B
  <2> QED
    BY <2>2, <2>3, JoinedReports
<1>4. parts = [k \in DOMAIN ps |-> parts[k]]
  OBVIOUS
<1> HIDE DEF parts
<1>5. Reports(FlattenSeq(parts), AllCodes(ps, PairCodes(d)))
  BY <1>2, <1>3, <1>4, EachReports
<1> DEFINE C == IF TotalIsWrong(d) THEN {"SEM013"} ELSE {}
<1>6. Reports(total, C)
  <2>1. Reports(Diagnosed("SEM013", d.span), {"SEM013"}) /\ Reports(<< >>, {})
    BY <1>2, OneReport, EmptyReports DEF SemanticCodes
  <2> QED
    BY <2>1 DEF When
<1>7. Reports(FlattenSeq(parts) \o total, AllCodes(ps, PairCodes(d)) \cup C)
  <2> HIDE DEF total, C
  <2> QED
    BY <1>5, <1>6, JoinedReports
<1> QED
  BY <1>1, <1>7 DEF DiscreteCodes

DistributionCodes(p) ==
  [i \in DOMAIN p.distributions |->
     LET d == p.distributions[i] IN
     CASE d.kind = "NORMAL" -> IF SignedDecimal(d.parameters[2]) <= 0 THEN {"SEM010"} ELSE {}
       [] d.kind = "UNIFORM" ->
            IF SignedDecimal(d.parameters[1]) >= SignedDecimal(d.parameters[2])
            THEN {"SEM011"} ELSE {}
       [] d.kind = "DISTRIB" -> DiscreteCodes(d)]

\* _validate_distributions.
LEMMA DistributionReports ==
  ASSUME NEW p \in Programs
  PROVE  Reports(DistributionDiagnostics(p), AllCodes(p.distributions, DistributionCodes(p)))
<1> DEFINE ds == p.distributions
           part(d) == CASE d.kind = "NORMAL" -> When(SignedDecimal(d.parameters[2]) <= 0, "SEM010", d.span)
                        [] d.kind = "UNIFORM" ->
                             When(SignedDecimal(d.parameters[1]) >= SignedDecimal(d.parameters[2]),
                                  "SEM011", d.span)
                        [] d.kind = "DISTRIB" -> DiscreteDiagnostics(d)
           parts == [i \in DOMAIN ds |-> part(ds[i])]
<1>1. DistributionDiagnostics(p) = FlattenSeq(parts)
  BY DEF DistributionDiagnostics, ForEach
<1>2. IsSequence(ds)
  BY ProgramFacts DEF IsSequence
<1>3. \A i \in DOMAIN ds : Reports(parts[i], DistributionCodes(p)[i])
  <2> SUFFICES ASSUME NEW i \in DOMAIN ds PROVE Reports(parts[i], DistributionCodes(p)[i])
    OBVIOUS
  <2> DEFINE d == ds[i]
  <2>1. d \in Distributions /\ d.span \in Spans
    BY ProgramFacts
  <2>2. /\ Reports(Diagnosed("SEM010", d.span), {"SEM010"})
        /\ Reports(Diagnosed("SEM011", d.span), {"SEM011"}) /\ Reports(<< >>, {})
    BY <2>1, OneReport, EmptyReports DEF SemanticCodes
  <2>3. d.kind = "DISTRIB" => Reports(DiscreteDiagnostics(d), DiscreteCodes(d))
    BY <2>1, DiscreteReports
  <2>4. d.kind \in {"NORMAL", "UNIFORM", "DISTRIB"}
    BY <2>1 DEF Distributions
  <2>5. /\ parts[i] = part(d)
        /\ d.kind = "NORMAL" => DistributionCodes(p)[i]
             = IF SignedDecimal(d.parameters[2]) <= 0 THEN {"SEM010"} ELSE {}
        /\ d.kind = "UNIFORM" => DistributionCodes(p)[i]
             = IF SignedDecimal(d.parameters[1]) >= SignedDecimal(d.parameters[2]) THEN {"SEM011"} ELSE {}
        /\ d.kind = "DISTRIB" => DistributionCodes(p)[i] = DiscreteCodes(d)
    BY DEF DistributionCodes
  <2> HIDE DEF d, parts
  <2>6. CASE d.kind = "NORMAL"
    BY <2>2, <2>5, <2>6 DEF When
  <2>7. CASE d.kind = "UNIFORM"
    BY <2>2, <2>5, <2>7 DEF When
  <2>8. CASE d.kind = "DISTRIB"
    BY <2>3, <2>5, <2>8
  <2> QED
    BY <2>4, <2>6, <2>7, <2>8
<1> HIDE DEF part
<1>4. parts = [i \in DOMAIN ds |-> parts[i]]
  OBVIOUS
<1> HIDE DEF parts
<1>5. Reports(FlattenSeq(parts), AllCodes(ds, DistributionCodes(p)))
  BY <1>2, <1>3, <1>4, EachReports
<1> QED
  BY <1>1, <1>5

Fractional(lexeme) == \E k \in DOMAIN lexeme : lexeme[k] = "."
IterationsWrong(lexeme) ==
  ~Fractional(lexeme) /\ DecimalOf(lexeme) \notin Scale .. MaxIterations * Scale

RequestCodes(p) ==
  ((IF Fractional(p.iterations.lexeme) THEN {"SEM020"} ELSE {})
     \cup (IF IterationsWrong(p.iterations.lexeme) THEN {"SEM021"} ELSE {})
     \cup (IF ~IsInjective(p.response.statistics) THEN {"SEM030"} ELSE {}))
  \cup (IF PlusMinusCount(p) > 1 THEN {"SEM040"} ELSE {})

\* The checks of the iterations and the response.
LEMMA RequestReports ==
  ASSUME NEW p \in Programs
  PROVE  Reports(RequestDiagnostics(p), RequestCodes(p))
<1> DEFINE lexeme == p.iterations.lexeme
           a == When(Fractional(lexeme), "SEM020", p.iterations.span)
           b == When(IterationsWrong(lexeme), "SEM021", p.iterations.span)
           c == When(~IsInjective(p.response.statistics), "SEM030", p.response.span)
           d == When(PlusMinusCount(p) > 1, "SEM040", Span(p.expression))
           A == IF Fractional(lexeme) THEN {"SEM020"} ELSE {}
           B == IF IterationsWrong(lexeme) THEN {"SEM021"} ELSE {}
           C == IF ~IsInjective(p.response.statistics) THEN {"SEM030"} ELSE {}
           D == IF PlusMinusCount(p) > 1 THEN {"SEM040"} ELSE {}
<1>1. RequestDiagnostics(p) = a \o b \o c \o d
  BY DEF RequestDiagnostics, Fractional, IterationsWrong
<1>2. p.expression \in Trees
  BY ProgramFacts
<1>3. /\ Reports(Diagnosed("SEM020", p.iterations.span), {"SEM020"})
      /\ Reports(Diagnosed("SEM021", p.iterations.span), {"SEM021"})
      /\ Reports(Diagnosed("SEM030", p.response.span), {"SEM030"})
      /\ Reports(Diagnosed("SEM040", Span(p.expression)), {"SEM040"}) /\ Reports(<< >>, {})
  BY <1>2, ProgramFacts, SpanType, OneReport, EmptyReports DEF SemanticCodes
<1>4. Reports(a, A) /\ Reports(b, B) /\ Reports(c, C) /\ Reports(d, D)
  BY <1>3 DEF When
<1>5. RequestCodes(p) = A \cup B \cup C \cup D
  BY DEF RequestCodes
<1> HIDE DEF a, b, c, d, A, B, C, D
<1>6. Reports(a \o b, A \cup B)
  BY <1>4, JoinedReports
<1>7. Reports(a \o b \o c, A \cup B \cup C)
  BY <1>4, <1>6, JoinedReports
<1>8. Reports(a \o b \o c \o d, A \cup B \cup C \cup D)
  BY <1>4, <1>7, JoinedReports
<1> QED
  BY <1>1, <1>5, <1>8

\* All that is wrong with a program.
AnalysisCodes(p) ==
  AllCodes(p.distributions, DeclarationCodes(p))
    \cup (IF RandomNames(p) = {} THEN {"SEM006"} ELSE {})
    \cup AllCodes(p.expression, ExpressionCodes(p))
    \cup AllCodes(p.distributions, UnusedCodes(p))
    \cup AllCodes(p.distributions, DistributionCodes(p))
    \cup RequestCodes(p)

\* SemanticAnalyzer.analyze reports the codes of AnalysisCodes, in some order.
LEMMA AnalysisReports ==
  ASSUME NEW p \in Programs
  PROVE  Reports(SemanticDiagnostics(p), AnalysisCodes(p))
<1> DEFINE a == DeclarationDiagnostics(p)
           b == ExpressionDiagnostics(p)
           c == UnusedDiagnostics(p)
           d == DistributionDiagnostics(p)
           e == RequestDiagnostics(p)
           A == AllCodes(p.distributions, DeclarationCodes(p))
                  \cup (IF RandomNames(p) = {} THEN {"SEM006"} ELSE {})
           B == AllCodes(p.expression, ExpressionCodes(p))
           C == AllCodes(p.distributions, UnusedCodes(p))
           D == AllCodes(p.distributions, DistributionCodes(p))
           E == RequestCodes(p)
<1>1. SemanticDiagnostics(p) = a \o b \o c \o d \o e
  BY DEF SemanticDiagnostics
<1>2. Reports(a, A) /\ Reports(b, B) /\ Reports(c, C) /\ Reports(d, D) /\ Reports(e, E)
  BY DeclarationReports, ExpressionReports, UnusedReports, DistributionReports, RequestReports
<1>3. AnalysisCodes(p) = A \cup B \cup C \cup D \cup E
  BY DEF AnalysisCodes
<1> HIDE DEF a, b, c, d, e, A, B, C, D, E
<1>4. Reports(a \o b, A \cup B)
  BY <1>2, JoinedReports
<1>5. Reports(a \o b \o c, A \cup B \cup C)
  BY <1>2, <1>4, JoinedReports
<1>6. Reports(a \o b \o c \o d, A \cup B \cup C \cup D)
  BY <1>2, <1>5, JoinedReports
<1>7. Reports(a \o b \o c \o d \o e, A \cup B \cup C \cup D \cup E)
  BY <1>2, <1>6, JoinedReports
<1> QED
  BY <1>1, <1>3, <1>7

-----------------------------------------------------------------------------
(* Names                                                                   *)

\* Names are in order exactly when none of the codes about names is reported.
NameCodes == {"SEM001", "SEM002", "SEM003", "SEM004", "SEM005", "SEM006"}

NamesInOrder(p) ==
  LET declared == [i \in DOMAIN p.distributions |-> p.distributions[i].variable] IN
  /\ IsInjective(declared)
  /\ Range(declared) = VariablesIn(p.expression)
  /\ p.output \notin Range(declared)

\* Which passes report the codes about names.
LEMMA NameReports ==
  ASSUME NEW p \in Programs
  PROVE  AnalysisCodes(p) \cap NameCodes = {} <=>
           /\ AllCodes(p.distributions, DeclarationCodes(p)) = {}
           /\ RandomNames(p) # {}
           /\ AllCodes(p.expression, ExpressionCodes(p)) \cap NameCodes = {}
           /\ AllCodes(p.distributions, UnusedCodes(p)) = {}
<1> DEFINE A == AllCodes(p.distributions, DeclarationCodes(p))
           B == IF RandomNames(p) = {} THEN {"SEM006"} ELSE {}
           C == AllCodes(p.expression, ExpressionCodes(p))
           D == AllCodes(p.distributions, UnusedCodes(p))
           E == AllCodes(p.distributions, DistributionCodes(p))
           F == RequestCodes(p)
<1>1. AnalysisCodes(p) = A \cup B \cup C \cup D \cup E \cup F
  BY DEF AnalysisCodes
<1>2. A \subseteq NameCodes
  BY DEF AllCodes, DeclarationCodes, NameCodes
<1>3. D \subseteq NameCodes
  BY DEF AllCodes, UnusedCodes, NameCodes
<1>4. B \subseteq NameCodes /\ (B = {} <=> RandomNames(p) # {})
  BY DEF NameCodes
<1>5. E \cap NameCodes = {}
  <2> SUFFICES ASSUME NEW i \in DOMAIN p.distributions
               PROVE  DistributionCodes(p)[i] \cap NameCodes = {}
    BY DEF AllCodes
  <2> DEFINE d == p.distributions[i]
  <2>1. d.kind \in {"NORMAL", "UNIFORM", "DISTRIB"}
    BY ProgramFacts DEF Distributions
  <2>2. DiscreteCodes(d) \cap NameCodes = {}
    BY DEF DiscreteCodes, AllCodes, PairCodes, NameCodes
  <2>3. /\ d.kind = "NORMAL" => DistributionCodes(p)[i] \subseteq {"SEM010"}
        /\ d.kind = "UNIFORM" => DistributionCodes(p)[i] \subseteq {"SEM011"}
        /\ d.kind = "DISTRIB" => DistributionCodes(p)[i] = DiscreteCodes(d)
    BY DEF DistributionCodes
  <2> HIDE DEF d
  <2> QED
    BY <2>1, <2>2, <2>3 DEF NameCodes
<1>6. F \cap NameCodes = {}
  BY DEF RequestCodes, NameCodes
<1> HIDE DEF A, B, C, D, E, F
<1>7. AnalysisCodes(p) \cap NameCodes = {} <=> A = {} /\ B = {} /\ C \cap NameCodes = {} /\ D = {}
  BY <1>1, <1>2, <1>3, <1>4, <1>5, <1>6
<1> QED
  BY <1>4, <1>7 DEF A, C, D

\* Analysis finds a fault in the names exactly when they are not in order.
LEMMA NamesAreChecked ==
  ASSUME NEW p \in Programs
  PROVE  AnalysisCodes(p) \cap NameCodes = {} <=> NamesInOrder(p)
<1> DEFINE ds == p.distributions
           e == p.expression
           declared == [i \in DOMAIN ds |-> ds[i].variable]
           used == VariablesIn(e)
           names == RandomNames(p)
           domain == {"SEM050", "SEM051", "SEM052"}
<1>1. \A i \in DOMAIN ds :
        LET first == FirstOf(p, ds[i].variable) IN
        /\ first \in DOMAIN ds /\ first <= i /\ ds[first].variable = ds[i].variable
        /\ \A j \in DOMAIN ds : ds[j].variable = ds[i].variable => first <= j
  BY FirstIs
<1>2. DOMAIN ds \subseteq Nat
  BY ProgramFacts
<1>3. AllCodes(ds, DeclarationCodes(p)) = {} <=>
        \A i \in DOMAIN ds : ds[i].variable # p.output /\ ~(FirstOf(p, ds[i].variable) < i)
  <2>1. \A i \in DOMAIN ds : DeclarationCodes(p)[i] = {} <=>
          ds[i].variable # p.output /\ ~(FirstOf(p, ds[i].variable) < i)
    BY DEF DeclarationCodes
  <2> QED
    BY <2>1 DEF AllCodes
<1>4. AllCodes(e, ExpressionCodes(p)) \cap NameCodes = {} <=>
        \A k \in DOMAIN e : e[k].op = "variable" => e[k].lexeme # p.output /\ e[k].lexeme \in names
  <2>1. \A k \in DOMAIN e : CodesOf(DomainDiagnostics(e, k)) \cap NameCodes = {}
    <3> SUFFICES ASSUME NEW k \in DOMAIN e PROVE CodesOf(DomainDiagnostics(e, k)) \cap NameCodes = {}
      OBVIOUS
    <3>1. CodesOf(DomainDiagnostics(e, k)) \subseteq domain
      BY ProgramFacts, DomainReports
    <3> QED
      BY <3>1 DEF NameCodes
  <2>2. \A k \in DOMAIN e : ExpressionCodes(p)[k] \cap NameCodes = {} <=>
          (e[k].op = "variable" => e[k].lexeme # p.output /\ e[k].lexeme \in names)
    <3> SUFFICES ASSUME NEW k \in DOMAIN e
                 PROVE  ExpressionCodes(p)[k] \cap NameCodes = {} <=>
                          (e[k].op = "variable" => e[k].lexeme # p.output /\ e[k].lexeme \in names)
      OBVIOUS
    <3>1. "SEM002" \in NameCodes /\ "SEM003" \in NameCodes
      BY DEF NameCodes
    <3> QED
      BY <2>1, <3>1 DEF ExpressionCodes
  <2>3. AllCodes(e, ExpressionCodes(p)) \cap NameCodes = {} <=>
          \A k \in DOMAIN e : ExpressionCodes(p)[k] \cap NameCodes = {}
    BY DEF AllCodes
  <2> QED
    BY <2>2, <2>3
<1>5. AllCodes(ds, UnusedCodes(p)) = {} <=>
        \A i \in DOMAIN ds : ~(/\ ds[i].variable \in names \ UsedNames(p)
                               /\ FirstOf(p, ds[i].variable) = i)
  <2>1. \A i \in DOMAIN ds : UnusedCodes(p)[i] = {} <=>
          ~(/\ ds[i].variable \in names \ UsedNames(p) /\ FirstOf(p, ds[i].variable) = i)
    BY DEF UnusedCodes
  <2> QED
    BY <2>1 DEF AllCodes
<1>6. names = Range(declared) \ {p.output} /\ UsedNames(p) = used \cap names
  BY DEF RandomNames, UsedNames, Range
<1>7. \A v : v \in used <=> \E k \in DOMAIN e : e[k].op = "variable" /\ e[k].lexeme = v
  BY DEF VariablesIn, Range
<1>8. \A v : v \in Range(declared) <=> \E i \in DOMAIN ds : ds[i].variable = v
  BY DEF Range
<1>9. \A i \in DOMAIN ds : FirstOf(p, ds[i].variable) \in Nat /\ i \in Nat
  BY <1>1, <1>2
<1>10. IsInjective(declared) <=> \A i, j \in DOMAIN ds : ds[i].variable = ds[j].variable => i = j
  BY DEF IsInjective
<1> HIDE DEF declared, used, names
<1>11. ASSUME AnalysisCodes(p) \cap NameCodes = {} PROVE NamesInOrder(p)
  <2>1. /\ \A i \in DOMAIN ds : ds[i].variable # p.output /\ ~(FirstOf(p, ds[i].variable) < i)
        /\ names # {}
        /\ \A k \in DOMAIN e :
             e[k].op = "variable" => e[k].lexeme # p.output /\ e[k].lexeme \in names
        /\ \A i \in DOMAIN ds : ~(/\ ds[i].variable \in names \ UsedNames(p)
                                  /\ FirstOf(p, ds[i].variable) = i)
    BY <1>3, <1>4, <1>5, <1>11, NameReports DEF names
  <2>2. \A i \in DOMAIN ds : FirstOf(p, ds[i].variable) = i
    BY <1>1, <1>9, <2>1
  <2>3. IsInjective(declared)
    <3>1. ASSUME NEW i \in DOMAIN ds, NEW j \in DOMAIN ds, ds[i].variable = ds[j].variable
          PROVE  i = j
      <4>1. FirstOf(p, ds[i].variable) = FirstOf(p, ds[j].variable)
        BY <3>1
      <4> QED
        BY <2>2, <4>1
    <3> QED
      BY <1>10, <3>1
  <2>4. p.output \notin Range(declared)
    BY <1>8, <2>1
  <2>5. names = Range(declared)
    BY <1>6, <2>4
  <2>6. used \subseteq Range(declared)
    BY <1>7, <2>1, <2>5
  <2>7. Range(declared) \subseteq used
    BY <1>6, <1>8, <2>1, <2>2, <2>5
  <2> QED
    BY <2>3, <2>4, <2>6, <2>7 DEF NamesInOrder, declared, used
<1>12. ASSUME NamesInOrder(p) PROVE AnalysisCodes(p) \cap NameCodes = {}
  <2>1. IsInjective(declared) /\ Range(declared) = used /\ p.output \notin Range(declared)
    BY <1>12 DEF NamesInOrder, declared, used
  <2>2. \A i \in DOMAIN ds : FirstOf(p, ds[i].variable) = i
    BY <1>1, <1>10, <2>1
  <2>3. names = Range(declared)
    BY <1>6, <2>1
  <2>4. \A i \in DOMAIN ds : ds[i].variable # p.output /\ ~(FirstOf(p, ds[i].variable) < i)
    BY <1>8, <1>9, <2>1, <2>2
  <2>5. \A k \in DOMAIN e : e[k].op = "variable" => e[k].lexeme # p.output /\ e[k].lexeme \in names
    BY <1>7, <2>1, <2>3
  <2>6. \A i \in DOMAIN ds : ~(/\ ds[i].variable \in names \ UsedNames(p)
                               /\ FirstOf(p, ds[i].variable) = i)
    BY <1>6, <2>1, <2>3
  <2>7. names # {}
    <3>1. 1 \in DOMAIN ds
      BY ProgramFacts
    <3> QED
      BY <1>8, <2>3, <3>1
  <2> QED
    BY <1>3, <1>4, <1>5, <2>4, <2>5, <2>6, <2>7, NameReports DEF names
<1> QED
  BY <1>11, <1>12

-----------------------------------------------------------------------------
(* From phase to phase                                                     *)

\* The lexer of the compiler is the lexer.
LEMMA LexerRuns == CompilerSpec => Spec
<1>1. CompilerInit => Init
  BY DEF CompilerInit
<1>2. [CompilerNext]_compilerVars => [Next]_lexerVars
  BY DEF CompilerNext, compilerVars, LexPhase, LexStep, LexFails, LexEnds, ParseStream, Analyze,
     GenerateScript
<1> QED
  BY <1>1, <1>2, PTL DEF CompilerSpec, Spec

\* A text that is accepted ends with EOF.
EndsWithEof ==
  scan = "done" /\ diagnostics = << >> =>
    tokens # << >> /\ tokens[Len(tokens)].type = "EOF"

\* A text that is read to its end has its last token, EOF (tokenize).
THEOREM EofComesLast == Spec => []EndsWithEof
<1>1. Init => EndsWithEof
  BY DEF Init, EndsWithEof
<1>2. ASSUME LexerInv, EndsWithEof, [Next]_lexerVars PROVE EndsWithEof'
  <2>1. CASE EndOfSource
    <3> DEFINE t == [type |-> "EOF", start |-> start', end |-> Recorded(position)]
    <3>1. tokens' = Append(tokens, t)
      BY <2>1 DEF EndOfSource, Emit
    <3>2. t.type = "EOF"
      OBVIOUS
    <3> HIDE DEF t
    <3>3. tokens \in Seq([type : TokenTypes, start : Positions, end : Positions])
      BY <1>2 DEF LexerInv
    <3>4. Len(tokens') = Len(tokens) + 1 /\ Len(tokens) \in Nat /\ tokens'[Len(tokens) + 1] = t
      BY <3>1, <3>3
    <3>5. tokens' # << >>
      BY <3>4
    <3> QED
      BY <3>2, <3>4, <3>5 DEF EndsWithEof
  <2>2. CASE InvalidCharacter \/ RejectDirective \/ RejectNumber \/ RejectStatistic
    <3>1. \E d : diagnostics' = <<d>>
      BY <2>2 DEF InvalidCharacter, RejectDirective, RejectNumber, RejectStatistic, Reject
    <3>2. diagnostics' # << >>
      BY <3>1
    <3> QED
      BY <3>2 DEF EndsWithEof
  <2>3. CASE \/ ScanSymbol \/ SkipWhitespace \/ LeavePending \/ EndDirective \/ EndVariable
             \/ EndNumber \/ EndStatistic
    <3>1. scan' = "dispatch"
      BY <2>3 DEF ScanSymbol, SkipWhitespace, LeavePending, EndDirective, EndVariable, EndNumber,
         EndStatistic, Emit, Read
    <3> QED
      BY <3>1 DEF EndsWithEof
  <2>4. CASE \/ BeginDirective \/ ReadDirective \/ BeginVariable \/ ReadVariable
             \/ BeginNumber \/ ReadNumber \/ BeginStatistic \/ ReadStatistic
    <3>1. scan' # "done"
      BY <2>4 DEF BeginDirective, ReadDirective, BeginVariable, ReadVariable, BeginNumber,
         ReadNumber, BeginStatistic, ReadStatistic, Begin, Read, NumberStep
    <3> QED
      BY <3>1 DEF EndsWithEof
  <2>5. CASE UNCHANGED lexerVars
    BY <1>2, <2>5 DEF EndsWithEof, lexerVars
  <2> QED
    BY <1>2, <2>1, <2>2, <2>3, <2>4, <2>5 DEF Next
<1>3. LexerInv /\ EndsWithEof /\ [Next]_lexerVars => EndsWithEof'
  BY <1>2
<1> QED
  BY <1>1, <1>3, LexerSound, PTL DEF Spec

\* The word of a number is written with figures.
LEMMA NumberFigures ==
  ASSUME NEW word \in Seq(STRING), IsNumber(word)
  PROVE  word \in Seq(Figures)
<1> DEFINE n == Len(word)
<1>1. PICK k \in 0 .. n :
        /\ AllIn(SubSeq(word, 1, k), Digits)
        /\ SubSeq(word, k + 1, n) # << >> =>
             /\ SubSeq(word, k + 1, n)[1] = "."
             /\ AllIn(Tail(SubSeq(word, k + 1, n)), Digits)
  BY DEF IsNumber
<1>2. n \in Nat /\ \A j \in 1 .. k : word[j] \in Digits
  <2> DEFINE whole == SubSeq(word, 1, k)
  <2>1. DOMAIN whole = 1 .. k /\ \A j \in 1 .. k : whole[j] = word[j]
    OBVIOUS
  <2> HIDE DEF whole
  <2>2. AllIn(whole, Digits)
    BY <1>1 DEF whole
  <2> QED
    BY <2>1, <2>2 DEF AllIn
<1>3. ASSUME k < n PROVE word[k + 1] = "." /\ \A j \in k + 2 .. n : word[j] \in Digits
  <2> DEFINE fraction == SubSeq(word, k + 1, n)
             rest == Tail(fraction)
  <2>1. /\ fraction \in Seq(STRING) /\ Len(fraction) = n - k
        /\ \A j \in 1 .. n - k : fraction[j] = word[k + j]
    BY <1>3
  <2> HIDE DEF fraction
  <2>2. fraction # << >>
    <3>1. Len(fraction) > 0
      BY <1>2, <1>3, <2>1
    <3> QED
      BY <3>1
  <2>3. fraction[1] = "." /\ AllIn(rest, Digits)
    BY <1>1, <2>2 DEF fraction
  <2>4. DOMAIN rest = 1 .. n - k - 1 /\ \A j \in 1 .. n - k - 1 : rest[j] = fraction[j + 1]
    BY <1>3, <2>1, <2>2
  <2> HIDE DEF rest
  <2>5. ASSUME NEW j \in k + 2 .. n PROVE word[j] \in Digits
    <3>1. j - k - 1 \in 1 .. n - k - 1 /\ j - k \in 1 .. n - k /\ j - k - 1 + 1 = j - k
          /\ k + (j - k) = j
      BY <1>2
    <3>2. rest[j - k - 1] = word[j]
      BY <2>1, <2>4, <3>1
    <3> QED
      BY <2>3, <2>4, <3>1, <3>2 DEF AllIn
  <2>6. 1 \in 1 .. n - k
    BY <1>3
  <2> QED
    BY <2>1, <2>3, <2>5, <2>6
<1>4. \A j \in 1 .. n : word[j] \in Figures
  <2> SUFFICES ASSUME NEW j \in 1 .. n PROVE word[j] \in Figures
    OBVIOUS
  <2>1. CASE j <= k
    BY <1>2, <2>1 DEF Figures
  <2>2. CASE j = k + 1
    BY <1>3, <2>2 DEF Figures
  <2>3. CASE j > k + 1
    BY <1>3, <2>3 DEF Figures
  <2> QED
    BY <2>1, <2>2, <2>3
<1> QED
  BY <1>4

\* A piece that ends before it starts is empty.
LEMMA NothingBetween ==
  ASSUME NEW s \in Seq(STRING), NEW from \in Nat, NEW to \in Nat, to < from
  PROVE  SubSeq(s, from + 1, to) \in Seq(STRING)
<1>1. from + 1 > to
  OBVIOUS
<1>2. SubSeq(s, from + 1, to) = << >>
  BY <1>1
<1>3. << >> \in Seq(STRING)
  OBVIOUS
<1> QED
  BY <1>2, <1>3

\* What the lexer hands over is a stream as the parser needs it.
LEMMA StreamOfText ==
  ASSUME LexerInv, SourceCovered, LexemesAreTokens, EndsWithEof, LexEnds
  PROVE  IsStream(stream')
<1> DEFINE n == Len(tokens)
<1>1. /\ tokens \in Seq([type : TokenTypes, start : Positions, end : Positions])
      /\ source \in Seq(STRING) /\ tokens # << >> /\ tokens[n].type = "EOF"
  BY DEF LexerInv, EndsWithEof, LexEnds
<1>2. n \in Nat \ {0} /\ DOMAIN tokens = 1 .. n
  BY <1>1
<1>3. /\ DOMAIN stream' = 1 .. n
      /\ \A i \in 1 .. n : /\ stream'[i].type = tokens[i].type
                           /\ stream'[i].lexeme = Lexeme(tokens[i])
  BY <1>2 DEF LexEnds
<1>4. Len(stream') = n
  BY <1>2, <1>3
<1>5. ASSUME NEW i \in 1 .. n
      PROVE  /\ Lexeme(tokens[i]) \in Seq(STRING)
             /\ tokens[i].type = "NUMBER" => Lexeme(tokens[i]) \in Seq(Figures)
  <2> DEFINE from == tokens[i].start.offset
             to == tokens[i].end.offset
             word == SubSeq(source, from + 1, to)
  <2>1. from \in Nat /\ to \in Nat
    <3> DEFINE Tokens == [type : TokenTypes, start : Positions, end : Positions]
    <3>1. tokens[i] \in Tokens
      <4>1. tokens \in Seq(Tokens) /\ i \in 1 .. Len(tokens)
        BY <1>1
      <4> HIDE DEF Tokens
      <4> QED
        BY <4>1
    <3> QED
      BY <3>1 DEF Positions
  <2>2. InLanguage(tokens[i].type, word)
    BY <1>2 DEF LexemesAreTokens, TokenAt
  <2>3. to <= Len(source)
    <3>1. to <= position.offset
      BY <1>2 DEF SourceCovered
    <3>2. position.offset \in Nat /\ position.offset <= Len(source)
      BY DEF LexerInv
    <3>3. Len(source) \in Nat
      BY <1>1
    <3> HIDE DEF to
    <3> QED
      BY <2>1, <3>1, <3>2, <3>3
  <2>4. word \in Seq(STRING)
    <3>0. source \in Seq(STRING)
      BY <1>1
    <3> HIDE DEF from, to
    <3>1. CASE from <= to
      BY <2>1, <2>3, <3>0, <3>1, Between
    <3>2. CASE to < from
      BY <2>1, <3>0, <3>2, NothingBetween
    <3> QED
      BY <2>1, <3>1, <3>2
  <2>5. Lexeme(tokens[i]) = word
    BY DEF Lexeme
  <2> HIDE DEF from, to, word
  <2>6. ASSUME tokens[i].type = "NUMBER" PROVE word \in Seq(Figures)
    BY <2>2, <2>4, <2>6, OtherWords, NumberFigures
  <2> QED
    BY <2>4, <2>5, <2>6
<1>6. \A i \in 1 .. n : /\ stream'[i].lexeme \in Seq(STRING)
                        /\ stream'[i].type = "NUMBER" => stream'[i].lexeme \in Seq(Figures)
  BY <1>3, <1>5
<1>7. n \in 1 .. n /\ tokens[n].type = "EOF"
  BY <1>1, <1>2
<1>8. stream'[n].type = "EOF"
  BY <1>3, <1>7
<1> HIDE DEF n
<1> QED
  BY <1>2, <1>3, <1>4, <1>6, <1>8 DEF IsStream

\* What a phase may rely on, and what a program that compiles has been through.
Generated ==
  /\ program \in Programs /\ SemanticDiagnostics(program) = << >>
  /\ Generate(Validated(program)).ok /\ script = Generate(Validated(program)).value

StageInv ==
  /\ stage = "parse" => IsStream(stream)
  /\ stage = "analyze" => AllSit(stream, program.expression)
  /\ stage \in {"analyze", "generate"} => program \in Programs
  /\ stage = "generate" => SemanticDiagnostics(program) = << >>
  /\ Compiled => Generated

\* What an answer says.
LEMMA Answers ==
  ASSUME NEW codes, Answer(codes)
  PROVE  stage' = "answered" /\ answer'.codes = codes /\ (Compiled' <=> codes = << >>)
BY DEF Answer, Compiled

\* No phase is past at the start.
LEMMA StageInit == CompilerInit => StageInv
<1> SUFFICES ASSUME CompilerInit PROVE StageInv
  OBVIOUS
<1>1. CASE stage = "lex"
  BY <1>1 DEF StageInv, Compiled
<1>2. CASE stage = "parse" /\ stream \in TokenStreams
  <2> DEFINE Tokens == [type : STRING, lexeme : Seq(STRING)]
  <2>1. /\ stream \in Seq(Tokens) /\ stream # << >> /\ stream[Len(stream)].type = "EOF"
        /\ \A i \in DOMAIN stream :
             stream[i].type = "NUMBER" => stream[i].lexeme \in Seq(Figures)
    BY <1>2, StreamsAssumption DEF Figures
  <2> HIDE DEF Tokens
  <2>2. /\ Len(stream) \in Nat \ {0} /\ DOMAIN stream = 1 .. Len(stream)
        /\ \A i \in DOMAIN stream : stream[i] \in Tokens
    BY <2>1
  <2>3. \A t \in Tokens : t.lexeme \in Seq(STRING)
    BY DEF Tokens
  <2>4. IsStream(stream)
    BY <2>1, <2>2, <2>3 DEF IsStream
  <2> QED
    BY <1>2, <2>4 DEF StageInv, Compiled
<1> QED
  BY <1>1, <1>2 DEF CompilerInit

\* Diagnostics are answered with as many codes.
LEMMA CodesRemain ==
  ASSUME NEW S, NEW s \in Seq(S), s # << >>
  PROVE  [i \in DOMAIN s |-> s[i].code] # << >>
<1>1. 1 \in DOMAIN s
  OBVIOUS
<1> QED
  BY <1>1

\* Each phase leaves what the next one needs.
LEMMA StageStep ==
  ASSUME LexerInv, SourceCovered, LexemesAreTokens, EndsWithEof, StageInv,
         [CompilerNext]_compilerVars
  PROVE  StageInv'
<1>1. CASE LexStep
  BY <1>1 DEF LexStep, StageInv, Compiled
<1>2. CASE LexFails
  <2> DEFINE codes == [i \in DOMAIN diagnostics |-> diagnostics[i].code]
  <2>1. codes # << >>
    <3>1. diagnostics \in Seq([code : Codes, start : Positions, end : Positions])
      BY DEF LexerInv
    <3> QED
      BY <1>2, <3>1, CodesRemain DEF LexFails
  <2>2. Answer(codes)
    BY <1>2 DEF LexFails
  <2> HIDE DEF codes
  <2> QED
    BY <2>1, <2>2, Answers DEF StageInv
<1>3. CASE LexEnds
  <2>1. IsStream(stream')
    BY <1>3, StreamOfText
  <2>2. stage' = "parse"
    BY <1>3 DEF LexEnds
  <2> QED
    BY <2>1, <2>2 DEF StageInv, Compiled
<1>4. CASE ParseStream
  <2> DEFINE result == ParseProgram(stream)
  <2>1. Finishes(result, ProgramsOf(stream)) /\ stream' = stream
    BY <1>4, ProgramType DEF StageInv, ParseStream
  <2>2. IF result.ok THEN program' = result.value /\ stage' = "analyze"
        ELSE Answer(<<result.value>>)
    BY <1>4 DEF ParseStream
  <2> HIDE DEF result
  <2>3. CASE result.ok
    BY <2>1, <2>2, <2>3 DEF Finishes, ProgramsOf, StageInv, Compiled
  <2>4. CASE ~result.ok
    <3>1. Answer(<<result.value>>) /\ <<result.value>> # << >>
      BY <2>2, <2>4
    <3> QED
      BY <3>1, Answers DEF StageInv
  <2> QED
    BY <2>3, <2>4
<1>5. CASE Analyze
  <2> DEFINE found == SemanticDiagnostics(program)
             raised == IF Depth(program.expression) > RecursionLimit
                       THEN "RecursionError" ELSE "DecimalException"
             codes == [i \in DOMAIN found |-> found[i].code]
  <2>1. program \in Programs /\ program' = program
    BY <1>5 DEF Analyze, StageInv
  <2>2. IF AnalysisRaises(program) THEN Answer(<<raised>>)
        ELSE IF found # << >> THEN Answer(codes) ELSE stage' = "generate"
    BY <1>5 DEF Analyze
  <2>3. found # << >> => codes # << >>
    BY <2>1, AnalysisReports, CodesRemain DEF Reports
  <2> HIDE DEF codes, raised
  <2>4. \/ \E c : c # << >> /\ Answer(c)
        \/ found = << >> /\ stage' = "generate"
    BY <2>2, <2>3
  <2>5. CASE found = << >> /\ stage' = "generate"
    BY <2>1, <2>5 DEF StageInv, Compiled
  <2>6. CASE \E c : c # << >> /\ Answer(c)
    BY <2>6, Answers DEF StageInv
  <2> QED
    BY <2>4, <2>5, <2>6
<1>6. CASE GenerateScript
  <2> DEFINE result == Generate(Validated(program))
  <2>1. /\ program \in Programs /\ SemanticDiagnostics(program) = << >>
        /\ program' = program
    BY <1>6 DEF GenerateScript, StageInv
  <2>2. IF result.ok THEN script' = result.value /\ Answer(<< >>)
        ELSE Answer(<<result.value>>)
    BY <1>6 DEF GenerateScript
  <2>3. CASE result.ok
    <3>1. stage' = "answered"
      BY <2>2, <2>3, Answers
    <3>2. Generated'
      BY <2>1, <2>2, <2>3 DEF Generated
    <3> QED
      BY <3>1, <3>2 DEF StageInv
  <2>4. CASE ~result.ok
    <3> HIDE DEF result
    <3>1. Answer(<<result.value>>) /\ <<result.value>> # << >>
      BY <2>2, <2>4
    <3> QED
      BY <3>1, Answers DEF StageInv
  <2> QED
    BY <2>3, <2>4
<1>7. CASE UNCHANGED compilerVars
  BY <1>7 DEF compilerVars, StageInv, Compiled, Generated
<1> QED
  BY <1>1, <1>2, <1>3, <1>4, <1>5, <1>6, <1>7 DEF CompilerNext, LexPhase

\* From the sources to the script, each phase gets what it needs.
THEOREM StagesHold == CompilerSpec => []StageInv
<1>1. LexerInv /\ SourceCovered /\ LexemesAreTokens /\ EndsWithEof /\ StageInv
        /\ [CompilerNext]_compilerVars => StageInv'
  BY StageStep
<1> QED
  BY <1>1, StageInit, LexerRuns, LexerSound, SourceIsCovered, LexemesSound, EofComesLast, PTL
  DEF CompilerSpec

-----------------------------------------------------------------------------
(* What compiled programs are guaranteed                                   *)

\* A program that passes analysis without a diagnostic about names has them in
\* order, and one with names in order gets none, however many distributions and
\* variables it has (_register_declarations, _register_reference and
\* _validate_unused_distributions).
THEOREM NamesHold == CompilerSpec => []NamesResolve
<1>1. StageInv => NamesResolve
  <2> SUFFICES ASSUME StageInv, stage = "analyze" PROVE NamesResolve
    BY DEF NamesResolve
  <2>1. program \in Programs
    BY DEF StageInv
  <2>2. CodesOf(SemanticDiagnostics(program)) = AnalysisCodes(program)
    BY <2>1, AnalysisReports DEF Reports
  <2> QED
    BY <2>1, <2>2, NamesAreChecked DEF NamesResolve, NamesInOrder, CodesOf, NameCodes
<1> QED
  BY <1>1, StagesHold, PTL

-----------------------------------------------------------------------------
(* Parameters                                                              *)

\* What generate has done when it returns a script.
LEMMA Generation ==
  ASSUME NEW v, Generate(v).ok
  PROVE  LET visit == Visit(v.ast.expression, VariableNames(v))
             lines == DistributionLines(v)
             made == Generate(v).value
         IN /\ visit.ok /\ lines.ok
            /\ Len(visit.value) = IF v.hasPlusMinus THEN 2 ELSE 1
            /\ made.branches = visit.value /\ made.lines = lines.value
            /\ made.branchIds = IF v.hasPlusMinus THEN <<"plus", "minus">> ELSE <<"main">>
<1> DEFINE visit == Visit(v.ast.expression, VariableNames(v))
           lines == DistributionLines(v)
           expected == IF v.hasPlusMinus THEN 2 ELSE 1
           made == [branches |-> visit.value, lines |-> lines.value,
                    branchIds |-> IF Len(visit.value) = 2 THEN <<"plus", "minus">>
                                  ELSE <<"main">>,
                    iterations |-> v.iterations, statistics |-> v.statistics]
<1>1. Generate(v) =
        IF visit.ok
        THEN IF Len(visit.value) # expected THEN Failed("GEN003", visit.next)
             ELSE IF lines.ok THEN Parsed(made, lines.next) ELSE lines
        ELSE visit
  BY DEF Generate, Then
<1>2. /\ made.branches = visit.value /\ made.lines = lines.value
      /\ made.branchIds = IF Len(visit.value) = 2 THEN <<"plus", "minus">> ELSE <<"main">>
  OBVIOUS
<1> HIDE DEF visit, lines, made
<1>3. visit.ok /\ Len(visit.value) = expected
  BY <1>1 DEF Failed
<1>4. lines.ok /\ Generate(v).value = made
  BY <1>1, <1>3 DEF Parsed
<1> QED
  BY <1>2, <1>3, <1>4 DEF visit, lines

\* Min is an element.
LEMMA NumbersFrom ==
  ASSUME NEW S, S \subseteq Nat, S # {}
  PROVE  Min(S) \in S
BY LeastIsMin

\* Either each result is a value, or the first that is not is the result.
LEMMA AllOrNone ==
  ASSUME NEW results, DOMAIN results \subseteq Nat, NEW span
  PROVE  LET all == AllParsed(results, span) IN
         \/ /\ \A k \in DOMAIN results : results[k].ok
            /\ all = Parsed([k \in DOMAIN results |-> results[k].value], span)
         \/ \E k \in DOMAIN results : ~results[k].ok /\ all = results[k]
<1> DEFINE failed == {k \in DOMAIN results : ~results[k].ok}
<1>1. failed # {} => Min(failed) \in failed
  <2>1. failed \subseteq Nat
    OBVIOUS
  <2> HIDE DEF failed
  <2> QED
    BY <2>1, NumbersFrom
<1> QED
  BY <1>1 DEF AllParsed

\* A number that is accepted is rounded, and not to zero.
LEMMA Float64Is ==
  ASSUME NEW n, NEW span
  PROVE  LET f == Float64(n, span) IN
         \/ f = Parsed(Converted(n), span) /\ (n # 0 => Converted(n) # 0)
         \/ ~f.ok /\ f.value \in {"GEN001", "GEN004"}
BY DEF Float64, Failed

\* A signed number of the source is an integer of units.
LEMMA SignedDecimalType ==
  ASSUME NEW number \in SignedNumbers
  PROVE  SignedDecimal(number) \in Int
<1>1. number.lexeme \in Seq(Figures)
  BY DEF SignedNumbers
<1>2. DecimalOf(number.lexeme) \in Nat
  BY <1>1, DecimalType
<1> QED
  BY <1>2 DEF SignedDecimal

\* The line that draws from a distribution.
LineOf(v, d) ==
  Then(DrawParameters(d), LAMBDA parameters, span :
    Parsed([name |-> VariableNames(v)[d.variable], kind |-> d.kind, parameters |-> parameters],
           span))

\* The lines of the script are one per distribution, in order, with the number of
\* its variable and its parameters as float64.
LEMMA Lines ==
  ASSUME NEW p \in Programs, DistributionLines(Validated(p)).ok
  PROVE  LET lines == DistributionLines(Validated(p)).value IN
         /\ DOMAIN lines = DOMAIN p.distributions
         /\ \A i \in DOMAIN lines :
              /\ DrawParameters(p.distributions[i]).ok
              /\ lines[i] = [name |-> VariableNames(Validated(p))[p.distributions[i].variable],
                             kind |-> p.distributions[i].kind,
                             parameters |-> DrawParameters(p.distributions[i]).value]
<1> DEFINE v == Validated(p)
           ds == p.distributions
           results == [i \in DOMAIN ds |-> LineOf(v, ds[i])]
           line(d) == [name |-> VariableNames(v)[d.variable], kind |-> d.kind,
                       parameters |-> DrawParameters(d).value]
<1>1. v.ast = p
  BY DEF Validated
<1>2. DistributionLines(v) = AllParsed(results, p.span)
  <2> HIDE DEF v
  <2> DEFINE es == v.ast.distributions
             all == [i \in DOMAIN es |-> LineOf(v, es[i])]
  <2>1. DistributionLines(v) = AllParsed(all, v.ast.span)
    BY DEF DistributionLines, LineOf
  <2>2. es = ds /\ v.ast.span = p.span
    BY <1>1
  <2> HIDE DEF es
  <2>3. all = results
    BY <2>2
  <2> QED
    BY <2>1, <2>2, <2>3
<1>3. DOMAIN results = DOMAIN ds /\ DOMAIN ds \subseteq Nat
  BY ProgramFacts
<1>4. \A i \in DOMAIN ds : /\ DrawParameters(ds[i]).ok => LineOf(v, ds[i]).value = line(ds[i])
                           /\ ~DrawParameters(ds[i]).ok => ~LineOf(v, ds[i]).ok
                           /\ results[i] = LineOf(v, ds[i])
  BY DEF LineOf, Then, Parsed
<1> HIDE DEF v, results, line
<1>5. /\ \A i \in DOMAIN results : results[i].ok
      /\ AllParsed(results, p.span) = Parsed([i \in DOMAIN results |-> results[i].value], p.span)
  BY <1>2, <1>3, AllOrNone DEF v
<1>6. DistributionLines(v).value = [i \in DOMAIN results |-> results[i].value]
  BY <1>2, <1>5 DEF Parsed
<1>7. \A i \in DOMAIN ds : DrawParameters(ds[i]).ok /\ results[i].value = line(ds[i])
  BY <1>3, <1>4, <1>5
<1> QED
  BY <1>3, <1>6, <1>7 DEF v, line

\* What a program without diagnostics has.
LEMMA NoDiagnostics ==
  ASSUME NEW p \in Programs, SemanticDiagnostics(p) = << >>
  PROVE  AnalysisCodes(p) = {}
BY AnalysisReports DEF Reports, CodesOf

\* Two parameters are the roundings of the numbers in the program.
LEMMA TwoFloats ==
  ASSUME NEW d \in Distributions, d.kind \in {"NORMAL", "UNIFORM"}, NEW all,
         all = AllParsed([k \in 1 .. 2 |-> Float64Of(d.parameters[k], d.span)], d.span), all.ok
  PROVE  /\ all.value = [k \in 1 .. 2 |-> Converted(SignedDecimal(d.parameters[k]))]
         /\ \A k \in 1 .. 2 : SignedDecimal(d.parameters[k]) # 0 =>
                              Converted(SignedDecimal(d.parameters[k])) # 0
<1> DEFINE n(k) == SignedDecimal(d.parameters[k])
           results == [k \in 1 .. 2 |-> Float64(n(k), d.span)]
<1>1. all = AllParsed(results, d.span) /\ DOMAIN results = 1 .. 2 /\ 1 .. 2 \subseteq Nat
  BY DEF Float64Of
<1>2. \A k \in 1 .. 2 :
        \/ results[k] = Parsed(Converted(n(k)), d.span) /\ (n(k) # 0 => Converted(n(k)) # 0)
        \/ ~results[k].ok
  BY Float64Is
<1> HIDE DEF results, n
<1>3. /\ \A k \in 1 .. 2 : results[k].ok
      /\ all = Parsed([k \in 1 .. 2 |-> results[k].value], d.span)
  BY <1>1, AllOrNone
<1>4. \A k \in 1 .. 2 : results[k].value = Converted(n(k)) /\ (n(k) # 0 => Converted(n(k)) # 0)
  BY <1>2, <1>3 DEF Parsed
<1> QED
  BY <1>3, <1>4 DEF n, Parsed

\* The values of a discrete distribution that compiles are different as float64,
\* and no probability becomes negative.
LEMMA DiscreteFloats ==
  ASSUME NEW d \in Distributions, d.kind = "DISTRIB", DrawParameters(d).ok,
         AllCodes(d.parameters, PairCodes(d)) = {}
  PROVE  LET parameters == DrawParameters(d).value IN
         /\ IsInjective(parameters[1])
         /\ \A k \in DOMAIN parameters[2] : parameters[2][k] >= 0
<1> DEFINE ps == d.parameters
           n(k) == SignedDecimal(ps[k].value)
           q(k) == DecimalOf(ps[k].probability)
           K == DOMAIN ps
           value == [k \in K |-> DiscreteValue(ps, k)]
           share == [k \in K |-> Float64(q(k), d.span)]
           values == AllParsed(value, d.span)
           shares == AllParsed(share, d.span)
<1>1. DrawParameters(d) =
        IF values.ok THEN IF shares.ok THEN Parsed(<<values.value, shares.value>>, values.next)
                          ELSE shares
        ELSE values
  BY DEF DrawParameters, Then
<1>2. K \subseteq Nat /\ \A k \in K : n(k) \in Int /\ q(k) \in Nat
  <2>1. ps \in Seq(Pairs)
    BY DEF Distributions
  <2>2. \A k \in K : ps[k] \in Pairs
    BY <2>1
  <2>3. \A k \in K : ps[k].value \in SignedNumbers /\ ps[k].probability \in Seq(Figures)
    BY <2>2 DEF Pairs
  <2> QED
    BY <2>1, <2>3, SignedDecimalType, DecimalType
<1>3. \A k \in K : \A j \in 1 .. k - 1 : n(j) # n(k)
  <2> SUFFICES ASSUME NEW k \in K, \E j \in 1 .. k - 1 : n(j) = n(k) PROVE FALSE
    OBVIOUS
  <2>1. PairCodes(d)[k] = {}
    BY DEF AllCodes
  <2>2. "SEM014" \in PairCodes(d)[k]
    BY DEF PairCodes
  <2> QED
    BY <2>1, <2>2
<1>4. \A k \in K : /\ share[k] = Parsed(Converted(q(k)), d.span) \/ ~share[k].ok
                   /\ Converted(q(k)) >= 0
  <2>1. \A k \in K : share[k] = Parsed(Converted(q(k)), d.span) \/ ~share[k].ok
    BY Float64Is
  <2>2. \A k \in K : q(k) \in Int /\ q(k) >= 0
    BY <1>2
  <2> QED
    BY <2>1, <2>2, ConvertedType
<1>5. \A k \in K : \/ ~value[k].ok
                   \/ /\ value[k].value = Converted(n(k))
                      /\ \A j \in 1 .. k - 1 : ~(Converted(n(j)) = Converted(n(k)) /\ n(j) # n(k))
  <2> SUFFICES ASSUME NEW k \in K
               PROVE  \/ ~value[k].ok
                      \/ /\ value[k].value = Converted(n(k))
                         /\ \A j \in 1 .. k - 1 :
                              ~(Converted(n(j)) = Converted(n(k)) /\ n(j) # n(k))
    OBVIOUS
  <2> DEFINE f == Float64(n(k), ps[k].span)
             clash(g) == \E j \in 1 .. k - 1 : Converted(n(j)) = g /\ n(j) # n(k)
  <2>1. value[k] = IF f.ok THEN IF clash(f.value) THEN Failed("GEN006", f.next)
                                ELSE Parsed(f.value, f.next)
                   ELSE f
    BY DEF DiscreteValue, Float64Of, Then
  <2>2. f = Parsed(Converted(n(k)), ps[k].span) \/ ~f.ok
    BY Float64Is
  <2>3. ~clash(Converted(n(k))) =>
          \A j \in 1 .. k - 1 : ~(Converted(n(j)) = Converted(n(k)) /\ n(j) # n(k))
    OBVIOUS
  <2> HIDE DEF f, clash, value, n
  <2> QED
    BY <2>1, <2>2, <2>3 DEF Parsed, Failed
<1>6. DOMAIN value = K /\ DOMAIN share = K
  OBVIOUS
<1> HIDE DEF value, share
<1>7. values.ok /\ shares.ok /\ DrawParameters(d).value = <<values.value, shares.value>>
  <2> HIDE DEF values, shares
  <2> QED
    BY <1>1 DEF Parsed
<1>8. /\ \A k \in K : value[k].ok
      /\ values.value = [k \in K |-> value[k].value]
  BY <1>2, <1>6, <1>7, AllOrNone DEF Parsed
<1>9. /\ \A k \in K : share[k].ok
      /\ shares.value = [k \in K |-> share[k].value]
  BY <1>2, <1>6, <1>7, AllOrNone DEF Parsed
<1> HIDE DEF values, shares, n, q
<1>10. \A k \in K : shares.value[k] >= 0
  <2>1. \A k \in K : share[k] = Parsed(Converted(q(k)), d.span)
    BY <1>4, <1>9
  <2>3. \A k \in K : shares.value[k] = share[k].value
    BY <1>9
  <2>2. ASSUME NEW k \in K PROVE shares.value[k] = Converted(q(k))
    <3>1. \A x : Parsed(x, d.span).value = x
      BY DEF Parsed
    <3> QED
      BY <2>1, <2>3, <3>1
  <2> QED
    BY <1>4, <2>2
<1>11. \A j, k \in K : j < k => values.value[j] # values.value[k]
  <2> SUFFICES ASSUME NEW j \in K, NEW k \in K, j < k PROVE values.value[j] # values.value[k]
    OBVIOUS
  <2>1. j \in 1 .. k - 1
    <3>1. ps \in Seq(Pairs)
      BY DEF Distributions
    <3> QED
      BY <3>1
  <2>2. values.value[j] = Converted(n(j)) /\ values.value[k] = Converted(n(k))
    BY <1>5, <1>8
  <2> QED
    BY <1>3, <1>5, <1>8, <2>1, <2>2
<1>12. IsInjective(values.value)
  <2>1. \A j, k \in K : j # k => j < k \/ k < j
    BY <1>2
  <2> QED
    BY <1>8, <1>11, <2>1 DEF IsInjective
<1> QED
  BY <1>7, <1>9, <1>10, <1>12

\* A program that compiles draws from distributions whose parameters still are
\* in order as float64: a deviation that is positive, limits that are apart,
\* values that are different and probabilities that are not negative
\* (_distribution_lines and _float64 after the checks of _validate_distributions).
THEOREM ParametersHold == CompilerSpec => []ParametersValid
<1>1. StageInv => ParametersValid
  <2> SUFFICES ASSUME StageInv, Compiled, NEW i \in DOMAIN script.lines
               PROVE  LET first == script.lines[i].parameters[1]
                          second == script.lines[i].parameters[2]
                      IN CASE script.lines[i].kind = "NORMAL" -> second > 0
                           [] script.lines[i].kind = "UNIFORM" -> first < second
                           [] script.lines[i].kind = "DISTRIB" ->
                                IsInjective(first) /\ \A k \in DOMAIN second : second[k] >= 0
    BY DEF ParametersValid
  <2> DEFINE d == program.distributions[i]
             parameters == DrawParameters(d).value
  <2>1. Generated
    BY DEF StageInv
  <2>2. /\ program \in Programs /\ AnalysisCodes(program) = {}
        /\ script.lines = DistributionLines(Validated(program)).value
        /\ DistributionLines(Validated(program)).ok
    BY <2>1, NoDiagnostics, Generation DEF Generated
  <2>3. /\ i \in DOMAIN program.distributions /\ DrawParameters(d).ok
        /\ script.lines[i].kind = d.kind /\ script.lines[i].parameters = parameters
    <3>1. /\ DOMAIN script.lines = DOMAIN program.distributions
          /\ DrawParameters(d).ok
          /\ script.lines[i] = [name |-> VariableNames(Validated(program))[d.variable],
                               kind |-> d.kind, parameters |-> DrawParameters(d).value]
      BY <2>2, Lines
    <3> QED
      BY <3>1
  <2>4. d \in Distributions /\ d.kind \in {"NORMAL", "UNIFORM", "DISTRIB"}
    BY <2>2, <2>3, ProgramFacts DEF Distributions
  <2>5. DistributionCodes(program)[i] = {}
    BY <2>2, <2>3 DEF AnalysisCodes, AllCodes
  <2>6. ASSUME d.kind = "NORMAL" PROVE parameters[2] > 0
    <3> DEFINE n == SignedDecimal(d.parameters[2])
    <3>1. ~(n <= 0)
      BY <2>3, <2>5, <2>6 DEF DistributionCodes
    <3>2. DrawParameters(d) = AllParsed([k \in 1 .. 2 |-> Float64Of(d.parameters[k], d.span)], d.span)
      BY <2>6 DEF DrawParameters
    <3>3. /\ parameters = [k \in 1 .. 2 |-> Converted(SignedDecimal(d.parameters[k]))]
          /\ \A k \in 1 .. 2 : SignedDecimal(d.parameters[k]) # 0 =>
                               Converted(SignedDecimal(d.parameters[k])) # 0
      <4> HIDE DEF d
      <4> QED
        BY <2>3, <2>4, <2>6, <3>2, TwoFloats
    <3>5. parameters[2] = Converted(n) /\ (n # 0 => Converted(n) # 0)
      <4> HIDE DEF d, parameters
      <4> QED
        BY <3>3
    <3>4. n \in Int
      <4>1. d.parameters[2] \in SignedNumbers
        BY <2>4, <2>6 DEF Distributions
      <4> QED
        BY <4>1, SignedDecimalType
    <3> QED
      BY <3>1, <3>4, <3>5, ConvertedType
  <2>7. ASSUME d.kind = "UNIFORM" PROVE parameters[1] < parameters[2]
    <3> DEFINE limits == AllParsed([k \in 1 .. 2 |-> Float64Of(d.parameters[k], d.span)], d.span)
    <3>1. DrawParameters(d) =
            IF limits.ok
            THEN IF limits.value[1] < limits.value[2] THEN Parsed(limits.value, limits.next)
                 ELSE Failed("GEN005", limits.next)
            ELSE limits
      BY <2>7 DEF DrawParameters, UniformLimits, Then
    <3> HIDE DEF limits
    <3> QED
      BY <2>3, <3>1 DEF Parsed, Failed
  <2>8. ASSUME d.kind = "DISTRIB"
        PROVE  IsInjective(parameters[1]) /\ \A k \in DOMAIN parameters[2] : parameters[2][k] >= 0
    <3>1. AllCodes(d.parameters, PairCodes(d)) = {}
      BY <2>3, <2>5, <2>8 DEF DistributionCodes, DiscreteCodes
    <3> QED
      BY <2>3, <2>4, <2>8, <3>1, DiscreteFloats
  <2> HIDE DEF d, parameters
  <2> QED
    BY <2>3, <2>4, <2>6, <2>7, <2>8
<1> QED
  BY <1>1, StagesHold, PTL

-----------------------------------------------------------------------------
(* Branches                                                                *)

BackOnly(step, m, n, V) ==
  \A k \in m .. n : \A f, g \in [m .. n -> V] :
    (\A j \in m .. k - 1 : f[j] = g[j]) => step[k][f] = step[k][g]

KeepsGood(step, m, n, V, good) ==
  \A k \in m .. n : \A f \in [m .. n -> V] :
    (\A j \in m .. k - 1 : f[j] \in good[j]) => step[k][f] \in good[k]

\* A recursion that looks back only, and gives each number a good value if all
\* before it have one, defines a function of good values.
LEMMA GoodRecursion ==
  ASSUME NEW m \in Nat, NEW n \in Nat, NEW V, V # {}, NEW good \in [m .. n -> SUBSET V],
         NEW step, BackOnly(step, m, n, V), KeepsGood(step, m, n, V, good)
  PROVE  \E f : Recursive(f, step, m, n, V)
<1> DEFINE some == CHOOSE v : v \in V
           inside(v) == IF v \in V THEN v ELSE some
           clipped == [k \in m .. n |-> [f \in [m .. n -> V] |-> inside(step[k][f])]]
<1>1. \A v : inside(v) \in V
  OBVIOUS
<1>2. LooksBack(clipped, m, n, V)
  <2> HIDE DEF inside
  <2>1. clipped \in [m .. n -> [[m .. n -> V] -> V]]
    BY <1>1
  <2>2. \A k \in m .. n : \A f \in [m .. n -> V] : clipped[k][f] = inside(step[k][f])
    OBVIOUS
  <2> HIDE DEF clipped
  <2>3. ASSUME NEW k \in m .. n, NEW f \in [m .. n -> V], NEW g \in [m .. n -> V],
               \A j \in m .. k - 1 : f[j] = g[j]
        PROVE  clipped[k][f] = clipped[k][g]
    <3>1. step[k][f] = step[k][g]
      BY <2>3 DEF BackOnly
    <3> QED
      BY <2>2, <3>1
  <2> QED
    BY <2>1, <2>3 DEF LooksBack
<1>3. PICK f : Recursive(f, clipped, m, n, V)
  <2> HIDE DEF clipped
  <2> QED
    BY <1>2, RecursionDefines
<1>4. f \in [m .. n -> V] /\ \A k \in m .. n : f[k] = inside(step[k][f])
  BY <1>3 DEF Recursive
<1> DEFINE H == {k \in m .. n : f[k] = step[k][f] /\ f[k] \in good[k]}
<1>5. \A k \in m .. n : k \in H
  <2>1. ASSUME NEW k \in m .. n, \A j \in m .. k - 1 : j \in H PROVE k \in H
    <3>1. step[k][f] \in good[k]
      BY <1>4, <2>1 DEF KeepsGood
    <3>2. step[k][f] \in V
      BY <3>1
    <3> QED
      BY <1>4, <3>1, <3>2
  <2>2. \A k \in m .. n : (\A j \in m .. k - 1 : j \in H) => k \in H
    BY <2>1
  <2> HIDE DEF H
  <2> QED
    BY <2>2, SmallerFirst
<1> QED
  BY <1>4, <1>5 DEF Recursive

\* What becomes of a node, with its plus-minus read as sign.
AtomOf(node, sign, names) ==
  CASE node.op = "number" -> <<"float", Converted(DecimalOf(node.lexeme))>>
    [] node.op = "variable" -> <<"name", names[node.lexeme]>>
    [] OTHER -> <<IF node.op = "pm" THEN sign ELSE node.op, 0>>

\* What becomes of the tree of node k, and its branches.
TermAt(e, names, k, sign) ==
  [i \in 1 .. e[k].size |-> AtomOf(e[k - e[k].size + i], sign, names)]
HasPlusMinus(e, k) == \E i \in 1 .. e[k].size : e[k - e[k].size + i].op = "pm"
BranchesAt(e, names, k) ==
  IF HasPlusMinus(e, k)
  THEN <<TermAt(e, names, k, "add"), TermAt(e, names, k, "subtract")>>
  ELSE <<TermAt(e, names, k, "none")>>

OnePlusMinus(e) ==
  \A i, j \in DOMAIN e : e[i].op = "pm" /\ e[j].op = "pm" => i = j

VisitFailures == [ok : {FALSE}, value : {"GEN001", "GEN004"}, next : Spans]

\* A visit makes the branches of its node, or a number is no float64.
GoodVisits(e, names, k) == {Parsed(BranchesAt(e, names, k), e[k].span)} \cup VisitFailures

\* The subtrees of an operand: where they are.
LEMMA OperandsOf ==
  ASSUME NEW e \in Trees, NEW k \in 1 .. Len(e)
  PROVE  /\ e[k].op \in Unaries \cup {"sqrt"} =>
              /\ Operands(e, k) = <<k - 1>> /\ k - 1 \in 1 .. k - 1
              /\ e[k].size = e[k - 1].size + 1
         /\ e[k].op \in Binaries =>
              LET left == k - 1 - e[k - 1].size IN
              /\ Operands(e, k) = <<left, k - 1>> /\ left \in 1 .. k - 1 /\ k - 1 \in 1 .. k - 1
              /\ e[k].size = e[left].size + e[k - 1].size + 1
<1>1. /\ Formed(e, k) /\ Len(e) \in Nat
      /\ \A j \in 1 .. Len(e) : e[j].size \in Nat /\ e[j].size > 0
  BY TreeFacts
<1>2. ASSUME e[k].op \in Unaries \cup {"sqrt"}
      PROVE  /\ Operands(e, k) = <<k - 1>> /\ k - 1 \in 1 .. k - 1
             /\ e[k].size = e[k - 1].size + 1
  BY <1>1, <1>2, OperationsDiffer DEF Operands, Formed
<1>3. ASSUME e[k].op \in Binaries
      PROVE  LET left == k - 1 - e[k - 1].size IN
             /\ Operands(e, k) = <<left, k - 1>> /\ left \in 1 .. k - 1 /\ k - 1 \in 1 .. k - 1
             /\ e[k].size = e[left].size + e[k - 1].size + 1
  <2>1. /\ k > 1 /\ k - 1 > e[k - 1].size
        /\ e[k].size = e[k - 1].size + e[k - 1 - e[k - 1].size].size + 1
    BY <1>1, <1>3 DEF Formed
  <2>2. k - 1 \in 1 .. Len(e)
    BY <1>1, <2>1
  <2>3. k - 1 - e[k - 1].size \in 1 .. k - 1
    BY <1>1, <2>1, <2>2
  <2>4. Operands(e, k) = <<k - 1 - e[k - 1].size, k - 1>>
    BY <1>3, OperationsDiffer DEF Operands
  <2>5. e[k - 1 - e[k - 1].size].size \in Nat
    BY <1>1, <2>3
  <2> QED
    BY <1>1, <2>1, <2>2, <2>3, <2>4, <2>5
<1> QED
  BY <1>2, <1>3

\* The indices below a node with one operand.
LEMMA OneBelow ==
  ASSUME NEW k \in Nat, NEW n \in Nat
  PROVE  /\ k - (n + 1) + (n + 1) = k
         /\ \A i \in 1 .. n : k - (n + 1) + i = k - 1 - n + i
         /\ \A i \in 1 .. n + 1 : i = n + 1 \/ i \in 1 .. n
         /\ \A i \in 1 .. n : i \in 1 .. n + 1
OBVIOUS

\* The term of a unary node continues that of its operand.
LEMMA UnaryTerm ==
  ASSUME NEW e \in Trees, NEW k \in 1 .. Len(e), e[k].op \in Unaries \cup {"sqrt"},
         NEW names, NEW sign
  PROVE  /\ TermAt(e, names, k, sign)
              = Append(TermAt(e, names, k - 1, sign), <<e[k].op, 0>>)
         /\ HasPlusMinus(e, k) <=> HasPlusMinus(e, k - 1)
<1> DEFINE n == e[k - 1].size
           below == TermAt(e, names, k - 1, sign)
           atom == <<e[k].op, 0>>
<1>1. k - 1 \in 1 .. Len(e) /\ e[k].size = n + 1 /\ n \in Nat /\ k \in Nat
  BY OperandsOf, TreeFacts
<1>2. e[k].op \notin {"number", "variable", "pm"}
  BY DEF Unaries
<1>3. AtomOf(e[k], sign, names) = atom
  BY <1>2 DEF AtomOf
<1>4. below = [i \in 1 .. n |-> AtomOf(e[k - 1 - n + i], sign, names)]
  BY DEF TermAt
<1>5. TermAt(e, names, k, sign) = [i \in 1 .. n + 1 |-> AtomOf(e[k - (n + 1) + i], sign, names)]
  BY <1>1 DEF TermAt
<1>6. HasPlusMinus(e, k) <=> HasPlusMinus(e, k - 1)
  <2>1. HasPlusMinus(e, k) <=> \E i \in 1 .. n + 1 : e[k - (n + 1) + i].op = "pm"
    BY <1>1 DEF HasPlusMinus
  <2>2. HasPlusMinus(e, k - 1) <=> \E i \in 1 .. n : e[k - 1 - n + i].op = "pm"
    BY DEF HasPlusMinus
  <2>3. k - (n + 1) + (n + 1) = k /\ \A i \in 1 .. n : k - (n + 1) + i = k - 1 - n + i
    BY <1>1, OneBelow
  <2>4. \A i \in 1 .. n + 1 : i = n + 1 \/ i \in 1 .. n
    BY <1>1, OneBelow
  <2>5. \A i \in 1 .. n : i \in 1 .. n + 1
    BY <1>1, OneBelow
  <2> HIDE DEF n
  <2>6. e[k - (n + 1) + (n + 1)].op # "pm"
    BY <1>2, <2>3
  <2>7. ASSUME NEW i \in 1 .. n + 1, e[k - (n + 1) + i].op = "pm"
        PROVE  \E h \in 1 .. n : e[k - 1 - n + h].op = "pm"
    <3>1. i \in 1 .. n
      BY <2>4, <2>6, <2>7
    <3> QED
      BY <2>3, <2>7, <3>1
  <2>8. ASSUME NEW i \in 1 .. n, e[k - 1 - n + i].op = "pm"
        PROVE  \E h \in 1 .. n + 1 : e[k - (n + 1) + h].op = "pm"
    BY <2>3, <2>5, <2>8
  <2> QED
    BY <2>1, <2>2, <2>7, <2>8
<1> DEFINE a(i) == AtomOf(e[k - 1 - n + i], sign, names)
           b(i) == AtomOf(e[k - (n + 1) + i], sign, names)
<1>7. b(n + 1) = atom /\ \A i \in 1 .. n : b(i) = a(i)
  <2>1. k - (n + 1) + (n + 1) = k /\ \A i \in 1 .. n : k - (n + 1) + i = k - 1 - n + i
    BY <1>1, OneBelow
  <2> HIDE DEF n, atom
  <2> QED
    BY <1>3, <2>1
<1> HIDE DEF a, b, atom, n
<1>8. Append([i \in 1 .. n |-> a(i)], atom) = [i \in 1 .. n + 1 |-> b(i)]
  BY <1>1, <1>7
<1> QED
  BY <1>4, <1>5, <1>6, <1>8 DEF a, b, atom

\* Where the elements of two sequences are when they are joined.
LEMMA JoinedAt ==
  ASSUME NEW S, NEW a \in Seq(S), NEW b \in Seq(S)
  PROVE  /\ a \o b \in Seq(S) /\ Len(a \o b) = Len(a) + Len(b)
         /\ \A i \in 1 .. Len(a) : (a \o b)[i] = a[i]
         /\ \A i \in 1 .. Len(b) : (a \o b)[Len(a) + i] = b[i]
OBVIOUS

\* Where the elements are after Append.
LEMMA AppendedAt ==
  ASSUME NEW S, NEW a \in Seq(S), NEW last \in S
  PROVE  /\ Append(a, last) = [i \in 1 .. Len(a) + 1 |-> Append(a, last)[i]]
         /\ \A i \in 1 .. Len(a) : Append(a, last)[i] = a[i]
         /\ Append(a, last)[Len(a) + 1] = last
<1> DEFINE g == Append(a, last)
<1>1. /\ g \in Seq(S) /\ Len(g) = Len(a) + 1
      /\ \A i \in 1 .. Len(a) : g[i] = a[i]
      /\ g[Len(a) + 1] = last
  OBVIOUS
<1> HIDE DEF g
<1>2. g = [i \in 1 .. Len(g) |-> g[i]]
  BY <1>1
<1> QED
  BY <1>1, <1>2 DEF g

\* A sequence in three parts, the last of one element.
LEMMA AppendJoined ==
  ASSUME NEW n \in Nat, NEW m \in Nat, NEW f, f = [i \in 1 .. n + m + 1 |-> f[i]]
  PROVE  f = Append([i \in 1 .. n |-> f[i]] \o [i \in 1 .. m |-> f[n + i]], f[n + m + 1])
<1> DEFINE a == [i \in 1 .. n |-> f[i]]
           b == [i \in 1 .. m |-> f[n + i]]
           S == {f[i] : i \in 1 .. n + m + 1}
           last == f[n + m + 1]
           c == a \o b
           g == Append(c, last)
<1>1. a \in Seq(S) /\ b \in Seq(S) /\ last \in S
  <2>1. \A i \in 1 .. n + m + 1 : f[i] \in S
    OBVIOUS
  <2>2. /\ \A i \in 1 .. n : i \in 1 .. n + m + 1
        /\ \A i \in 1 .. m : n + i \in 1 .. n + m + 1
        /\ n + m + 1 \in 1 .. n + m + 1
    OBVIOUS
  <2> HIDE DEF S
  <2>3. a \in [1 .. n -> S] /\ b \in [1 .. m -> S] /\ last \in S
    BY <2>1, <2>2
  <2>4. \A k \in Nat : \A h \in [1 .. k -> S] : h \in Seq(S)
    OBVIOUS
  <2> HIDE DEF a, b
  <2> QED
    BY <2>3, <2>4
<1>2. Len(a) = n /\ Len(b) = m
  OBVIOUS
<1>3. /\ \A i \in 1 .. n : a[i] = f[i]
      /\ \A i \in 1 .. m : b[i] = f[n + i]
  OBVIOUS
<1> HIDE DEF a, b, S, last
<1>4. /\ c \in Seq(S) /\ Len(c) = n + m
      /\ \A i \in 1 .. n : c[i] = a[i]
      /\ \A i \in 1 .. m : c[n + i] = b[i]
  <2>1. /\ c \in Seq(S) /\ Len(c) = Len(a) + Len(b)
        /\ \A i \in 1 .. Len(a) : c[i] = a[i]
        /\ \A i \in 1 .. Len(b) : c[Len(a) + i] = b[i]
    BY <1>1, JoinedAt
  <2> HIDE DEF c
  <2> QED
    BY <1>2, <2>1
<1> HIDE DEF c
<1>5. \A i \in 1 .. n + m : c[i] = f[i]
  <2> SUFFICES ASSUME NEW i \in 1 .. n + m PROVE c[i] = f[i]
    OBVIOUS
  <2>1. ASSUME i <= n PROVE c[i] = f[i]
    <3>1. i \in 1 .. n
      BY <2>1
    <3> QED
      BY <1>3, <1>4, <3>1
  <2>2. ASSUME i > n PROVE c[i] = f[i]
    <3>1. i - n \in 1 .. m /\ n + (i - n) = i
      BY <2>2
    <3>2. c[n + (i - n)] = b[i - n] /\ b[i - n] = f[n + (i - n)]
      BY <1>3, <1>4, <3>1
    <3> QED
      BY <3>1, <3>2
  <2> QED
    BY <2>1, <2>2
<1>6. /\ g = [i \in 1 .. n + m + 1 |-> g[i]]
      /\ \A i \in 1 .. n + m : g[i] = c[i]
      /\ g[n + m + 1] = last
  BY <1>1, <1>4, AppendedAt
<1> HIDE DEF g
<1>7. \A i \in 1 .. n + m + 1 : g[i] = f[i]
  <2>1. \A i \in 1 .. n + m + 1 : i \in 1 .. n + m \/ i = n + m + 1
    OBVIOUS
  <2> QED
    BY <1>5, <1>6, <2>1 DEF last
<1>8. f = g
  BY <1>6, <1>7
<1> QED
  BY <1>8 DEF g, c, a, b, last

\* The term of a binary node is those of its operands with the operator.
LEMMA BinaryTerm ==
  ASSUME NEW e \in Trees, NEW k \in 1 .. Len(e), e[k].op \in Binaries, NEW names, NEW left,
         left = k - 1 - e[k - 1].size
  PROVE  /\ \A sign : TermAt(e, names, k, sign)
              = Applied(IF e[k].op = "pm" THEN sign ELSE e[k].op,
                        TermAt(e, names, left, sign), TermAt(e, names, k - 1, sign))
         /\ HasPlusMinus(e, k) <=>
              e[k].op = "pm" \/ HasPlusMinus(e, left) \/ HasPlusMinus(e, k - 1)
<1> DEFINE n == e[left].size
           m == e[k - 1].size
<1>1. /\ k - 1 \in 1 .. Len(e) /\ left \in 1 .. Len(e) /\ e[k].size = n + m + 1
      /\ n \in Nat /\ m \in Nat /\ k \in Nat
  <2>1. /\ left \in 1 .. k - 1 /\ k - 1 \in 1 .. k - 1
        /\ e[k].size = e[left].size + e[k - 1].size + 1
    BY OperandsOf
  <2>2. Len(e) \in Nat /\ \A j \in 1 .. Len(e) : e[j].size \in Nat
    BY TreeFacts
  <2>3. k - 1 \in 1 .. Len(e) /\ left \in 1 .. Len(e) /\ k \in Nat
    BY <2>1, <2>2
  <2> QED
    BY <2>1, <2>2, <2>3
<1>2. left = k - 1 - m
  OBVIOUS
<1>3. e[k].op \notin {"number", "variable"}
  BY DEF Binaries, Sums, Products
<1> HIDE DEF n, m
<1>4. /\ k - (n + m + 1) + (n + m + 1) = k
      /\ \A i \in 1 .. n : k - (n + m + 1) + i = left - n + i
      /\ \A i \in 1 .. m : k - (n + m + 1) + (n + i) = k - 1 - m + i
      /\ \A i \in 1 .. n : i \in 1 .. n + m + 1
      /\ \A i \in 1 .. m : n + i \in 1 .. n + m + 1
      /\ n + m + 1 \in 1 .. n + m + 1
      /\ \A i \in 1 .. n + m + 1 :
           i \in 1 .. n \/ i = n + m + 1 \/ (i - n \in 1 .. m /\ i = n + (i - n))
  <2>1. left \in Int
    BY <1>1
  <2>2. /\ k - (n + m + 1) + (n + m + 1) = k
        /\ \A i \in 1 .. n : k - (n + m + 1) + i = left - n + i
        /\ \A i \in 1 .. m : k - (n + m + 1) + (n + i) = k - 1 - m + i
    <3>1. \A i \in Int : k - (n + m + 1) + i = k - 1 - m - n + i
      BY <1>1
    <3>2. \A i \in Int : k - (n + m + 1) + (n + i) = k - 1 - m + i
      BY <1>1
    <3>3. \A i \in 1 .. n : k - (n + m + 1) + i = left - n + i
      <4>1. left - n = k - 1 - m - n
        BY <1>2
      <4>2. \A i \in 1 .. n : i \in Int
        BY <1>1
      <4> QED
        BY <3>1, <4>1, <4>2
    <3>4. k - (n + m + 1) + (n + m + 1) = k
      BY <1>1
    <3>5. \A i \in 1 .. m : k - (n + m + 1) + (n + i) = k - 1 - m + i
      BY <1>1, <3>2
    <3> QED
      BY <3>3, <3>4, <3>5
  <2>3. /\ \A i \in 1 .. n : i \in 1 .. n + m + 1
        /\ \A i \in 1 .. m : n + i \in 1 .. n + m + 1
        /\ n + m + 1 \in 1 .. n + m + 1
    BY <1>1
  <2>4. \A i \in 1 .. n + m + 1 :
           i \in 1 .. n \/ i = n + m + 1 \/ (i - n \in 1 .. m /\ i = n + (i - n))
    BY <1>1
  <2> QED
    BY <2>2, <2>3, <2>4
<1>5. ASSUME NEW sign
      PROVE  TermAt(e, names, k, sign)
              = Applied(IF e[k].op = "pm" THEN sign ELSE e[k].op,
                        TermAt(e, names, left, sign), TermAt(e, names, k - 1, sign))
  <2> DEFINE f == [i \in 1 .. n + m + 1 |-> AtomOf(e[k - (n + m + 1) + i], sign, names)]
             a == [i \in 1 .. n |-> AtomOf(e[left - n + i], sign, names)]
             b == [i \in 1 .. m |-> AtomOf(e[k - 1 - m + i], sign, names)]
             atom == <<IF e[k].op = "pm" THEN sign ELSE e[k].op, 0>>
  <2>1. /\ TermAt(e, names, k, sign) = f /\ TermAt(e, names, left, sign) = a
        /\ TermAt(e, names, k - 1, sign) = b
    BY <1>1 DEF TermAt, n, m
  <2>2. AtomOf(e[k], sign, names) = atom
    BY <1>3 DEF AtomOf
  <2>3. f[n + m + 1] = atom
    BY <1>4, <2>2
  <2>4. a = [i \in 1 .. n |-> f[i]]
    BY <1>4
  <2>5. b = [i \in 1 .. m |-> f[n + i]]
    BY <1>4
  <2>6. f = [i \in 1 .. n + m + 1 |-> f[i]]
    OBVIOUS
  <2> HIDE DEF f, a, b, atom
  <2>7. f = Append(a \o b, atom)
    BY <1>1, <2>3, <2>4, <2>5, <2>6, AppendJoined
  <2> QED
    BY <2>1, <2>7 DEF Applied, atom
<1>6. HasPlusMinus(e, k) <=>
        e[k].op = "pm" \/ HasPlusMinus(e, left) \/ HasPlusMinus(e, k - 1)
  <2>1. HasPlusMinus(e, k) <=> \E i \in 1 .. n + m + 1 : e[k - (n + m + 1) + i].op = "pm"
    BY <1>1 DEF HasPlusMinus
  <2>2. HasPlusMinus(e, left) <=> \E i \in 1 .. n : e[left - n + i].op = "pm"
    BY DEF HasPlusMinus, n
  <2>3. HasPlusMinus(e, k - 1) <=> \E i \in 1 .. m : e[k - 1 - m + i].op = "pm"
    BY DEF HasPlusMinus, m
  <2>4. ASSUME NEW i \in 1 .. n + m + 1, e[k - (n + m + 1) + i].op = "pm"
        PROVE  e[k].op = "pm" \/ HasPlusMinus(e, left) \/ HasPlusMinus(e, k - 1)
    <3>1. CASE i \in 1 .. n
      BY <1>4, <2>2, <2>4, <3>1
    <3>2. CASE i = n + m + 1
      BY <1>4, <2>4, <3>2
    <3>3. CASE i - n \in 1 .. m /\ i = n + (i - n)
      <4>1. k - (n + m + 1) + i = k - 1 - m + (i - n)
        BY <1>1
      <4> QED
        BY <2>3, <2>4, <3>3, <4>1
    <3> QED
      BY <1>4, <3>1, <3>2, <3>3
  <2>5. ASSUME NEW i \in 1 .. n, e[left - n + i].op = "pm" PROVE HasPlusMinus(e, k)
    BY <1>4, <2>1, <2>5
  <2>6. ASSUME NEW i \in 1 .. m, e[k - 1 - m + i].op = "pm" PROVE HasPlusMinus(e, k)
    BY <1>4, <2>1, <2>6
  <2>7. e[k].op = "pm" => HasPlusMinus(e, k)
    BY <1>4, <2>1
  <2> QED
    BY <2>1, <2>2, <2>3, <2>4, <2>5, <2>6, <2>7
<1> QED
  BY <1>5, <1>6

\* A term without a plus-minus is the same for any sign.
LEMMA SameTerm ==
  ASSUME NEW e, NEW names, NEW k, ~HasPlusMinus(e, k), NEW sign
  PROVE  TermAt(e, names, k, sign) = TermAt(e, names, k, "none")
BY DEF TermAt, HasPlusMinus, AtomOf

\* A tree with a plus-minus on one side has none on the other.
LEMMA OneSide ==
  ASSUME NEW e \in Trees, OnePlusMinus(e), NEW k \in 1 .. Len(e), e[k].op \in Binaries,
         NEW left, left = k - 1 - e[k - 1].size
  PROVE  /\ ~(HasPlusMinus(e, left) /\ HasPlusMinus(e, k - 1))
         /\ e[k].op = "pm" => ~HasPlusMinus(e, left) /\ ~HasPlusMinus(e, k - 1)
<1> DEFINE n == e[left].size
           m == e[k - 1].size
<1>1. /\ k - 1 \in 1 .. Len(e) /\ left \in 1 .. Len(e) /\ e[k].size = n + m + 1
      /\ n \in Nat /\ m \in Nat /\ k \in Nat /\ n <= left
  <2>1. Formed(e, left)
    BY OperandsOf, TreeFacts
  <2> QED
    BY <2>1, OperandsOf, TreeFacts DEF Formed
<1>2. left = k - 1 - m
  OBVIOUS
<1>3. DOMAIN e = 1 .. Len(e) /\ Len(e) \in Nat
  BY TreeFacts
<1> HIDE DEF n, m
<1>4. /\ \A i \in 1 .. n : left - n + i \in 1 .. left
      /\ \A i \in 1 .. m : k - 1 - m + i \in left + 1 .. k - 1
      /\ left < k - 1 /\ k <= Len(e)
  <2>1. m > 0 /\ left \in Int
    BY <1>1, TreeFacts DEF m
  <2>2. left = k - 1 - m
    BY <1>2
  <2>3. left < k - 1 /\ k <= Len(e)
    BY <1>1, <1>3, <2>1, <2>2
  <2>4. \A i \in 1 .. n : left - n + i \in 1 .. left
    BY <1>1, <2>1
  <2>5. \A i \in 1 .. m : k - 1 - m + i \in left + 1 .. k - 1
    BY <1>1, <2>1, <2>2
  <2> QED
    BY <2>3, <2>4, <2>5
<1>5. HasPlusMinus(e, left) => \E i \in 1 .. left : e[i].op = "pm"
  BY <1>4 DEF HasPlusMinus, n
<1>6. HasPlusMinus(e, k - 1) => \E i \in left + 1 .. k - 1 : e[i].op = "pm"
  BY <1>4 DEF HasPlusMinus, m
<1>7. /\ \A i \in 1 .. left : i \in DOMAIN e
      /\ \A i \in left + 1 .. k - 1 : i \in DOMAIN e
      /\ k \in DOMAIN e
  BY <1>1, <1>3
<1>8. /\ \A i \in 1 .. left, j \in left + 1 .. k - 1 : i # j
      /\ \A i \in 1 .. left : i # k
      /\ \A i \in left + 1 .. k - 1 : i # k
  BY <1>1, <1>4
<1> QED
  BY <1>5, <1>6, <1>7, <1>8 DEF OnePlusMinus

\* The term of a leaf.
LEMMA LeafTerm ==
  ASSUME NEW e \in Trees, NEW k \in 1 .. Len(e), e[k].op \in Leaves, NEW names, NEW sign
  PROVE  /\ TermAt(e, names, k, sign) = <<AtomOf(e[k], "none", names)>>
         /\ ~HasPlusMinus(e, k)
<1>1. e[k].size = 1 /\ e[k].op # "pm" /\ k \in Nat
  <2>1. Formed(e, k) /\ Len(e) \in Nat
    BY TreeFacts
  <2> QED
    BY <2>1 DEF Formed, Leaves
<1>2. \A i \in 1 .. 1 : k - 1 + i = k
  BY <1>1
<1>3. AtomOf(e[k], sign, names) = AtomOf(e[k], "none", names)
  BY <1>1 DEF AtomOf
<1>4. TermAt(e, names, k, sign) = [i \in 1 .. 1 |-> AtomOf(e[k], "none", names)]
  <2>1. TermAt(e, names, k, sign) = [i \in 1 .. 1 |-> AtomOf(e[k - 1 + i], sign, names)]
    BY <1>1 DEF TermAt
  <2> QED
    BY <1>2, <1>3, <2>1
<1>5. ~HasPlusMinus(e, k)
  BY <1>1, <1>2 DEF HasPlusMinus
<1> QED
  BY <1>4, <1>5

\* NumpyExpressionVisitor.visit at one node, f being what visits its operands.
VisitNode(e, names, f, k) ==
  LET op == e[k].op
      operand(i) == f[Operands(e, k)[i]]
  IN CASE op = "number" ->
            Then(Float64(DecimalOf(e[k].lexeme), e[k].span),
                 LAMBDA g, span : Parsed(<< << <<"float", g>> >> >>, span))
       [] op = "variable" ->
            Parsed(<< << <<"name", names[e[k].lexeme]>> >> >>, e[k].span)
       [] op \in Unaries \cup {"sqrt"} ->
            Then(operand(1), LAMBDA branches, span :
              Parsed([j \in DOMAIN branches |-> Append(branches[j], <<op, 0>>)], e[k].span))
       [] OTHER ->
            Then(operand(1), LAMBDA left, first :
            Then(operand(2), LAMBDA right, second :
              IF op = "pm" THEN PlusMinus(left, right, e[k].span)
              ELSE Combine(op, left, right, e[k].span)))

\* visit_number: GEN001 or the literal.
LEMMA VisitNumber ==
  ASSUME NEW e, NEW names, NEW f, NEW k, e[k].op = "number"
  PROVE  LET g == Float64(DecimalOf(e[k].lexeme), e[k].span) IN
         VisitNode(e, names, f, k) =
           IF g.ok THEN Parsed(<< << <<"float", g.value>> >> >>, g.next) ELSE g
<1>1. e[k].op # "variable" /\ e[k].op \notin Unaries \cup {"sqrt"}
  BY DEF Unaries
<1> QED
  BY <1>1 DEF VisitNode, Then

\* visit_variable.
LEMMA VisitVariable ==
  ASSUME NEW e, NEW names, NEW f, NEW k, e[k].op = "variable"
  PROVE  VisitNode(e, names, f, k) = Parsed(<< << <<"name", names[e[k].lexeme]>> >> >>, e[k].span)
<1>1. e[k].op # "number" /\ e[k].op \notin Unaries \cup {"sqrt"}
  BY DEF Unaries
<1> QED
  BY <1>1 DEF VisitNode, Then

\* A visit has the branches of its node or fails as a literal does.
LEMMA VisitCases ==
  ASSUME NEW e, NEW names, NEW k, NEW r, r \in GoodVisits(e, names, k)
  PROVE  \/ r.ok = TRUE /\ r.value = BranchesAt(e, names, k)
         \/ r.ok = FALSE /\ r \in VisitFailures
<1> DEFINE B == BranchesAt(e, names, k)
<1>1. r = Parsed(B, e[k].span) \/ r \in VisitFailures
  BY DEF GoodVisits
<1>2. r \in VisitFailures => r.ok = FALSE
  BY DEF VisitFailures
<1> HIDE DEF B
<1>3. r = Parsed(B, e[k].span) => r.ok = TRUE /\ r.value = B
  BY DEF Parsed
<1> QED
  BY <1>1, <1>2, <1>3 DEF B

\* One or two branches, combined with one, are as many.
LEMMA CombinedOnes ==
  ASSUME NEW op, NEW span, NEW a, NEW b
  PROVE  Combine(op, <<a>>, <<b>>, span) = Parsed(<<Applied(op, a, b)>>, span)
<1> DEFINE left == <<a>>
           right == <<b>>
           made == [k \in 1 .. 1 |-> Applied(op, left[((k - 1) \div 1) + 1],
                                                 right[((k - 1) % 1) + 1])]
<1>1. Combine(op, left, right, span) = Parsed(made, span)
  BY DEF Combine
<1>2. \A k \in 1 .. 1 : ((k - 1) \div 1) + 1 = 1 /\ ((k - 1) % 1) + 1 = 1
  OBVIOUS
<1>3. made = [k \in 1 .. 1 |-> Applied(op, a, b)]
  BY <1>2
<1>4. [k \in 1 .. 1 |-> Applied(op, a, b)] = <<Applied(op, a, b)>>
  OBVIOUS
<1> QED
  BY <1>1, <1>3, <1>4

\* _combine where the branches are on the left.
LEMMA CombinedLeft ==
  ASSUME NEW op, NEW span, NEW a, NEW b, NEW c
  PROVE  Combine(op, <<a, b>>, <<c>>, span)
           = Parsed(<<Applied(op, a, c), Applied(op, b, c)>>, span)
<1> DEFINE left == <<a, b>>
           right == <<c>>
           made == [k \in 1 .. 2 |-> Applied(op, left[((k - 1) \div 1) + 1],
                                                 right[((k - 1) % 1) + 1])]
           pair == <<Applied(op, a, c), Applied(op, b, c)>>
<1>1. Combine(op, left, right, span) = Parsed(made, span)
  BY DEF Combine
<1>2. \A k \in 1 .. 2 : ((k - 1) \div 1) + 1 = k /\ ((k - 1) % 1) + 1 = 1
  OBVIOUS
<1>3. made = [k \in 1 .. 2 |-> Applied(op, left[k], c)]
  BY <1>2
<1>4. made = pair
  BY <1>3
<1> QED
  BY <1>1, <1>4

\* _combine where the branches are on the right.
LEMMA CombinedRight ==
  ASSUME NEW op, NEW span, NEW a, NEW b, NEW c
  PROVE  Combine(op, <<a>>, <<b, c>>, span)
           = Parsed(<<Applied(op, a, b), Applied(op, a, c)>>, span)
<1> DEFINE left == <<a>>
           right == <<b, c>>
           made == [k \in 1 .. 2 |-> Applied(op, left[((k - 1) \div 2) + 1],
                                                 right[((k - 1) % 2) + 1])]
           pair == <<Applied(op, a, b), Applied(op, a, c)>>
<1>1. Combine(op, left, right, span) = Parsed(made, span)
  BY DEF Combine
<1>2. \A k \in 1 .. 2 : ((k - 1) \div 2) + 1 = 1 /\ ((k - 1) % 2) + 1 = k
  OBVIOUS
<1>3. made = [k \in 1 .. 2 |-> Applied(op, a, right[k])]
  BY <1>2
<1>4. made = pair
  BY <1>3
<1> QED
  BY <1>1, <1>4

\* A unary operator applied to each branch.
LEMMA OneAppended ==
  ASSUME NEW a, NEW t, NEW B, B = <<a>>
  PROVE  [j \in DOMAIN B |-> Append(B[j], t)] = <<Append(a, t)>>
OBVIOUS

\* The same of two branches.
LEMMA TwoAppended ==
  ASSUME NEW a, NEW b, NEW t, NEW B, B = <<a, b>>
  PROVE  [j \in DOMAIN B |-> Append(B[j], t)] = <<Append(a, t), Append(b, t)>>
OBVIOUS

\* If the operands of a node have their branches, the node has its own.
LEMMA VisitKeeps ==
  ASSUME NEW e \in Trees, OnePlusMinus(e), NEW names, NEW f, NEW k \in 1 .. Len(e),
         \A j \in 1 .. k - 1 : f[j] \in GoodVisits(e, names, j)
  PROVE  VisitNode(e, names, f, k) \in GoodVisits(e, names, k)
<1> DEFINE op == e[k].op
           span == e[k].span
           r == VisitNode(e, names, f, k)
           good == Parsed(BranchesAt(e, names, k), span)
<1>1. op \in Leaves \cup (Unaries \cup {"sqrt"}) \cup Binaries /\ span \in Spans
  <2>1. e[k] \in Nodes
    BY TreeFacts
  <2> QED
    BY <2>1 DEF Nodes, Operations
<1>2. good \in GoodVisits(e, names, k) /\ VisitFailures \subseteq GoodVisits(e, names, k)
  BY DEF GoodVisits
<1>3. CASE op \in Leaves
  <2>1. BranchesAt(e, names, k) = << <<AtomOf(e[k], "none", names)>> >>
    BY <1>3, LeafTerm DEF BranchesAt
  <2>2. ASSUME op = "variable" PROVE r = good
    <3>1. AtomOf(e[k], "none", names) = <<"name", names[e[k].lexeme]>>
      BY <2>2 DEF AtomOf
    <3>2. r = Parsed(<< << <<"name", names[e[k].lexeme]>> >> >>, span)
      BY <2>2, VisitVariable
    <3> QED
      BY <2>1, <3>1, <3>2
  <2>3. ASSUME op = "number" PROVE r \in {good} \cup VisitFailures
    <3> DEFINE n == DecimalOf(e[k].lexeme)
               g == Float64(n, span)
    <3>1. AtomOf(e[k], "none", names) = <<"float", Converted(n)>>
      BY <2>3 DEF AtomOf
    <3>2. r = IF g.ok THEN Parsed(<< << <<"float", g.value>> >> >>, g.next) ELSE g
      BY <2>3, VisitNumber
    <3>3. \/ g = Parsed(Converted(n), span)
          \/ g.ok = FALSE /\ g \in VisitFailures
      BY <1>1 DEF Float64, Failed, VisitFailures
    <3> HIDE DEF g, n
    <3>4. ASSUME g = Parsed(Converted(n), span) PROVE r = good
      <4>1. g.ok /\ g.value = Converted(n) /\ g.next = span
        BY <3>4 DEF Parsed
      <4>2. r = Parsed(<< << <<"float", Converted(n)>> >> >>, span)
        BY <3>2, <4>1
      <4> QED
        BY <2>1, <3>1, <4>2
    <3> QED
      BY <3>2, <3>3, <3>4
  <2>4. op = "variable" \/ op = "number"
    BY <1>3 DEF Leaves
  <2> HIDE DEF r, good, op
  <2> QED
    BY <1>2, <2>2, <2>3, <2>4 DEF r, good, op
<1>4. CASE op \in Unaries \cup {"sqrt"}
  <2> DEFINE x == f[k - 1]
             B == BranchesAt(e, names, k - 1)
             next == [j \in DOMAIN B |-> Append(B[j], <<op, 0>>)]
  <2>1. Operands(e, k) = <<k - 1>> /\ k - 1 \in 1 .. k - 1
    BY <1>4, OperandsOf
  <2>2. r = IF x.ok THEN Parsed([j \in DOMAIN x.value |-> Append(x.value[j], <<op, 0>>)], span)
            ELSE x
    <3>1. op \notin {"number", "variable"}
      BY <1>4 DEF Unaries
    <3> QED
      BY <1>4, <2>1, <3>1 DEF VisitNode, Then
  <2>3. \/ x.ok = TRUE /\ x.value = B
        \/ x.ok = FALSE /\ x \in VisitFailures
    BY <2>1, VisitCases
  <2>4. next = BranchesAt(e, names, k)
    <3> DEFINE T(s) == TermAt(e, names, k - 1, s)
               U(s) == TermAt(e, names, k, s)
    <3>1. /\ U("none") = Append(T("none"), <<op, 0>>)
          /\ U("add") = Append(T("add"), <<op, 0>>)
          /\ U("subtract") = Append(T("subtract"), <<op, 0>>)
          /\ HasPlusMinus(e, k) <=> HasPlusMinus(e, k - 1)
      BY <1>4, UnaryTerm
    <3>2. /\ B = IF HasPlusMinus(e, k) THEN <<T("add"), T("subtract")>> ELSE <<T("none")>>
          /\ BranchesAt(e, names, k)
               = IF HasPlusMinus(e, k) THEN <<U("add"), U("subtract")>> ELSE <<U("none")>>
      BY <3>1 DEF BranchesAt
    <3> HIDE DEF T, U, B
    <3>3. CASE HasPlusMinus(e, k)
      <4>1. B = <<T("add"), T("subtract")>>
        BY <3>2, <3>3
      <4>2. next = <<Append(T("add"), <<op, 0>>), Append(T("subtract"), <<op, 0>>)>>
        BY <4>1, TwoAppended
      <4> QED
        BY <3>1, <3>2, <3>3, <4>2
    <3>4. CASE ~HasPlusMinus(e, k)
      <4>1. B = <<T("none")>>
        BY <3>2, <3>4
      <4>2. next = <<Append(T("none"), <<op, 0>>)>>
        BY <4>1, OneAppended
      <4> QED
        BY <3>1, <3>2, <3>4, <4>2
    <3> QED
      BY <3>3, <3>4
  <2>5. x.ok = TRUE => r = Parsed(next, span)
    <3> HIDE DEF r, x, B
    <3> QED
      BY <2>2, <2>3
  <2>6. x.ok = FALSE => r = x
    <3> HIDE DEF r, x, B
    <3> QED
      BY <2>2
  <2> HIDE DEF r, x, next
  <2>7. r = good \/ r \in VisitFailures
    BY <2>3, <2>4, <2>5, <2>6
  <2> QED
    BY <1>2, <2>7 DEF r
<1>5. CASE op \in Binaries
  <2> DEFINE at == k - 1 - e[k - 1].size
             x == f[at]
             y == f[k - 1]
             A == BranchesAt(e, names, at)
             B == BranchesAt(e, names, k - 1)
             L(s) == TermAt(e, names, at, s)
             R(s) == TermAt(e, names, k - 1, s)
             U(s) == TermAt(e, names, k, s)
             made == IF op = "pm" THEN PlusMinus(A, B, span) ELSE Combine(op, A, B, span)
             p == HasPlusMinus(e, at)
             q == HasPlusMinus(e, k - 1)
  <2>1. Operands(e, k) = <<at, k - 1>> /\ at \in 1 .. k - 1 /\ k - 1 \in 1 .. k - 1
    BY <1>5, OperandsOf
  <2>2. r = IF x.ok THEN IF y.ok THEN IF op = "pm" THEN PlusMinus(x.value, y.value, span)
                                      ELSE Combine(op, x.value, y.value, span)
                         ELSE y
            ELSE x
    <3>1. op \notin {"number", "variable"} /\ op \notin Unaries \cup {"sqrt"}
      BY <1>5 DEF Unaries, Binaries, Sums, Products
    <3> QED
      BY <2>1, <3>1 DEF VisitNode, Then
  <2>3. /\ \/ x.ok = TRUE /\ x.value = A
           \/ x.ok = FALSE /\ x \in VisitFailures
        /\ \/ y.ok = TRUE /\ y.value = B
           \/ y.ok = FALSE /\ y \in VisitFailures
    BY <2>1, VisitCases
  <2>4. /\ \A s : U(s) = Applied(IF op = "pm" THEN s ELSE op, L(s), R(s))
        /\ HasPlusMinus(e, k) <=> op = "pm" \/ p \/ q
        /\ ~(p /\ q) /\ (op = "pm" => ~p /\ ~q)
    BY <1>5, BinaryTerm, OneSide
  <2>5. /\ \A s : ~p => L(s) = L("none")
        /\ \A s : ~q => R(s) = R("none")
    BY SameTerm
  <2>6. /\ A = IF p THEN <<L("add"), L("subtract")>> ELSE <<L("none")>>
        /\ B = IF q THEN <<R("add"), R("subtract")>> ELSE <<R("none")>>
        /\ BranchesAt(e, names, k) = IF op = "pm" \/ p \/ q THEN <<U("add"), U("subtract")>>
                                     ELSE <<U("none")>>
    BY <2>4 DEF BranchesAt
  <2> HIDE DEF A, B, L, R, U, p, q, x, y, r
  <2>7. made = good
    <3>1. CASE op = "pm"
      <4>1. A = <<L("none")>> /\ B = <<R("none")>>
        BY <2>4, <2>6, <3>1
      <4>2. PlusMinus(A, B, span) = Parsed(<<Applied("add", L("none"), R("none")),
                                             Applied("subtract", L("none"), R("none"))>>, span)
        BY <4>1 DEF PlusMinus
      <4>3. /\ U("add") = Applied("add", L("none"), R("none"))
            /\ U("subtract") = Applied("subtract", L("none"), R("none"))
        BY <2>4, <2>5, <3>1
      <4> QED
        BY <2>6, <3>1, <4>2, <4>3
    <3>2. CASE op # "pm" /\ ~p /\ ~q
      <4>1. U("none") = Applied(op, L("none"), R("none"))
        BY <2>4, <3>2
      <4> QED
        <5>1. A = <<L("none")>> /\ B = <<R("none")>> /\ good = Parsed(<<U("none")>>, span)
          BY <2>6, <3>2
        <5>2. made = Combine(op, A, B, span)
          BY <3>2
        <5>3. Combine(op, <<L("none")>>, <<R("none")>>, span) = Parsed(<<Applied(op, L("none"), R("none"))>>, span)
          BY CombinedOnes, Zenon
        <5> HIDE DEF made, good
        <5> QED
          BY <4>1, <5>1, <5>2, <5>3
    <3>3. CASE op # "pm" /\ p /\ ~q
      <4>1. /\ U("add") = Applied(op, L("add"), R("none"))
            /\ U("subtract") = Applied(op, L("subtract"), R("none"))
        BY <2>4, <2>5, <3>3
      <4> QED
        <5>1. /\ A = <<L("add"), L("subtract")>> /\ B = <<R("none")>>
              /\ good = Parsed(<<U("add"), U("subtract")>>, span)
          BY <2>6, <3>3
        <5>2. made = Combine(op, A, B, span)
          BY <3>3
        <5>3. Combine(op, <<L("add"), L("subtract")>>, <<R("none")>>, span)
                = Parsed(<<Applied(op, L("add"), R("none")), Applied(op, L("subtract"), R("none"))>>,
                         span)
          BY CombinedLeft, Zenon
        <5> HIDE DEF made, good
        <5> QED
          BY <4>1, <5>1, <5>2, <5>3
    <3>4. CASE op # "pm" /\ ~p /\ q
      <4>1. /\ U("add") = Applied(op, L("none"), R("add"))
            /\ U("subtract") = Applied(op, L("none"), R("subtract"))
        BY <2>4, <2>5, <3>4
      <4> QED
        <5>1. /\ A = <<L("none")>> /\ B = <<R("add"), R("subtract")>>
              /\ good = Parsed(<<U("add"), U("subtract")>>, span)
          BY <2>6, <3>4
        <5>2. made = Combine(op, A, B, span)
          BY <3>4
        <5>3. Combine(op, <<L("none")>>, <<R("add"), R("subtract")>>, span)
                = Parsed(<<Applied(op, L("none"), R("add")), Applied(op, L("none"), R("subtract"))>>,
                         span)
          BY CombinedRight, Zenon
        <5> HIDE DEF made, good
        <5> QED
          BY <4>1, <5>1, <5>2, <5>3
    <3> QED
      BY <2>4, <3>1, <3>2, <3>3, <3>4
  <2>8. x.ok = TRUE /\ y.ok = TRUE => r = made
    BY <2>2, <2>3
  <2> HIDE DEF made, good
  <2> QED
    BY <1>2, <2>2, <2>3, <2>7, <2>8 DEF r
<1> QED
  BY <1>1, <1>3, <1>4, <1>5

\* The visitor is defined by what it does at each node.
LEMMA VisitsAreGood ==
  ASSUME NEW e \in Trees, OnePlusMinus(e), NEW names
  PROVE  \A k \in 1 .. Len(e) : Visits(e, names)[k] \in GoodVisits(e, names, k)
<1> DEFINE n == Len(e)
           good == [k \in 1 .. n |-> GoodVisits(e, names, k)]
           V == UNION {GoodVisits(e, names, k) : k \in 1 .. n}
           step == [k \in 1 .. n |-> [f \in [1 .. n -> V] |-> VisitNode(e, names, f, k)]]
           IsVisit(f) == f = [k \in 1 .. n |-> VisitNode(e, names, f, k)]
<1>1. n \in Nat /\ n > 0 /\ DOMAIN e = 1 .. n
  BY TreeFacts
<1>2. Visits(e, names) = CHOOSE f : IsVisit(f)
  BY <1>1 DEF Visits, VisitNode
<1>3. \E f : IsVisit(f)
  <2>1. V # {} /\ good \in [1 .. n -> SUBSET V]
    <3>1. Parsed(BranchesAt(e, names, 1), e[1].span) \in GoodVisits(e, names, 1) /\ 1 \in 1 .. n
      BY <1>1 DEF GoodVisits
    <3>2. V # {}
      BY <3>1
    <3>3. good \in [1 .. n -> SUBSET V]
      OBVIOUS
    <3> QED
      BY <3>2, <3>3
  <2>2. \A k \in 1 .. n : \A f \in [1 .. n -> V] : step[k][f] = VisitNode(e, names, f, k)
    OBVIOUS
  <2>3. \A k \in 1 .. n : good[k] = GoodVisits(e, names, k)
    OBVIOUS
  <2> HIDE DEF V, good, step
  <2>4. ASSUME NEW k \in 1 .. n, NEW f \in [1 .. n -> V],
               \A j \in 1 .. k - 1 : f[j] \in good[j]
        PROVE  step[k][f] \in good[k]
    <3>1. \A j \in 1 .. k - 1 : f[j] \in GoodVisits(e, names, j)
      BY <2>3, <2>4, <1>1
    <3> QED
      BY <2>2, <2>3, <3>1, VisitKeeps
  <2>5. ASSUME NEW k \in 1 .. n, NEW f \in [1 .. n -> V], NEW g \in [1 .. n -> V],
               \A j \in 1 .. k - 1 : f[j] = g[j]
        PROVE  step[k][f] = step[k][g]
    <3>1. VisitNode(e, names, f, k) = VisitNode(e, names, g, k)
      <4> DEFINE op == e[k].op
      <4>1. op \in Leaves \cup (Unaries \cup {"sqrt"}) \cup Binaries
        <5>1. e[k] \in Nodes
          BY TreeFacts
        <5> QED
          BY <5>1 DEF Nodes, Operations
      <4>2. CASE op = "number"
        BY <4>2, VisitNumber
      <4>3. CASE op = "variable"
        BY <4>3, VisitVariable
      <4>4. CASE op \in Unaries \cup {"sqrt"}
        <5>1. f[Operands(e, k)[1]] = g[Operands(e, k)[1]]
          BY <2>5, <4>4, OperandsOf
        <5>2. op \notin {"number", "variable"}
          BY <4>4 DEF Unaries
        <5> QED
          BY <4>4, <5>1, <5>2 DEF VisitNode
      <4>5. CASE op \in Binaries
        <5>1. /\ f[Operands(e, k)[1]] = g[Operands(e, k)[1]]
              /\ f[Operands(e, k)[2]] = g[Operands(e, k)[2]]
          BY <2>5, <4>5, OperandsOf
        <5>2. op \notin {"number", "variable"} /\ op \notin Unaries \cup {"sqrt"}
          BY <4>5 DEF Unaries, Binaries, Sums, Products
        <5> QED
          BY <5>1, <5>2 DEF VisitNode, Then
      <4> QED
        BY <4>1, <4>2, <4>3, <4>4, <4>5 DEF Leaves
    <3> QED
      BY <2>2, <3>1
  <2>6. \E f : Recursive(f, step, 1, n, V)
    <3>1. n \in Nat /\ 1 \in Nat
      BY <1>1
    <3>2. KeepsGood(step, 1, n, V, good)
      BY <2>4 DEF KeepsGood
    <3>3. BackOnly(step, 1, n, V)
      BY <2>5 DEF BackOnly
    <3> HIDE DEF n
    <3> QED
      BY <2>1, <3>1, <3>2, <3>3, GoodRecursion
  <2>7. PICK f \in [1 .. n -> V] : \A k \in 1 .. n : f[k] = step[k][f]
    BY <2>6 DEF Recursive
  <2>8. IsVisit(f)
    BY <2>2, <2>7
  <2> QED
    BY <2>8
<1>4. PICK f : f = Visits(e, names) /\ IsVisit(f)
  <2> HIDE DEF IsVisit
  <2> QED
    BY <1>2, <1>3
<1>5. \A k \in 1 .. n : f[k] = VisitNode(e, names, f, k)
  BY <1>4
<1> DEFINE H == {k \in 1 .. n : f[k] \in GoodVisits(e, names, k)}
<1>6. ASSUME NEW k \in 1 .. n, \A j \in 1 .. k - 1 : j \in H PROVE k \in H
  <2>1. \A j \in 1 .. k - 1 : f[j] \in GoodVisits(e, names, j)
    BY <1>6
  <2> QED
    BY <1>5, <2>1, VisitKeeps
<1>7. \A k \in 1 .. n : k \in H
  <2>1. \A k \in 1 .. n : (\A j \in 1 .. k - 1 : j \in H) => k \in H
    BY <1>6
  <2>2. 1 \in Nat /\ n \in Nat
    BY <1>1
  <2> HIDE DEF H, n
  <2> QED
    BY <2>1, <2>2, SmallerFirst
<1> QED
  BY <1>4, <1>7

\* An analysis that reports nothing has seen one plus-minus at most.
LEMMA PlusMinusOnce ==
  ASSUME NEW p \in Programs, AnalysisCodes(p) = {}
  PROVE  /\ OnePlusMinus(p.expression)
         /\ PlusMinusCount(p) = 1 <=> \E k \in DOMAIN p.expression : p.expression[k].op = "pm"
<1> DEFINE S == {k \in DOMAIN p.expression : p.expression[k].op = "pm"}
<1>1. ~(Cardinality(S) > 1)
  BY DEF AnalysisCodes, RequestCodes, PlusMinusCount
<1>2. IsFiniteSet(S)
  <2>1. DOMAIN p.expression = 1 .. Len(p.expression) /\ Len(p.expression) \in Nat
    BY ProgramFacts, TreeFacts
  <2>2. IsFiniteSet(1 .. Len(p.expression))
    BY <2>1, FS_Interval
  <2> QED
    BY <2>1, <2>2, FS_Subset
<1>3. Cardinality(S) \in Nat
  BY <1>2, FS_CardinalityType
<1>4. Cardinality(S) = 0 <=> S = {}
  BY <1>2, FS_EmptySet
<1>5. Cardinality(S) = 1 => \E x : S = {x}
  BY <1>2, FS_Singleton
<1>6. Cardinality(S) = 0 \/ Cardinality(S) = 1
  BY <1>1, <1>3
<1>7. \A i, j \in S : i = j
  BY <1>4, <1>5, <1>6
<1>8. OnePlusMinus(p.expression)
  BY <1>7 DEF OnePlusMinus
<1>9. PlusMinusCount(p) = 1 <=> S # {}
  BY <1>4, <1>6 DEF PlusMinusCount
<1> QED
  BY <1>8, <1>9

\* The branches of a program.
LEMMA BranchesOf ==
  ASSUME NEW p \in Programs, AnalysisCodes(p) = {}, NEW names
  PROVE  LET e == p.expression
             visit == Visit(e, names)
             term(sign) == [k \in DOMAIN e |-> AtomOf(e[k], sign, names)]
         IN \/ visit.ok = FALSE /\ visit.value \in {"GEN001", "GEN004"}
            \/ /\ visit.ok = TRUE
               /\ visit.value = IF PlusMinusCount(p) = 1
                                THEN <<term("add"), term("subtract")>> ELSE <<term("none")>>
<1> DEFINE e == p.expression
           n == Len(e)
           visit == Visit(e, names)
           term(sign) == [k \in DOMAIN e |-> AtomOf(e[k], sign, names)]
<1>1. e \in Trees /\ OnePlusMinus(e)
  BY ProgramFacts, PlusMinusOnce
<1>2. n \in 1 .. n /\ n \in Nat /\ e[n].size = n /\ DOMAIN e = 1 .. n
  BY <1>1, TreeFacts
<1>3. visit \in GoodVisits(e, names, n)
  BY <1>1, <1>2, VisitsAreGood DEF Visit
<1>4. \/ visit.ok = TRUE /\ visit.value = BranchesAt(e, names, n)
      \/ visit.ok = FALSE /\ visit \in VisitFailures
  BY <1>3, VisitCases
<1>5. \A i \in 1 .. n : n - n + i = i
  BY <1>2
<1>6. ASSUME NEW sign PROVE TermAt(e, names, n, sign) = term(sign)
  <2> HIDE DEF n
  <2>1. TermAt(e, names, n, sign) = [i \in 1 .. n |-> AtomOf(e[n - n + i], sign, names)]
    BY <1>2 DEF TermAt
  <2> QED
    BY <1>2, <1>5, <2>1
<1>7. HasPlusMinus(e, n) <=> PlusMinusCount(p) = 1
  <2>1. PlusMinusCount(p) = 1 <=> \E k \in DOMAIN e : e[k].op = "pm"
    BY PlusMinusOnce
  <2> HIDE DEF n, e
  <2>2. HasPlusMinus(e, n) <=> \E i \in 1 .. n : e[n - n + i].op = "pm"
    BY <1>2 DEF HasPlusMinus
  <2> QED
    BY <1>2, <1>5, <2>1, <2>2
<1>8. BranchesAt(e, names, n) = IF PlusMinusCount(p) = 1
                                THEN <<term("add"), term("subtract")>> ELSE <<term("none")>>
  <2> HIDE DEF term, n, e
  <2> QED
    BY <1>6, <1>7 DEF BranchesAt
<1>9. visit \in VisitFailures => visit.value \in {"GEN001", "GEN004"}
  BY DEF VisitFailures
<1> HIDE DEF visit, term
<1> QED
  BY <1>4, <1>8, <1>9 DEF visit, term

-----------------------------------------------------------------------------
(* What is answered                                                        *)

DrawFailures == {"GEN001", "GEN004", "GEN005", "GEN006"}

\* The parameters of a distribution are converted or fail with a code of the literals.
LEMMA DrawCodes ==
  ASSUME NEW d \in Distributions
  PROVE  LET r == DrawParameters(d) IN r.ok = TRUE \/ (r.ok = FALSE /\ r.value \in DrawFailures)
<1> DEFINE Ends1(r) == r.ok = TRUE \/ (r.ok = FALSE /\ r.value \in DrawFailures)
<1>1. \A n, span : Ends1(Float64(n, span))
  BY DEF Float64, Parsed, Failed, DrawFailures
<1>2. ASSUME NEW results, NEW span, DOMAIN results \subseteq Nat,
             \A k \in DOMAIN results : Ends1(results[k])
      PROVE  Ends1(AllParsed(results, span))
  <2>1. \A value, next : Ends1(Parsed(value, next))
    BY DEF Parsed
  <2> HIDE DEF Ends1
  <2> QED
    BY <1>2, <2>1, AllOrNone
<1> DEFINE pair == AllParsed([k \in 1 .. 2 |-> Float64Of(d.parameters[k], d.span)], d.span)
<1>3. Ends1(pair)
  <2> DEFINE results == [k \in 1 .. 2 |-> Float64Of(d.parameters[k], d.span)]
  <2>1. DOMAIN results \subseteq Nat
    OBVIOUS
  <2>2. \A k \in DOMAIN results : Ends1(results[k])
    BY <1>1 DEF Float64Of
  <2> HIDE DEF results, Ends1
  <2> QED
    BY <1>2, <2>1, <2>2 DEF results
<1>4. CASE d.kind = "NORMAL"
  <2>1. DrawParameters(d) = pair
    BY <1>4 DEF DrawParameters
  <2> HIDE DEF pair, Ends1
  <2>2. Ends1(DrawParameters(d))
    BY <1>3, <2>1
  <2> QED
    BY <2>2 DEF Ends1
<1>5. CASE d.kind = "UNIFORM"
  <2>1. DrawParameters(d) =
          IF pair.ok
          THEN IF pair.value[1] < pair.value[2] THEN Parsed(pair.value, pair.next)
               ELSE Failed("GEN005", pair.next)
          ELSE pair
    BY <1>5 DEF DrawParameters, UniformLimits, Then
  <2> HIDE DEF pair
  <2> QED
    BY <1>3, <2>1 DEF Parsed, Failed, DrawFailures
<1>6. CASE d.kind = "DISTRIB"
  <2> DEFINE ps == d.parameters
             value == [k \in DOMAIN ps |-> DiscreteValue(ps, k)]
             share == [k \in DOMAIN ps |-> Float64(DecimalOf(ps[k].probability), d.span)]
             values == AllParsed(value, d.span)
             shares == AllParsed(share, d.span)
  <2>1. DrawParameters(d) =
          IF values.ok THEN IF shares.ok THEN Parsed(<<values.value, shares.value>>, values.next)
                            ELSE shares
          ELSE values
    BY <1>6 DEF DrawParameters, Then
  <2>2. DOMAIN ps \subseteq Nat
    <3>1. ps \in Seq(Pairs)
      BY <1>6 DEF Distributions
    <3> QED
      BY <3>1
  <2>3. \A k \in DOMAIN ps : Ends1(value[k])
    <3> SUFFICES ASSUME NEW k \in DOMAIN ps PROVE Ends1(value[k])
      OBVIOUS
    <3> DEFINE f == Float64(SignedDecimal(ps[k].value), ps[k].span)
               clash(g) == \E j \in 1 .. k - 1 :
                              /\ Converted(SignedDecimal(ps[j].value)) = g
                              /\ SignedDecimal(ps[j].value) # SignedDecimal(ps[k].value)
    <3>1. value[k] = IF f.ok THEN IF clash(f.value) THEN Failed("GEN006", f.next)
                                  ELSE Parsed(f.value, f.next)
                     ELSE f
      BY DEF DiscreteValue, Float64Of, Then
    <3>2. Ends1(f)
      BY <1>1
    <3> HIDE DEF f, clash, value
    <3> QED
      BY <3>1, <3>2 DEF Parsed, Failed, DrawFailures
  <2>4. \A k \in DOMAIN ps : Ends1(share[k])
    BY <1>1
  <2>5. DOMAIN value = DOMAIN ps /\ DOMAIN share = DOMAIN ps
    OBVIOUS
  <2> HIDE DEF value, share
  <2>6. Ends1(values) /\ Ends1(shares)
    <3> HIDE DEF Ends1
    <3> QED
      BY <1>2, <2>2, <2>3, <2>4, <2>5
  <2> HIDE DEF values, shares
  <2> QED
    BY <2>1, <2>6 DEF Parsed
<1>7. d.kind \in {"NORMAL", "UNIFORM", "DISTRIB"}
  BY DEF Distributions
<1> QED
  BY <1>4, <1>5, <1>6, <1>7

\* So do the lines of the script.
LEMMA LineCodes ==
  ASSUME NEW p \in Programs
  PROVE  LET lines == DistributionLines(Validated(p)) IN
         lines.ok = TRUE \/ (lines.ok = FALSE /\ lines.value \in DrawFailures)
<1> DEFINE v == Validated(p)
           ds == p.distributions
           results == [i \in DOMAIN ds |-> LineOf(v, ds[i])]
<1>1. DistributionLines(v) = AllParsed(results, p.span)
  <2>1. v.ast = p
    BY DEF Validated
  <2> HIDE DEF v
  <2> DEFINE es == v.ast.distributions
             all == [i \in DOMAIN es |-> LineOf(v, es[i])]
  <2>2. DistributionLines(v) = AllParsed(all, v.ast.span)
    BY DEF DistributionLines, LineOf
  <2>3. es = ds /\ v.ast.span = p.span
    BY <2>1
  <2> HIDE DEF es
  <2>4. all = results
    BY <2>3
  <2> QED
    BY <2>2, <2>3, <2>4
<1>2. DOMAIN results = DOMAIN ds /\ DOMAIN ds \subseteq Nat
  BY ProgramFacts
<1>3. \A i \in DOMAIN ds :
        \/ results[i].ok = TRUE
        \/ results[i].ok = FALSE /\ results[i].value \in DrawFailures
  <2> SUFFICES ASSUME NEW i \in DOMAIN ds
               PROVE  \/ results[i].ok = TRUE
                      \/ results[i].ok = FALSE /\ results[i].value \in DrawFailures
    OBVIOUS
  <2> DEFINE r == DrawParameters(ds[i])
             line == [name |-> VariableNames(v)[ds[i].variable], kind |-> ds[i].kind,
                      parameters |-> r.value]
  <2>1. r.ok = TRUE \/ (r.ok = FALSE /\ r.value \in DrawFailures)
    BY ProgramFacts, DrawCodes
  <2>2. results[i] = IF r.ok THEN Parsed(line, r.next) ELSE r
    BY DEF LineOf, Then
  <2> HIDE DEF r, line, results
  <2> QED
    BY <2>1, <2>2 DEF Parsed
<1> HIDE DEF results
<1>4. \/ \E value, next : AllParsed(results, p.span) = Parsed(value, next)
      \/ \E i \in DOMAIN ds : AllParsed(results, p.span) = results[i] /\ ~results[i].ok
  BY <1>2, AllOrNone
<1>5. \A value, next : Parsed(value, next).ok = TRUE
  BY DEF Parsed
<1> QED
  BY <1>1, <1>3, <1>4, <1>5

\* Generating fails because of a parameter or a number, and for nothing else.
LEMMA GenerateCodes ==
  ASSUME NEW p \in Programs, AnalysisCodes(p) = {}
  PROVE  LET r == Generate(Validated(p)) IN
         r.ok = TRUE \/ (r.ok = FALSE /\ r.value \in DrawFailures)
<1> DEFINE v == Validated(p)
           visit == Visit(v.ast.expression, VariableNames(v))
           lines == DistributionLines(v)
           expected == IF v.hasPlusMinus THEN 2 ELSE 1
           made == [branches |-> visit.value, lines |-> lines.value,
                    branchIds |-> IF Len(visit.value) = 2 THEN <<"plus", "minus">>
                                  ELSE <<"main">>,
                    iterations |-> v.iterations, statistics |-> v.statistics]
           r == Generate(v)
<1>1. v.ast = p /\ v.hasPlusMinus = (PlusMinusCount(p) = 1)
  BY DEF Validated
<1>2. r = IF visit.ok
          THEN IF Len(visit.value) # expected THEN Failed("GEN003", visit.next)
               ELSE IF lines.ok THEN Parsed(made, lines.next) ELSE lines
          ELSE visit
  <2> HIDE DEF v
  <2> QED
    BY DEF Generate, Then
<1>3. lines.ok = TRUE \/ (lines.ok = FALSE /\ lines.value \in DrawFailures)
  BY LineCodes
<1>4. \/ visit.ok = FALSE /\ visit.value \in DrawFailures
      \/ visit.ok = TRUE /\ Len(visit.value) = expected
  <2> HIDE DEF v
  <2> DEFINE e == p.expression
             term(sign) == [k \in DOMAIN e |-> AtomOf(e[k], sign, VariableNames(v))]
  <2>1. \/ visit.ok = FALSE /\ visit.value \in {"GEN001", "GEN004"}
        \/ /\ visit.ok = TRUE
           /\ visit.value = IF PlusMinusCount(p) = 1
                            THEN <<term("add"), term("subtract")>> ELSE <<term("none")>>
    BY <1>1, BranchesOf
  <2>2. \A a, b : Len(<<a, b>>) = 2 /\ Len(<<a>>) = 1
    OBVIOUS
  <2> HIDE DEF visit, term
  <2> QED
    BY <1>1, <2>1, <2>2 DEF DrawFailures
<1> HIDE DEF visit, lines, made, expected, r
<1>5. r.ok = TRUE \/ (r.ok = FALSE /\ r.value \in DrawFailures)
  BY <1>2, <1>3, <1>4 DEF Parsed
<1> QED
  BY <1>5 DEF r

\* All that can be reported.
Reported ==
  Codes \cup Failures \cup SemanticCodes \cup DrawFailures \cup {"RecursionError", "DecimalException"}

AnswerInv == stage = "answered" => Range(answer.codes) \subseteq Reported

\* A step answers with codes that may be reported only.
LEMMA AnswerStep ==
  ASSUME LexerInv, StageInv, AnswerInv, [CompilerNext]_compilerVars
  PROVE  AnswerInv'
<1>1. ASSUME NEW codes, Answer(codes), \A i \in DOMAIN codes : codes[i] \in Reported
      PROVE  AnswerInv'
  BY <1>1, Answers DEF AnswerInv, Range
<1>2. ASSUME NEW code \in Reported, Answer(<<code>>) PROVE AnswerInv'
  BY <1>1, <1>2
<1>3. CASE LexStep
  BY <1>3 DEF LexStep, AnswerInv
<1>4. CASE LexFails
  <2>1. \A i \in DOMAIN diagnostics : diagnostics[i].code \in Codes
    <3> DEFINE Rejections == [code : Codes, start : Positions, end : Positions]
    <3>1. diagnostics \in Seq(Rejections)
      BY DEF LexerInv
    <3>2. \A d \in Rejections : d.code \in Codes
      OBVIOUS
    <3> HIDE DEF Rejections
    <3>3. \A i \in DOMAIN diagnostics : diagnostics[i] \in Rejections
      BY <3>1
    <3> QED
      BY <3>2, <3>3
  <2> QED
    BY <1>1, <1>4, <2>1 DEF LexFails, Reported
<1>5. CASE LexEnds
  BY <1>5 DEF LexEnds, AnswerInv
<1>6. CASE ParseStream
  <2> DEFINE result == ParseProgram(stream)
  <2>1. Finishes(result, ProgramsOf(stream))
    BY <1>6, ProgramType DEF StageInv, ParseStream
  <2>2. IF result.ok THEN stage' = "analyze" ELSE Answer(<<result.value>>)
    BY <1>6 DEF ParseStream
  <2> HIDE DEF result
  <2>3. CASE result.ok
    BY <2>2, <2>3 DEF AnswerInv
  <2>4. CASE ~result.ok
    BY <1>2, <2>1, <2>2, <2>4 DEF Finishes, Reported
  <2> QED
    BY <2>3, <2>4
<1>7. CASE Analyze
  <2> DEFINE found == SemanticDiagnostics(program)
             raised == IF Depth(program.expression) > RecursionLimit
                       THEN "RecursionError" ELSE "DecimalException"
             codes == [i \in DOMAIN found |-> found[i].code]
  <2>1. program \in Programs
    BY <1>7 DEF Analyze, StageInv
  <2>2. IF AnalysisRaises(program) THEN Answer(<<raised>>)
        ELSE IF found # << >> THEN Answer(codes) ELSE stage' = "generate"
    BY <1>7 DEF Analyze
  <2>3. \A i \in DOMAIN codes : codes[i] \in Reported
    <3>1. found \in Seq(Diagnoses)
      BY <2>1, AnalysisReports DEF Reports
    <3> HIDE DEF found
    <3>2. \A i \in DOMAIN found : found[i] \in Diagnoses
      BY <3>1
    <3> QED
      BY <3>2 DEF Diagnoses, Reported
  <2>4. raised \in Reported
    BY DEF Reported
  <2> HIDE DEF found, raised, codes
  <2>5. CASE stage' = "generate"
    BY <2>5 DEF AnswerInv
  <2> QED
    BY <1>1, <1>2, <2>2, <2>3, <2>4, <2>5
<1>8. CASE GenerateScript
  <2> DEFINE result == Generate(Validated(program))
  <2>1. program \in Programs /\ AnalysisCodes(program) = {}
    BY <1>8, NoDiagnostics DEF GenerateScript, StageInv
  <2>2. IF result.ok THEN Answer(<< >>) ELSE Answer(<<result.value>>)
    BY <1>8 DEF GenerateScript
  <2>3. result.ok = TRUE \/ (result.ok = FALSE /\ result.value \in DrawFailures)
    BY <2>1, GenerateCodes
  <2> HIDE DEF result
  <2>4. CASE result.ok
    <3>1. \A i \in DOMAIN << >> : FALSE
      OBVIOUS
    <3> QED
      BY <1>1, <2>2, <2>4, <3>1
  <2>5. CASE ~result.ok
    BY <1>2, <2>2, <2>3, <2>5 DEF Reported
  <2> QED
    BY <2>4, <2>5
<1>9. CASE UNCHANGED compilerVars
  BY <1>9 DEF compilerVars, AnswerInv
<1> QED
  BY <1>3, <1>4, <1>5, <1>6, <1>7, <1>8, <1>9 DEF CompilerNext, LexPhase

\* What a text or a stream is answered with: never a fault of the generator that
\* only a broken tree could cause, and no exception but those of the nesting and
\* of the arithmetic of constants (compile_source, create_job).
THEOREM AnswersHold == CompilerSpec => []AnswerInv
<1>1. CompilerInit => AnswerInv
  BY DEF CompilerInit, AnswerInv
<1>2. LexerInv /\ StageInv /\ AnswerInv /\ [CompilerNext]_compilerVars => AnswerInv'
  BY AnswerStep
<1> QED
  BY <1>1, <1>2, LexerRuns, LexerSound, StagesHold, PTL DEF CompilerSpec

\* In a program that compiles the branches of the script are the expression
\* read with plus and with minus, in this order, or the expression itself, at
\* every size of tree, and no error that is there for broken trees is ever
\* answered (NumpyExpressionVisitor, _combine and generate).
THEOREM BranchesHold == CompilerSpec => []BranchesMatch
<1>1. StageInv /\ Compiled =>
        LET signs == IF script.branchIds = <<"main">> THEN <<"none">> ELSE <<"add", "subtract">>
        IN /\ script.branches = [k \in DOMAIN signs |-> TermOf(program.expression, signs[k])]
           /\ Len(signs) = 2 <=> \E node \in Range(program.expression) : node.op = "pm"
  <2> SUFFICES ASSUME StageInv, Compiled
      PROVE  LET signs == IF script.branchIds = <<"main">> THEN <<"none">> ELSE <<"add", "subtract">>
             IN /\ script.branches = [k \in DOMAIN signs |-> TermOf(program.expression, signs[k])]
                /\ Len(signs) = 2 <=> \E node \in Range(program.expression) : node.op = "pm"
    OBVIOUS
  <2> DEFINE v == Validated(program)
             names == VariableNames(v)
             e == program.expression
             term(sign) == [k \in DOMAIN e |-> AtomOf(e[k], sign, names)]
             visit == Visit(e, names)
             one == <<"none">>
             two == <<"add", "subtract">>
  <2>1. Generated
    BY DEF StageInv
  <2>2. program \in Programs /\ AnalysisCodes(program) = {}
    BY <2>1, NoDiagnostics DEF Generated
  <2>3. v.ast = program /\ v.hasPlusMinus = (PlusMinusCount(program) = 1)
    BY DEF Validated
  <2>4. /\ visit.ok /\ script.branches = visit.value
        /\ script.branchIds = IF v.hasPlusMinus THEN <<"plus", "minus">> ELSE <<"main">>
    <3> HIDE DEF v
    <3>1. Generate(v).ok /\ script = Generate(v).value
      BY <2>1 DEF Generated, v
    <3> QED
      BY <2>3, <3>1, Generation
  <2>5. visit.value = IF PlusMinusCount(program) = 1
                      THEN <<term("add"), term("subtract")>> ELSE <<term("none")>>
    <3> HIDE DEF v, names, visit, term
    <3> QED
      BY <2>2, <2>4, BranchesOf DEF visit, term
  <2>6. \A sign : TermOf(e, sign) = term(sign)
    BY DEF TermOf, TermNode, AtomOf
  <2>7. PlusMinusCount(program) = 1 <=> \E node \in Range(e) : node.op = "pm"
    BY <2>2, PlusMinusOnce DEF Range
  <2>8. script.branchIds = <<"main">> <=> PlusMinusCount(program) # 1
    <3>1. <<"plus", "minus">> # <<"main">>
      OBVIOUS
    <3> QED
      BY <2>3, <2>4, <3>1
  <2> HIDE DEF v, names, visit, term, e
  <2>9. /\ [k \in DOMAIN one |-> TermOf(e, one[k])] = <<term("none")>>
        /\ [k \in DOMAIN two |-> TermOf(e, two[k])] = <<term("add"), term("subtract")>>
        /\ Len(one) # 2 /\ Len(two) = 2
    BY <2>6
  <2> QED
    BY <2>4, <2>5, <2>7, <2>8, <2>9 DEF e
<1>2. AnswerInv => ~Rejected({"GEN002", "GEN003", "ValueError"})
  <2>1. {"GEN002", "GEN003", "ValueError"} \cap Reported = {}
    BY DEF Reported, Codes, Failures, SyntaxCodes, SemanticCodes, DrawFailures
  <2> QED
    BY <2>1 DEF AnswerInv, Rejected
<1>3. StageInv /\ AnswerInv => BranchesMatch
  BY <1>1, <1>2 DEF BranchesMatch
<1> QED
  BY <1>3, StagesHold, AnswersHold, PTL

\* Where names are in order, each variable has the number of its distribution.
LEMMA NamesNumbered ==
  ASSUME NEW p \in Programs, NamesInOrder(p)
  PROVE  \A i \in DOMAIN p.distributions :
           VariableNames(Validated(p))[p.distributions[i].variable] = i - 1
<1> DEFINE v == Validated(p)
           ds == p.distributions
           random == [i \in DOMAIN ds |-> ds[i].variable]
<1>1. v.randomVariables = random
  BY DEF Validated
<1> HIDE DEF v
<1>2. /\ DOMAIN VariableNames(v) = {random[i] : i \in DOMAIN random}
      /\ \A name \in {random[i] : i \in DOMAIN random} :
           VariableNames(v)[name] = Max({i \in DOMAIN random : random[i] = name}) - 1
  BY <1>1 DEF VariableNames
<1>3. IsInjective(random)
  BY DEF NamesInOrder
<1>4. DOMAIN random = DOMAIN ds /\ DOMAIN ds \subseteq Nat
  BY ProgramFacts
<1> SUFFICES ASSUME NEW i \in DOMAIN ds PROVE VariableNames(v)[ds[i].variable] = i - 1
  BY DEF v
<1>5. random[i] = ds[i].variable
  OBVIOUS
<1> HIDE DEF random, ds
<1>6. {j \in DOMAIN random : random[j] = random[i]} = {i}
  BY <1>3, <1>4 DEF IsInjective
<1>7. Max({i}) = i
  BY <1>4 DEF Max
<1> QED
  BY <1>2, <1>4, <1>5, <1>6, <1>7

\* A script draws each of its names once, from the distribution of its
\* variable, and draws the names that its branches use and no others, however
\* many there are (_distribution_lines against NumpyExpressionVisitor, which
\* read the table of symbols apart from each other).
THEOREM ScriptsHold == CompilerSpec => []ScriptIsClosed
<1>1. StageInv /\ BranchesMatch => ScriptIsClosed
  <2> SUFFICES ASSUME StageInv, BranchesMatch, Compiled PROVE ScriptIsClosed
    BY DEF ScriptIsClosed
  <2> DEFINE v == Validated(program)
             names == VariableNames(v)
             e == program.expression
             ds == program.distributions
             lines == script.lines
             drawn == [i \in DOMAIN lines |-> lines[i].name]
             declared == [i \in DOMAIN ds |-> ds[i].variable]
             signs == IF script.branchIds = <<"main">> THEN <<"none">> ELSE <<"add", "subtract">>
  <2>1. Generated
    BY DEF StageInv
  <2>2. program \in Programs /\ AnalysisCodes(program) = {}
    BY <2>1, NoDiagnostics DEF Generated
  <2>3. NamesInOrder(program)
    BY <2>2, NamesAreChecked
  <2>4. /\ DOMAIN lines = DOMAIN ds
        /\ \A i \in DOMAIN lines : lines[i].name = names[ds[i].variable] /\ lines[i].kind = ds[i].kind
    <3> DEFINE drawing == DistributionLines(Validated(program)).value
    <3>1. DistributionLines(Validated(program)).ok /\ script.lines = drawing
      BY <2>1, Generation DEF Generated
    <3>2. /\ DOMAIN drawing = DOMAIN program.distributions
          /\ \A i \in DOMAIN drawing :
               drawing[i] = [name |-> VariableNames(Validated(program))[program.distributions[i].variable],
                             kind |-> program.distributions[i].kind,
                             parameters |-> DrawParameters(program.distributions[i]).value]
      BY <2>2, <3>1, Lines
    <3> HIDE DEF drawing
    <3>3. \A i \in DOMAIN drawing :
             /\ drawing[i].name = VariableNames(Validated(program))[program.distributions[i].variable]
             /\ drawing[i].kind = program.distributions[i].kind
      <4> HIDE DEF v, names, ds, lines
      <4> TAKE i \in DOMAIN drawing
      <4> DEFINE name == VariableNames(Validated(program))[program.distributions[i].variable]
                 kind == program.distributions[i].kind
                 parameters == DrawParameters(program.distributions[i]).value
      <4>1. drawing[i] = [name |-> name, kind |-> kind, parameters |-> parameters]
        BY <3>2
      <4> HIDE DEF name, kind, parameters
      <4>2. drawing[i].name = name /\ drawing[i].kind = kind
        BY <4>1
      <4> QED
        BY <4>2 DEF name, kind
    <3> QED
      BY <3>1, <3>2, <3>3
  <2>5. \A i \in DOMAIN ds : names[ds[i].variable] = i - 1
    BY <2>2, <2>3, NamesNumbered
  <2>6. DOMAIN ds \subseteq Nat
    BY <2>2, ProgramFacts
  <2>7. VariablesIn(e) = {ds[i].variable : i \in DOMAIN ds}
    <3>1. Range(declared) = VariablesIn(e)
      BY <2>3 DEF NamesInOrder
    <3> QED
      BY <3>1 DEF Range
  <2>8. \A node : node \in Range(e) /\ node.op = "variable" => node.lexeme \in VariablesIn(e)
    BY DEF VariablesIn
  <2>9. \A x \in VariablesIn(e) : \E k \in DOMAIN e : e[k].op = "variable" /\ e[k].lexeme = x
    BY DEF VariablesIn, Range
  <2>10. /\ script.branches = [k \in DOMAIN signs |-> TermOf(e, signs[k])]
         /\ \A k \in DOMAIN signs : signs[k] \in {"none", "add", "subtract"}
    BY DEF BranchesMatch
  <2>11. ASSUME NEW node, node.op = "variable", NEW sign
         PROVE  TermNode(node, sign) = <<"name", names[node.lexeme]>>
    BY <2>11 DEF TermNode
  <2>12. ASSUME NEW node, node.op \in Operations, NEW sign \in {"none", "add", "subtract"},
                TermNode(node, sign)[1] = "name"
         PROVE  node.op = "variable"
    BY <2>12 DEF TermNode, Operations, Leaves, Unaries, Binaries, Sums, Products
  <2>13. \A k \in DOMAIN e : e[k].op \in Operations
    BY <2>2, ProgramFacts DEF Nodes
  <2> HIDE DEF v, names, e, ds, lines, signs
  <2>14. IsInjective(drawn)
    <3>1. \A i \in DOMAIN drawn : drawn[i] = i - 1
      BY <2>4, <2>5
    <3> QED
      BY <2>4, <2>6, <3>1 DEF IsInjective
  <2>15. Range(drawn) = {names[x] : x \in VariablesIn(e)}
    BY <2>4, <2>7 DEF Range
  <2>16. ASSUME NEW k \in DOMAIN script.branches
         PROVE  NamesIn(script.branches[k]) = {names[x] : x \in VariablesIn(e)}
    <3> DEFINE term == TermOf(e, signs[k])
               sign == signs[k]
    <3>1. script.branches[k] = term /\ sign \in {"none", "add", "subtract"}
      BY <2>10
    <3> HIDE DEF sign
    <3>2. DOMAIN term = DOMAIN e /\ \A j \in DOMAIN e : term[j] = TermNode(e[j], sign)
      BY DEF TermOf, sign
    <3> HIDE DEF term
    <3>3. ASSUME NEW n \in NamesIn(term) PROVE n \in {names[x] : x \in VariablesIn(e)}
      <4>1. PICK j \in DOMAIN e : term[j][1] = "name" /\ n = term[j][2]
        BY <3>2, <3>3 DEF NamesIn, Range
      <4>2. e[j].op = "variable"
        BY <2>12, <2>13, <3>1, <3>2, <4>1
      <4>3. n = names[e[j].lexeme] /\ e[j].lexeme \in VariablesIn(e)
        BY <2>8, <2>11, <3>2, <4>1, <4>2 DEF Range
      <4> QED
        BY <4>3
    <3>4. ASSUME NEW x \in VariablesIn(e) PROVE names[x] \in NamesIn(term)
      <4>1. PICK j \in DOMAIN e : e[j].op = "variable" /\ e[j].lexeme = x
        BY <2>9
      <4>2. term[j] = <<"name", names[x]>>
        BY <2>11, <3>2, <4>1
      <4>3. term[j] \in Range(term) /\ term[j][1] = "name" /\ term[j][2] = names[x]
        BY <3>2, <4>2 DEF Range
      <4> QED
        BY <4>3 DEF NamesIn
    <3> QED
      BY <3>1, <3>3, <3>4
  <2>17. ASSUME NEW node \in Range(e), node.op = "variable"
         PROVE  \E i \in DOMAIN drawn :
                  /\ <<"name", drawn[i]>> = TermNode(node, "none")
                  /\ ds[i].variable = node.lexeme
                  /\ ds[i].kind = lines[i].kind
    <3>1. PICK i \in DOMAIN ds : ds[i].variable = node.lexeme
      BY <2>7, <2>8, <2>17
    <3>2. TermNode(node, "none") = <<"name", names[node.lexeme]>>
      BY <2>11, <2>17
    <3>3. i \in DOMAIN drawn /\ drawn[i] = names[node.lexeme] /\ ds[i].kind = lines[i].kind
      BY <2>4, <3>1
    <3> QED
      BY <3>1, <3>2, <3>3
  <2> QED
    BY <2>14, <2>15, <2>16, <2>17 DEF ScriptIsClosed, e, ds, lines
<1> QED
  BY <1>1, StagesHold, BranchesHold, PTL

-----------------------------------------------------------------------------
(* Precedence                                                              *)

\* Two more elements of a sequence of braces.
LEMMA BracesAndTwo ==
  ASSUME NEW n \in Nat, NEW s, s \in Seq({"LBRACE"}), Len(s) = n, NEW x, NEW y
  PROVE  LET t == s \o <<x, y>> IN
         Listed(t, n + 2) /\ t[n + 1] = x /\ t[n + 2] = y /\ \A i \in 1 .. n : t[i] = s[i]
<1> DEFINE S == {"LBRACE", x, y}
           t == s \o <<x, y>>
<1>1. s \in Seq(S) /\ <<x, y>> \in Seq(S) /\ Len(<<x, y>>) = 2
  OBVIOUS
<1> HIDE DEF S
<1>2. t \in Seq(S) /\ Len(t) = n + 2
  BY <1>1
<1>3. t[n + 1] = x /\ t[n + 2] = y /\ \A i \in 1 .. n : t[i] = s[i]
  BY <1>1
<1> HIDE DEF t
<1>4. Listed(t, n + 2)
  BY <1>2 DEF Listed
<1> QED
  BY <1>3, <1>4 DEF t

\* One more.
LEMMA BracesAnd ==
  ASSUME NEW n \in Nat, NEW s, s \in Seq({"LBRACE"}), Len(s) = n, NEW x
  PROVE  LET t == Append(s, x) IN
         Listed(t, n + 1) /\ t[n + 1] = x /\ \A i \in 1 .. n : t[i] = s[i]
<1> DEFINE S == {"LBRACE", x}
           t == Append(s, x)
<1>1. s \in Seq(S) /\ x \in S
  OBVIOUS
<1> HIDE DEF S
<1>2. t \in Seq(S) /\ Len(t) = n + 1
  BY <1>1
<1>3. t[n + 1] = x /\ \A i \in 1 .. n : t[i] = s[i]
  BY <1>1
<1> HIDE DEF t
<1>4. Listed(t, n + 1)
  BY <1>2 DEF Listed
<1> QED
  BY <1>3, <1>4 DEF t

\* A sequence of one value.
LEMMA AllTheSame ==
  ASSUME NEW n \in Nat, NEW x, NEW s, s = [i \in 1 .. n |-> x]
  PROVE  s \in Seq({x}) /\ Len(s) = n /\ Listed(s, n) /\ \A i \in 1 .. n : s[i] = x
BY DEF Listed

\* With n tokens between them.
Apart(from, n, to) == from \in Int /\ n \in Nat /\ to = from + n + 1

\* The types of the n tokens from one on.
ListsTypes(s, ts, from, n) ==
  Listed(s, n) /\ DOMAIN s = 1 .. n /\ \A i \in 1 .. n : s[i] = ts[from + i].type

\* The types of the tokens between two tokens.
LEMMA TypesAre ==
  ASSUME NEW ts, NEW from, NEW n, NEW to, Apart(from, n, to)
  PROVE  ListsTypes(TypesBetween(ts, from, to), ts, from, n)
<1>1. to - from - 1 = n
  BY DEF Apart
<1>2. TypesBetween(ts, from, to) = [i \in 1 .. n |-> ts[from + i].type]
  BY <1>1 DEF TypesBetween
<1> QED
  BY <1>2 DEF Listed, ListsTypes

\* The tokens around what a span wraps.
LEMMA WrapsTypes ==
  ASSUME NEW ts, NEW span, NEW from, NEW to, Wraps(ts, span, from, to)
  PROVE  LET n == from - span[1]
             after == TypesBetween(ts, to, span[2] + 1)
             braces == [i \in DOMAIN after |-> "LBRACE"]
         IN /\ n \in Nat /\ DOMAIN after = 1 .. n
            /\ \A i \in DOMAIN after : after[i] = "RBRACE"
            /\ braces \in Seq({"LBRACE"}) /\ Len(braces) = n /\ Listed(braces, n)
            /\ \A i \in 1 .. n : braces[i] = "LBRACE" /\ ts[span[1] - 1 + i].type = "LBRACE"
<1> DEFINE n == from - span[1]
           high == span[2] + 1
           after == TypesBetween(ts, to, high)
           braces == [i \in DOMAIN after |-> "LBRACE"]
<1>1. /\ span[1] \in Nat /\ span[2] \in Nat /\ from \in Nat /\ to \in Nat
      /\ span[1] <= from /\ to <= span[2] /\ n = span[2] - to
      /\ \A k \in span[1] .. from - 1 : ts[k].type = "LBRACE"
      /\ \A k \in to + 1 .. span[2] : ts[k].type = "RBRACE"
  BY DEF Wraps
<1>2. /\ n \in Nat
      /\ \A i \in 1 .. n : to + i \in to + 1 .. span[2] /\ span[1] - 1 + i \in span[1] .. from - 1
  BY <1>1
<1>0. Apart(to, n, high) /\ to \in Nat /\ n \in Nat /\ high \in Nat
  BY <1>1 DEF Apart
<1> HIDE DEF n, high
<1>3. ListsTypes(after, ts, to, n)
  BY <1>0, TypesAre
<1>4. \A i \in 1 .. n : after[i] = "RBRACE" /\ ts[span[1] - 1 + i].type = "LBRACE"
  BY <1>1, <1>2, <1>3 DEF ListsTypes
<1> HIDE DEF after
<1>5. braces = [i \in 1 .. n |-> "LBRACE"]
  BY <1>3 DEF ListsTypes
<1>6. braces \in Seq({"LBRACE"}) /\ Len(braces) = n /\ Listed(braces, n) /\ \A i \in 1 .. n : braces[i] = "LBRACE"
  BY <1>2, <1>5, AllTheSame
<1> HIDE DEF braces
<1> QED
  BY <1>2, <1>3, <1>4, <1>6 DEF ListsTypes, after, braces, n, high

\* Nothing but braces that close.
Closes(types) == \A i \in DOMAIN types : types[i] = "RBRACE"

\* After the last operand stand the braces that close.
LEMMA AfterIt ==
  ASSUME NEW ts, NEW span, NEW from, NEW to, Wraps(ts, span, from, to), NEW high, high = span[2] + 1
  PROVE  Closes(TypesBetween(ts, to, high))
<1> DEFINE n == high - to - 1
<1>1. /\ n \in Nat /\ Apart(to, n, high) /\ \A i \in 1 .. n : to + i \in to + 1 .. span[2]
      /\ \A k \in to + 1 .. span[2] : ts[k].type = "RBRACE"
  BY DEF Wraps, Apart
<1> HIDE DEF n
<1>2. ListsTypes(TypesBetween(ts, to, high), ts, to, n)
  BY <1>1, TypesAre
<1> QED
  BY <1>1, <1>2 DEF ListsTypes, Closes

\* Before the first operand stands nothing but braces.
LEMMA BeforeBetween ==
  ASSUME NEW ts, NEW span, NEW from, NEW to, Wraps(ts, span, from, to)
  PROVE  TypesBetween(ts, span[1] - 1, from)
           = [i \in DOMAIN TypesBetween(ts, to, span[2] + 1) |-> "LBRACE"]
<1> DEFINE n == from - span[1]
           low == span[1] - 1
           before == TypesBetween(ts, low, from)
           braces == [i \in DOMAIN TypesBetween(ts, to, span[2] + 1) |-> "LBRACE"]
<1>1. /\ n \in Nat /\ braces \in Seq({"LBRACE"}) /\ Len(braces) = n /\ Listed(braces, n)
      /\ \A i \in 1 .. n : braces[i] = "LBRACE" /\ ts[low + i].type = "LBRACE"
  BY WrapsTypes
<1>2. Apart(low, n, from)
  <2>1. n \in Nat /\ span[1] \in Nat /\ from \in Nat
    BY <1>1 DEF Wraps
  <2> HIDE DEF braces
  <2> QED
    BY <2>1 DEF Apart
<1> HIDE DEF n, braces, low
<1>3. ListsTypes(before, ts, low, n)
  BY <1>2, TypesAre
<1> HIDE DEF before
<1>4. before = braces
  BY <1>1, <1>3, SameSequence DEF ListsTypes
<1> QED
  BY <1>4 DEF before, braces, low

\* Before the operand of a sign stands the sign, and braces before it.
LEMMA BeforeSign ==
  ASSUME NEW ts, NEW span, NEW from, NEW to, Wraps(ts, span, from, to)
  PROVE  TypesBetween(ts, span[1] - 1, from + 1)
           = Append([i \in DOMAIN TypesBetween(ts, to, span[2] + 1) |-> "LBRACE"], ts[from].type)
<1> DEFINE n == from - span[1]
           low == span[1] - 1
           next == from + 1
           m == n + 1
           before == TypesBetween(ts, low, next)
           braces == [i \in DOMAIN TypesBetween(ts, to, span[2] + 1) |-> "LBRACE"]
           sign == ts[from].type
           all == Append(braces, sign)
<1>1. /\ n \in Nat /\ braces \in Seq({"LBRACE"}) /\ Len(braces) = n /\ Listed(braces, n)
      /\ \A i \in 1 .. n : braces[i] = "LBRACE" /\ ts[low + i].type = "LBRACE"
  BY WrapsTypes
<1>0. n \in Nat
  BY DEF Wraps
<1>2. /\ Apart(low, m, next) /\ low + m = from /\ m \in 1 .. m
      /\ \A i \in 1 .. n : i \in 1 .. m
      /\ \A i \in 1 .. m : i = m \/ i \in 1 .. n
  BY <1>0 DEF Wraps, Apart
<1>3. Listed(all, m) /\ all[m] = sign /\ \A i \in 1 .. n : all[i] = "LBRACE"
  <2> HIDE DEF sign, n, braces
  <2> QED
    BY <1>1, BracesAnd
<1> HIDE DEF n, m, low, next, braces, all
<1>4. ListsTypes(before, ts, low, m)
  BY <1>2, TypesAre
<1> HIDE DEF before
<1>5. \A i \in 1 .. m : before[i] = all[i]
  BY <1>1, <1>2, <1>3, <1>4 DEF ListsTypes
<1>6. before = all
  BY <1>3, <1>4, <1>5, SameSequence DEF ListsTypes
<1> QED
  BY <1>6 DEF before, all, braces, low, next

\* A name with its brace after the braces around it, as many as close later.
NameStands(before, name, after) ==
  LET braces == [i \in DOMAIN after |-> "LBRACE"]
  IN Closes(after) /\ before = SubSeq(braces, 2, Len(braces)) \o <<name, "LBRACE">>

\* The tokens next to what is wrapped with a name and braces, and to its span.
NextTo(span, from, to, low, next, last, high) ==
  low = span[1] - 1 /\ next = from + 2 /\ last = to - 1 /\ high = span[2] + 1

\* Before the braces of a fraction or a root stands its name, and braces before it.
LEMMA BeforeName ==
  ASSUME NEW ts, NEW span, NEW from, NEW to, Wraps(ts, span, from, to), to > 0,
         ts[to].type = "RBRACE", ts[from + 1].type = "LBRACE",
         NEW low, NEW next, NEW last, NEW high, NextTo(span, from, to, low, next, last, high)
  PROVE  NameStands(TypesBetween(ts, low, next), ts[from].type, TypesBetween(ts, last, high))
<1> DEFINE n == from - span[1]
           m == n + 1
           o == n + 2
           before == TypesBetween(ts, low, next)
           after == TypesBetween(ts, last, high)
           braces == [i \in DOMAIN after |-> "LBRACE"]
           name == ts[from].type
           outer == SubSeq(braces, 2, Len(braces))
           all == outer \o <<name, "LBRACE">>
<1>1. /\ span[1] \in Nat /\ span[2] \in Nat /\ from \in Nat /\ to \in Nat
      /\ span[1] <= from /\ to <= span[2] /\ n = span[2] - to /\ n \in Nat
      /\ \A k \in span[1] .. from - 1 : ts[k].type = "LBRACE"
      /\ \A k \in to + 1 .. span[2] : ts[k].type = "RBRACE"
  BY DEF Wraps
<1>0. n \in Nat /\ Apart(low, o, next) /\ Apart(last, m, high)
  BY <1>1 DEF Apart, NextTo
<1>2. /\ m \in Nat /\ low + m = from /\ low + o = from + 1
      /\ \A i \in 1 .. n : low + i \in span[1] .. from - 1
      /\ \A i \in 1 .. m : last + i = to \/ last + i \in to + 1 .. span[2]
  BY <1>1 DEF NextTo
<1>3. /\ m \in 1 .. o /\ o \in 1 .. o /\ \A i \in 1 .. n : i \in 1 .. o
      /\ \A i \in 1 .. o : i = m \/ i = o \/ i \in 1 .. n
  BY <1>1
<1>4. 2 \in Int /\ m - 2 + 1 = n /\ \A i \in 1 .. n : i + 1 \in 1 .. m /\ 2 + i - 1 = i + 1
  BY <1>1
<1>5. outer \in Seq({"LBRACE"}) /\ Len(outer) = n =>
        /\ Listed(all, o) /\ all[m] = name /\ all[o] = "LBRACE"
        /\ \A i \in 1 .. n : all[i] = outer[i]
  <2> HIDE DEF n, name, outer
  <2> QED
    BY <1>0, BracesAndTwo
<1> HIDE DEF n, m, o
<1>6. ListsTypes(after, ts, last, m)
  BY <1>0, TypesAre
<1>7. Closes(after)
  BY <1>1, <1>2, <1>6 DEF ListsTypes, Closes
<1> HIDE DEF after
<1>8. braces \in Seq({"LBRACE"}) /\ Len(braces) = m /\ \A i \in 1 .. m : braces[i] = "LBRACE"
  BY <1>2, <1>6, AllTheSame DEF ListsTypes
<1> HIDE DEF braces
<1>9. outer \in Seq({"LBRACE"}) /\ Len(outer) = n /\ \A i \in 1 .. n : outer[i] = "LBRACE"
  <2>1. Len(outer) = n /\ \A i \in 1 .. n : outer[i] = braces[i + 1]
    BY <1>1, <1>4, <1>8
  <2>2. outer \in Seq({"LBRACE"})
    BY <1>1, <1>4, <1>8
  <2> QED
    BY <1>4, <1>8, <2>1, <2>2
<1> HIDE DEF outer
<1>10. /\ Listed(all, o) /\ all[m] = name /\ all[o] = "LBRACE"
       /\ \A i \in 1 .. n : all[i] = "LBRACE"
  BY <1>5, <1>9
<1> HIDE DEF all
<1>11. ListsTypes(before, ts, low, o)
  BY <1>0, TypesAre
<1> HIDE DEF before
<1>12. before[m] = name /\ before[o] = "LBRACE" /\ \A i \in 1 .. n : before[i] = "LBRACE"
  BY <1>1, <1>2, <1>3, <1>11 DEF ListsTypes
<1>13. \A i \in 1 .. o : before[i] = all[i]
  BY <1>3, <1>10, <1>12
<1>14. before = all
  BY <1>10, <1>11, <1>13, SameSequence DEF ListsTypes
<1> QED
  BY <1>7, <1>14 DEF before, all, outer, braces, name, after, NameStands

\* An operator between its operands is well grouped.
LEMMA BetweenGrouped ==
  ASSUME NEW ts, NEW e \in Trees, NEW k \in 1 .. Len(e), e[k].op \in DOMAIN OperatorTypes,
         SitsOver(ts, e[k], e[FirstOperand(e, k)], e[k - 1])
  PROVE  WellGrouped(ts, e, k)
<1> DEFINE op == e[k].op
           first == e[FirstOperand(e, k)]
           last == e[k - 1]
           after == TypesBetween(ts, last.span[2], e[k].span[2] + 1)
           before == TypesBetween(ts, e[k].span[1] - 1, first.span[1])
           braces == [i \in DOMAIN after |-> "LBRACE"]
<1>1. op \in Binaries /\ op \notin Leaves /\ op \notin Unaries /\ op \in DOMAIN OperatorTypes
  BY OperatorPlaces, OperationsDiffer
<1>2. Operands(e, k) = <<FirstOperand(e, k), k - 1>>
  BY <1>1, OperandsOf DEF FirstOperand
<1>3. e[Operands(e, k)[1]] = first /\ e[Operands(e, k)[2]] = last
  BY <1>2
<1>4. /\ Wraps(ts, e[k].span, first.span[1], last.span[2])
      /\ Binds(ts, first, IF op = "power" THEN 5 ELSE Level(op))
      /\ op \in Sums \cup Products => Binds(ts, last, IF op = "juxt" THEN 4 ELSE Level(op) + 1)
      /\ TypesBetween(ts, first.span[2], last.span[1]) = OperatorTypes[op]
      /\ op = "juxt" => ts[last.span[1]].type # "NUMBER"
  BY <1>1 DEF SitsOver, SitsBetween
<1>5. before = braces /\ \A i \in DOMAIN after : after[i] = "RBRACE"
  <2>1. before = braces
    BY <1>4, BeforeBetween
  <2>2. \A i \in DOMAIN after : after[i] = "RBRACE"
    <3> DEFINE high == e[k].span[2] + 1
    <3>1. high = e[k].span[2] + 1
      OBVIOUS
    <3> HIDE DEF high
    <3>2. Closes(TypesBetween(ts, last.span[2], high))
      BY <1>4, <3>1, AfterIt
    <3> QED
      BY <3>2 DEF Closes, high
  <2> QED
    BY <2>1, <2>2
<1> DEFINE arm(f, l) ==
             /\ Binds(ts, f, IF op = "power" THEN 5 ELSE Level(op))
             /\ op \in Sums \cup Products =>
                  Binds(ts, l, IF op = "juxt" THEN 4 ELSE Level(op) + 1)
             /\ TypesBetween(ts, f.span[2], l.span[1]) = OperatorTypes[op]
             /\ op = "juxt" => ts[l.span[1]].type # "NUMBER"
             /\ TypesBetween(ts, e[k].span[1] - 1, f.span[1]) = braces
             /\ \A i \in DOMAIN after : after[i] = "RBRACE"
<1>6. WellGrouped(ts, e, k) <=> arm(e[Operands(e, k)[1]], e[Operands(e, k)[2]])
  BY <1>1 DEF WellGrouped
<1>7. arm(first, last)
  BY <1>4, <1>5
<1> HIDE DEF arm, first, last
<1> QED
  BY <1>3, <1>6, <1>7

\* A sign before its operand is well grouped.
LEMMA BeforeGrouped ==
  ASSUME NEW ts, NEW e \in Trees, NEW k \in 1 .. Len(e), e[k].op \in Unaries,
         SitsOver(ts, e[k], e[FirstOperand(e, k)], e[k - 1])
  PROVE  WellGrouped(ts, e, k)
<1> DEFINE op == e[k].op
           last == e[k - 1]
           after == TypesBetween(ts, last.span[2], e[k].span[2] + 1)
           braces == [i \in DOMAIN after |-> "LBRACE"]
           sign == IF op = "plus" THEN "PLUS" ELSE "MINUS"
           arm(f) ==
             /\ Binds(ts, f, 4)
             /\ TypesBetween(ts, e[k].span[1] - 1, f.span[1]) = Append(braces, sign)
             /\ \A i \in DOMAIN after : after[i] = "RBRACE"
<1>1. op \notin Binaries /\ op \notin Leaves /\ op \in Unaries /\ op \notin DOMAIN OperatorTypes
  BY OperatorPlaces, OperationsDiffer
<1>2. Operands(e, k) = <<k - 1>> /\ FirstOperand(e, k) = k - 1
  BY <1>1, OperandsOf DEF FirstOperand
<1>3. e[Operands(e, k)[1]] = last
  BY <1>2
<1>4. WellGrouped(ts, e, k) <=> arm(e[Operands(e, k)[1]])
  BY <1>1 DEF WellGrouped
<1>5. arm(last)
  <2> DEFINE from == last.span[1] - 1
  <2>1. SitsBefore(ts, e[k], last)
    BY <1>2 DEF SitsOver
  <2>2. /\ last.span[1] \in Places /\ Wraps(ts, e[k].span, from, last.span[2])
        /\ Binds(ts, last, 4) /\ ts[from].type = sign
    BY <2>1 DEF SitsBefore
  <2>3. from + 1 = last.span[1]
    BY <2>2 DEF Places
  <2>4. TypesBetween(ts, e[k].span[1] - 1, from + 1) = Append(braces, sign)
    <3>1. ts[from].type = sign /\ Wraps(ts, e[k].span, from, last.span[2])
      BY <2>2
    <3> HIDE DEF from, sign
    <3>2. TypesBetween(ts, e[k].span[1] - 1, from + 1) = Append(braces, ts[from].type)
      BY <3>1, BeforeSign
    <3> QED
      BY <3>1, <3>2
  <2>5. \A i \in DOMAIN after : after[i] = "RBRACE"
    <3> DEFINE high == e[k].span[2] + 1
    <3>1. high = e[k].span[2] + 1
      OBVIOUS
    <3> HIDE DEF high, from
    <3>2. Closes(TypesBetween(ts, last.span[2], high))
      BY <2>2, <3>1, AfterIt
    <3> QED
      BY <3>2 DEF Closes, high
  <2> HIDE DEF from, after, sign
  <2> QED
    BY <2>2, <2>3, <2>4, <2>5
<1> HIDE DEF arm, last
<1> QED
  BY <1>3, <1>4, <1>5

\* Two tokens before a token, and one after.
LEMMA TwoBefore ==
  ASSUME NEW a \in Nat, NEW b \in Nat
  PROVE  a - 2 + 2 = a /\ a - 2 + 1 = a - 1 /\ b + 1 > 0 /\ b + 1 - 1 = b
OBVIOUS

\* A fraction or a root with its operands in braces is well grouped.
LEMMA AroundGrouped ==
  ASSUME NEW ts, NEW e \in Trees, NEW k \in 1 .. Len(e), e[k].op \in {"frac", "sqrt"},
         SitsOver(ts, e[k], e[FirstOperand(e, k)], e[k - 1])
  PROVE  WellGrouped(ts, e, k)
<1> DEFINE op == e[k].op
           first == e[FirstOperand(e, k)]
           last == e[k - 1]
           low == e[k].span[1] - 1
           high == e[k].span[2] + 1
           after == TypesBetween(ts, last.span[2], high)
           braces == [i \in DOMAIN after |-> "LBRACE"]
           name == IF op = "frac" THEN "FRAC" ELSE "SQRT"
           arm(f, l) ==
             /\ TypesBetween(ts, low, f.span[1])
                  = SubSeq(braces, 2, Len(braces)) \o <<name, "LBRACE">>
             /\ \A i \in DOMAIN after : after[i] = "RBRACE"
             /\ op = "frac" =>
                  TypesBetween(ts, f.span[2], l.span[1]) = <<"RBRACE", "LBRACE">>
<1>1. /\ op \notin Leaves /\ op \notin Unaries /\ op \notin DOMAIN OperatorTypes
      /\ op \in {"frac", "sqrt"} /\ (op = "frac" => op \in Binaries)
      /\ (op = "sqrt" => op \notin Binaries /\ op \in Unaries \cup {"sqrt"})
  BY OperatorPlaces, OperationsDiffer DEF Leaves, Unaries
<1>2. /\ Operands(e, k)[1] = FirstOperand(e, k)
      /\ op = "frac" => Operands(e, k)[2] = k - 1
  <2>1. CASE op = "frac"
    <3>1. Operands(e, k) = <<FirstOperand(e, k), k - 1>>
      BY <1>1, <2>1, OperandsOf DEF FirstOperand
    <3> QED
      BY <3>1
  <2>2. CASE op = "sqrt"
    <3>1. Operands(e, k) = <<k - 1>> /\ FirstOperand(e, k) = k - 1
      BY <1>1, <2>2, OperandsOf DEF FirstOperand
    <3> QED
      BY <2>2, <3>1
  <2> QED
    BY <1>1, <2>1, <2>2
<1>3. WellGrouped(ts, e, k) <=> arm(e[Operands(e, k)[1]], e[Operands(e, k)[2]])
  BY <1>1 DEF WellGrouped
<1>4. arm(first, last)
  <2> DEFINE from == first.span[1] - 2
             to == last.span[2] + 1
  <2>1. /\ first.span[1] \in Places /\ last.span[2] \in Nat
        /\ Wraps(ts, e[k].span, from, to) /\ ts[from].type = name
        /\ ts[first.span[1] - 1].type = "LBRACE" /\ ts[to].type = "RBRACE"
        /\ op = "frac" => TypesBetween(ts, first.span[2], last.span[1]) = <<"RBRACE", "LBRACE">>
    BY <1>1 DEF SitsOver, SitsAround
  <2>2. /\ from + 2 = first.span[1] /\ from + 1 = first.span[1] - 1
        /\ to > 0 /\ to - 1 = last.span[2]
    <3>1. first.span[1] \in Nat /\ last.span[2] \in Nat
      BY <2>1 DEF Places
    <3> DEFINE a == first.span[1]
               b == last.span[2]
    <3>2. a \in Nat /\ b \in Nat /\ from = a - 2 /\ to = b + 1
      BY <3>1
    <3> HIDE DEF a, b, from, to
    <3>3. from + 2 = a /\ from + 1 = a - 1 /\ to > 0 /\ to - 1 = b
      BY <3>2, TwoBefore
    <3> HIDE DEF first, last
    <3> QED
      BY <3>3 DEF a, b
  <2>3. NextTo(e[k].span, from, to, low, first.span[1], last.span[2], high)
    BY <2>2 DEF NextTo
  <2> HIDE DEF low, high, from, to, first, last, name
  <2>4. ts[from + 1].type = "LBRACE"
    BY <2>1, <2>2
  <2>5. NameStands(TypesBetween(ts, low, first.span[1]), name, after)
    BY <2>1, <2>2, <2>3, <2>4, BeforeName
  <2>6. \A i \in DOMAIN after : after[i] = "RBRACE"
    BY <2>5 DEF Closes, NameStands
  <2>7. TypesBetween(ts, low, first.span[1])
          = SubSeq(braces, 2, Len(braces)) \o <<name, "LBRACE">>
    BY <2>5 DEF NameStands
  <2> HIDE DEF after, braces
  <2> QED
    BY <2>1, <2>6, <2>7
<1>5. arm(first, last) => arm(e[Operands(e, k)[1]], e[Operands(e, k)[2]])
  <2>1. CASE op = "frac"
    BY <1>2, <2>1
  <2>2. CASE op = "sqrt"
    <3>1. e[Operands(e, k)[1]] = first
      BY <1>2
    <3>2. op # "frac"
      BY <2>2
    <3> HIDE DEF op, first, last, after, braces, name, low
    <3> QED
      BY <3>1, <3>2
  <2> QED
    BY <1>1, <2>1, <2>2
<1> HIDE DEF arm
<1> QED
  BY <1>3, <1>4, <1>5

\* Nodes that sit among their tokens are well grouped.
LEMMA AllGrouped ==
  ASSUME NEW ts, NEW e \in Trees, AllSit(ts, e), NEW k \in 1 .. Len(e)
  PROVE  WellGrouped(ts, e, k)
<1>1. e[k].op \in Operations
  <2>1. e[k] \in Nodes
    BY TreeFacts
  <2> QED
    BY <2>1 DEF Nodes
<1>2. CASE e[k].op \in Leaves
  <2>1. e[k].op \notin DOMAIN OperatorTypes /\ e[k].op \notin Unaries
    BY <1>2, OperatorPlaces, OperationsDiffer
  <2> QED
    BY <1>2, <2>1 DEF WellGrouped
<1>3. CASE e[k].op \notin Leaves
  <2>1. SitsOver(ts, e[k], e[FirstOperand(e, k)], e[k - 1])
    BY <1>3 DEF AllSit, Sits
  <2>2. e[k].op \in DOMAIN OperatorTypes \/ e[k].op \in Unaries \/ e[k].op \in {"frac", "sqrt"}
    BY <1>1, <1>3, OperatorPlaces, OperationsDiffer
  <2> QED
    BY <2>1, <2>2, BetweenGrouped, BeforeGrouped, AroundGrouped
<1> QED
  BY <1>2, <1>3

\* For every text, the tree that is analyzed groups its tokens by precedence: each operand
\* binds as tightly as its operator demands, sums and products group to the left, nothing
\* but the operator and braces stands between the operands, and a number never follows a
\* factor without an operator (Parser._parse_expression and what it calls).
THEOREM PrecedenceKept == CompilerSpec => []PrecedenceHolds
<1>1. StageInv => PrecedenceHolds
  <2> SUFFICES ASSUME StageInv, stage = "analyze", NEW k \in DOMAIN program.expression
               PROVE  WellGrouped(stream, program.expression, k)
    BY DEF PrecedenceHolds
  <2>1. program.expression \in Trees /\ AllSit(stream, program.expression)
    BY DEF StageInv, Programs
  <2>2. k \in 1 .. Len(program.expression)
    BY <2>1, TreeFacts
  <2> QED
    BY <2>1, <2>2, AllGrouped
<1> QED
  BY <1>1, StagesHold, PTL

-----------------------------------------------------------------------------
(* The tree of a node                                                      *)

\* The nodes between two places lie after a third.
After(e, low, from, to) == \A j \in from .. to : low <= j - e[j].size

\* What lies below a node lies after where it begins.
Nested(e, k) == After(e, k - e[k].size, k - e[k].size + 1, k)

LEMMA AfterOne ==
  ASSUME NEW e, NEW k \in Nat, NEW s \in Nat, NEW size, size = s + 1, e[k].size = size,
         After(e, k - 1 - s, k - 1 - s + 1, k - 1)
  PROVE  After(e, k - size, k - size + 1, k)
<1>1. k - size = k - 1 - s
  OBVIOUS
<1>2. \A j \in k - size + 1 .. k : j = k \/ j \in k - 1 - s + 1 .. k - 1
  OBVIOUS
<1>3. k - size <= k - e[k].size
  OBVIOUS
<1> QED
  BY <1>1, <1>2, <1>3 DEF After

LEMMA AfterTwo ==
  ASSUME NEW e, NEW k \in Nat, NEW s \in Nat, NEW l \in Nat, NEW left \in Nat, NEW size,
         left = k - 1 - s, size = l + s + 1, e[k].size = size,
         \A j \in k - 1 - s + 1 .. k - 1 : e[j].size \in Nat /\ j \in Nat,
         After(e, k - 1 - s, k - 1 - s + 1, k - 1), After(e, left - l, left - l + 1, left)
  PROVE  After(e, k - size, k - size + 1, k)
<1>1. k - size = left - l /\ k - size <= k - 1 - s
  OBVIOUS
<1>2. \A j \in k - size + 1 .. k :
        j = k \/ j \in k - 1 - s + 1 .. k - 1 \/ j \in left - l + 1 .. left
  OBVIOUS
<1>3. k - size <= k - e[k].size
  OBVIOUS
<1>4. \A j \in k - 1 - s + 1 .. k - 1 : k - size <= j - e[j].size
  <2> TAKE j \in k - 1 - s + 1 .. k - 1
  <2> DEFINE n == j - e[j].size
  <2>1. k - 1 - s <= n /\ n \in Int
    BY DEF After
  <2> HIDE DEF n
  <2>2. k - size <= n
    BY <1>1, <2>1
  <2> QED
    BY <2>2 DEF n
<1>5. \A j \in left - l + 1 .. left : k - size <= j - e[j].size
  BY <1>1 DEF After
<1> QED
  BY <1>2, <1>3, <1>4, <1>5 DEF After

\* Trees lie within trees.
LEMMA TreesNest ==
  ASSUME NEW e \in Trees, NEW k \in 1 .. Len(e)
  PROVE  Nested(e, k)
<1> DEFINE H == {i \in 1 .. Len(e) : Nested(e, i)}
<1>1. /\ Len(e) \in Nat
      /\ \A i \in 1 .. Len(e) : e[i].size \in Nat /\ e[i].size > 0 /\ e[i].op \in Operations
  BY TreeFacts DEF Nodes
<1>2. ASSUME NEW i \in 1 .. Len(e), \A j \in 1 .. i - 1 : Nested(e, j)
      PROVE  Nested(e, i)
  <2> DEFINE size == e[i].size
             s == e[i - 1].size
             left == i - 1 - s
             l == e[left].size
  <2>1. CASE e[i].op \in Leaves
    <3>1. e[i].size = 1
      BY <2>1, TreeFacts DEF Formed
    <3>2. \A j \in i - e[i].size + 1 .. i : j = i
      BY <3>1
    <3> QED
      BY <1>1, <3>2 DEF Nested, After
  <2>2. CASE e[i].op \in Unaries \cup {"sqrt"}
    <3>1. i - 1 \in 1 .. i - 1 /\ size = s + 1
      BY <1>1, <2>2, OperandsOf
    <3>2. i - 1 \in 1 .. Len(e) /\ i \in Nat
      BY <1>1, <3>1
    <3>3. s \in Nat /\ e[i].size = size
      BY <1>1, <3>2
    <3>4. After(e, i - 1 - s, i - 1 - s + 1, i - 1)
      BY <1>2, <3>1 DEF Nested
    <3> HIDE DEF s, size
    <3>5. After(e, i - size, i - size + 1, i)
      BY <3>1, <3>2, <3>3, <3>4, AfterOne
    <3> QED
      BY <3>5 DEF Nested, size
  <2>3. CASE e[i].op \in Binaries
    <3>1. i - 1 \in 1 .. i - 1 /\ left \in 1 .. i - 1 /\ size = l + s + 1
      BY <2>3, OperandsOf
    <3>2. i - 1 \in 1 .. Len(e) /\ left \in 1 .. Len(e) /\ i \in Nat /\ left \in Nat
      BY <1>1, <3>1
    <3>3. s \in Nat /\ l \in Nat /\ e[i].size = size
      BY <1>1, <3>2
    <3>4. After(e, i - 1 - s, i - 1 - s + 1, i - 1)
      BY <1>2, <3>1 DEF Nested
    <3>5. After(e, left - l, left - l + 1, left)
      BY <1>2, <3>1 DEF Nested
    <3>6. left = i - 1 - s
      OBVIOUS
    <3> HIDE DEF s, size, l, left
    <3>7. \A j \in i - 1 - s + 1 .. i - 1 : j \in 1 .. Len(e) /\ j \in Nat
      BY <1>1, <3>2, <3>3, <3>6
    <3>8. \A j \in i - 1 - s + 1 .. i - 1 : e[j].size \in Nat /\ j \in Nat
      BY <1>1, <3>7
    <3>9. After(e, i - size, i - size + 1, i)
      BY <3>1, <3>2, <3>3, <3>4, <3>5, <3>6, <3>8, AfterTwo
    <3> QED
      BY <3>9 DEF Nested, size
  <2> QED
    BY <1>1, <2>1, <2>2, <2>3, OperationsDiffer
<1>3. \A i \in 1 .. Len(e) : i \in H
  <2>1. \A i \in 1 .. Len(e) : (\A j \in 1 .. i - 1 : j \in H) => i \in H
    <3> SUFFICES ASSUME NEW i \in 1 .. Len(e), \A j \in 1 .. i - 1 : j \in H PROVE i \in H
      OBVIOUS
    <3>1. \A j \in 1 .. i - 1 : Nested(e, j)
      OBVIOUS
    <3> QED
      BY <1>2, <3>1
  <2> HIDE DEF H
  <2>2. 1 \in Nat
    OBVIOUS
  <2> QED
    BY <1>1, <2>1, <2>2, SmallerFirst
<1> QED
  BY <1>3

\* Where the tree of a node is: a copy of the nodes behind a place.
CopyOf(t, e, d, k) ==
  /\ d \in Nat /\ Len(t) \in Nat /\ Len(t) > 0 /\ d + Len(t) = k /\ t \in Seq(Nodes)
  /\ \A j \in 1 .. Len(t) : d + j \in 1 .. Len(e) /\ t[j] = e[d + j]

LEMMA BelowIs ==
  ASSUME NEW e \in Trees, NEW k \in 1 .. Len(e)
  PROVE  CopyOf(Below(e, k), e, k - e[k].size, k) /\ Len(Below(e, k)) = e[k].size
<1> DEFINE n == e[k].size
<1>1. e \in Seq(Nodes) /\ n \in Nat /\ n > 0 /\ n <= k /\ k \in 1 .. Len(e) /\ Len(e) \in Nat
  BY TreeFacts DEF Formed
<1> HIDE DEF n
<1>2. k - n + 1 \in 1 .. Len(e) /\ k - n \in Nat /\ k - n + n = k /\ k - (k - n + 1) + 1 = n
      /\ k - n + 1 <= k
      /\ \A j \in 1 .. n : k - n + j \in 1 .. Len(e) /\ k - n + 1 + j - 1 = k - n + j
  BY <1>1
<1>3. /\ SubSeq(e, k - n + 1, k) \in Seq(Nodes) /\ Len(SubSeq(e, k - n + 1, k)) = n
      /\ \A j \in 1 .. n : SubSeq(e, k - n + 1, k)[j] = e[k - n + 1 + j - 1]
  <2> DEFINE p == k - n + 1
  <2>1. p \in 1 .. Len(e) /\ k \in 1 .. Len(e) /\ k - p + 1 = n /\ p <= k
    BY <1>1, <1>2
  <2> HIDE DEF p
  <2>2. SubSeq(e, p, k) \in Seq(Nodes)
    BY <1>1, <2>1
  <2>3. Len(SubSeq(e, p, k)) = k - p + 1
    BY <1>1, <2>1
  <2>4. \A j \in 1 .. k - p + 1 : SubSeq(e, p, k)[j] = e[p + j - 1]
    BY <1>1, <2>1
  <2> QED
    BY <2>1, <2>2, <2>3, <2>4 DEF p
<1>4. \A j \in 1 .. n : SubSeq(e, k - n + 1, k)[j] = e[k - n + j]
  BY <1>2, <1>3
<1>5. Below(e, k) = SubSeq(e, k - n + 1, k)
  BY DEF Below, n
<1>6. CopyOf(Below(e, k), e, k - n, k) /\ Len(Below(e, k)) = n
  BY <1>1, <1>2, <1>3, <1>4, <1>5 DEF CopyOf
<1> QED
  BY <1>6 DEF n

\* Sums of what lies where.
LEMMA PlaceOfLeft ==
  ASSUME NEW d \in Nat, NEW n \in Nat, NEW j \in 1 .. n, NEW r \in Nat, NEW l \in Nat, NEW s,
         s = r + l + 1, l > 0, s <= j
  PROVE  /\ j > 1 /\ j - 1 > r /\ j - 1 - r \in 1 .. n /\ j - 1 - r \in 1 .. j - 1
         /\ d + (j - 1 - r) = (d + j) - 1 - r
OBVIOUS

\* A copy is a tree if its nodes have theirs within it.
LEMMA CopyFormed ==
  ASSUME NEW e \in Trees, NEW t, NEW d, NEW k, CopyOf(t, e, d, k), NEW j \in 1 .. Len(t),
         d <= (d + j) - e[d + j].size
  PROVE  Formed(t, j)
<1> DEFINE s == t[j].size
           p == d + j
<1>1. /\ d \in Nat /\ Len(t) \in Nat /\ j \in Nat
      /\ \A i \in 1 .. Len(t) : d + i \in 1 .. Len(e) /\ t[i] = e[d + i]
  BY DEF CopyOf
<1>2. /\ p \in 1 .. Len(e) /\ t[j] = e[p]
      /\ \A i \in 1 .. Len(e) : Formed(e, i) /\ e[i].size \in Nat /\ e[i].size > 0
  BY <1>1, TreeFacts
<1>3. Formed(e, p) /\ s = e[p].size /\ s \in Nat /\ s > 0
  BY <1>2
<1>4. s <= j
  <2>1. d <= (d + j) - s
    BY <1>3
  <2> HIDE DEF s
  <2> QED
    BY <1>1, <1>3, <2>1
<1>5. ASSUME j > 1
      PROVE  p - 1 = d + (j - 1) /\ j - 1 \in 1 .. Len(t) /\ t[j - 1] = e[p - 1]
             /\ e[p - 1].size \in Nat /\ e[p - 1].size > 0
  <2>1. p - 1 = d + (j - 1) /\ j - 1 \in 1 .. Len(t)
    BY <1>1, <1>5
  <2>2. t[j - 1] = e[p - 1] /\ p - 1 \in 1 .. Len(e)
    BY <1>1, <2>1
  <2> QED
    BY <1>2, <2>1, <2>2
<1>6. ASSUME t[j].op \in Unaries \cup {"sqrt"} PROVE j > 1 /\ s = t[j - 1].size + 1
  <2> DEFINE r == e[p - 1].size
  <2>1. p > 1 /\ s = r + 1
    BY <1>2, <1>3, <1>6 DEF Formed
  <2>2. p - 1 \in 1 .. Len(e)
    BY <1>2, <2>1
  <2>3. r \in Nat /\ r > 0
    BY <1>2, <2>2
  <2>4. j > 1
    <3> HIDE DEF r, s
    <3> QED
      BY <1>1, <1>4, <2>1, <2>3
  <2> QED
    BY <1>5, <2>1, <2>4
<1>7. ASSUME t[j].op \in Binaries
      PROVE  /\ j > 1 /\ j - 1 > t[j - 1].size
             /\ s = t[j - 1].size + t[j - 1 - t[j - 1].size].size + 1
  <2> DEFINE r == e[p - 1].size
             left == p - 1 - r
             l == e[left].size
  <2>1. p > 1 /\ p - 1 > r /\ s = r + l + 1
    BY <1>2, <1>3, <1>7 DEF Formed
  <2>2. p - 1 \in 1 .. Len(e)
    BY <1>2, <2>1
  <2>3. r \in Nat /\ r > 0
    BY <1>2, <2>2
  <2>4. left \in 1 .. Len(e)
    <3> HIDE DEF r, p
    <3> QED
      BY <1>2, <2>1, <2>2, <2>3
  <2>5. l \in Nat /\ l > 0
    BY <1>2, <2>4
  <2>6. j > 1 /\ j - 1 > r /\ j - 1 - r \in 1 .. Len(t) /\ d + (j - 1 - r) = left
    <3>1. left = (d + j) - 1 - r
      BY <1>1, <2>3
    <3> HIDE DEF r, s, l, left
    <3> QED
      BY <1>1, <1>3, <1>4, <2>1, <2>3, <2>5, <3>1, PlaceOfLeft
  <2>7. t[j - 1].size = r
    BY <1>5, <2>6
  <2>8. t[j - 1 - r] = e[left]
    <3> HIDE DEF left, r
    <3> QED
      BY <1>1, <2>6
  <2>9. t[j - 1 - r].size = l
    BY <2>8
  <2> HIDE DEF r, s, l, left
  <2> QED
    BY <2>1, <2>6, <2>7, <2>9
<1>8. t[j].op \in Leaves => s = 1
  BY <1>2, <1>3 DEF Formed
<1>9. t[j].op = "number" => t[j].lexeme \in Seq(Figures)
  BY <1>2, <1>3 DEF Formed
<1> QED
  BY <1>4, <1>6, <1>7, <1>8, <1>9 DEF Formed

\* The tree of a node is a tree.
LEMMA BelowTree ==
  ASSUME NEW e \in Trees, NEW k \in 1 .. Len(e)
  PROVE  Below(e, k) \in Trees
<1> DEFINE d == k - e[k].size
           t == Below(e, k)
<1>1. CopyOf(t, e, d, k) /\ Len(t) = e[k].size
  BY BelowIs
<1>2. /\ d \in Nat /\ Len(t) \in Nat /\ Len(t) > 0 /\ d + Len(t) = k /\ t \in Seq(Nodes)
      /\ \A j \in 1 .. Len(t) : t[j] = e[d + j]
  BY <1>1 DEF CopyOf
<1>3. After(e, d, d + 1, k)
  BY TreesNest DEF Nested
<1> HIDE DEF d, t
<1>4. \A j \in 1 .. Len(t) : d <= (d + j) - e[d + j].size
  <2> TAKE j \in 1 .. Len(t)
  <2> DEFINE i == d + j
  <2>1. i \in d + 1 .. k
    BY <1>2
  <2> HIDE DEF i
  <2>2. d <= i - e[i].size
    BY <1>3, <2>1 DEF After
  <2> QED
    BY <1>2, <2>2 DEF i
<1>5. \A j \in 1 .. Len(t) : Formed(t, j)
  BY <1>1, <1>4, CopyFormed
<1>6. Len(t) \in 1 .. Len(t)
  BY <1>2
<1>7. t[Len(t)].size = Len(t)
  BY <1>1, <1>2, <1>6
<1>8. t \in Trees
  BY <1>2, <1>5, <1>7, IsTree
<1> QED
  BY <1>8 DEF t

\* Operands are copied with their node.
ShiftedOperands(t, e, d, j) ==
  /\ DOMAIN Operands(e, d + j) = DOMAIN Operands(t, j)
  /\ \A i \in DOMAIN Operands(t, j) :
       Operands(t, j)[i] \in 1 .. j - 1 /\ Operands(e, d + j)[i] = d + Operands(t, j)[i]

LEMMA CopyOperands ==
  ASSUME NEW e \in Trees, NEW t \in Trees, NEW d, NEW k, CopyOf(t, e, d, k), NEW j \in 1 .. Len(t)
  PROVE  ShiftedOperands(t, e, d, j)
<1> DEFINE p == d + j
<1>1. /\ d \in Nat /\ Len(t) \in Nat /\ j \in Nat /\ p \in 1 .. Len(e) /\ t[j] = e[p]
      /\ \A i \in 1 .. Len(t) : t[i] = e[d + i]
  BY DEF CopyOf
<1>2. t[j].op \in Operations
  BY TreeFacts DEF Nodes
<1>3. CASE t[j].op \in Leaves
  <2>1. t[j].op \notin Unaries \cup {"sqrt"} /\ t[j].op \notin Binaries
    BY <1>3, OperationsDiffer
  <2>2. Operands(t, j) = << >> /\ Operands(e, p) = << >>
    BY <1>1, <1>3, <2>1 DEF Operands
  <2>3. DOMAIN << >> = {}
    OBVIOUS
  <2> QED
    BY <2>2, <2>3 DEF ShiftedOperands
<1>4. CASE t[j].op \in Unaries \cup {"sqrt"}
  <2>1. Operands(t, j) = <<j - 1>> /\ j - 1 \in 1 .. j - 1
    BY <1>4, OperandsOf
  <2>2. Operands(e, p) = <<p - 1>>
    <3>1. p \in 1 .. Len(e) /\ e[p].op \in Unaries \cup {"sqrt"}
      BY <1>1, <1>4
    <3> HIDE DEF p
    <3> QED
      BY <3>1, OperandsOf
  <2>3. p - 1 = d + (j - 1)
    BY <1>1
  <2> HIDE DEF p
  <2> QED
    BY <2>1, <2>2, <2>3 DEF ShiftedOperands, p
<1>5. CASE t[j].op \in Binaries
  <2> DEFINE s == t[j - 1].size
             left == j - 1 - s
  <2>1. Operands(t, j) = <<left, j - 1>> /\ j - 1 \in 1 .. j - 1 /\ left \in 1 .. j - 1
    BY <1>5, OperandsOf
  <2>2. Operands(e, p) = <<p - 1 - e[p - 1].size, p - 1>>
    <3>1. p \in 1 .. Len(e) /\ e[p].op \in Binaries
      BY <1>1, <1>5
    <3> HIDE DEF p
    <3> QED
      BY <3>1, OperandsOf
  <2>3. p - 1 = d + (j - 1) /\ j - 1 \in 1 .. Len(t)
    BY <1>1, <2>1
  <2>4. t[j - 1] = e[p - 1]
    BY <1>1, <2>3
  <2>5. s \in Nat /\ e[p - 1].size = s
    BY <2>3, <2>4, TreeFacts
  <2>6. p - 1 - s = d + left
    <3> HIDE DEF s
    <3> QED
      BY <1>1, <2>5
  <2>7. Operands(e, p) = <<d + left, d + (j - 1)>>
    BY <2>2, <2>3, <2>5, <2>6
  <2> HIDE DEF left, p
  <2> QED
    BY <2>1, <2>7 DEF ShiftedOperands, p
<1> QED
  BY <1>2, <1>3, <1>4, <1>5, OperationsDiffer

-----------------------------------------------------------------------------
(* Values of the nodes of a tree                                           *)

\* What is computed of a node from what is computed of its operands: the
\* constant that is folded, or the meaning.
Folding == [folds |-> TRUE]
ReadAs(env, sign) == [folds |-> FALSE, env |-> env, sign |-> sign]

FoldOf(node, a, b) ==
  LET op == node.op IN
  CASE op = "number" -> Finite(DecimalOf(node.lexeme))
    [] op \in {"variable", "pm"} -> None
    [] op = "plus" -> a
    [] op = "minus" -> Fold(a, a, LAMBDA v, w : Negation(v))
    [] op = "add" -> Fold(a, b, Sum)
    [] op = "subtract" -> Fold(a, b, LAMBDA v, w : Sum(v, <<w[1], -w[2]>>))
    [] op \in {"multiply", "juxt"} -> Fold(a, b, Product)
    [] op \in {"divide", "frac"} ->
         Fold(a, b, LAMBDA v, w : IF w = Zero THEN None ELSE Quotient(v, w))
    [] op = "power" ->
         Fold(a, b, LAMBDA v, w :
           IF w[2] % Scale # 0 THEN None ELSE IntegerPower(v, w[2] \div Scale))
    [] op = "sqrt" ->
         Fold(a, a, LAMBDA v, w : IF Negative(v) THEN None ELSE SquareRoot(v))

MeaningOf(node, env, sign, a, b) ==
  LET op == IF node.op = "pm" THEN sign ELSE node.op IN
  CASE op = "number" -> Finite(DecimalOf(node.lexeme))
    [] op = "variable" -> Finite(env[node.lexeme])
    [] op = "plus" -> a
    [] op = "minus" -> Strictly(a, a, LAMBDA v, w : Negation(v))
    [] op = "add" -> Strictly(a, b, Sum)
    [] op = "subtract" -> Strictly(a, b, LAMBDA v, w : Sum(v, Finite(-w[2])))
    [] op \in {"multiply", "juxt"} -> Strictly(a, b, Product)
    [] op \in {"divide", "frac"} ->
         IF b = Zero THEN Undefined ELSE Strictly(a, b, Quotient)
    [] op = "power" ->
         Strictly(a, b, LAMBDA v, w :
           IF v = Zero /\ w[2] < 0 THEN Undefined
           ELSE IF w[2] % Scale # 0 THEN None ELSE IntegerPower(v, w[2] \div Scale))
    [] op = "sqrt" ->
         Strictly(a, a, LAMBDA v, w : IF v[2] < 0 THEN Undefined ELSE SquareRoot(v))

Worth(how, node, a, b) ==
  IF how.folds THEN FoldOf(node, a, b) ELSE MeaningOf(node, how.env, how.sign, a, b)

WorthAt(how, e, f, k) == Worth(how, e[k], f[Operands(e, k)[1]], f[Operands(e, k)[2]])
Valued(how, e, f) == f = [k \in DOMAIN e |-> WorthAt(how, e, f, k)]

\* Only operands that a node has are looked at.
IsReadAs(how) == how.folds = FALSE /\ how.sign \in {"add", "subtract"}
IsHow(how) == how.folds = TRUE \/ IsReadAs(how)

LEMMA WorthOfLeaf ==
  ASSUME NEW how, IsHow(how), NEW node, node.op \in Leaves, NEW a, NEW b, NEW c, NEW d
  PROVE  Worth(how, node, a, b) = Worth(how, node, c, d)
<1>1. node.op = "number" \/ node.op = "variable"
  BY DEF Leaves
<1>2. FoldOf(node, a, b) = FoldOf(node, c, d)
  BY <1>1 DEF FoldOf
<1>3. MeaningOf(node, how.env, how.sign, a, b) = MeaningOf(node, how.env, how.sign, c, d)
  BY <1>1 DEF MeaningOf
<1> QED
  BY <1>2, <1>3 DEF Worth

LEMMA WorthOfOne ==
  ASSUME NEW how, IsHow(how), NEW node, node.op \in Unaries \cup {"sqrt"}, NEW a, NEW b, NEW d
  PROVE  Worth(how, node, a, b) = Worth(how, node, a, d)
<1>1. node.op = "plus" \/ node.op = "minus" \/ node.op = "sqrt"
  BY DEF Unaries
<1>2. FoldOf(node, a, b) = FoldOf(node, a, d)
  BY <1>1 DEF FoldOf
<1>3. MeaningOf(node, how.env, how.sign, a, b) = MeaningOf(node, how.env, how.sign, a, d)
  BY <1>1 DEF MeaningOf
<1> QED
  BY <1>2, <1>3 DEF Worth

\* Two assignments of values that agree on the operands of a node agree on it.
LEMMA WorthLooksBack ==
  ASSUME NEW how, IsHow(how), NEW e \in Trees, NEW k \in 1 .. Len(e), NEW f, NEW g,
         \A j \in 1 .. k - 1 : f[j] = g[j]
  PROVE  WorthAt(how, e, f, k) = WorthAt(how, e, g, k)
<1>1. e[k].op \in Operations
  BY TreeFacts DEF Nodes
<1>2. CASE e[k].op \in Leaves
  BY <1>2, WorthOfLeaf DEF WorthAt
<1>3. CASE e[k].op \in Unaries \cup {"sqrt"}
  <2>1. Operands(e, k)[1] \in 1 .. k - 1
    BY <1>3, OperandsOf
  <2>2. f[Operands(e, k)[1]] = g[Operands(e, k)[1]]
    BY <2>1
  <2> QED
    BY <1>3, <2>2, WorthOfOne DEF WorthAt
<1>4. CASE e[k].op \in Binaries
  <2>1. Operands(e, k)[1] \in 1 .. k - 1 /\ Operands(e, k)[2] \in 1 .. k - 1
    BY <1>4, OperandsOf
  <2> QED
    BY <2>1 DEF WorthAt
<1> QED
  BY <1>1, <1>2, <1>3, <1>4, OperationsDiffer

\* Every tree has values.
LEMMA ValuesExist ==
  ASSUME NEW how, IsHow(how), NEW e \in Trees
  PROVE  \E f : Valued(how, e, f)
<1> DEFINE n == Len(e)
           On(f) == f = [k \in 1 .. n |-> f[k]]
           Upto(i) == \E f : On(f) /\ \A k \in 1 .. i : f[k] = WorthAt(how, e, f, k)
           H == {i \in 1 .. n : Upto(i)}
<1>1. n \in Nat /\ n > 0 /\ DOMAIN e = 1 .. n
  BY TreeFacts
<1>2. ASSUME NEW i \in 1 .. n, \A j \in 1 .. i - 1 : j \in H PROVE i \in H
  <2>1. PICK f : On(f) /\ \A k \in 1 .. i - 1 : f[k] = WorthAt(how, e, f, k)
    <3>1. CASE i = 1
      <4>1. \A k \in 1 .. i - 1 : FALSE
        BY <3>1
      <4>2. On([k \in 1 .. n |-> 0])
        OBVIOUS
      <4> QED
        BY <4>1, <4>2
    <3>2. CASE i # 1
      <4>1. i - 1 \in 1 .. i - 1
        BY <3>2
      <4> QED
        BY <1>2, <4>1
    <3> QED
      BY <3>1, <3>2
  <2> DEFINE g == [k \in 1 .. n |-> IF k = i THEN WorthAt(how, e, f, i) ELSE f[k]]
  <2>2. /\ On(g) /\ g[i] = WorthAt(how, e, f, i)
        /\ \A k \in 1 .. n : k # i => g[k] = f[k]
    OBVIOUS
  <2> HIDE DEF g
  <2>3. \A k \in 1 .. i - 1 : g[k] = f[k]
    BY <1>1, <2>2
  <2>4. \A k \in 1 .. i : WorthAt(how, e, g, k) = WorthAt(how, e, f, k)
    <3> TAKE k \in 1 .. i
    <3>1. k \in 1 .. n /\ \A j \in 1 .. k - 1 : j \in 1 .. i - 1
      BY <1>1
    <3>2. \A j \in 1 .. k - 1 : g[j] = f[j]
      BY <2>3, <3>1
    <3> QED
      BY <3>1, <3>2, WorthLooksBack
  <2>5. \A k \in 1 .. i : g[k] = WorthAt(how, e, g, k)
    <3>1. \A k \in 1 .. i : k = i \/ k \in 1 .. i - 1
      BY <1>1
    <3> QED
      BY <2>1, <2>2, <2>3, <2>4, <3>1
  <2> QED
    BY <2>2, <2>5
<1>3. \A i \in 1 .. n : (\A j \in 1 .. i - 1 : j \in H) => i \in H
  BY <1>2
<1>4. n \in H
  <2> HIDE DEF H
  <2>1. 1 \in Nat
    OBVIOUS
  <2>2. \A i \in 1 .. n : i \in H
    BY <1>1, <1>3, <2>1, SmallerFirst
  <2> QED
    BY <1>1, <2>2
<1>5. PICK f : On(f) /\ \A k \in 1 .. n : f[k] = WorthAt(how, e, f, k)
  BY <1>4
<1>6. f = [k \in 1 .. n |-> WorthAt(how, e, f, k)]
  BY <1>5
<1> QED
  BY <1>1, <1>6 DEF Valued

\* The values of a copy are those of the original: they are unique.
LEMMA ValuesCopied ==
  ASSUME NEW how, IsHow(how), NEW e \in Trees, NEW t \in Trees, NEW d, NEW k, CopyOf(t, e, d, k),
         NEW f, Valued(how, e, f), NEW g, Valued(how, t, g)
  PROVE  \A j \in 1 .. Len(t) : g[j] = f[d + j]
<1> DEFINE H == {j \in 1 .. Len(t) : g[j] = f[d + j]}
           h == [j \in 1 .. Len(t) |-> f[d + j]]
<1>1. /\ Len(t) \in Nat /\ DOMAIN t = 1 .. Len(t) /\ DOMAIN e = 1 .. Len(e)
      /\ \A j \in 1 .. Len(t) : d + j \in 1 .. Len(e) /\ t[j] = e[d + j]
  BY TreeFacts DEF CopyOf
<1>2. ASSUME NEW j \in 1 .. Len(t), \A i \in 1 .. j - 1 : i \in H PROVE j \in H
  <2>1. g[j] = WorthAt(how, t, g, j)
    BY <1>1 DEF Valued
  <2>2. f[d + j] = WorthAt(how, e, f, d + j)
    BY <1>1 DEF Valued
  <2>3. WorthAt(how, t, g, j) = WorthAt(how, t, h, j)
    <3>1. \A i \in 1 .. j - 1 : g[i] = h[i]
      BY <1>1, <1>2
    <3> HIDE DEF h
    <3> QED
      BY <3>1, WorthLooksBack
  <2>4. WorthAt(how, t, h, j) = WorthAt(how, e, f, d + j)
    <3>1. t[j].op \in Operations /\ t[j] = e[d + j]
      BY <1>1, TreeFacts DEF Nodes
    <3>2. ShiftedOperands(t, e, d, j)
      BY CopyOperands
    <3>3. \A i \in DOMAIN Operands(t, j) : h[Operands(t, j)[i]] = f[Operands(e, d + j)[i]]
      <4> TAKE i \in DOMAIN Operands(t, j)
      <4> DEFINE m == Operands(t, j)[i]
      <4>1. m \in 1 .. j - 1 /\ Operands(e, d + j)[i] = d + m
        BY <3>2 DEF ShiftedOperands
      <4> HIDE DEF m
      <4>2. m \in 1 .. Len(t)
        BY <1>1, <4>1
      <4>3. h[m] = f[d + m]
        BY <4>2
      <4> QED
        BY <4>1, <4>3 DEF m
    <3> HIDE DEF h
    <3>4. CASE t[j].op \in Leaves
      BY <3>1, <3>4, WorthOfLeaf DEF WorthAt
    <3>5. CASE t[j].op \in Unaries \cup {"sqrt"}
      <4>1. Operands(t, j) = <<j - 1>>
        BY <3>5, OperandsOf
      <4>2. 1 \in DOMAIN Operands(t, j)
        BY <4>1
      <4>3. h[Operands(t, j)[1]] = f[Operands(e, d + j)[1]]
        BY <3>3, <4>2
      <4> QED
        BY <3>1, <3>5, <4>3, WorthOfOne DEF WorthAt
    <3>6. CASE t[j].op \in Binaries
      <4>1. Operands(t, j) = <<j - 1 - t[j - 1].size, j - 1>>
        BY <3>6, OperandsOf
      <4>2. 1 \in DOMAIN Operands(t, j) /\ 2 \in DOMAIN Operands(t, j)
        BY <4>1
      <4>3. /\ h[Operands(t, j)[1]] = f[Operands(e, d + j)[1]]
            /\ h[Operands(t, j)[2]] = f[Operands(e, d + j)[2]]
        BY <3>3, <4>2
      <4> QED
        BY <3>1, <4>3 DEF WorthAt
    <3> QED
      BY <3>1, <3>4, <3>5, <3>6, OperationsDiffer
  <2> HIDE DEF h
  <2> QED
    BY <2>1, <2>2, <2>3, <2>4
<1>3. \A j \in 1 .. Len(t) : j \in H
  <2>1. \A j \in 1 .. Len(t) : (\A i \in 1 .. j - 1 : i \in H) => j \in H
    BY <1>2
  <2> HIDE DEF H
  <2>2. 1 \in Nat
    OBVIOUS
  <2> QED
    BY <1>1, <2>1, <2>2, SmallerFirst
<1> QED
  BY <1>3

LEMMA ConstantsAre ==
  ASSUME NEW e \in Trees
  PROVE  IsHow(Folding) /\ Valued(Folding, e, ConstantValues(e))
<1> DEFINE IsIt(f) == f = [k \in DOMAIN e |-> FoldOf(e[k], f[Operands(e, k)[1]], f[Operands(e, k)[2]])]
<1>1. Folding.folds = TRUE /\ IsHow(Folding)
  BY DEF Folding, IsHow
<1>2. ConstantValues(e) = CHOOSE f : IsIt(f)
  BY DEF ConstantValues, FoldOf
<1>3. \A k : \A f : WorthAt(Folding, e, f, k)
                     = FoldOf(e[k], f[Operands(e, k)[1]], f[Operands(e, k)[2]])
  BY <1>1 DEF WorthAt, Worth
<1>4. \A f : Valued(Folding, e, f) <=> IsIt(f)
  <2> TAKE f
  <2>1. [k \in DOMAIN e |-> WorthAt(Folding, e, f, k)]
          = [k \in DOMAIN e |-> FoldOf(e[k], f[Operands(e, k)[1]], f[Operands(e, k)[2]])]
    BY <1>3
  <2> QED
    BY <2>1 DEF Valued
<1>5. \E f : IsIt(f)
  BY <1>1, <1>4, ValuesExist
<1> HIDE DEF IsIt
<1>6. IsIt(ConstantValues(e))
  BY <1>2, <1>5
<1> QED
  BY <1>1, <1>4, <1>6

LEMMA MeaningsAre ==
  ASSUME NEW e \in Trees, NEW env, NEW sign \in {"add", "subtract"}
  PROVE  /\ IsHow(ReadAs(env, sign))
         /\ \E f : Valued(ReadAs(env, sign), e, f) /\ Meaning(e, env, sign) = f[Len(e)]
<1> DEFINE how == ReadAs(env, sign)
           IsIt(f) == f = [k \in DOMAIN e |->
                             MeaningOf(e[k], env, sign, f[Operands(e, k)[1]], f[Operands(e, k)[2]])]
           m == CHOOSE f : IsIt(f)
<1>1. how.folds = FALSE /\ how.env = env /\ how.sign = sign /\ IsHow(how)
  BY DEF ReadAs, IsHow, IsReadAs
<1>2. Meaning(e, env, sign) = m[Len(e)]
  BY DEF Meaning, MeaningOf
<1> HIDE DEF how
<1>3. \A k : \A f : WorthAt(how, e, f, k)
                     = MeaningOf(e[k], env, sign, f[Operands(e, k)[1]], f[Operands(e, k)[2]])
  BY <1>1 DEF WorthAt, Worth
<1>4. \A f : Valued(how, e, f) <=> IsIt(f)
  <2> TAKE f
  <2>1. [k \in DOMAIN e |-> WorthAt(how, e, f, k)]
          = [k \in DOMAIN e |->
               MeaningOf(e[k], env, sign, f[Operands(e, k)[1]], f[Operands(e, k)[2]])]
    BY <1>3
  <2> QED
    BY <2>1 DEF Valued
<1>5. \E f : IsIt(f)
  BY <1>1, <1>4, ValuesExist
<1> HIDE DEF IsIt
<1>6. IsIt(m)
  BY <1>5
<1>7. Valued(how, e, m)
  BY <1>4, <1>6
<1> HIDE DEF m
<1>8. \E f : Valued(how, e, f) /\ Meaning(e, env, sign) = f[Len(e)]
  BY <1>2, <1>7
<1> QED
  BY <1>1, <1>8 DEF how

\* The meaning of the tree of a node is the value of the node.
LEMMA MeaningBelow ==
  ASSUME NEW e \in Trees, NEW env, NEW sign \in {"add", "subtract"},
         NEW f, Valued(ReadAs(env, sign), e, f), NEW k \in 1 .. Len(e)
  PROVE  Meaning(Below(e, k), env, sign) = f[k]
<1> DEFINE t == Below(e, k)
           d == k - e[k].size
           how == ReadAs(env, sign)
<1>1. t \in Trees /\ CopyOf(t, e, d, k)
  BY BelowIs, BelowTree
<1>2. IsHow(how)
  BY MeaningsAre
<1> HIDE DEF t, d
<1>3. PICK g : Valued(how, t, g) /\ Meaning(t, env, sign) = g[Len(t)]
  BY <1>1, MeaningsAre
<1> HIDE DEF how
<1>4. \A j \in 1 .. Len(t) : g[j] = f[d + j]
  BY <1>1, <1>2, <1>3, ValuesCopied DEF how
<1>5. Len(t) \in 1 .. Len(t) /\ d + Len(t) = k
  BY <1>1 DEF CopyOf
<1>6. g[Len(t)] = f[k]
  BY <1>4, <1>5
<1> QED
  BY <1>3, <1>6 DEF t

-----------------------------------------------------------------------------
(* Numbers                                                                 *)

Numbers == {Finite(n) : n \in Int}

LEMMA NumberIs ==
  ASSUME NEW v \in Numbers
  PROVE  v[1] = "finite" /\ v[2] \in Int /\ v = Finite(v[2])
BY DEF Numbers, Finite

LEMMA ValuesDiffer ==
  /\ None \notin Numbers /\ Raised \notin Numbers /\ Undefined \notin Numbers
  /\ None # Raised /\ None # Undefined /\ Raised # Undefined /\ Zero \in Numbers
  /\ \A v \in Numbers \cup {None, Raised, Undefined} : ~IsInfinite(v)
  /\ \A n : Infinite(n) \notin Numbers \cup {None, Raised, Undefined}
BY DEF Numbers, Finite, None, Raised, Undefined, Zero, IsInfinite, Infinite

LEMMA NearestInteger ==
  ASSUME NEW a \in Int, NEW b \in Int, b # 0
  PROVE  Nearest(a, b) \in Int
<1> DEFINE q == (2 * Abs(a) + Abs(b)) \div (2 * Abs(b))
           s == SignOfNumber(a) * SignOfNumber(b)
<1>1. 2 * Abs(a) + Abs(b) \in Nat /\ 2 * Abs(b) \in Nat \ {0} /\ s \in {-1, 1}
  BY DEF Abs, SignOfNumber
<1>2. \A n \in Nat, d \in Nat \ {0} : n \div d \in Nat
  OBVIOUS
<1>3. q \in Nat
  BY <1>1, <1>2
<1>4. Nearest(a, b) = s * q
  BY DEF Nearest
<1> HIDE DEF q, s
<1> QED
  BY <1>1, <1>3, <1>4

LEMMA RoundedType ==
  ASSUME NEW n \in Int
  PROVE  Rounded(n) \in Numbers \cup {Raised}
BY DEF Rounded, Numbers

LEMMA NegationOfNumber ==
  ASSUME NEW a \in Numbers
  PROVE  Negation(a) \in Numbers \cup {Raised}
<1>1. -a[2] \in Int /\ ~IsInfinite(a)
  BY NumberIs, ValuesDiffer
<1> QED
  BY <1>1, RoundedType DEF Negation

LEMMA SumIs ==
  ASSUME NEW a \in Numbers, NEW b \in Numbers
  PROVE  Sum(a, b) = Rounded(a[2] + b[2])
BY ValuesDiffer DEF Sum

LEMMA RoundedSum ==
  ASSUME NEW a \in Numbers, NEW b \in Numbers
  PROVE  Rounded(a[2] + b[2]) \in Numbers \cup {Raised}
<1> DEFINE n == a[2] + b[2]
<1>1. n \in Int
  BY NumberIs
<1> QED
  BY <1>1, RoundedType

LEMMA SumOfNumbers ==
  ASSUME NEW a \in Numbers, NEW b \in Numbers
  PROVE  Sum(a, b) \in Numbers \cup {Raised}
BY SumIs, RoundedSum

LEMMA ProductIs ==
  ASSUME NEW a \in Numbers, NEW b \in Numbers
  PROVE  Product(a, b) = Raised \/ Product(a, b) = Rounded(Nearest(a[2] * b[2], Scale))
BY ValuesDiffer DEF Product

LEMMA RoundedProduct ==
  ASSUME NEW a \in Numbers, NEW b \in Numbers
  PROVE  Rounded(Nearest(a[2] * b[2], Scale)) \in Numbers \cup {Raised}
<1> DEFINE n == a[2] * b[2]
<1>1. n \in Int
  BY NumberIs
<1> HIDE DEF n
<1>2. Scale \in Int /\ Scale # 0
  BY SemanticAssumption
<1>3. Nearest(n, Scale) \in Int
  BY <1>1, <1>2, NearestInteger
<1>4. Rounded(Nearest(n, Scale)) \in Numbers \cup {Raised}
  BY <1>3, RoundedType
<1> QED
  BY <1>4 DEF n

LEMMA ProductOfNumbers ==
  ASSUME NEW a \in Numbers, NEW b \in Numbers
  PROVE  Product(a, b) \in Numbers \cup {Raised}
BY ProductIs, RoundedProduct

LEMMA QuotientOfNumbers ==
  ASSUME NEW a \in Numbers, NEW b \in Numbers, b # Zero
  PROVE  Quotient(a, b) \in Numbers \cup {Raised}
<1> DEFINE P == a[2] * Scale
           q == b[2]
<1>1. ~IsInfinite(a) /\ ~IsInfinite(b)
  BY ValuesDiffer
<1>2. P \in Int /\ q \in Int /\ q # 0
  BY NumberIs, SemanticAssumption DEF Zero
<1>3. Quotient(a, b) = Rounded(Nearest(P, q))
  BY <1>1 DEF Quotient
<1> HIDE DEF P, q
<1>4. Nearest(P, q) \in Int
  BY <1>2, NearestInteger
<1> QED
  BY <1>3, <1>4, RoundedType

\* The powers of a number, one after the other.
PowersUpto(f, base, n) ==
  /\ f = [i \in 0 .. n |-> f[i]] /\ f[0] = Finite(Scale)
  /\ \A i \in 1 .. n : f[i] = Fold(f[i - 1], base, Product)

LEMMA PowersExist ==
  ASSUME NEW base, NEW n \in Nat
  PROVE  \E f : PowersUpto(f, base, n)
<1> DEFINE H == {k \in 0 .. n : \E f : PowersUpto(f, base, k)}
<1>1. ASSUME NEW k \in 0 .. n, \A j \in 0 .. k - 1 : j \in H PROVE k \in H
  <2>1. CASE k = 0
    <3> DEFINE f == [i \in 0 .. 0 |-> Finite(Scale)]
    <3>1. f = [i \in 0 .. 0 |-> f[i]] /\ f[0] = Finite(Scale) /\ \A i \in 1 .. 0 : FALSE
      OBVIOUS
    <3> HIDE DEF f
    <3>2. PowersUpto(f, base, 0)
      BY <3>1 DEF PowersUpto
    <3> QED
      BY <2>1, <3>2
  <2>2. CASE k # 0
    <3>1. k - 1 \in 0 .. k - 1 /\ k \in 1 .. k /\ k \in Nat /\ 0 \in 0 .. k
          /\ \A i \in 1 .. k : i \in 0 .. k /\ i - 1 \in 0 .. k /\ i - 1 # k /\ (i = k \/ i \in 1 .. k - 1)
      BY <2>2
    <3>2. PICK f : PowersUpto(f, base, k - 1)
      BY <1>1, <3>1
    <3> DEFINE g == [i \in 0 .. k |-> IF i = k THEN Fold(f[k - 1], base, Product) ELSE f[i]]
    <3>3. g = [i \in 0 .. k |-> g[i]] /\ \A i \in 0 .. k : i # k => g[i] = f[i]
      OBVIOUS
    <3>4. g[k] = Fold(f[k - 1], base, Product)
      BY <3>1
    <3> HIDE DEF g
    <3>5. g[0] = Finite(Scale)
      BY <2>2, <3>1, <3>2, <3>3 DEF PowersUpto
    <3>6. \A i \in 1 .. k : g[i] = Fold(g[i - 1], base, Product)
      <4> TAKE i \in 1 .. k
      <4>1. g[i - 1] = f[i - 1]
        BY <3>1, <3>3
      <4>2. CASE i = k
        BY <3>4, <4>1, <4>2
      <4>3. CASE i # k
        <5>1. i \in 1 .. k - 1 /\ i \in 0 .. k
          BY <3>1, <4>3
        <5>2. f[i] = Fold(f[i - 1], base, Product)
          BY <3>2, <5>1 DEF PowersUpto
        <5> QED
          BY <3>3, <4>1, <4>3, <5>1, <5>2
      <4> QED
        BY <4>2, <4>3
    <3>7. PowersUpto(g, base, k)
      BY <3>3, <3>5, <3>6 DEF PowersUpto
    <3> QED
      BY <3>7
  <2> QED
    BY <2>1, <2>2
<1>2. \A k \in 0 .. n : (\A j \in 0 .. k - 1 : j \in H) => k \in H
  BY <1>1
<1> HIDE DEF H
<1>3. 0 \in Nat /\ n \in 0 .. n
  OBVIOUS
<1>4. n \in H
  BY <1>2, <1>3, SmallerFirst
<1> QED
  BY <1>4 DEF H

\* They are unique.
LEMMA PowersAgree ==
  ASSUME NEW base, NEW f, NEW g, NEW m \in Nat, NEW n \in Nat,
         PowersUpto(f, base, m), PowersUpto(g, base, n), NEW k \in Nat, k <= m, k <= n
  PROVE  f[k] = g[k]
<1> DEFINE H == {i \in 0 .. k : f[i] = g[i]}
<1>1. ASSUME NEW i \in 0 .. k, \A j \in 0 .. i - 1 : j \in H PROVE i \in H
  <2>1. CASE i = 0
    BY <2>1 DEF PowersUpto
  <2>2. CASE i # 0
    <3>1. i - 1 \in 0 .. i - 1 /\ i \in 1 .. m /\ i \in 1 .. n
      BY <2>2
    <3>2. f[i - 1] = g[i - 1]
      BY <1>1, <3>1
    <3>3. f[i] = Fold(f[i - 1], base, Product) /\ g[i] = Fold(g[i - 1], base, Product)
      BY <3>1 DEF PowersUpto
    <3> QED
      BY <3>2, <3>3
  <2> QED
    BY <2>1, <2>2
<1>2. \A i \in 0 .. k : (\A j \in 0 .. i - 1 : j \in H) => i \in H
  BY <1>1
<1> HIDE DEF H
<1>3. 0 \in Nat /\ k \in 0 .. k
  OBVIOUS
<1>4. k \in H
  BY <1>2, <1>3, SmallerFirst
<1> QED
  BY <1>4 DEF H

\* NaturalPower is computed by multiplying.
LEMMA PowerFunction ==
  ASSUME NEW base
  PROVE  LET IsPower(f) == f = [n \in Nat |-> IF n = 0 THEN Finite(Scale)
                                              ELSE Fold(f[n - 1], base, Product)]
         IN \E f : IsPower(f)
<1> DEFINE upto == [n \in Nat |-> CHOOSE f : PowersUpto(f, base, n)]
           p == [n \in Nat |-> upto[n][n]]
           value(n) == IF n = 0 THEN Finite(Scale) ELSE Fold(p[n - 1], base, Product)
<1>1. \A n \in Nat : PowersUpto(upto[n], base, n)
  BY PowersExist
<1> HIDE DEF upto
<1>2. \A n \in Nat : p[n] = upto[n][n]
  OBVIOUS
<1>3. p = [n \in Nat |-> p[n]]
  OBVIOUS
<1> HIDE DEF p
<1>4. ASSUME NEW n \in Nat PROVE p[n] = value(n)
  <2>1. CASE n = 0
    <3>1. upto[0][0] = Finite(Scale)
      BY <1>1 DEF PowersUpto
    <3> QED
      BY <1>2, <2>1, <3>1
  <2>2. CASE n # 0
    <3>1. n \in 1 .. n /\ n - 1 \in Nat /\ n - 1 <= n /\ n - 1 <= n - 1
      BY <2>2
    <3>2. upto[n][n] = Fold(upto[n][n - 1], base, Product)
      BY <1>1, <3>1 DEF PowersUpto
    <3>3. upto[n][n - 1] = upto[n - 1][n - 1]
      BY <1>1, <3>1, PowersAgree
    <3> QED
      BY <1>2, <2>2, <3>1, <3>2, <3>3
  <2> QED
    BY <2>1, <2>2
<1>5. p = [n \in Nat |-> value(n)]
  BY <1>3, <1>4
<1> QED
  BY <1>5

LEMMA FoldedProduct ==
  ASSUME NEW a \in Numbers \cup {Raised}, NEW b \in Numbers
  PROVE  Fold(a, b, Product) \in Numbers \cup {Raised}
<1>1. CASE a = Raised
  BY <1>1 DEF Fold
<1>2. CASE a # Raised
  <2>1. Raised \notin {a, b} /\ None \notin {a, b}
    BY <1>2, ValuesDiffer
  <2>2. Fold(a, b, Product) = Product(a, b)
    BY <2>1 DEF Fold
  <2> QED
    BY <1>2, <2>2, ProductOfNumbers
<1> QED
  BY <1>1, <1>2

LEMMA NaturalPowerType ==
  ASSUME NEW base \in Numbers, NEW k \in Nat
  PROVE  NaturalPower(base, k) \in Numbers \cup {Raised}
<1> DEFINE IsPower(f) == f = [n \in Nat |-> IF n = 0 THEN Finite(Scale)
                                            ELSE Fold(f[n - 1], base, Product)]
           power == CHOOSE f : IsPower(f)
           H == {n \in 0 .. k : power[n] \in Numbers \cup {Raised}}
<1>1. NaturalPower(base, k) = power[k]
  BY DEF NaturalPower
<1>2. IsPower(power)
  <2>1. \E f : IsPower(f)
    BY PowerFunction
  <2> HIDE DEF IsPower
  <2> QED
    BY <2>1
<1> HIDE DEF power
<1>3. /\ power[0] = Finite(Scale)
      /\ \A n \in Nat : n # 0 => power[n] = Fold(power[n - 1], base, Product)
  BY <1>2
<1>4. ASSUME NEW n \in 0 .. k, \A j \in 0 .. n - 1 : j \in H PROVE n \in H
  <2>1. CASE n = 0
    BY <1>3, <2>1, SemanticAssumption DEF Numbers
  <2>2. CASE n # 0
    <3>1. n - 1 \in 0 .. n - 1 /\ n \in Nat
      BY <2>2
    <3>2. power[n - 1] \in Numbers \cup {Raised}
      BY <1>4, <3>1
    <3>3. power[n] = Fold(power[n - 1], base, Product)
      BY <1>3, <2>2, <3>1
    <3> QED
      BY <3>2, <3>3, FoldedProduct
  <2> QED
    BY <2>1, <2>2
<1>5. \A n \in 0 .. k : (\A j \in 0 .. n - 1 : j \in H) => n \in H
  BY <1>4
<1> HIDE DEF H
<1>6. 0 \in Nat /\ k \in 0 .. k
  OBVIOUS
<1>7. k \in H
  BY <1>5, <1>6, SmallerFirst
<1> QED
  BY <1>1, <1>7 DEF H

LEMMA IntegerPowerType ==
  ASSUME NEW base \in Numbers, NEW k \in Int, ~(base = Zero /\ k < 0)
  PROVE  IntegerPower(base, k) \in Numbers \cup {None, Raised}
<1> DEFINE power == NaturalPower(base, Abs(k))
<1>1. power \in Numbers \cup {Raised}
  <2>1. Abs(k) \in Nat
    BY DEF Abs
  <2> QED
    BY <2>1, NaturalPowerType
<1>2. IntegerPower(base, k) =
        CASE base = Zero /\ k = 0 -> None
          [] base = Zero /\ k < 0 -> Infinite(1)
          [] base # Zero /\ k < 0 ->
               IF power = Raised THEN Zero
               ELSE IF power = Zero THEN Raised ELSE Quotient(Finite(Scale), power)
          [] OTHER -> power
  BY DEF IntegerPower
<1> HIDE DEF power
<1>3. Finite(Scale) \in Numbers
  BY SemanticAssumption DEF Numbers
<1>4. power \in Numbers /\ power # Zero => Quotient(Finite(Scale), power) \in Numbers \cup {Raised}
  BY <1>3, QuotientOfNumbers
<1>5. CASE base = Zero /\ k = 0
  BY <1>2, <1>5
<1>6. CASE base # Zero /\ k < 0
  <2>1. IntegerPower(base, k) =
          IF power = Raised THEN Zero
          ELSE IF power = Zero THEN Raised ELSE Quotient(Finite(Scale), power)
    BY <1>2, <1>6
  <2> QED
    BY <1>1, <1>4, <2>1, ValuesDiffer
<1>7. CASE ~(base = Zero /\ k = 0) /\ ~(k < 0)
  <2>1. IntegerPower(base, k) = power
    BY <1>2, <1>7
  <2> QED
    BY <1>1, <2>1
<1> QED
  BY <1>5, <1>6, <1>7

\* Integer roots exist.
LEMMA RootExists ==
  ASSUME NEW n \in Nat
  PROVE  \E r \in Nat : r * r <= n /\ n < (r + 1) * (r + 1)
<1> DEFINE H == {k \in 0 .. n : \E r \in Nat : r * r <= k /\ k < (r + 1) * (r + 1)}
<1>1. ASSUME NEW k \in 0 .. n, \A j \in 0 .. k - 1 : j \in H PROVE k \in H
  <2>1. CASE k = 0
    <3>1. 0 * 0 <= 0 /\ 0 < (0 + 1) * (0 + 1) /\ 0 \in Nat
      OBVIOUS
    <3> QED
      BY <2>1, <3>1
  <2>2. CASE k # 0
    <3>1. k - 1 \in 0 .. k - 1
      BY <2>2
    <3>2. PICK r \in Nat : r * r <= k - 1 /\ k - 1 < (r + 1) * (r + 1)
      BY <1>1, <3>1
    <3>3. CASE k < (r + 1) * (r + 1)
      BY <3>2, <3>3
    <3>4. CASE ~(k < (r + 1) * (r + 1))
      <4> DEFINE s == r + 1
                 q == s * s
                 u == (s + 1) * (s + 1)
      <4>1. s \in Nat /\ q \in Nat /\ u \in Nat /\ u = q + 2 * s + 1
        BY <3>2
      <4>2. k - 1 < q /\ ~(k < q)
        BY <3>2, <3>4
      <4> HIDE DEF q, u, s
      <4>3. q <= k /\ k < u
        BY <4>1, <4>2
      <4> QED
        BY <4>1, <4>3 DEF q, u
    <3> QED
      BY <3>3, <3>4
  <2> QED
    BY <2>1, <2>2
<1>2. \A k \in 0 .. n : (\A j \in 0 .. k - 1 : j \in H) => k \in H
  BY <1>1
<1> HIDE DEF H
<1>3. 0 \in Nat /\ n \in 0 .. n
  OBVIOUS
<1>4. n \in H
  BY <1>2, <1>3, SmallerFirst
<1> QED
  BY <1>4 DEF H

\* The root of a * s is not larger than a + s.
LEMMA RootBounded ==
  ASSUME NEW a \in Nat, NEW s \in Nat, NEW r \in Nat, r * r <= a * s
  PROVE  r <= a + s
<1> SUFFICES ASSUME r > a + s PROVE FALSE
  OBVIOUS
<1> DEFINE m == a + s
<1>1. m \in Nat /\ r >= m
  OBVIOUS
<1>2. m * m <= r * r
  <2> HIDE DEF m
  <2>1. m * m <= m * r /\ m * r <= r * r
    BY <1>1
  <2> QED
    BY <1>1, <2>1
<1>3. a * s <= m * m
  OBVIOUS
<1> QED
  OBVIOUS

LEMMA SquareRootType ==
  ASSUME NEW v \in Numbers, ~(v[2] < 0)
  PROVE  SquareRoot(v) \in Numbers
<1> DEFINE a == v[2]
           IsRoot(r) == r * r <= a * Scale /\ a * Scale < (r + 1) * (r + 1)
<1>1. ~IsInfinite(v) /\ a \in Nat /\ Scale \in Nat
  BY NumberIs, ValuesDiffer, SemanticAssumption
<1>2. SquareRoot(v) = Finite(CHOOSE r \in 0 .. a + Scale : IsRoot(r))
  BY <1>1 DEF SquareRoot
<1> HIDE DEF a
<1>3. a * Scale \in Nat /\ a + Scale \in Nat
  BY <1>1
<1>4. PICK r \in Nat : r * r <= a * Scale /\ a * Scale < (r + 1) * (r + 1)
  BY <1>3, RootExists
<1>5. r \in 0 .. a + Scale
  BY <1>1, <1>3, <1>4, RootBounded
<1>6. \E x \in 0 .. a + Scale : IsRoot(x)
  BY <1>4, <1>5
<1> HIDE DEF IsRoot
<1>7. (CHOOSE x \in 0 .. a + Scale : IsRoot(x)) \in 0 .. a + Scale
  BY <1>6
<1>8. (CHOOSE x \in 0 .. a + Scale : IsRoot(x)) \in Int
  BY <1>3, <1>7
<1> QED
  BY <1>2, <1>8 DEF Numbers

-----------------------------------------------------------------------------
(* Constants that are folded, and meanings                                 *)

Meanings == Numbers \cup {None, Raised, Undefined}

\* A constant that was found is the meaning, if there is one.  In a tree without
\* variables and plus-minus every meaning is found.
Agrees(c, m, closed) ==
  /\ m \in Meanings
  /\ c \notin {None, Raised} => m \in {c, Undefined}
  /\ closed /\ m \notin {None, Undefined} => c = m

Folds(a, b, r) == IF Raised \in {a, b} THEN Raised ELSE IF None \in {a, b} THEN None ELSE r
Stricts(a, b, r) ==
  IF Undefined \in {a, b} THEN Undefined ELSE IF {None, Raised} \cap {a, b} # {} THEN None ELSE r

LEMMA UndefinedAgrees ==
  ASSUME NEW c, NEW closed
  PROVE  Agrees(c, Undefined, closed)
BY DEF Agrees, Meanings

LEMMA MeaningCases ==
  ASSUME NEW a \in Meanings
  PROVE  a \in Numbers \/ a = None \/ a = Raised \/ a = Undefined
BY DEF Meanings

\* An operation that agrees on numbers agrees.
LEMMA StrictAgrees ==
  ASSUME NEW ca, NEW cb, NEW ma, NEW mb, NEW closed, Agrees(ca, ma, closed), Agrees(cb, mb, closed),
         NEW fc, NEW fm, ma \in Numbers /\ mb \in Numbers => fm \in Meanings,
         ma \in Numbers /\ mb \in Numbers /\ ca = ma /\ cb = mb => fm \in {fc, Undefined}
  PROVE  Agrees(Folds(ca, cb, fc), Stricts(ma, mb, fm), closed)
<1> DEFINE c == Folds(ca, cb, fc)
           m == Stricts(ma, mb, fm)
<1>1. CASE ma = Undefined \/ mb = Undefined
  <2>1. m = Undefined
    BY <1>1 DEF Stricts
  <2> QED
    BY <2>1, UndefinedAgrees
<1>2. CASE ma # Undefined /\ mb # Undefined /\ (ma \in {None, Raised} \/ mb \in {None, Raised})
  <2>1. m = None
    BY <1>2 DEF Stricts
  <2>2. ca \in {None, Raised} \/ cb \in {None, Raised}
    BY <1>2 DEF Agrees
  <2>3. c \in {None, Raised}
    BY <2>2 DEF Folds
  <2> QED
    BY <2>1, <2>3 DEF Agrees, Meanings
<1>3. CASE ma \in Numbers /\ mb \in Numbers
  <2>1. {ma, mb} \cap {None, Raised, Undefined} = {}
    BY <1>3, ValuesDiffer
  <2>2. m = fm
    BY <2>1 DEF Stricts
  <2>3. CASE ca = ma /\ cb = mb
    <3>1. c = fc
      BY <2>1, <2>3 DEF Folds
    <3> QED
      BY <1>3, <2>2, <2>3, <3>1 DEF Agrees
  <2>4. CASE ~(ca = ma /\ cb = mb)
    <3>1. ~closed
      BY <2>1, <2>4 DEF Agrees
    <3>2. ca \in {None, Raised} \/ cb \in {None, Raised}
      BY <2>1, <2>4 DEF Agrees
    <3>3. c \in {None, Raised}
      BY <3>2 DEF Folds
    <3> QED
      BY <1>3, <2>2, <3>1, <3>3 DEF Agrees
  <2> QED
    BY <2>3, <2>4
<1>4. ma \in Meanings /\ mb \in Meanings
  BY DEF Agrees
<1> QED
  BY <1>1, <1>2, <1>3, <1>4, MeaningCases

\* An operation on numbers that are defined is undefined by itself.
LEMMA StrictUndefined ==
  ASSUME NEW a \in Meanings, NEW b \in Meanings, NEW r, a \notin {None, Undefined},
         b \notin {None, Undefined}, Stricts(a, b, r) = Undefined
  PROVE  a \in Numbers /\ b \in Numbers /\ r = Undefined
<1>1. a # Raised /\ b # Raised
  BY ValuesDiffer DEF Stricts
<1>2. a \in Numbers /\ b \in Numbers
  BY <1>1, MeaningCases
<1>3. Stricts(a, b, r) = r
  BY <1>1 DEF Stricts
<1> QED
  BY <1>2, <1>3

-----------------------------------------------------------------------------
(* Node by node                                                            *)

\* What an operation gives on numbers.
RootOf(v) == IF v[2] < 0 THEN Undefined ELSE SquareRoot(v)
PowerOf(v, w) ==
  IF v = Zero /\ w[2] < 0 THEN Undefined
  ELSE IF w[2] % Scale # 0 THEN None ELSE IntegerPower(v, w[2] \div Scale)
FoldedPower(v, w) == IF w[2] % Scale # 0 THEN None ELSE IntegerPower(v, w[2] \div Scale)
FoldedQuotient(v, w) == IF w = Zero THEN None ELSE Quotient(v, w)
FoldedRoot(v) == IF Negative(v) THEN None ELSE SquareRoot(v)

LEMMA FoldOfOne ==
  ASSUME NEW node, NEW a, NEW b
  PROVE  /\ node.op = "number" => FoldOf(node, a, b) = Finite(DecimalOf(node.lexeme))
         /\ node.op \in {"variable", "pm"} => FoldOf(node, a, b) = None
         /\ node.op = "plus" => FoldOf(node, a, b) = a
         /\ node.op = "minus" => FoldOf(node, a, b) = Folds(a, a, Negation(a))
         /\ node.op = "sqrt" => FoldOf(node, a, b) = Folds(a, a, FoldedRoot(a))
<1>1. node.op = "number" => FoldOf(node, a, b) = Finite(DecimalOf(node.lexeme))
  BY DEF FoldOf
<1>2. node.op \in {"variable", "pm"} => FoldOf(node, a, b) = None
  BY DEF FoldOf
<1>3. node.op = "plus" => FoldOf(node, a, b) = a
  BY DEF FoldOf
<1>4. node.op = "minus" => FoldOf(node, a, b) = Folds(a, a, Negation(a))
  BY DEF FoldOf, Fold, Folds
<1>5. node.op = "sqrt" => FoldOf(node, a, b) = Folds(a, a, FoldedRoot(a))
  BY DEF FoldOf, Fold, Folds, FoldedRoot
<1> QED
  BY <1>1, <1>2, <1>3, <1>4, <1>5

LEMMA FoldOfTwo ==
  ASSUME NEW node, NEW a, NEW b
  PROVE  /\ node.op = "add" => FoldOf(node, a, b) = Folds(a, b, Sum(a, b))
         /\ node.op = "subtract" => FoldOf(node, a, b) = Folds(a, b, Sum(a, <<b[1], -b[2]>>))
         /\ node.op \in {"multiply", "juxt"} => FoldOf(node, a, b) = Folds(a, b, Product(a, b))
         /\ node.op \in {"divide", "frac"} =>
              FoldOf(node, a, b) = Folds(a, b, FoldedQuotient(a, b))
         /\ node.op = "power" => FoldOf(node, a, b) = Folds(a, b, FoldedPower(a, b))
<1>1. node.op = "add" => FoldOf(node, a, b) = Folds(a, b, Sum(a, b))
  BY DEF FoldOf, Fold, Folds
<1>2. node.op = "subtract" => FoldOf(node, a, b) = Folds(a, b, Sum(a, <<b[1], -b[2]>>))
  BY DEF FoldOf, Fold, Folds
<1>3. node.op \in {"multiply", "juxt"} => FoldOf(node, a, b) = Folds(a, b, Product(a, b))
  BY DEF FoldOf, Fold, Folds
<1>4. node.op \in {"divide", "frac"} => FoldOf(node, a, b) = Folds(a, b, FoldedQuotient(a, b))
  BY DEF FoldOf, Fold, Folds, FoldedQuotient
<1>5. node.op = "power" => FoldOf(node, a, b) = Folds(a, b, FoldedPower(a, b))
  BY DEF FoldOf, Fold, Folds, FoldedPower
<1> QED
  BY <1>1, <1>2, <1>3, <1>4, <1>5

LEMMA MeaningOfOne ==
  ASSUME NEW node, NEW env, NEW sign, NEW a, NEW b
  PROVE  LET m == MeaningOf(node, env, sign, a, b) IN
         /\ node.op = "number" => m = Finite(DecimalOf(node.lexeme))
         /\ node.op = "variable" => m = Finite(env[node.lexeme])
         /\ node.op = "plus" => m = a
         /\ node.op = "minus" => m = Stricts(a, a, Negation(a))
         /\ node.op = "sqrt" => m = Stricts(a, a, RootOf(a))
<1> DEFINE m == MeaningOf(node, env, sign, a, b)
<1>1. node.op = "number" => m = Finite(DecimalOf(node.lexeme))
  BY DEF MeaningOf
<1>2. node.op = "variable" => m = Finite(env[node.lexeme])
  BY DEF MeaningOf
<1>3. node.op = "plus" => m = a
  BY DEF MeaningOf
<1>4. node.op = "minus" => m = Stricts(a, a, Negation(a))
  BY DEF MeaningOf, Strictly, Stricts
<1>5. node.op = "sqrt" => m = Stricts(a, a, RootOf(a))
  BY DEF MeaningOf, Strictly, Stricts, RootOf
<1> QED
  BY <1>1, <1>2, <1>3, <1>4, <1>5

\* The operation of a node, its plus-minus read as sign.
Operation(node, sign) == IF node.op = "pm" THEN sign ELSE node.op

LEMMA MeaningOfTwo ==
  ASSUME NEW node, NEW env, NEW sign, NEW a, NEW b
  PROVE  LET m == MeaningOf(node, env, sign, a, b)
             op == Operation(node, sign) IN
         /\ op = "add" => m = Stricts(a, b, Sum(a, b))
         /\ op = "subtract" => m = Stricts(a, b, Sum(a, Finite(-b[2])))
         /\ op \in {"multiply", "juxt"} => m = Stricts(a, b, Product(a, b))
         /\ op \in {"divide", "frac"} =>
              m = IF b = Zero THEN Undefined ELSE Stricts(a, b, Quotient(a, b))
         /\ op = "power" => m = Stricts(a, b, PowerOf(a, b))
<1> DEFINE m == MeaningOf(node, env, sign, a, b)
           op == Operation(node, sign)
<1>1. op = "add" => m = Stricts(a, b, Sum(a, b))
  BY DEF MeaningOf, Strictly, Stricts, Operation
<1>2. op = "subtract" => m = Stricts(a, b, Sum(a, Finite(-b[2])))
  BY DEF MeaningOf, Strictly, Stricts, Operation
<1>3. op \in {"multiply", "juxt"} => m = Stricts(a, b, Product(a, b))
  BY DEF MeaningOf, Strictly, Stricts, Operation
<1>4. op \in {"divide", "frac"} =>
        m = IF b = Zero THEN Undefined ELSE Stricts(a, b, Quotient(a, b))
  BY DEF MeaningOf, Strictly, Stricts, Operation
<1>5. op = "power" => m = Stricts(a, b, PowerOf(a, b))
  BY DEF MeaningOf, Strictly, Stricts, Operation, PowerOf
<1> QED
  BY <1>1, <1>2, <1>3, <1>4, <1>5

\* What the operations give on numbers.
LEMMA PowerOfNumbers ==
  ASSUME NEW v \in Numbers, NEW w \in Numbers
  PROVE  PowerOf(v, w) \in Meanings /\ PowerOf(v, w) \in {FoldedPower(v, w), Undefined}
<1> DEFINE n == w[2]
           q == n \div Scale
<1>1. n \in Int /\ Scale \in Nat \ {0}
  BY NumberIs, SemanticAssumption
<1>2. q \in Int /\ (q < 0 => n < 0)
  <2> HIDE DEF n
  <2> QED
    BY <1>1
<1>3. CASE v = Zero /\ n < 0
  <2>1. PowerOf(v, w) = Undefined
    BY <1>3 DEF PowerOf
  <2> QED
    BY <2>1 DEF Meanings
<1>4. CASE ~(v = Zero /\ n < 0)
  <2>1. PowerOf(v, w) = FoldedPower(v, w)
    BY <1>4 DEF PowerOf, FoldedPower
  <2>2. FoldedPower(v, w) = None \/ FoldedPower(v, w) = IntegerPower(v, q)
    BY DEF FoldedPower
  <2> HIDE DEF n, q
  <2>3. IntegerPower(v, q) \in Numbers \cup {None, Raised}
    BY <1>2, <1>4, IntegerPowerType
  <2> QED
    BY <2>1, <2>2, <2>3 DEF Meanings
<1> QED
  BY <1>3, <1>4

LEMMA RootOfNumber ==
  ASSUME NEW v \in Numbers
  PROVE  RootOf(v) \in Meanings /\ RootOf(v) \in {FoldedRoot(v), Undefined}
<1>1. CASE v[2] < 0
  <2>1. RootOf(v) = Undefined
    BY <1>1 DEF RootOf
  <2> QED
    BY <2>1 DEF Meanings
<1>2. CASE ~(v[2] < 0)
  <2>1. RootOf(v) = SquareRoot(v) /\ FoldedRoot(v) = SquareRoot(v)
    BY <1>2 DEF RootOf, FoldedRoot, Negative
  <2> QED
    BY <1>2, <2>1, SquareRootType DEF Meanings
<1> QED
  BY <1>1, <1>2

LEMMA Opposite ==
  ASSUME NEW w \in Numbers
  PROVE  Finite(-w[2]) \in Numbers /\ <<w[1], -w[2]>> = Finite(-w[2])
<1>1. w[1] = "finite" /\ -w[2] \in Int
  BY NumberIs
<1>2. Finite(-w[2]) \in Numbers
  BY <1>1 DEF Numbers
<1>3. <<w[1], -w[2]>> = Finite(-w[2])
  BY <1>1 DEF Finite
<1> QED
  BY <1>2, <1>3

\* Values agree at a node that has none of its own.
AgreesAt(node, env, sign, ca, cb, ma, mb, closed) ==
  Agrees(FoldOf(node, ca, cb), MeaningOf(node, env, sign, ma, mb), closed)

LEMMA LeafAgrees ==
  ASSUME NEW node, node.op \in Leaves, node.op = "number" => node.lexeme \in Seq(Figures),
         NEW env, NEW sign, NEW closed, node.op = "variable" => env[node.lexeme] \in Int /\ ~closed,
         NEW ca, NEW cb, NEW ma, NEW mb
  PROVE  AgreesAt(node, env, sign, ca, cb, ma, mb, closed)
<1>1. CASE node.op = "number"
  <2>1. DecimalOf(node.lexeme) \in Int
    BY <1>1, DecimalType
  <2>2. Finite(DecimalOf(node.lexeme)) \in Meanings
    BY <2>1 DEF Meanings, Numbers
  <2>3. /\ FoldOf(node, ca, cb) = Finite(DecimalOf(node.lexeme))
        /\ MeaningOf(node, env, sign, ma, mb) = Finite(DecimalOf(node.lexeme))
    BY <1>1, FoldOfOne, MeaningOfOne
  <2> QED
    BY <2>2, <2>3 DEF AgreesAt, Agrees
<1>2. CASE node.op = "variable"
  <2>1. Finite(env[node.lexeme]) \in Meanings
    BY <1>2 DEF Meanings, Numbers
  <2>2. FoldOf(node, ca, cb) = None /\ MeaningOf(node, env, sign, ma, mb) = Finite(env[node.lexeme])
    BY <1>2, FoldOfOne, MeaningOfOne
  <2> QED
    BY <1>2, <2>1, <2>2 DEF AgreesAt, Agrees
<1> QED
  BY <1>1, <1>2 DEF Leaves

LEMMA UnaryAgrees ==
  ASSUME NEW node, node.op \in Unaries \cup {"sqrt"}, NEW env, NEW sign, NEW closed,
         NEW ca, NEW cb, NEW ma, NEW mb, Agrees(ca, ma, closed)
  PROVE  AgreesAt(node, env, sign, ca, cb, ma, mb, closed)
<1>1. CASE node.op = "plus"
  BY <1>1, FoldOfOne, MeaningOfOne DEF AgreesAt
<1>2. CASE node.op = "minus"
  <2>1. ma \in Numbers => Negation(ma) \in Meanings
    BY NegationOfNumber DEF Meanings
  <2>2. Agrees(Folds(ca, ca, Negation(ca)), Stricts(ma, ma, Negation(ma)), closed)
    BY <2>1, StrictAgrees
  <2> QED
    BY <1>2, <2>2, FoldOfOne, MeaningOfOne DEF AgreesAt
<1>3. CASE node.op = "sqrt"
  <2>1. ma \in Numbers => RootOf(ma) \in Meanings /\ RootOf(ma) \in {FoldedRoot(ma), Undefined}
    BY RootOfNumber
  <2>2. Agrees(Folds(ca, ca, FoldedRoot(ca)), Stricts(ma, ma, RootOf(ma)), closed)
    BY <2>1, StrictAgrees
  <2> QED
    BY <1>3, <2>2, FoldOfOne, MeaningOfOne DEF AgreesAt
<1> QED
  BY <1>1, <1>2, <1>3 DEF Unaries

LEMMA DifferenceAgrees ==
  ASSUME NEW closed, NEW ca, NEW cb, NEW ma, NEW mb, Agrees(ca, ma, closed), Agrees(cb, mb, closed)
  PROVE  Agrees(Folds(ca, cb, Sum(ca, <<cb[1], -cb[2]>>)), Stricts(ma, mb, Sum(ma, Finite(-mb[2]))),
                closed)
<1>1. ma \in Numbers /\ mb \in Numbers => Sum(ma, Finite(-mb[2])) \in Meanings
  BY Opposite, SumOfNumbers DEF Meanings
<1>2. ma \in Numbers /\ mb \in Numbers /\ ca = ma /\ cb = mb =>
        Sum(ca, <<cb[1], -cb[2]>>) = Sum(ma, Finite(-mb[2]))
  BY Opposite
<1> DEFINE fc == Sum(ca, <<cb[1], -cb[2]>>)
           fm == Sum(ma, Finite(-mb[2]))
<1> HIDE DEF fc, fm
<1>3. Agrees(Folds(ca, cb, fc), Stricts(ma, mb, fm), closed)
  BY <1>1, <1>2, StrictAgrees DEF fc, fm
<1> QED
  BY <1>3 DEF fc, fm

LEMMA SumAgrees ==
  ASSUME NEW closed, NEW ca, NEW cb, NEW ma, NEW mb, Agrees(ca, ma, closed), Agrees(cb, mb, closed)
  PROVE  Agrees(Folds(ca, cb, Sum(ca, cb)), Stricts(ma, mb, Sum(ma, mb)), closed)
<1>1. ma \in Numbers /\ mb \in Numbers => Sum(ma, mb) \in Meanings
  BY SumOfNumbers DEF Meanings
<1> QED
  BY <1>1, StrictAgrees

LEMMA ProductAgrees ==
  ASSUME NEW closed, NEW ca, NEW cb, NEW ma, NEW mb, Agrees(ca, ma, closed), Agrees(cb, mb, closed)
  PROVE  Agrees(Folds(ca, cb, Product(ca, cb)), Stricts(ma, mb, Product(ma, mb)), closed)
<1>1. ma \in Numbers /\ mb \in Numbers => Product(ma, mb) \in Meanings
  BY ProductOfNumbers DEF Meanings
<1> QED
  BY <1>1, StrictAgrees

LEMMA QuotientAgrees ==
  ASSUME NEW closed, NEW ca, NEW cb, NEW ma, NEW mb, Agrees(ca, ma, closed), Agrees(cb, mb, closed)
  PROVE  Agrees(Folds(ca, cb, FoldedQuotient(ca, cb)),
                IF mb = Zero THEN Undefined ELSE Stricts(ma, mb, Quotient(ma, mb)), closed)
<1>1. CASE mb = Zero
  BY <1>1, UndefinedAgrees
<1>2. CASE mb # Zero
  <2>1. ma \in Numbers /\ mb \in Numbers => Quotient(ma, mb) \in Meanings
    BY <1>2, QuotientOfNumbers DEF Meanings
  <2>2. ca = ma /\ cb = mb => FoldedQuotient(ca, cb) = Quotient(ma, mb)
    BY <1>2 DEF FoldedQuotient
  <2>3. Agrees(Folds(ca, cb, FoldedQuotient(ca, cb)), Stricts(ma, mb, Quotient(ma, mb)), closed)
    BY <2>1, <2>2, StrictAgrees
  <2> QED
    BY <1>2, <2>3
<1> QED
  BY <1>1, <1>2

LEMMA PowerAgrees ==
  ASSUME NEW closed, NEW ca, NEW cb, NEW ma, NEW mb, Agrees(ca, ma, closed), Agrees(cb, mb, closed)
  PROVE  Agrees(Folds(ca, cb, FoldedPower(ca, cb)), Stricts(ma, mb, PowerOf(ma, mb)), closed)
<1>1. ma \in Numbers /\ mb \in Numbers =>
        PowerOf(ma, mb) \in Meanings /\ PowerOf(ma, mb) \in {FoldedPower(ma, mb), Undefined}
  BY PowerOfNumbers
<1> QED
  BY <1>1, StrictAgrees

LEMMA BinaryAgrees ==
  ASSUME NEW node, node.op \in Binaries, NEW env, NEW sign \in {"add", "subtract"}, NEW closed,
         node.op = "pm" => ~closed,
         NEW ca, NEW cb, NEW ma, NEW mb, Agrees(ca, ma, closed), Agrees(cb, mb, closed)
  PROVE  AgreesAt(node, env, sign, ca, cb, ma, mb, closed)
<1>1. CASE node.op = "add"
  <2>1. Operation(node, sign) = node.op
    BY <1>1 DEF Operation
  <2>2. FoldOf(node, ca, cb) = Folds(ca, cb, Sum(ca, cb))
    BY <1>1, FoldOfTwo
  <2>3. MeaningOf(node, env, sign, ma, mb) = Stricts(ma, mb, Sum(ma, mb))
    BY <1>1, <2>1, MeaningOfTwo
  <2>4. Agrees(Folds(ca, cb, Sum(ca, cb)), Stricts(ma, mb, Sum(ma, mb)), closed)
    BY SumAgrees
  <2> QED
    BY <2>2, <2>3, <2>4 DEF AgreesAt
<1>2. CASE node.op = "subtract"
  <2>1. Operation(node, sign) = node.op
    BY <1>2 DEF Operation
  <2>2. FoldOf(node, ca, cb) = Folds(ca, cb, Sum(ca, <<cb[1], -cb[2]>>))
    BY <1>2, FoldOfTwo
  <2>3. MeaningOf(node, env, sign, ma, mb) = Stricts(ma, mb, Sum(ma, Finite(-mb[2])))
    BY <1>2, <2>1, MeaningOfTwo
  <2>4. Agrees(Folds(ca, cb, Sum(ca, <<cb[1], -cb[2]>>)), Stricts(ma, mb, Sum(ma, Finite(-mb[2]))), closed)
    BY DifferenceAgrees
  <2> QED
    BY <2>2, <2>3, <2>4 DEF AgreesAt
<1>3. CASE node.op = "pm"
  <2>1. FoldOf(node, ca, cb) = None
    BY <1>3, FoldOfOne
  <2>2. Operation(node, sign) = sign
    BY <1>3 DEF Operation
  <2>3. Stricts(ma, mb, Sum(ma, mb)) \in Meanings
    BY SumAgrees DEF Agrees
  <2>4. Stricts(ma, mb, Sum(ma, Finite(-mb[2]))) \in Meanings
    <3>1. Agrees(Folds(ca, cb, Sum(ca, <<cb[1], -cb[2]>>)), Stricts(ma, mb, Sum(ma, Finite(-mb[2]))),
                 closed)
      BY DifferenceAgrees
    <3> QED
      BY <3>1 DEF Agrees
  <2>5. MeaningOf(node, env, sign, ma, mb) \in Meanings
    <3>1. sign = "add" => MeaningOf(node, env, sign, ma, mb) = Stricts(ma, mb, Sum(ma, mb))
      BY <2>2, MeaningOfTwo
    <3>2. sign = "subtract" =>
            MeaningOf(node, env, sign, ma, mb) = Stricts(ma, mb, Sum(ma, Finite(-mb[2])))
      BY <2>2, MeaningOfTwo
    <3> QED
      BY <2>3, <2>4, <3>1, <3>2
  <2> QED
    BY <1>3, <2>1, <2>5 DEF AgreesAt, Agrees
<1>4. CASE node.op \in {"multiply", "juxt"}
  <2>1. Operation(node, sign) = node.op
    BY <1>4 DEF Operation
  <2>2. FoldOf(node, ca, cb) = Folds(ca, cb, Product(ca, cb))
    BY <1>4, FoldOfTwo
  <2>3. MeaningOf(node, env, sign, ma, mb) = Stricts(ma, mb, Product(ma, mb))
    BY <1>4, <2>1, MeaningOfTwo
  <2>4. Agrees(Folds(ca, cb, Product(ca, cb)), Stricts(ma, mb, Product(ma, mb)), closed)
    BY ProductAgrees
  <2> QED
    BY <2>2, <2>3, <2>4 DEF AgreesAt
<1>5. CASE node.op \in {"divide", "frac"}
  <2> DEFINE m == IF mb = Zero THEN Undefined ELSE Stricts(ma, mb, Quotient(ma, mb))
  <2>1. Operation(node, sign) = node.op
    BY <1>5 DEF Operation
  <2>2. FoldOf(node, ca, cb) = Folds(ca, cb, FoldedQuotient(ca, cb))
    BY <1>5, FoldOfTwo
  <2>3. MeaningOf(node, env, sign, ma, mb) = m
    BY <1>5, <2>1, MeaningOfTwo
  <2>4. Agrees(Folds(ca, cb, FoldedQuotient(ca, cb)), m, closed)
    BY QuotientAgrees
  <2> HIDE DEF m
  <2> QED
    BY <2>2, <2>3, <2>4 DEF AgreesAt
<1>6. CASE node.op = "power"
  <2>1. Operation(node, sign) = node.op
    BY <1>6 DEF Operation
  <2>2. FoldOf(node, ca, cb) = Folds(ca, cb, FoldedPower(ca, cb))
    BY <1>6, FoldOfTwo
  <2>3. MeaningOf(node, env, sign, ma, mb) = Stricts(ma, mb, PowerOf(ma, mb))
    BY <1>6, <2>1, MeaningOfTwo
  <2>4. Agrees(Folds(ca, cb, FoldedPower(ca, cb)), Stricts(ma, mb, PowerOf(ma, mb)), closed)
    BY PowerAgrees
  <2> QED
    BY <2>2, <2>3, <2>4 DEF AgreesAt
<1> QED
  BY <1>1, <1>2, <1>3, <1>4, <1>5, <1>6 DEF Binaries, Sums, Products

\* Values have been given to all variables of a tree.
Assigned(t, env) == \A j \in 1 .. Len(t) : t[j].op = "variable" => env[t[j].lexeme] \in Int

\* The constants of a tree agree with the values of its nodes.
LEMMA TreeAgrees ==
  ASSUME NEW t \in Trees, NEW env, NEW sign \in {"add", "subtract"}, NEW closed,
         Assigned(t, env), closed => Closed(t),
         NEW g, Valued(ReadAs(env, sign), t, g)
  PROVE  \A j \in 1 .. Len(t) : Agrees(ConstantValues(t)[j], g[j], closed)
<1> DEFINE c == ConstantValues(t)
           H == {j \in 1 .. Len(t) : Agrees(c[j], g[j], closed)}
           ca(j) == c[Operands(t, j)[1]]
           cb(j) == c[Operands(t, j)[2]]
           ma(j) == g[Operands(t, j)[1]]
           mb(j) == g[Operands(t, j)[2]]
<1>1. /\ Len(t) \in Nat /\ DOMAIN t = 1 .. Len(t)
      /\ \A j \in 1 .. Len(t) : t[j].op \in Operations /\ Formed(t, j)
  BY TreeFacts DEF Nodes
<1>2. \A j \in 1 .. Len(t) : c[j] = FoldOf(t[j], ca(j), cb(j))
  <2>1. Valued(Folding, t, c) /\ Folding.folds = TRUE
    BY ConstantsAre DEF Folding
  <2> HIDE DEF c
  <2>2. \A j \in 1 .. Len(t) : c[j] = WorthAt(Folding, t, c, j)
    BY <1>1, <2>1 DEF Valued
  <2> QED
    BY <2>1, <2>2 DEF WorthAt, Worth
<1>3. \A j \in 1 .. Len(t) : g[j] = MeaningOf(t[j], env, sign, ma(j), mb(j))
  <2> DEFINE how == ReadAs(env, sign)
  <2>1. how.folds = FALSE /\ how.env = env /\ how.sign = sign
    BY DEF ReadAs
  <2> HIDE DEF how
  <2>2. \A j \in 1 .. Len(t) : g[j] = WorthAt(how, t, g, j)
    BY <1>1 DEF Valued, how
  <2> QED
    BY <2>1, <2>2 DEF WorthAt, Worth
<1> HIDE DEF c
<1>4. ASSUME NEW j \in 1 .. Len(t), \A i \in 1 .. j - 1 : i \in H PROVE j \in H
  <2>1. \A i \in 1 .. j - 1 : Agrees(c[i], g[i], closed)
    BY <1>4
  <2>2. closed => t[j].op \notin {"variable", "pm"}
    BY <1>1 DEF Closed, Range
  <2>3. AgreesAt(t[j], env, sign, ca(j), cb(j), ma(j), mb(j), closed)
    <3>1. CASE t[j].op \in Leaves
      <4>1. t[j].op = "number" => t[j].lexeme \in Seq(Figures)
        BY <1>1 DEF Formed
      <4>2. t[j].op = "variable" => env[t[j].lexeme] \in Int /\ ~closed
        BY <2>2 DEF Assigned
      <4> HIDE DEF ca, cb, ma, mb
      <4> QED
        BY <3>1, <4>1, <4>2, LeafAgrees
    <3>2. CASE t[j].op \in Unaries \cup {"sqrt"}
      <4>1. Operands(t, j)[1] \in 1 .. j - 1
        BY <3>2, OperandsOf
      <4>2. Agrees(ca(j), ma(j), closed)
        BY <2>1, <4>1
      <4> HIDE DEF ca, cb, ma, mb
      <4> QED
        BY <3>2, <4>2, UnaryAgrees
    <3>3. CASE t[j].op \in Binaries
      <4>1. Operands(t, j)[1] \in 1 .. j - 1 /\ Operands(t, j)[2] \in 1 .. j - 1
        BY <3>3, OperandsOf
      <4>2. Agrees(ca(j), ma(j), closed) /\ Agrees(cb(j), mb(j), closed)
        BY <2>1, <4>1
      <4> HIDE DEF ca, cb, ma, mb
      <4> QED
        BY <2>2, <3>3, <4>2, BinaryAgrees
    <3> QED
      BY <1>1, <3>1, <3>2, <3>3, OperationsDiffer
  <2> HIDE DEF ca, cb, ma, mb
  <2> QED
    BY <1>2, <1>3, <2>3 DEF AgreesAt
<1>5. \A j \in 1 .. Len(t) : (\A i \in 1 .. j - 1 : i \in H) => j \in H
  BY <1>4
<1>6. \A j \in 1 .. Len(t) : j \in H
  <2> HIDE DEF H
  <2>1. 1 \in Nat
    OBVIOUS
  <2> QED
    BY <1>1, <1>5, <2>1, SmallerFirst
<1> QED
  BY <1>6 DEF c

-----------------------------------------------------------------------------
(* Alarms                                                                  *)

\* The analysis raises an alarm at an operation on constants.
Alarmed(op, a, b) ==
  \/ op \in {"divide", "frac"} /\ b = Zero
  \/ op = "power" /\ a = Zero /\ Negative(b)
  \/ op = "sqrt" /\ Negative(a)

LEMMA DiagnosedWhen ==
  ASSUME NEW condition, NEW code, NEW span
  PROVE  When(condition, code, span) # << >> <=> condition
BY DEF When, Diagnosed

LEMMA AlarmIs ==
  ASSUME NEW e, NEW k
  PROVE  DomainDiagnostics(e, k) # << >> <=>
           Alarmed(e[k].op, ConstantValues(e)[Operands(e, k)[1]], ConstantValues(e)[Operands(e, k)[2]])
<1> DEFINE operand(i) == Operands(e, k)[i]
           value(i) == ConstantValues(e)[operand(i)]
<1>1. CASE e[k].op \in {"divide", "frac"}
  <2>1. DomainDiagnostics(e, k) = When(value(2) = Zero, "SEM050", e[operand(2)].span)
    BY <1>1 DEF DomainDiagnostics
  <2> HIDE DEF operand, value
  <2> DEFINE condition == value(2) = Zero
             span == e[operand(2)].span
  <2> HIDE DEF condition, span
  <2>2. DomainDiagnostics(e, k) # << >> <=> condition
    <3>1. DomainDiagnostics(e, k) = When(condition, "SEM050", span)
      BY <2>1 DEF condition, span
    <3> QED
      BY <3>1, DiagnosedWhen
  <2> QED
    BY <1>1, <2>2 DEF Alarmed, operand, value, condition
<1>2. CASE e[k].op = "power"
  <2>1. DomainDiagnostics(e, k) = When(value(1) = Zero /\ Negative(value(2)), "SEM052", e[k].span)
    BY <1>2 DEF DomainDiagnostics
  <2> HIDE DEF operand, value
  <2>2. DomainDiagnostics(e, k) # << >> <=> value(1) = Zero /\ Negative(value(2))
    BY <2>1, DiagnosedWhen
  <2> QED
    BY <1>2, <2>2 DEF Alarmed, operand, value
<1>3. CASE e[k].op = "sqrt"
  <2>1. DomainDiagnostics(e, k) = When(Negative(value(1)), "SEM051", e[operand(1)].span)
    BY <1>3 DEF DomainDiagnostics
  <2> HIDE DEF operand, value
  <2>2. DomainDiagnostics(e, k) # << >> <=> Negative(value(1))
    BY <2>1, DiagnosedWhen
  <2> QED
    BY <1>3, <2>2 DEF Alarmed, operand, value
<1>4. CASE e[k].op \notin {"divide", "frac", "power", "sqrt"}
  <2>1. DomainDiagnostics(e, k) = << >>
    BY <1>4 DEF DomainDiagnostics
  <2> QED
    BY <1>4, <2>1 DEF Alarmed
<1> QED
  BY <1>1, <1>2, <1>3, <1>4

\* What raises an alarm is undefined.
LEMMA AlarmSound ==
  ASSUME NEW node, NEW env, NEW sign, NEW closed, NEW ca, NEW cb, NEW ma, NEW mb,
         Alarmed(node.op, ca, cb), Agrees(ca, ma, closed),
         node.op \in Binaries => Agrees(cb, mb, closed)
  PROVE  MeaningOf(node, env, sign, ma, mb) = Undefined
<1>1. \A v : Negative(v) => v \notin {None, Raised}
  BY DEF Negative, None, Raised
<1>2. Zero \notin {None, Raised, Undefined} /\ Undefined \notin {None, Raised}
  BY ValuesDiffer
<1>3. node.op # "pm" => Operation(node, sign) = node.op
  BY DEF Operation
<1>4. CASE node.op \in {"divide", "frac"} /\ cb = Zero
  <2>1. mb \in {Zero, Undefined}
    BY <1>2, <1>4 DEF Agrees, Binaries, Products
  <2>2. MeaningOf(node, env, sign, ma, mb)
          = IF mb = Zero THEN Undefined ELSE Stricts(ma, mb, Quotient(ma, mb))
    BY <1>3, <1>4, MeaningOfTwo
  <2>3. mb = Undefined => Stricts(ma, mb, Quotient(ma, mb)) = Undefined
    BY DEF Stricts
  <2> QED
    BY <2>1, <2>2, <2>3
<1>5. CASE node.op = "power" /\ ca = Zero /\ Negative(cb)
  <2>1. ma \in {Zero, Undefined} /\ mb \in {cb, Undefined} /\ cb \notin {None, Raised}
    BY <1>1, <1>2, <1>5 DEF Agrees, Binaries
  <2>2. MeaningOf(node, env, sign, ma, mb) = Stricts(ma, mb, PowerOf(ma, mb))
    BY <1>3, <1>5, MeaningOfTwo
  <2>3. ma = Zero /\ mb = cb => PowerOf(ma, mb) = Undefined
    BY <1>5 DEF PowerOf, Negative
  <2> QED
    BY <1>2, <2>1, <2>2, <2>3 DEF Stricts
<1>6. CASE node.op = "sqrt" /\ Negative(ca)
  <2>1. ma \in {ca, Undefined} /\ ca \notin {None, Raised}
    BY <1>1, <1>6 DEF Agrees
  <2>2. MeaningOf(node, env, sign, ma, mb) = Stricts(ma, ma, RootOf(ma))
    BY <1>6, MeaningOfOne
  <2>3. ma = ca => RootOf(ma) = Undefined
    BY <1>6 DEF RootOf, Negative
  <2> QED
    BY <2>1, <2>2, <2>3 DEF Stricts
<1> QED
  BY <1>4, <1>5, <1>6 DEF Alarmed

LEMMA PowerUndefined ==
  ASSUME NEW v \in Numbers, NEW w \in Numbers, PowerOf(v, w) = Undefined
  PROVE  v = Zero /\ w[2] < 0
<1> SUFFICES ASSUME ~(v = Zero /\ w[2] < 0) PROVE FALSE
  OBVIOUS
<1> DEFINE n == w[2]
           q == n \div Scale
<1>1. n \in Int /\ Scale \in Nat \ {0}
  BY NumberIs, SemanticAssumption
<1>2. q \in Int /\ (q < 0 => n < 0)
  <2> HIDE DEF n
  <2> QED
    BY <1>1
<1>3. PowerOf(v, w) = None \/ PowerOf(v, w) = IntegerPower(v, q)
  BY DEF PowerOf
<1> HIDE DEF q
<1>4. IntegerPower(v, q) \in Numbers \cup {None, Raised}
  BY <1>2, IntegerPowerType
<1> QED
  BY <1>3, <1>4, ValuesDiffer

\* What is undefined raises one if its operands are defined.
LEMMA AlarmComplete ==
  ASSUME NEW node, node.op \in Operations, node.op \notin {"variable", "pm"}, NEW env, NEW sign,
         NEW ca, NEW cb, NEW ma, NEW mb,
         node.op \notin Leaves => Agrees(ca, ma, TRUE) /\ ma \notin {Undefined, None},
         node.op \in Binaries => Agrees(cb, mb, TRUE) /\ mb \notin {Undefined, None},
         MeaningOf(node, env, sign, ma, mb) = Undefined
  PROVE  Alarmed(node.op, ca, cb)
<1>1. Operation(node, sign) = node.op
  BY DEF Operation
<1>2. node.op \notin Leaves => ma \in Meanings /\ ca = ma
  BY DEF Agrees
<1>3. node.op \in Binaries => mb \in Meanings /\ cb = mb
  BY DEF Agrees
<1>4. \A v : v \in Numbers \cup {None, Raised} => v # Undefined
  BY ValuesDiffer
<1>5. CASE node.op = "number"
  <2>1. Finite(DecimalOf(node.lexeme)) # Undefined
    BY DEF Finite, Undefined
  <2> QED
    BY <1>5, <2>1, MeaningOfOne
<1>6. CASE node.op = "plus"
  BY <1>6, MeaningOfOne, OperationsDiffer DEF Unaries
<1>7. CASE node.op = "minus"
  <2>1. node.op \notin Leaves
    BY <1>7 DEF Leaves
  <2>2. Stricts(ma, ma, Negation(ma)) = Undefined
    BY <1>7, MeaningOfOne
  <2>3. ma \in Numbers /\ Negation(ma) = Undefined
    BY <1>2, <2>1, <2>2, StrictUndefined
  <2> QED
    BY <1>4, <2>3, NegationOfNumber
<1>8. CASE node.op = "sqrt"
  <2>1. node.op \notin Leaves
    BY <1>8 DEF Leaves
  <2>2. Stricts(ma, ma, RootOf(ma)) = Undefined
    BY <1>8, MeaningOfOne
  <2>3. ma \in Numbers /\ RootOf(ma) = Undefined
    BY <1>2, <2>1, <2>2, StrictUndefined
  <2>4. ma[2] < 0
    BY <1>4, <2>3, SquareRootType DEF RootOf
  <2> QED
    BY <1>2, <1>8, <2>1, <2>4 DEF Alarmed, Negative
<1>9. CASE node.op \in Binaries
  <2>1. /\ node.op \notin Leaves /\ ma \in Meanings /\ mb \in Meanings /\ ca = ma /\ cb = mb
        /\ ma \notin {None, Undefined} /\ mb \notin {None, Undefined}
    BY <1>2, <1>3, <1>9, OperationsDiffer
  <2>2. CASE node.op = "add"
    <3>1. Stricts(ma, mb, Sum(ma, mb)) = Undefined
      BY <1>1, <2>2, MeaningOfTwo
    <3>2. ma \in Numbers /\ mb \in Numbers /\ Sum(ma, mb) = Undefined
      BY <2>1, <3>1, StrictUndefined
    <3> QED
      BY <1>4, <3>2, SumOfNumbers
  <2>3. CASE node.op = "subtract"
    <3>1. Stricts(ma, mb, Sum(ma, Finite(-mb[2]))) = Undefined
      BY <1>1, <2>3, MeaningOfTwo
    <3>2. ma \in Numbers /\ mb \in Numbers /\ Sum(ma, Finite(-mb[2])) = Undefined
      BY <2>1, <3>1, StrictUndefined
    <3>3. Finite(-mb[2]) \in Numbers
      BY <3>2, Opposite
    <3> QED
      BY <1>4, <3>2, <3>3, SumOfNumbers
  <2>4. CASE node.op \in {"multiply", "juxt"}
    <3>1. Stricts(ma, mb, Product(ma, mb)) = Undefined
      BY <1>1, <2>4, MeaningOfTwo
    <3>2. ma \in Numbers /\ mb \in Numbers /\ Product(ma, mb) = Undefined
      BY <2>1, <3>1, StrictUndefined
    <3> QED
      BY <1>4, <3>2, ProductOfNumbers
  <2>5. CASE node.op \in {"divide", "frac"}
    <3>1. CASE mb = Zero
      BY <2>1, <2>5, <3>1 DEF Alarmed
    <3>2. CASE mb # Zero
      <4>1. Stricts(ma, mb, Quotient(ma, mb)) = Undefined
        BY <1>1, <2>5, <3>2, MeaningOfTwo
      <4>2. ma \in Numbers /\ mb \in Numbers /\ Quotient(ma, mb) = Undefined
        BY <2>1, <4>1, StrictUndefined
      <4> QED
        BY <1>4, <3>2, <4>2, QuotientOfNumbers
    <3> QED
      BY <3>1, <3>2
  <2>6. CASE node.op = "power"
    <3>1. Stricts(ma, mb, PowerOf(ma, mb)) = Undefined
      BY <1>1, <2>6, MeaningOfTwo
    <3>2. ma \in Numbers /\ mb \in Numbers /\ PowerOf(ma, mb) = Undefined
      BY <2>1, <3>1, StrictUndefined
    <3>3. ma = Zero /\ mb[2] < 0
      BY <3>2, PowerUndefined
    <3> QED
      BY <2>1, <2>6, <3>3 DEF Alarmed, Negative
  <2> QED
    BY <1>9, <2>2, <2>3, <2>4, <2>5, <2>6 DEF Binaries, Sums, Products
<1> QED
  BY <1>5, <1>6, <1>7, <1>8, <1>9 DEF Operations, Leaves, Unaries

\* The constants of the tree of a node are those of the expression.
LEMMA ConstantsBelow ==
  ASSUME NEW e \in Trees, NEW t \in Trees, NEW d, NEW k, CopyOf(t, e, d, k)
  PROVE  \A j \in 1 .. Len(t) : ConstantValues(t)[j] = ConstantValues(e)[d + j]
BY ConstantsAre, ValuesCopied

\* Values of nodes and of their operands, in the tree of a node.
LEMMA RootValue ==
  ASSUME NEW t \in Trees, NEW env, NEW sign \in {"add", "subtract"},
         NEW g, Valued(ReadAs(env, sign), t, g)
  PROVE  LET n == Len(t) IN
         g[n] = MeaningOf(t[n], env, sign, g[Operands(t, n)[1]], g[Operands(t, n)[2]])
<1> DEFINE how == ReadAs(env, sign)
           n == Len(t)
<1>1. how.folds = FALSE /\ how.env = env /\ how.sign = sign
  BY DEF ReadAs
<1>2. n \in 1 .. n /\ DOMAIN t = 1 .. n
  BY TreeFacts
<1> HIDE DEF how, n
<1>3. g[n] = WorthAt(how, t, g, n)
  BY <1>2 DEF Valued, how, n
<1> QED
  BY <1>1, <1>3 DEF WorthAt, Worth, n

\* An alarm at a node is one at the root of its tree.
LEMMA AlarmBelow ==
  ASSUME NEW e \in Trees, NEW k \in 1 .. Len(e)
  PROVE  LET t == Below(e, k)
             n == Len(t)
         IN DomainDiagnostics(e, k) # << >> <=>
              Alarmed(t[n].op, ConstantValues(t)[Operands(t, n)[1]], ConstantValues(t)[Operands(t, n)[2]])
<1> DEFINE t == Below(e, k)
           d == k - e[k].size
           n == Len(t)
           c == ConstantValues(t)
           f == ConstantValues(e)
<1>1. t \in Trees /\ CopyOf(t, e, d, k)
  BY BelowIs, BelowTree
<1> HIDE DEF t, d
<1>2. n \in 1 .. n /\ d + n = k /\ t[n] = e[k]
  BY <1>1 DEF CopyOf
<1>3. \A j \in 1 .. n : c[j] = f[d + j]
  BY <1>1, ConstantsBelow
<1>4. /\ DOMAIN Operands(e, k) = DOMAIN Operands(t, n)
      /\ \A i \in DOMAIN Operands(t, n) :
           Operands(t, n)[i] \in 1 .. n - 1 /\ Operands(e, k)[i] = d + Operands(t, n)[i]
  BY <1>1, <1>2, CopyOperands DEF ShiftedOperands
<1>5. n \in Nat
  BY <1>1, TreeFacts
<1> HIDE DEF n, c, f
<1>6. \A i \in DOMAIN Operands(t, n) : c[Operands(t, n)[i]] = f[Operands(e, k)[i]]
  <2> TAKE i \in DOMAIN Operands(t, n)
  <2>1. Operands(t, n)[i] \in 1 .. n
    BY <1>4, <1>5
  <2> QED
    BY <1>3, <1>4, <2>1
<1>7. Alarmed(e[k].op, f[Operands(e, k)[1]], f[Operands(e, k)[2]])
        <=> Alarmed(t[n].op, c[Operands(t, n)[1]], c[Operands(t, n)[2]])
  <2>1. CASE t[n].op \in Binaries
    <3>1. Operands(t, n) = <<n - 1 - t[n - 1].size, n - 1>>
      BY <1>1, <1>2, <2>1, OperandsOf DEF n
    <3>2. 1 \in DOMAIN Operands(t, n) /\ 2 \in DOMAIN Operands(t, n)
      BY <3>1
    <3> QED
      BY <1>2, <1>6, <3>2
  <2>2. CASE t[n].op = "sqrt"
    <3>1. Operands(t, n) = <<n - 1>>
      BY <1>1, <1>2, <2>2, OperandsOf DEF n
    <3>2. 1 \in DOMAIN Operands(t, n)
      BY <3>1
    <3>3. c[Operands(t, n)[1]] = f[Operands(e, k)[1]]
      BY <1>6, <3>2
    <3> QED
      BY <1>2, <2>2, <3>3 DEF Alarmed
  <2>3. CASE t[n].op \notin Binaries /\ t[n].op # "sqrt"
    <3>1. t[n].op \notin {"divide", "frac", "power", "sqrt"}
      BY <2>3 DEF Binaries, Products
    <3> QED
      BY <1>2, <3>1 DEF Alarmed
  <2> QED
    BY <2>1, <2>2, <2>3
<1> QED
  BY <1>7, AlarmIs DEF t, n, c, f

\* An alarm says that the operation is undefined, whatever the variables are.
LEMMA AlarmsUndefined ==
  ASSUME NEW e \in Trees, NEW k \in 1 .. Len(e), DomainDiagnostics(e, k) # << >>,
         NEW env \in Environments(Below(e, k)), NEW sign \in {"add", "subtract"}
  PROVE  Meaning(Below(e, k), env, sign) = Undefined
<1> DEFINE t == Below(e, k)
           n == Len(t)
           c == ConstantValues(t)
<1>1. t \in Trees
  BY BelowTree
<1>2. Alarmed(t[n].op, c[Operands(t, n)[1]], c[Operands(t, n)[2]])
  BY AlarmBelow
<1>3. env \in Environments(t)
  OBVIOUS
<1>4. SUFFICES Meaning(t, env, sign) = Undefined
  OBVIOUS
<1> HIDE DEF t
<1>5. n \in Nat /\ n \in 1 .. n /\ DOMAIN t = 1 .. n
  BY <1>1, TreeFacts
<1>6. Assigned(t, env)
  <2> SUFFICES ASSUME NEW j \in 1 .. n, t[j].op = "variable" PROVE env[t[j].lexeme] \in Int
    BY DEF Assigned
  <2>1. t[j] \in Range(t)
    BY <1>5 DEF Range
  <2>2. t[j].lexeme \in VariablesIn(t)
    BY <2>1 DEF VariablesIn
  <2>3. env[t[j].lexeme] \in {-Scale, 0, Scale}
    BY <1>3, <2>2 DEF Environments
  <2>4. Scale \in Int /\ -Scale \in Int
    BY SemanticAssumption
  <2> QED
    BY <2>3, <2>4
<1>7. PICK g : Valued(ReadAs(env, sign), t, g) /\ Meaning(t, env, sign) = g[n]
  BY <1>1, MeaningsAre
<1>8. \A j \in 1 .. n : Agrees(c[j], g[j], FALSE)
  BY <1>1, <1>6, <1>7, TreeAgrees
<1>9. g[n] = MeaningOf(t[n], env, sign, g[Operands(t, n)[1]], g[Operands(t, n)[2]])
  BY <1>1, <1>7, RootValue
<1>10. /\ Operands(t, n)[1] \in 1 .. n
       /\ t[n].op \in Binaries => Operands(t, n)[2] \in 1 .. n
  <2>1. CASE t[n].op \in Binaries
    <3>1. Operands(t, n)[1] \in 1 .. n - 1 /\ Operands(t, n)[2] \in 1 .. n - 1
      BY <1>1, <1>5, <2>1, OperandsOf
    <3> QED
      BY <1>5, <3>1
  <2>2. CASE t[n].op = "sqrt"
    <3>1. Operands(t, n)[1] \in 1 .. n - 1
      BY <1>1, <1>5, <2>2, OperandsOf
    <3> QED
      BY <1>5, <2>2, <3>1 DEF Binaries, Sums, Products
  <2> QED
    BY <1>2, <2>1, <2>2 DEF Alarmed, Binaries, Products
<1> DEFINE ca == c[Operands(t, n)[1]]
           cb == c[Operands(t, n)[2]]
           ma == g[Operands(t, n)[1]]
           mb == g[Operands(t, n)[2]]
<1>11. Agrees(ca, ma, FALSE) /\ (t[n].op \in Binaries => Agrees(cb, mb, FALSE))
  BY <1>8, <1>10
<1>12. Alarmed(t[n].op, ca, cb) /\ g[n] = MeaningOf(t[n], env, sign, ma, mb)
  BY <1>2, <1>9
<1> HIDE DEF n, c, ca, cb, ma, mb
<1> QED
  BY <1>7, <1>11, <1>12, AlarmSound

LEMMA AlarmAtRoot ==
  ASSUME NEW e \in Trees, NEW k \in 1 .. Len(e),
         LET t == Below(e, k)
             n == Len(t)
         IN Alarmed(t[n].op, ConstantValues(t)[Operands(t, n)[1]], ConstantValues(t)[Operands(t, n)[2]])
  PROVE  DomainDiagnostics(e, k) # << >>
BY AlarmBelow

\* The operation of a node without variables that is undefined while its operands are not.
NewlyUndefined(e, k) ==
  /\ Closed(Below(e, k)) /\ Meaning(Below(e, k), << >>, "add") = Undefined
  /\ \A i \in Range(Operands(e, k)) : Meaning(Below(e, i), << >>, "add") \notin {Undefined, None}

\* What is undefined of defined constants is an alarm.
LEMMA UndefinedAlarms ==
  ASSUME NEW e \in Trees, NEW k \in 1 .. Len(e), NewlyUndefined(e, k)
  PROVE  LET t == Below(e, k)
             n == Len(t)
         IN Alarmed(t[n].op, ConstantValues(t)[Operands(t, n)[1]], ConstantValues(t)[Operands(t, n)[2]])
<1> DEFINE t == Below(e, k)
           d == k - e[k].size
           n == Len(t)
           c == ConstantValues(t)
           how == ReadAs(<< >>, "add")
<1>1. t \in Trees /\ CopyOf(t, e, d, k)
  BY BelowIs, BelowTree
<1>2. PICK f : Valued(how, e, f)
  BY MeaningsAre
<1>3. PICK g : Valued(how, t, g)
  BY <1>1, MeaningsAre
<1>4. IsHow(how)
  BY MeaningsAre
<1>5. Closed(t) /\ f[k] = Undefined
  BY <1>2, MeaningBelow DEF NewlyUndefined
<1>6. SUFFICES Alarmed(t[n].op, c[Operands(t, n)[1]], c[Operands(t, n)[2]])
  OBVIOUS
<1> HIDE DEF t, d
<1>7. n \in Nat /\ n \in 1 .. n /\ DOMAIN t = 1 .. n /\ t[n].op \in Operations
  BY <1>1, TreeFacts DEF Nodes
<1>8. d + n = k /\ t[n] = e[k]
  BY <1>1, <1>7 DEF CopyOf
<1>9. \A j \in 1 .. n : g[j] = f[d + j]
  BY <1>1, <1>2, <1>3, <1>4, ValuesCopied
<1>10. \A j \in 1 .. n : t[j].op \notin {"variable", "pm"}
  BY <1>5, <1>7 DEF Closed, Range
<1>11. \A j \in 1 .. n : Agrees(c[j], g[j], TRUE)
  <2>1. Assigned(t, << >>)
    BY <1>10 DEF Assigned
  <2> QED
    BY <1>1, <1>3, <1>5, <2>1, TreeAgrees
<1>12. g[n] = MeaningOf(t[n], << >>, "add", g[Operands(t, n)[1]], g[Operands(t, n)[2]])
  BY <1>1, <1>3, RootValue
<1>13. g[n] = Undefined
  BY <1>5, <1>7, <1>8, <1>9
<1>14. \A i \in DOMAIN Operands(t, n) :
         LET j == Operands(t, n)[i] IN Agrees(c[j], g[j], TRUE) /\ g[j] \notin {Undefined, None}
  <2> TAKE i \in DOMAIN Operands(t, n)
  <2> DEFINE j == Operands(t, n)[i]
             o == Operands(e, k)[i]
  <2>1. i \in DOMAIN Operands(e, k) /\ j \in 1 .. n - 1 /\ o = d + j
    BY <1>1, <1>7, <1>8, CopyOperands DEF ShiftedOperands
  <2>2. o \in Range(Operands(e, k))
    BY <2>1 DEF Range
  <2> HIDE DEF j, o
  <2>3. j \in 1 .. n
    BY <1>7, <2>1
  <2>4. o \in 1 .. Len(e)
    BY <1>1, <2>1, <2>3 DEF CopyOf
  <2>5. Meaning(Below(e, o), << >>, "add") = f[o]
    BY <1>2, <2>4, MeaningBelow
  <2>6. f[o] \notin {Undefined, None}
    BY <2>2, <2>5 DEF NewlyUndefined
  <2>7. g[j] = f[o]
    BY <1>9, <2>1, <2>3
  <2> QED
    BY <1>11, <2>3, <2>6, <2>7 DEF j
<1>15. t[n].op \notin Leaves => 1 \in DOMAIN Operands(t, n)
  <2>1. CASE t[n].op \in Unaries \cup {"sqrt"}
    <3>1. Operands(t, n) = <<n - 1>>
      BY <1>1, <1>7, <2>1, OperandsOf
    <3> QED
      BY <3>1
  <2>2. CASE t[n].op \in Binaries
    <3>1. Operands(t, n) = <<n - 1 - t[n - 1].size, n - 1>>
      BY <1>1, <1>7, <2>2, OperandsOf
    <3> QED
      BY <3>1
  <2> QED
    BY <1>7, <2>1, <2>2, OperationsDiffer
<1>16. t[n].op \in Binaries => 2 \in DOMAIN Operands(t, n)
  <2> HAVE t[n].op \in Binaries
  <2>1. Operands(t, n) = <<n - 1 - t[n - 1].size, n - 1>>
    BY <1>1, <1>7, OperandsOf
  <2> QED
    BY <2>1
<1> DEFINE ca == c[Operands(t, n)[1]]
           cb == c[Operands(t, n)[2]]
           ma == g[Operands(t, n)[1]]
           mb == g[Operands(t, n)[2]]
<1>17. t[n].op \notin Leaves => Agrees(ca, ma, TRUE) /\ ma \notin {Undefined, None}
  BY <1>14, <1>15
<1>18. t[n].op \in Binaries => Agrees(cb, mb, TRUE) /\ mb \notin {Undefined, None}
  BY <1>14, <1>16
<1>19. MeaningOf(t[n], << >>, "add", ma, mb) = Undefined
  BY <1>12, <1>13
<1>20. t[n].op \notin {"variable", "pm"}
  BY <1>7, <1>10
<1> HIDE DEF n, c, ca, cb, ma, mb
<1>21. Alarmed(t[n].op, ca, cb)
  BY <1>7, <1>17, <1>18, <1>19, <1>20, AlarmComplete
<1> QED
  BY <1>21 DEF ca, cb

\* For every text, the analysis raises SEM050, SEM051 or SEM052 for a node only if its operation
\* is undefined, whatever the variables and the plus-minus, and it raises one for every node
\* without them that is undefined though its operands are not
\* (SemanticAnalyzer._constant_value and its use in _validate_expression_and_references).
THEOREM DomainAlarmsHold == CompilerSpec => []DomainAlarmsExact
<1>1. StageInv => DomainAlarmsExact
  <2> SUFFICES ASSUME StageInv, stage = "analyze", NEW k \in DOMAIN program.expression
               PROVE  LET e == Below(program.expression, k)
                          alarm == DomainDiagnostics(program.expression, k) # << >>
                      IN /\ alarm => \A env \in Environments(e), sign \in {"add", "subtract"} :
                                       Meaning(e, env, sign) = Undefined
                         /\ NewlyUndefined(program.expression, k) => alarm
    BY DEF DomainAlarmsExact, NewlyUndefined
  <2>1. program.expression \in Trees
    BY DEF StageInv, Programs
  <2>2. k \in 1 .. Len(program.expression)
    BY <2>1, TreeFacts
  <2>3. NewlyUndefined(program.expression, k) => DomainDiagnostics(program.expression, k) # << >>
    BY <2>1, <2>2, UndefinedAlarms, AlarmAtRoot
  <2> QED
    BY <2>1, <2>2, <2>3, AlarmsUndefined
<1> QED
  BY <1>1, StagesHold, PTL

=============================================================================
