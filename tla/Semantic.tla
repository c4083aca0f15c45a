------------------------------- MODULE Semantic -------------------------------
(***************************************************************************)
(* The semantic analysis (semantic.py) and its table of symbols.           *)
(*                                                                         *)
(* The Decimal arithmetic with which it folds constants is modelled by a   *)
(* decimal format with fewer digits: a number is a multiple of 1 / Scale,  *)
(* results are rounded to one and overflow beyond MaxDecimal.  As in the   *)
(* decimal module a power of zero may be infinite, and an operation may    *)
(* raise decimal.Overflow or InvalidOperation.  Zero has no sign.          *)
(***************************************************************************)
EXTENDS Parser

CONSTANTS
  Scale,           \* numbers are multiples of 1 / Scale
  MaxDecimal,      \* the largest number, in that unit
  Tolerance,       \* _PROBABILITY_TOLERANCE, in that unit
  MaxIterations    \* _MAX_ITERATIONS

ASSUME SemanticAssumption ==
  /\ {Scale, MaxDecimal, MaxIterations} \subseteq Nat \ {0}
  /\ Tolerance \in Nat
  /\ \E digits \in 0 .. 9 : Scale = 10 ^ digits

-----------------------------------------------------------------------------
(* Decimal arithmetic                                                      *)

Abs(n) == IF n < 0 THEN -n ELSE n
SignOfNumber(n) == IF n < 0 THEN -1 ELSE 1

\* a / b rounded to an integer.
Nearest(a, b) ==
  SignOfNumber(a) * SignOfNumber(b) * ((2 * Abs(a) + Abs(b)) \div (2 * Abs(b)))

\* The number that a literal writes: Decimal(lexeme).
Digit(ch) ==
  CHOOSE d \in 0 .. 9 : <<"0", "1", "2", "3", "4", "5", "6", "7", "8", "9">>[d + 1] = ch
DecimalOf(lexeme) ==
  LET number[n \in 0 .. Len(lexeme)] ==
        IF n = 0 THEN 0
        ELSE IF lexeme[n] = "." THEN number[n - 1] ELSE 10 * number[n - 1] + Digit(lexeme[n])
      unit[n \in 0 .. Len(lexeme)] ==
        IF \E k \in 1 .. n - 1 : lexeme[k] = "." THEN 10 * unit[n - 1] ELSE 1
  IN Nearest(Scale * number[Len(lexeme)], unit[Len(lexeme)])

SignedDecimal(number) ==
  IF number.negative THEN -DecimalOf(number.lexeme) ELSE DecimalOf(number.lexeme)

\* What folding a constant gives: a number, an infinity with its sign, None if
\* the expression is no constant, or an exception that nothing catches.
Finite(n) == <<"finite", n>>
Infinite(sign) == <<"infinite", sign>>
None == <<"none", 0>>
Raised == <<"raised", 0>>

Zero == Finite(0)
Negative(v) == v[2] < 0
IsInfinite(v) == v[1] = "infinite"
Rounded(n) == IF Abs(n) > MaxDecimal THEN Raised ELSE Finite(n)

Negation(a) == IF IsInfinite(a) THEN Infinite(-a[2]) ELSE Rounded(-a[2])

\* a + b: the infinities do not cancel.
Sum(a, b) ==
  CASE IsInfinite(a) /\ IsInfinite(b) /\ a # b -> Raised
    [] IsInfinite(a) /\ (IsInfinite(b) => a = b) -> a
    [] IsInfinite(b) /\ ~IsInfinite(a) -> b
    [] OTHER -> Rounded(a[2] + b[2])

Product(a, b) ==
  LET sign == SignOfNumber(a[2]) * SignOfNumber(b[2]) IN
  CASE {a, b} \cap {Infinite(1), Infinite(-1)} # {} ->
         IF Zero \in {a, b} THEN Raised ELSE Infinite(sign)
    [] a # Zero /\ ~IsInfinite(a) /\ ~IsInfinite(b)
         /\ Abs(b[2]) > (MaxDecimal * Scale) \div Abs(a[2]) -> Raised
    [] OTHER -> Rounded(Nearest(a[2] * b[2], Scale))

\* a / b for b # 0.
Quotient(a, b) ==
  CASE IsInfinite(a) /\ IsInfinite(b) -> Raised
    [] IsInfinite(a) /\ ~IsInfinite(b) -> Infinite(a[2] * SignOfNumber(b[2]))
    [] ~IsInfinite(a) /\ IsInfinite(b) -> Zero
    [] OTHER -> Rounded(Nearest(a[2] * Scale, b[2]))

\* An exception in an operand goes on, and None next.
Fold(a, b, F(_, _)) ==
  IF Raised \in {a, b} THEN Raised ELSE IF None \in {a, b} THEN None ELSE F(a, b)

\* base to the power of a natural number.
NaturalPower(base, k) ==
  LET power[n \in Nat] == IF n = 0 THEN Finite(Scale) ELSE Fold(power[n - 1], base, Product)
  IN power[k]

\* base ** int(exponent), with the except clause: 0 to the 0 is caught.  What
\* is too large to divide by gives zero.
IntegerPower(base, k) ==
  LET power == NaturalPower(base, Abs(k)) IN
  CASE base = Zero /\ k = 0 -> None
    [] base = Zero /\ k < 0 -> Infinite(1)
    [] base # Zero /\ k < 0 ->
         IF power = Raised THEN Zero
         ELSE IF power = Zero THEN Raised ELSE Quotient(Finite(Scale), power)
    [] OTHER -> power

SquareRoot(a) ==
  IF IsInfinite(a) THEN a
  ELSE Finite(CHOOSE r \in 0 .. a[2] + Scale :
                r * r <= a[2] * Scale /\ a[2] * Scale < (r + 1) * (r + 1))

\* _constant_value, at each node of an expression.
ConstantValues(e) ==
  LET value[k \in DOMAIN e] ==
        LET op == e[k].op
            a == value[Operands(e, k)[1]]
            b == value[Operands(e, k)[2]]
        IN CASE op = "number" -> Finite(DecimalOf(e[k].lexeme))
             [] op \in {"variable", "pm"} -> None
             [] op = "plus" -> a
             [] op = "minus" -> Fold(a, a, LAMBDA v, w : Negation(v))
             [] op = "add" -> Fold(a, b, Sum)
             [] op = "subtract" -> Fold(a, b, LAMBDA v, w : Sum(v, <<w[1], -w[2]>>))
             [] op \in {"multiply", "juxt"} -> Fold(a, b, Product)
             [] op \in {"divide", "frac"} ->
                  Fold(a, b, LAMBDA v, w : IF w = Zero THEN None ELSE Quotient(v, w))
             [] op = "power" ->
                  Fold(a, b, LAMBDA v, w :
                    IF w[2] % Scale # 0 THEN None ELSE IntegerPower(v, w[2] \div Scale))
             [] op = "sqrt" ->
                  Fold(a, a, LAMBDA v, w : IF Negative(v) THEN None ELSE SquareRoot(v))
  IN value

-----------------------------------------------------------------------------
(* The three passes; spans are those of the parser                         *)

Diagnosed(code, span) == <<[code |-> code, span |-> span]>>
When(condition, code, span) == IF condition THEN Diagnosed(code, span) ELSE << >>

\* Applies F to each index of a sequence and joins the results.
ForEach(s, F(_)) == FlattenSeq([i \in DOMAIN s |-> F(i)])

VariablesIn(e) == {node.lexeme : node \in {n \in Range(e) : n.op = "variable"}}

\* The names that _register_declarations registers as random variables.
RandomNames(program) ==
  {program.distributions[i].variable : i \in DOMAIN program.distributions}
    \ {program.output}

\* The first distribution of a name: the one that its symbol keeps.
FirstOf(program, name) ==
  Min({i \in DOMAIN program.distributions : program.distributions[i].variable = name})

\* Mutant: a second distribution of a name is not noticed.
OutputOnly(program) ==
  ForEach(program.distributions, LAMBDA i :
    When(program.distributions[i].variable = program.output, "SEM001",
         program.distributions[i].span))
  \o When(RandomNames(program) = {}, "SEM006", program.span)

\* _register_declarations.
DeclarationDiagnostics(program) ==
  ForEach(program.distributions, LAMBDA i :
    LET d == program.distributions[i] IN
    IF d.variable = program.output THEN Diagnosed("SEM001", d.span)
    ELSE When(FirstOf(program, d.variable) < i, "SEM004", d.span))
  \o When(RandomNames(program) = {}, "SEM006", program.span)

\* Mutant: a fraction is not checked.
QuotientsOnly(e, k) ==
  LET operand(i) == Operands(e, k)[i]
      value(i) == ConstantValues(e)[operand(i)]
  IN CASE e[k].op = "divide" -> When(value(2) = Zero, "SEM050", e[operand(2)].span)
       [] e[k].op = "sqrt" -> When(Negative(value(1)), "SEM051", e[operand(1)].span)
       [] OTHER -> << >>

\* The checks of a node on constants outside the domain of its operation.
DomainDiagnostics(e, k) ==
  LET operand(i) == Operands(e, k)[i]
      value(i) == ConstantValues(e)[operand(i)]
  IN CASE e[k].op \in {"divide", "frac"} ->
            When(value(2) = Zero, "SEM050", e[operand(2)].span)
       [] e[k].op = "power" ->
            When(value(1) = Zero /\ Negative(value(2)), "SEM052", e[k].span)
       [] e[k].op = "sqrt" -> When(Negative(value(1)), "SEM051", e[operand(1)].span)
       [] OTHER -> << >>

\* _register_reference.
ReferenceDiagnostics(program, node) ==
  IF node.lexeme = program.output THEN Diagnosed("SEM002", node.span)
  ELSE When(node.lexeme \notin RandomNames(program), "SEM003", node.span)

\* _validate_expression_and_references: operands are visited before their node.
ExpressionDiagnostics(program) ==
  LET e == program.expression IN
  ForEach(e, LAMBDA k :
    IF e[k].op = "variable" THEN ReferenceDiagnostics(program, e[k]) ELSE DomainDiagnostics(e, k))

\* Mutant: a name is used if it is declared.
UsedIfDeclared(program) == RandomNames(program)

\* _used_random_variables.
UsedNames(program) == VariablesIn(program.expression) \cap RandomNames(program)

\* _validate_unused_distributions.
UnusedDiagnostics(program) ==
  ForEach(program.distributions, LAMBDA i :
    LET d == program.distributions[i] IN
    When(d.variable \in RandomNames(program) \ UsedNames(program)
           /\ FirstOf(program, d.variable) = i, "SEM005", d.span))

\* _validate_discrete_distribution.
DiscreteDiagnostics(d) ==
  LET value(k) == SignedDecimal(d.parameters[k].value)
      probability(k) == DecimalOf(d.parameters[k].probability)
      total == FoldLeft(LAMBDA sum, pair : sum + DecimalOf(pair.probability), 0, d.parameters)
  IN ForEach(d.parameters, LAMBDA k :
       When(probability(k) \notin 0 .. Scale, "SEM012", d.parameters[k].span)
       \o When(\E j \in 1 .. k - 1 : value(j) = value(k), "SEM014", d.parameters[k].span))
     \o When(Abs(total - Scale) > Tolerance, "SEM013", d.span)

\* _validate_distributions.
DistributionDiagnostics(program) ==
  ForEach(program.distributions, LAMBDA i :
    LET d == program.distributions[i]
        parameter(k) == SignedDecimal(d.parameters[k])
    IN CASE d.kind = "NORMAL" -> When(parameter(2) <= 0, "SEM010", d.span)
         [] d.kind = "UNIFORM" -> When(parameter(1) >= parameter(2), "SEM011", d.span)
         [] d.kind = "DISTRIB" -> DiscreteDiagnostics(d))

PlusMinusCount(program) ==
  Cardinality({k \in DOMAIN program.expression : program.expression[k].op = "pm"})

\* _validate_iterations, _validate_response and _validate_plus_minus.
RequestDiagnostics(program) ==
  LET lexeme == program.iterations.lexeme
      fractional == \E k \in DOMAIN lexeme : lexeme[k] = "."
  IN When(fractional, "SEM020", program.iterations.span)
     \o When(~fractional /\ DecimalOf(lexeme) \notin Scale .. MaxIterations * Scale,
             "SEM021", program.iterations.span)
     \o When(~IsInjective(program.response.statistics), "SEM030", program.response.span)
     \o When(PlusMinusCount(program) > 1, "SEM040", Span(program.expression))

\* What analyze raises, in the order of its passes.
SemanticDiagnostics(program) ==
  DeclarationDiagnostics(program) \o ExpressionDiagnostics(program)
    \o UnusedDiagnostics(program) \o DistributionDiagnostics(program)
    \o RequestDiagnostics(program)

\* The frames that a visitor needs below the root.
Depth(e) ==
  LET depth[k \in DOMAIN e] ==
        1 + Max({0} \cup {depth[Operands(e, k)[i]] : i \in DOMAIN Operands(e, k)})
  IN depth[Len(e)]

\* The constants that the visitor folds at a node.
FoldedAt(e, k) ==
  LET operand(i) == Operands(e, k)[i] IN
  CASE e[k].op \in {"divide", "frac"} -> {operand(2)}
    [] e[k].op = "power" -> {operand(1), operand(2)}
    [] e[k].op = "sqrt" -> {operand(1)}
    [] OTHER -> {}

\* analyze ends with an exception that is no CompilationError.
AnalysisRaises(program) ==
  LET e == program.expression IN
  \/ Depth(e) > RecursionLimit
  \/ \E k \in DOMAIN e : \E i \in FoldedAt(e, k) : ConstantValues(e)[i] = Raised

\* The symbols of a program, as SymbolTable keeps them.
SymbolTable(program) ==
  [name \in RandomNames(program) \cup {program.output} |->
     [distribution |-> IF name = program.output THEN 0 ELSE FirstOf(program, name),
      references |-> {node.span : node \in {n \in Range(program.expression) :
                                              n.op = "variable" /\ n.lexeme = name}}]]

\* ValidatedProgram: the tree is kept.
Validated(program) ==
  [ast |-> program, symbols |-> SymbolTable(program),
   randomVariables |-> [i \in DOMAIN program.distributions |->
                          program.distributions[i].variable],
   iterations |-> DecimalOf(program.iterations.lexeme) \div Scale,
   statistics |-> program.response.statistics,
   hasPlusMinus |-> PlusMinusCount(program) = 1]
==============================================================================
