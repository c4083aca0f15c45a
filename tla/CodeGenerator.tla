---------------------------- MODULE CodeGenerator ----------------------------
(***************************************************************************)
(* The code generator (generator.py) without its template, which is module *)
(* GeneratedRuntime: the branches of the expression and the lines that     *)
(* draw the variables.  A result is that of module Parser, the second part *)
(* of a diagnostic being a span.                                           *)
(*                                                                         *)
(* A term of the script is in postfix notation, as expressions are: leaves *)
(* are <<"name", i>> for the variable _mc_var_i and <<"float", f>>, and    *)
(* operators <<op, 0>>.  A float64 is a multiple of FloatStep units of     *)
(* module Semantic, FloatMax at most: the format is coarser than Decimal,  *)
(* as float64 is.                                                          *)
(***************************************************************************)
EXTENDS Semantic

CONSTANTS FloatStep, FloatMax

ASSUME GeneratorAssumption ==
  {FloatStep, FloatMax} \subseteq Nat \ {0} /\ FloatStep <= FloatMax

\* float(n).
Converted(n) == FloatStep * Nearest(n, FloatStep)

\* _float64.
Float64(n, span) ==
  IF Abs(n) > FloatMax THEN Failed("GEN001", span)
  ELSE IF n # 0 /\ Converted(n) = 0 THEN Failed("GEN004", span)
  ELSE Parsed(Converted(n), span)

\* The values of all results, or the first that failed.
AllParsed(results, span) ==
  LET failed == {k \in DOMAIN results : ~results[k].ok} IN
  IF failed = {} THEN Parsed([k \in DOMAIN results |-> results[k].value], span)
  ELSE results[Min(failed)]

\* variable_names: names are numbered in the order of their distributions.
VariableNames(validated) ==
  LET random == validated.randomVariables IN
  [name \in {random[i] : i \in DOMAIN random} |->
     Max({i \in DOMAIN random : random[i] = name}) - 1]

Applied(op, left, right) == Append(left \o right, <<op, 0>>)

\* _combine, of two sequences of branches.
Combine(op, left, right, span) ==
  LET n == Len(left) * Len(right) IN
  IF n > 2 THEN Failed("ValueError", span)
  ELSE Parsed([k \in 1 .. n |-> Applied(op, left[((k - 1) \div Len(right)) + 1],
                                            right[((k - 1) % Len(right)) + 1])], span)

\* Mutant: the branches of a plus-minus are swapped.
MinusFirst(left, right, span) ==
  IF Len(left) # 1 \/ Len(right) # 1 THEN Failed("GEN002", span)
  ELSE Parsed(<<Applied("subtract", left[1], right[1]), Applied("add", left[1], right[1])>>, span)

\* The two branches of a plus-minus.
PlusMinus(left, right, span) ==
  IF Len(left) # 1 \/ Len(right) # 1 THEN Failed("GEN002", span)
  ELSE Parsed(<<Applied("add", left[1], right[1]), Applied("subtract", left[1], right[1])>>, span)

\* NumpyExpressionVisitor.visit, at each node of an expression.
Visits(e, names) ==
  LET visit[k \in DOMAIN e] ==
        LET op == e[k].op
            operand(i) == visit[Operands(e, k)[i]]
        IN CASE op = "number" ->
                  Then(Float64(DecimalOf(e[k].lexeme), e[k].span),
                       LAMBDA f, span : Parsed(<< << <<"float", f>> >> >>, span))
             [] op = "variable" ->
                  Parsed(<< << <<"name", names[e[k].lexeme]>> >> >>, e[k].span)
             [] op \in Unaries \cup {"sqrt"} ->
                  Then(operand(1), LAMBDA branches, span :
                    Parsed([j \in DOMAIN branches |-> Append(branches[j], <<op, 0>>)], e[k].span))
             [] OTHER ->
                  Then(operand(1), LAMBDA left, first :
                  Then(operand(2), LAMBDA right, second :
                    IF op = "pm" THEN PlusMinus(left, right, e[k].span)
                    ELSE Combine(op, left, right, e[k].span)))
  IN visit

Visit(e, names) == Visits(e, names)[Len(e)]

Float64Of(number, span) == Float64(SignedDecimal(number), span)

\* One value of a discrete distribution: it differs from those before it.
DiscreteValue(pairs, k) ==
  Then(Float64Of(pairs[k].value, pairs[k].span), LAMBDA f, span :
    IF \E j \in 1 .. k - 1 :
         /\ Converted(SignedDecimal(pairs[j].value)) = f
         /\ SignedDecimal(pairs[j].value) # SignedDecimal(pairs[k].value)
    THEN Failed("GEN006", span)
    ELSE Parsed(f, span))

\* Mutant: the limits of a uniform may be equal.
LimitsMayMeet(d) ==
  AllParsed([k \in 1 .. 2 |-> Float64Of(d.parameters[k], d.span)], d.span)

\* The limits of a uniform distribution.
UniformLimits(d) ==
  Then(AllParsed([k \in 1 .. 2 |-> Float64Of(d.parameters[k], d.span)], d.span),
    LAMBDA limits, span :
      IF limits[1] < limits[2] THEN Parsed(limits, span) ELSE Failed("GEN005", span))

\* The parameters with which a distribution is drawn from.
DrawParameters(d) ==
  CASE d.kind = "NORMAL" ->
         AllParsed([k \in 1 .. 2 |-> Float64Of(d.parameters[k], d.span)], d.span)
    [] d.kind = "UNIFORM" -> UniformLimits(d)
    [] d.kind = "DISTRIB" ->
         Then(AllParsed([k \in DOMAIN d.parameters |-> DiscreteValue(d.parameters, k)], d.span),
           LAMBDA values, span :
         Then(AllParsed([k \in DOMAIN d.parameters |->
                       Float64(DecimalOf(d.parameters[k].probability), d.span)], d.span),
           LAMBDA probabilities, same : Parsed(<<values, probabilities>>, span)))

\* _distribution_lines: the variables that the script draws, in order.
DistributionLines(validated) ==
  LET ds == validated.ast.distributions IN
  AllParsed([i \in DOMAIN ds |->
           Then(DrawParameters(ds[i]), LAMBDA parameters, span :
             Parsed([name |-> VariableNames(validated)[ds[i].variable],
                     kind |-> ds[i].kind, parameters |-> parameters], span))],
        validated.ast.span)

\* generate.
Generate(validated) ==
  Then(Visit(validated.ast.expression, VariableNames(validated)), LAMBDA branches, span :
    IF Len(branches) # (IF validated.hasPlusMinus THEN 2 ELSE 1) THEN Failed("GEN003", span)
    ELSE Then(DistributionLines(validated), LAMBDA lines, all :
           Parsed([branches |-> branches, lines |-> lines,
                   branchIds |-> IF Len(branches) = 2 THEN <<"plus", "minus">> ELSE <<"main">>,
                   iterations |-> validated.iterations,
                   statistics |-> validated.statistics], all)))
==============================================================================
