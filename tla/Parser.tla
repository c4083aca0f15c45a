-------------------------------- MODULE Parser --------------------------------
(***************************************************************************)
(* The recursive descent parser (parser.py).  A stream is a sequence of    *)
(* tokens [type, lexeme] that ends with EOF; an operator ParseX(ts, i)     *)
(* parses an X that starts at token i.  Its result is a value and the      *)
(* index of the next token, or the code of the diagnostic raised and the   *)
(* index of the token it is about.                                         *)
(*                                                                         *)
(* An expression is the sequence of its nodes in the order in which they   *)
(* are created, operands before their operator and the left one first: its *)
(* last node is its root.  With the size of each node, which counts the    *)
(* nodes below and including it, this is the tree of ast.py.  A span is a  *)
(* pair of token indices; an implicit product is a node "juxt".            *)
(***************************************************************************)
EXTENDS Integers, Sequences, FiniteSetsExt, SequencesExt

CONSTANT RecursionLimit   \* the frames that Python gives to a recursion

ASSUME RecursionAssumption == RecursionLimit \in Nat \ {0}

Leaves == {"variable", "number"}
Unaries == {"plus", "minus"}
Sums == {"add", "subtract", "pm"}
Products == {"multiply", "divide", "juxt"}

Node(op, lexeme, size, from, to) ==
  [op |-> op, lexeme |-> lexeme, size |-> size, span |-> <<from, to>>]

Leaf(op, lexeme, i) == <<Node(op, lexeme, 1, i, i)>>
Unary(op, operand, from, to) == Append(operand, Node(op, << >>, Len(operand) + 1, from, to))
Binary(op, left, right, from, to) ==
  Append(left \o right, Node(op, << >>, Len(left) + Len(right) + 1, from, to))

\* The span of an expression.
Span(e) == e[Len(e)].span

\* The operands of a node, by their indices.
Operands(e, k) ==
  CASE e[k].op \in Leaves -> << >>
    [] e[k].op \in Unaries \cup {"sqrt"} -> <<k - 1>>
    [] OTHER -> <<k - 1 - e[k - 1].size, k - 1>>

\* The expression of a node.
Below(e, k) == SubSeq(e, k - e[k].size + 1, k)

-----------------------------------------------------------------------------
(* Results, and the primitives of the parser                               *)

Parsed(value, next) == [ok |-> TRUE, value |-> value, next |-> next]
Failed(code, at) == [ok |-> FALSE, value |-> code, next |-> at]

Then(result, F(_, _)) == IF result.ok THEN F(result.value, result.next) ELSE result

\* A loop that goes round while the token is of one of the given types, which
\* takes no more rounds than there are tokens.
While(ts, result, types, Round(_, _)) ==
  LET goesOn(r) == r.ok /\ ts[r.next].type \in types
      after[n \in 0 .. Len(ts)] ==
        IF n = 0 THEN result
        ELSE LET r == after[n - 1] IN IF goesOn(r) THEN Round(r.value, r.next) ELSE r
  IN after[CHOOSE n \in 0 .. Len(ts) : n = Len(ts) \/ ~goesOn(after[n])]

\* _consume for each of a sequence of types; the value is where they end.
Consume(ts, i, types) ==
  LET wrong == {k \in DOMAIN types : i + k - 1 > Len(ts) \/ ts[i + k - 1].type # types[k]}
  IN IF wrong = {} THEN Parsed(i + Len(types) - 1, i + Len(types))
     ELSE Failed("SYN001", i + Min(wrong) - 1)

\* _parse_signed_decimal: the sign, if any, and the lexeme.
ParseSigned(ts, i) ==
  LET n == IF ts[i].type \in {"PLUS", "MINUS"} THEN i + 1 ELSE i IN
  Then(Consume(ts, n, <<"NUMBER">>), LAMBDA last, j :
    Parsed([negative |-> ts[i].type = "MINUS", lexeme |-> ts[n].lexeme], j))

SignOf(token) == IF token.type = "PLUS" THEN "plus" ELSE "minus"

\* _parse_signed_number_node: the exponent of a power.
ParseExponent(ts, i) ==
  IF ts[i].type \in {"PLUS", "MINUS"}
  THEN Then(Consume(ts, i + 1, <<"NUMBER">>), LAMBDA last, j :
         Parsed(Unary(SignOf(ts[i]), Leaf("number", ts[last].lexeme, last), i, last), j))
  ELSE Then(Consume(ts, i, <<"NUMBER">>), LAMBDA last, j :
         Parsed(Leaf("number", ts[i].lexeme, i), j))

\* Mutant: the span of a group leaves out its braces.
KeepsSpan(e, from, to) == e

\* A group is the node inside with the span of the braces.
Regroup(e, from, to) == [e EXCEPT ![Len(e)].span = <<from, to>>]
Joined(op, left, right) == Binary(op, left, right, Span(left)[1], Span(right)[2])

SumOf(type) == CASE type = "PLUS" -> "add" [] type = "MINUS" -> "subtract" [] type = "PM" -> "pm"
ProductOf(type) == IF type = "MULT" THEN "multiply" ELSE "divide"

-----------------------------------------------------------------------------
(* Expressions; inner[i] is what an expression in braces parses to that    *)
(* starts at token i                                                       *)

\* _parse_expression, _sum, _product, _unary, _power, _atom and _group.
FramesPerExpression == 7

\* { expression } starting at token i; the value keeps where it closes.
Braced(ts, i, inner) ==
  Then(Consume(ts, i, <<"LBRACE">>), LAMBDA open, j :
  Then(inner[j], LAMBDA e, k :
  Then(Consume(ts, k, <<"RBRACE">>), LAMBDA close, l :
    Parsed([e |-> e, close |-> close], l))))

\* _parse_fraction, _parse_sqrt and _parse_group: the atoms with braces.
ParseBracedAtom(ts, i, inner) ==
  CASE ts[i].type = "FRAC" ->
         Then(Braced(ts, i + 1, inner), LAMBDA num, j :
         Then(Braced(ts, j, inner), LAMBDA den, k :
           Parsed(Binary("frac", num.e, den.e, i, den.close), k)))
    [] ts[i].type = "SQRT" ->
         Then(Braced(ts, i + 1, inner), LAMBDA arg, j :
           Parsed(Unary("sqrt", arg.e, i, arg.close), j))
    [] ts[i].type = "LBRACE" ->
         Then(Braced(ts, i, inner), LAMBDA group, j :
           Parsed(Regroup(group.e, i, group.close), j))

\* Mutant: a number may follow a factor.
StartersWithNumber == {"VARIABLE", "NUMBER", "FRAC", "SQRT", "LBRACE"}

\* _IMPLICIT_FACTOR_STARTERS.
ImplicitFactorStarters == {"VARIABLE", "FRAC", "SQRT", "LBRACE"}

\* _parse_atom; _parse_atom_non_numeric for a token that starts a factor.
ParseAtom(ts, i, inner) ==
  CASE ts[i].type = "VARIABLE" -> Parsed(Leaf("variable", ts[i].lexeme, i), i + 1)
    [] ts[i].type = "NUMBER" -> Parsed(Leaf("number", ts[i].lexeme, i), i + 1)
    [] ts[i].type \in {"FRAC", "SQRT", "LBRACE"} -> ParseBracedAtom(ts, i, inner)
    [] OTHER -> Failed("SYN041", i)

\* _parse_power; also _parse_implicit_factor, which is only called at one of
\* ImplicitFactorStarters.
ParsePower(ts, i, inner) ==
  Then(ParseAtom(ts, i, inner), LAMBDA base, j :
    IF ts[j].type = "POWER"
    THEN Then(ParseExponent(ts, j + 1), LAMBDA exponent, k :
           Parsed(Binary("power", base, exponent, i, Span(exponent)[2]), k))
    ELSE Parsed(base, j))

\* _parse_unary.
ParseUnary(ts, i, inner) ==
  IF ts[i].type \in {"PLUS", "MINUS"}
  THEN Then(ParsePower(ts, i + 1, inner), LAMBDA operand, j :
         Parsed(Unary(SignOf(ts[i]), operand, i, Span(operand)[2]), j))
  ELSE ParsePower(ts, i, inner)

\* Mutant: an implicit factor is only a factor of what stands right before it.
FactorOfLast(ts, left, j, inner) ==
  IF ts[j].type \in {"MULT", "DIV"}
  THEN Then(ParseUnary(ts, j + 1, inner), LAMBDA right, k :
         Parsed(Joined(ProductOf(ts[j].type), left, right), k))
  ELSE Then(ParsePower(ts, j, inner), LAMBDA right, k :
         IF left[Len(left)].op \notin Products THEN Parsed(Joined("juxt", left, right), k)
         ELSE LET last == Below(left, Len(left) - 1)
                  first == SubSeq(left, 1, Len(left) - 1 - Len(last))
              IN Parsed(Joined(left[Len(left)].op, first, Joined("juxt", last, right)), k))

\* Once round the loop of _parse_product, at what has been parsed of it.
NextFactor(ts, left, j, inner) ==
  IF ts[j].type \in {"MULT", "DIV"}
  THEN Then(ParseUnary(ts, j + 1, inner), LAMBDA right, k :
         Parsed(Joined(ProductOf(ts[j].type), left, right), k))
  ELSE Then(ParsePower(ts, j, inner), LAMBDA right, k :
         Parsed(Joined("juxt", left, right), k))

ParseProduct(ts, i, inner) ==
  While(ts, ParseUnary(ts, i, inner), {"MULT", "DIV"} \cup ImplicitFactorStarters,
    LAMBDA left, j : NextFactor(ts, left, j, inner))

ParseSum(ts, i, inner) ==
  While(ts, ParseProduct(ts, i, inner), {"PLUS", "MINUS", "PM"}, LAMBDA left, j :
    Then(ParseProduct(ts, j + 1, inner), LAMBDA right, k :
      Parsed(Joined(SumOf(ts[j].type), left, right), k)))

\* _parse_expression, with the frames that are left for the ones in braces.
ParseExpression(ts, i) ==
  LET depth == RecursionLimit \div FramesPerExpression
      expression[n \in 0 .. depth] ==
        [j \in DOMAIN ts |-> IF n = 0 THEN Failed("RecursionError", j)
                             ELSE ParseSum(ts, j, expression[n - 1])]
  IN expression[depth][i]

-----------------------------------------------------------------------------
(* Programs                                                                *)

StatisticTypes ==
  {"AVG", "MIN", "MAX", "VAR", "STD", "COUNT", "VALID_RATE", "DISCARD_RATE",
   "P05", "P50", "P95"}

\* _parse_normal_distribution and _parse_uniform_distribution.
ParseTwoParameters(ts, i) ==
  Then(Consume(ts, i, <<ts[i].type, "VARIABLE", "LBRACE">>), LAMBDA open, j :
  Then(ParseSigned(ts, j), LAMBDA first, k :
  Then(Consume(ts, k, <<"COMMA">>), LAMBDA comma, l :
  Then(ParseSigned(ts, l), LAMBDA second, m :
  Then(Consume(ts, m, <<"RBRACE">>), LAMBDA close, n :
    Parsed([kind |-> ts[i].type, variable |-> ts[i + 1].lexeme,
            parameters |-> <<first, second>>, span |-> <<i, close>>], n))))))

\* _parse_probability_pair.
ParsePair(ts, i) ==
  Then(Consume(ts, i, <<"LBRACE">>), LAMBDA open, j :
  Then(ParseSigned(ts, j), LAMBDA value, k :
  Then(Consume(ts, k, <<"COMMA", "NUMBER", "RBRACE">>), LAMBDA close, l :
    Parsed([value |-> value, probability |-> ts[k + 1].lexeme,
            span |-> <<i, close>>], l))))

\* The loop of _parse_discrete_distribution.
ParsePairs(ts, i) ==
  While(ts, Then(ParsePair(ts, i), LAMBDA pair, j : Parsed(<<pair>>, j)), {"COMMA"},
    LAMBDA pairs, j :
      IF ts[j + 1].type # "LBRACE" THEN Failed("SYN021", j + 1)
      ELSE Then(ParsePair(ts, j + 1), LAMBDA pair, k : Parsed(Append(pairs, pair), k)))

\* _parse_discrete_distribution.
ParseDiscrete(ts, i) ==
  Then(Consume(ts, i, <<"DISTRIB", "VARIABLE", "LBRACE">>), LAMBDA open, j :
    IF ts[j].type # "LBRACE" THEN Failed("SYN020", j)
    ELSE Then(ParsePairs(ts, j), LAMBDA pairs, k :
         IF ts[k].type = "LBRACE" THEN Failed("SYN022", k)
         ELSE Then(Consume(ts, k, <<"RBRACE">>), LAMBDA close, l :
                Parsed([kind |-> "DISTRIB", variable |-> ts[i + 1].lexeme,
                        parameters |-> pairs, span |-> <<i, close>>], l))))

\* _parse_configuration.
ParseConfiguration(ts, i) ==
  IF ts[i].type = "DISTRIB" THEN ParseDiscrete(ts, i) ELSE ParseTwoParameters(ts, i)

\* _CONFIGURATION_STARTERS.
ConfigurationStarters == {"NORMAL", "DISTRIB", "UNIFORM"}

\* _parse_configurations: one at least.
ParseConfigurations(ts, i) ==
  IF ts[i].type \notin ConfigurationStarters THEN Failed("SYN010", i)
  ELSE While(ts, Parsed(<< >>, i), ConfigurationStarters, LAMBDA done, j :
         Then(ParseConfiguration(ts, j), LAMBDA distribution, k :
           Parsed(Append(done, distribution), k)))

\* _parse_statistic.
ParseStatistic(ts, i, done) ==
  IF ts[i].type \in StatisticTypes THEN Parsed(Append(done, ts[i].type), i + 1)
  ELSE Failed("SYN030", i)

\* The loop of _parse_response.
ParseStatistics(ts, i) ==
  While(ts, ParseStatistic(ts, i, << >>), {"COMMA"}, LAMBDA done, j :
    ParseStatistic(ts, j + 1, done))

\* _parse_iterations and _parse_response, to the end of the stream.
ParseRequest(ts, i) ==
  Then(Consume(ts, i, <<"ITER", "LBRACE", "NUMBER", "RBRACE">>), LAMBDA iter, j :
  Then(Consume(ts, j, <<"RESPONSE", "LBRACE">>), LAMBDA open, k :
  Then(ParseStatistics(ts, k), LAMBDA statistics, l :
  Then(Consume(ts, l, <<"RBRACE", "EOF">>), LAMBDA eof, m :
    Parsed([iterations |-> [lexeme |-> ts[i + 2].lexeme, span |-> <<i, iter>>],
            response |-> [statistics |-> statistics, span |-> <<j, l>>]], m)))))

\* parse, with _parse_model_declaration.
ParseProgram(ts) ==
  Then(Consume(ts, 1, <<"MODEL", "LBRACE", "VARIABLE", "ASSIGN">>), LAMBDA assign, i :
  Then(ParseExpression(ts, i), LAMBDA expression, j :
  Then(Consume(ts, j, <<"RBRACE">>), LAMBDA close, k :
  Then(ParseConfigurations(ts, k), LAMBDA distributions, l :
  Then(ParseRequest(ts, l), LAMBDA request, m :
    Parsed([output |-> ts[3].lexeme, expression |-> expression, span |-> <<1, close>>,
            distributions |-> distributions, iterations |-> request.iterations,
            response |-> request.response], m))))))
==============================================================================
