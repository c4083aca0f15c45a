------------------------------- MODULE Compiler -------------------------------
(***************************************************************************)
(* compile_source, as POST /api/jobs calls it: the phases LEX, SYN, SEM    *)
(* and GEN one after the other, and the HTTP status of the answer.  It may *)
(* start from a text or, as parse_tokens does, from a stream of tokens.    *)
(* The jobs that a compiled program becomes are module JobManager.         *)
(***************************************************************************)
EXTENDS Lexer, Grammar, CodeGenerator

CONSTANT TokenStreams

\* What the lexer could have made, as Parser demands: EOF comes last.  A NUMBER
\* is written with digits and a point.
ASSUME StreamsAssumption ==
  \A ts \in TokenStreams :
    /\ ts \in Seq([type : STRING, lexeme : Seq(STRING)])
    /\ ts # << >> /\ ts[Len(ts)].type = "EOF"
    /\ \A i \in DOMAIN ts :
         ts[i].type = "NUMBER" => ts[i].lexeme \in Seq(Digits \cup {"."})

VARIABLES
  stage,       \* the phase at work
  stream,      \* the tokens that are parsed
  program,     \* the ProgramNode
  script,      \* what is generated
  answer       \* the status and the codes of the diagnostics

compilerVars == <<lexerVars, stage, stream, program, script, answer>>

Nothing == << >>

CompilerInit ==
  /\ Init
  /\ \/ stage = "lex" /\ stream = << >>
     \/ stage = "parse" /\ source = << >> /\ stream \in TokenStreams
  /\ program = Nothing /\ script = Nothing /\ answer = Nothing

\* except CompilationError in create_job; what else is raised goes through.
Uncaught == {"RecursionError", "ValueError", "DecimalException"}
Answer(codes) ==
  /\ stage' = "answered"
  /\ answer' = [status |-> IF codes = << >> THEN 202
                           ELSE IF Range(codes) \cap Uncaught = {} THEN 422 ELSE 500,
                codes |-> codes]

LexStep ==
  /\ stage = "lex" /\ Next
  /\ UNCHANGED <<stage, stream, program, script, answer>>

LexFails ==
  /\ stage = "lex" /\ scan = "done" /\ diagnostics # << >>
  /\ Answer([i \in DOMAIN diagnostics |-> diagnostics[i].code])
  /\ UNCHANGED <<lexerVars, stream, program, script>>

Lexeme(token) == SubSeq(source, token.start.offset + 1, token.end.offset)

LexEnds ==
  /\ stage = "lex" /\ scan = "done" /\ diagnostics = << >>
  /\ stream' = [i \in DOMAIN tokens |-> [type |-> tokens[i].type, lexeme |-> Lexeme(tokens[i])]]
  /\ stage' = "parse"
  /\ UNCHANGED <<lexerVars, program, script, answer>>

ParseStream ==
  /\ stage = "parse"
  /\ \E result \in {ParseProgram(stream)} :
       IF result.ok
       THEN program' = result.value /\ stage' = "analyze" /\ UNCHANGED answer
       ELSE Answer(<<result.value>>) /\ UNCHANGED program
  /\ UNCHANGED <<lexerVars, stream, script>>

Analyze ==
  /\ stage = "analyze"
  /\ \E found \in {SemanticDiagnostics(program)} :
       IF AnalysisRaises(program)
       THEN Answer(<<IF Depth(program.expression) > RecursionLimit
                     THEN "RecursionError" ELSE "DecimalException">>)
       ELSE IF found # << >> THEN Answer([i \in DOMAIN found |-> found[i].code])
       ELSE stage' = "generate" /\ UNCHANGED answer
  /\ UNCHANGED <<lexerVars, stream, program, script>>

GenerateScript ==
  /\ stage = "generate"
  /\ \E result \in {Generate(Validated(program))} :
       IF result.ok
       THEN script' = result.value /\ Answer(<< >>)
       ELSE Answer(<<result.value>>) /\ UNCHANGED script
  /\ UNCHANGED <<lexerVars, stream, program>>

LexPhase == LexStep \/ LexFails \/ LexEnds
CompilerNext == LexPhase \/ ParseStream \/ Analyze \/ GenerateScript

\* The request runs it without waiting for anything.  Fairness is stated of the
\* only phase with more than one step.
CompilerSpec == CompilerInit /\ [][CompilerNext]_compilerVars /\ WF_compilerVars(LexPhase)

-----------------------------------------------------------------------------
(* What the compiler must guarantee                                        *)

\* The lexer comes to an end with every text: it neither waits for a character
\* that never comes nor reads the one that a mode leaves to another for ever.
LexingEnds == <>(stage # "lex")

SyntaxCodes == {"SYN001", "SYN010", "SYN020", "SYN021", "SYN022", "SYN030", "SYN041"}
Rejected(codes) == stage = "answered" /\ Range(answer.codes) \cap codes # {}

\* The parser accepts the words of its grammar and rejects all others, without
\* ever going back over a token.
AcceptsGrammar ==
  LET word == [i \in DOMAIN stream |-> stream[i].type] IN
  /\ stage = "analyze" => Derives("PROGRAMA", word)
  /\ Rejected(SyntaxCodes) => ~Derives("PROGRAMA", word)

\* The tree groups the tokens by the precedence of the grammar: this is what
\* the model computes, so no other check would notice an error.
PrecedenceHolds ==
  stage = "analyze" =>
    \A k \in DOMAIN program.expression : WellGrouped(stream, program.expression, k)

\* The text that a span selects, compiled alone, is the node it belongs to.
SpansSelectNodes ==
  stage = "analyze" =>
    \A k \in DOMAIN program.expression :
      LET e == Below(program.expression, k)
          from == Span(e)[1]
          text == Append(SubSeq(stream, from, Span(e)[2]), [type |-> "EOF", lexeme |-> << >>])
      IN ParseExpression(text, 1) = Parsed(Shifted(e, 1 - from), Len(text))

\* What an expression means, under values for its variables and with its
\* plus-minus read as sign: a number, Undefined, or None where it is not
\* computed here (powers that are no integers, 0 to the 0, overflow).
Undefined == <<"undefined", 0>>
Strictly(a, b, F(_, _)) ==
  IF Undefined \in {a, b} THEN Undefined
  ELSE IF {None, Raised} \cap {a, b} # {} THEN None ELSE F(a, b)

Meaning(e, env, sign) ==
  LET meaning[k \in DOMAIN e] ==
        LET op == IF e[k].op = "pm" THEN sign ELSE e[k].op
            a == meaning[Operands(e, k)[1]]
            b == meaning[Operands(e, k)[2]]
        IN CASE op = "number" -> Finite(DecimalOf(e[k].lexeme))
             [] op = "variable" -> Finite(env[e[k].lexeme])
             [] op = "plus" -> a
             [] op = "minus" -> Strictly(a, a, LAMBDA v, w : Negation(v))
             [] op = "add" -> Strictly(a, b, Sum)
             [] op = "subtract" -> Strictly(a, b, LAMBDA v, w : Sum(v, Finite(-w[2])))
             [] op \in {"multiply", "juxt"} -> Strictly(a, b, Product)
             [] op \in {"divide", "frac"} ->
                  IF b = Zero THEN Undefined ELSE Strictly(a, b, Quotient)
             [] op = "power" ->
                  Strictly(a, b, LAMBDA v, w :
                    IF v = Zero /\ w[2] < 0 THEN Undefined
                    ELSE IF w[2] % Scale # 0 THEN None ELSE IntegerPower(v, w[2] \div Scale))
             [] op = "sqrt" ->
                  Strictly(a, a, LAMBDA v, w : IF v[2] < 0 THEN Undefined ELSE SquareRoot(v))
  IN meaning[Len(e)]

Environments(e) == [VariablesIn(e) -> {-Scale, 0, Scale}]
Closed(e) == \A node \in Range(e) : node.op \notin {"variable", "pm"}

\* SEM050, SEM051 and SEM052 are raised for operations that are undefined
\* whatever the variables and the sign of the plus-minus, and for all those on
\* constants of which the operands are defined.
DomainAlarmsExact ==
  stage = "analyze" /\ ~AnalysisRaises(program) =>
    \A k \in DOMAIN program.expression :
      LET e == Below(program.expression, k)
          operands == Range(Operands(program.expression, k))
          alarm == DomainDiagnostics(program.expression, k) # << >>
          meaning(i) == Meaning(Below(program.expression, i), << >>, "add")
      IN /\ alarm => \A env \in Environments(e), sign \in {"add", "subtract"} :
                       Meaning(e, env, sign) = Undefined
         /\ Closed(e) /\ meaning(k) = Undefined
              /\ (\A i \in operands : meaning(i) \notin {Undefined, None})
            => alarm

\* Names are in order exactly when each variable of the expression has one
\* distribution, each distribution a variable, and the output is neither.
NamesResolve ==
  stage = "analyze" =>
    LET found == {SemanticDiagnostics(program)[i].code :
                    i \in DOMAIN SemanticDiagnostics(program)}
        declared == [i \in DOMAIN program.distributions |-> program.distributions[i].variable]
    IN found \cap {"SEM001", "SEM002", "SEM003", "SEM004", "SEM005", "SEM006"} = {} <=>
         /\ IsInjective(declared)
         /\ Range(declared) = VariablesIn(program.expression)
         /\ program.output \notin Range(declared)

Compiled == stage = "answered" /\ answer.status = 202

\* What becomes of a node in the script, and of an expression, with its
\* plus-minus read as sign.
TermNode(node, sign) ==
  CASE node.op = "number" -> <<"float", Converted(DecimalOf(node.lexeme))>>
    [] node.op = "variable" -> <<"name", VariableNames(Validated(program))[node.lexeme]>>
    [] OTHER -> <<IF node.op = "pm" THEN sign ELSE node.op, 0>>
TermOf(e, sign) == [k \in DOMAIN e |-> TermNode(e[k], sign)]

\* A compiled model has the branch of its plus first and that of its minus
\* second, and one branch if it has none; what analysis let pass never takes
\* the errors of the generator that are there for broken trees.
BranchesMatch ==
  /\ Compiled =>
       LET signs == IF script.branchIds = <<"main">> THEN <<"none">> ELSE <<"add", "subtract">>
       IN /\ script.branches = [k \in DOMAIN signs |-> TermOf(program.expression, signs[k])]
          /\ Len(signs) = 2 <=> \E node \in Range(program.expression) : node.op = "pm"
  /\ ~Rejected({"GEN002", "GEN003", "ValueError"})

NamesIn(term) == {atom[2] : atom \in {t \in Range(term) : t[1] = "name"}}

\* The script draws each name once and from the distribution of its variable,
\* and draws what its branches use, no more and no less.
ScriptIsClosed ==
  Compiled =>
    LET drawn == [i \in DOMAIN script.lines |-> script.lines[i].name] IN
    /\ IsInjective(drawn)
    /\ \A k \in DOMAIN script.branches : NamesIn(script.branches[k]) = Range(drawn)
    /\ \A node \in Range(program.expression) : node.op = "variable" =>
         \E i \in DOMAIN drawn :
           /\ <<"name", drawn[i]>> = TermNode(node, "none")
           /\ program.distributions[i].variable = node.lexeme
           /\ program.distributions[i].kind = script.lines[i].kind

\* The parameters still make a distribution after they became float64: numpy
\* would refuse them, or draw one value for two, in every batch.
ParametersValid ==
  Compiled =>
    \A i \in DOMAIN script.lines :
      LET first == script.lines[i].parameters[1]
          second == script.lines[i].parameters[2]
      IN CASE script.lines[i].kind = "NORMAL" -> second > 0
           [] script.lines[i].kind = "UNIFORM" -> first < second
           [] script.lines[i].kind = "DISTRIB" ->
                IsInjective(first) /\ \A k \in DOMAIN second : second[k] >= 0

\* server.py:77: "Cualquier fallo de compilacion usa HTTP 422."
FailuresAre422 == stage = "answered" => answer.status \in {202, 422}
==============================================================================
