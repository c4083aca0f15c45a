------------------------------ MODULE MCCompiler ------------------------------
(***************************************************************************)
(* What is compiled: texts of a few fragments for the lexer, streams that  *)
(* are grown as long as they are viable for the parser, and programs with  *)
(* small expressions and distributions for the phases after it.            *)
(***************************************************************************)
EXTENDS Compiler

CONSTANTS MaxFragments, MaxGrowth

\* The characters of a text.
Word(s) == [i \in 1 .. Len(s) |-> SubSeq(s, i, i)]

Texts(ws) == {Word(w) : w \in ws}
JoinAll(S, n) == {FlattenSeq(f) : f \in UNION {[1 .. k -> S] : k \in 0 .. n}}

Fragments == Texts({"\\pm", "\\response", "\\res", "avg", "valid_rate", "x", "_", "0", "1",
                    ".", "{", "}", ",", " ", "\r", "\n", "@"})
InModes == Texts({"\\response{", "\\response\r{\n"})

WholeText(expression, newline) ==
  Word("\\model{y=") \o Word(expression) \o Word("}") \o newline
    \o Word("\\normal x {-1, 0.5}") \o newline \o Word("\\iter{9}\\response{avg, p05}")

MCSources ==
  JoinAll(Fragments, MaxFragments)
    \cup {before \o text : before \in InModes, text \in JoinAll(Fragments, MaxFragments - 1)}
    \cup {WholeText(e, newline) : e \in {"x", "x \\pm 2x^2", "\\frac{x}{1-1}", "\\sqrt{x"},
                                  newline \in {Word("\n"), Word("\r\n"), Word("\r")}}

-----------------------------------------------------------------------------
(* Streams                                                                 *)

\* Only the lexemes of names and numbers are looked at.
T(type) ==
  [type |-> type, lexeme |-> CASE type = "NUMBER" -> Word("2") [] type = "VARIABLE" -> Word("x")
                               [] OTHER -> << >>]
Number(w) == [type |-> "NUMBER", lexeme |-> Word(w)]
Name(w) == [type |-> "VARIABLE", lexeme |-> Word(w)]
Types(types) == [k \in DOMAIN types |-> T(types[k])]
Stop == Types(<<"EOF">>)

Head0 == <<T("MODEL"), T("LBRACE"), Name("y"), T("ASSIGN")>>
Normal(name, mean, stddev) ==
  <<T("NORMAL"), name, T("LBRACE")>> \o mean \o <<T("COMMA")>> \o stddev \o <<T("RBRACE")>>
Request(iterations, statistics) ==
  Types(<<"ITER", "LBRACE">>) \o <<Number(iterations)>> \o Types(<<"RBRACE", "RESPONSE", "LBRACE">>)
    \o Types(statistics) \o Types(<<"RBRACE", "EOF">>)
Program(expression, distributions, request) ==
  Head0 \o expression \o <<T("RBRACE")>> \o distributions \o request

X == Name("x")
StandardX == Normal(X, <<Number("0")>>, <<Number("1")>>)
Standard == Request("3", <<"AVG">>)

\* The prefixes grown from a seed by tokens of the given types, a prefix going
\* on only if the parser found no error in it.
Viable(word) == LET r == ParseProgram(word \o Stop) IN r.ok \/ r.next > Len(word)
RECURSIVE Grown(_, _, _)
Grown(words, types, n) ==
  IF n = 0 THEN words
  ELSE words \cup Grown({Append(w, T(t)) : w \in {v \in words : Viable(v)}, t \in types}, types, n - 1)

ExpressionTypes == {"VARIABLE", "NUMBER", "PLUS", "PM", "MULT", "POWER", "LBRACE", "RBRACE",
                    "FRAC", "SQRT"}
OutsideTypes == ExpressionTypes \cup {"MINUS", "DIV", "COMMA", "ASSIGN", "MODEL", "NORMAL",
                                      "DISTRIB", "UNIFORM", "ITER", "RESPONSE"}
Declared == Head0 \o <<X, T("RBRACE")>>
Expressions == {SubSeq(w, 5, Len(w)) : w \in Grown({Head0}, ExpressionTypes, MaxGrowth)}

GrownStreams ==
  {Program(e, StandardX, Standard) : e \in Expressions}
    \cup {w \o Stop : w \in
           Grown({<< >>, Declared, Declared \o StandardX,
                  Declared \o Types(<<"DISTRIB", "VARIABLE", "LBRACE">>),
                  Declared \o Types(<<"DISTRIB", "VARIABLE", "LBRACE", "LBRACE", "NUMBER",
                                     "COMMA", "NUMBER", "RBRACE">>)}, OutsideTypes, MaxGrowth - 1)
             \cup Grown({Declared \o StandardX
                           \o Types(<<"ITER", "LBRACE", "NUMBER", "RBRACE", "RESPONSE", "LBRACE">>)},
                        {"AVG", "COMMA", "RBRACE"}, MaxGrowth)}

-----------------------------------------------------------------------------
(* Expressions of every shape, operands in braces                          *)

B(e) == <<T("LBRACE")>> \o e \o <<T("RBRACE")>>
Atoms == {<<X>>, <<Number("0")>>, <<Number("1")>>, <<Number("3")>>, <<Number("0.5")>>}
OfTwo(S, R) ==
  UNION {{B(a) \o op \o B(b) : op \in {<<T("MINUS")>>, <<T("PM")>>, <<T("MULT")>>, <<T("DIV")>>, << >>},
                               b \in R} \cup {<<T("FRAC")>> \o B(a) \o B(b) : b \in R} : a \in S}
Exponents == {<<Number("2")>>, <<T("MINUS"), Number("1")>>, <<Number("0")>>, <<Number("0.5")>>,
              <<T("MINUS"), Number("9")>>}
OfOne(S) ==
  UNION {{B(a) \o <<T("POWER")>> \o e : e \in Exponents} \cup {<<T("SQRT")>> \o B(a), <<T("MINUS")>> \o B(a)}
           : a \in S}
Small == OfTwo(Atoms, Atoms) \cup OfOne(Atoms)
Medium == OfTwo(Small, Atoms) \cup OfTwo(Atoms, Small) \cup OfOne(Small)
Large == {<<T("SQRT")>> \o B(e) : e \in OfTwo({<<Number("1")>>}, Small)}
           \cup {<<T("FRAC")>> \o B(<<X>>) \o B(e) : e \in OfTwo(Small, {<<Number("0.5")>>})}

\* Expressions at the edge of the recursion, of float64 and of Decimal.
Times(e, n) == FlattenSeq([k \in 1 .. n |-> e])
Extreme ==
  {Times(<<T("LBRACE")>>, n) \o <<X>> \o Times(<<T("RBRACE")>>, n) : n \in 0 .. 4}
    \cup {<<X>> \o Times(<<T("PLUS"), X>>, n) : n \in {27, 28}}
    \cup {<<X, T("MULT"), Number(w)>> : w \in {"0.01", "0.05", "10", "99"}}
    \cup {<<X, T("DIV")>> \o B(<<Number("99"), T("POWER")>> \o e) :
            e \in {<<Number("9")>>, <<T("MINUS"), Number("9")>>}}

-----------------------------------------------------------------------------
(* Distributions                                                           *)

Parameters == {<<Number("0")>>, <<Number("1")>>, <<Number("1.01")>>, <<Number("0.01")>>,
               <<T("MINUS"), Number("1")>>, <<T("PLUS"), Number("99")>>}
Kinds(name) ==
  {Normal(name, <<Number("0")>>, p) : p \in Parameters}
    \cup {<<T("UNIFORM"), name, T("LBRACE")>> \o p \o <<T("COMMA")>> \o q
            \o <<T("RBRACE")>> : p \in Parameters, q \in Parameters}
    \cup {<<T("DISTRIB"), name, T("LBRACE")>>
            \o B(p \o <<T("COMMA"), Number(v)>>) \o <<T("COMMA")>> \o B(q \o <<T("COMMA"), Number(w)>>)
            \o <<T("RBRACE")>> :
          p \in Parameters, q \in Parameters, <<v, w>> \in {<<"0.5", "0.5">>, <<"0", "1">>, <<"1.5", "0.5">>}}

StandardOf(name) == Normal(name, <<Number("0")>>, <<Number("1")>>)
Lists ==
  Kinds(X)
    \cup {FlattenSeq([k \in 1 .. n |-> StandardOf(f[k])]) :
            n \in 0 .. 3, f \in [1 .. 3 -> {X, Name("y"), Name("z")}]}
    \cup {StandardOf(Name("z")) \o d : d \in Kinds(X)}

MCStreams ==
  GrownStreams
    \cup {Program(<<X, T("PLUS")>> \o e, StandardX, Standard) : e \in Small \cup Medium \cup Large \cup Extreme}
    \cup {Program(<<X, T("MINUS"), Name("z")>>, d, Standard) : d \in Lists}
    \cup {Program(e, d, Standard) : e \in {<<X>>, <<X, Name("y")>>}, d \in Lists}
    \cup {Program(<<X>>, StandardX, Request(n, s)) :
            n \in {"0", "1", "9.0", "99"}, s \in {<<"AVG">>, <<"AVG", "COMMA", "MAX">>, <<"AVG", "COMMA", "AVG">>}}
==============================================================================
