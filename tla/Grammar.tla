------------------------------- MODULE Grammar -------------------------------
(***************************************************************************)
(* The contract of the parser: the productions of docs/BNF_DEFINITIVA.md,  *)
(* with the statistics of its extension for v1.2.0, and the precedence it  *)
(* fixes.  They are what the parser is compared with and not a model of    *)
(* its code.  A word is a sequence of token types.                         *)
(***************************************************************************)
EXTENDS Parser

Productions ==
  [PROGRAMA |-> {<<"DECLARACION_MODELO", "CONFIGURACIONES", "ITERACIONES",
                   "RESPUESTA", "EOF">>},
   DECLARACION_MODELO |-> {<<"MODEL", "LBRACE", "VARIABLE", "ASSIGN", "EXPRESION", "RBRACE">>},
   CONFIGURACIONES |-> {<<"CONFIGURACION">>, <<"CONFIGURACION", "CONFIGURACIONES">>},
   CONFIGURACION |-> {<<"DIST_NORMAL">>, <<"DIST_DISCRETA">>, <<"DIST_UNIFORME">>},
   DIST_NORMAL |-> {<<"NORMAL", "VARIABLE", "LBRACE", "NUMERO_SIGNADO", "COMMA",
                      "NUMERO_SIGNADO", "RBRACE">>},
   DIST_DISCRETA |-> {<<"DISTRIB", "VARIABLE", "LBRACE", "LISTA_PROBABILIDADES", "RBRACE">>},
   LISTA_PROBABILIDADES |-> {<<"PAR_PROBABILIDAD">>,
                             <<"PAR_PROBABILIDAD", "COMMA", "LISTA_PROBABILIDADES">>},
   PAR_PROBABILIDAD |-> {<<"LBRACE", "NUMERO_SIGNADO", "COMMA", "NUMBER", "RBRACE">>},
   DIST_UNIFORME |-> {<<"UNIFORM", "VARIABLE", "LBRACE", "NUMERO_SIGNADO", "COMMA",
                        "NUMERO_SIGNADO", "RBRACE">>},
   NUMERO_SIGNADO |-> {<<"NUMBER">>, <<"PLUS", "NUMBER">>, <<"MINUS", "NUMBER">>},
   ITERACIONES |-> {<<"ITER", "LBRACE", "NUMBER", "RBRACE">>},
   RESPUESTA |-> {<<"RESPONSE", "LBRACE", "LISTA_ESTADISTICOS", "RBRACE">>},
   LISTA_ESTADISTICOS |-> {<<"ESTADISTICO">>, <<"ESTADISTICO", "COMMA", "LISTA_ESTADISTICOS">>},
   ESTADISTICO |-> {<<type>> : type \in StatisticTypes},
   EXPRESION |-> {<<"SUMA">>},
   SUMA |-> {<<"PRODUCTO", "COLA_SUMA">>},
   COLA_SUMA |-> {<<"OPERADOR_SUMA", "PRODUCTO", "COLA_SUMA">>, << >>},
   OPERADOR_SUMA |-> {<<"PLUS">>, <<"MINUS">>, <<"PM">>},
   PRODUCTO |-> {<<"UNARIO", "COLA_PRODUCTO">>},
   COLA_PRODUCTO |-> {<<"OPERADOR_PRODUCTO", "UNARIO", "COLA_PRODUCTO">>,
                      <<"FACTOR_IMPLICITO", "COLA_PRODUCTO">>, << >>},
   OPERADOR_PRODUCTO |-> {<<"MULT">>, <<"DIV">>},
   UNARIO |-> {<<"PLUS", "POTENCIA">>, <<"MINUS", "POTENCIA">>, <<"POTENCIA">>},
   POTENCIA |-> {<<"ATOMO">>, <<"ATOMO", "POWER", "NUMERO_SIGNADO">>},
   FACTOR_IMPLICITO |-> {<<"ATOMO_NO_NUMERICO">>,
                         <<"ATOMO_NO_NUMERICO", "POWER", "NUMERO_SIGNADO">>},
   ATOMO |-> {<<"VARIABLE">>, <<"NUMBER">>, <<"FRACCION">>, <<"RAIZ">>, <<"GRUPO">>},
   ATOMO_NO_NUMERICO |-> {<<"VARIABLE">>, <<"FRACCION">>, <<"RAIZ">>, <<"GRUPO">>},
   FRACCION |-> {<<"FRAC", "LBRACE", "EXPRESION", "RBRACE", "LBRACE", "EXPRESION", "RBRACE">>},
   RAIZ |-> {<<"SQRT", "LBRACE", "EXPRESION", "RBRACE">>},
   GRUPO |-> {<<"LBRACE", "EXPRESION", "RBRACE">>}]

GrammarSymbols == DOMAIN Productions \cup UNION {Range(body) : body \in UNION Range(Productions)}

\* Where a word derived from a symbol may end, if it starts at i: none of the
\* nonterminals is left recursive.
Ends(word) ==
  LET ends[symbol \in GrammarSymbols, i \in 1 .. Len(word) + 1] ==
        IF symbol \in DOMAIN Productions
        THEN UNION {LET reached[n \in 0 .. Len(body)] ==
                          IF n = 0 THEN {i}
                          ELSE UNION {ends[body[n], j] : j \in reached[n - 1]}
                    IN reached[Len(body)] : body \in Productions[symbol]}
        ELSE IF i <= Len(word) /\ word[i] = symbol THEN {i + 1} ELSE {}
  IN ends

Derives(symbol, word) == Len(word) + 1 \in Ends(word)[symbol, 1]

-----------------------------------------------------------------------------
(* Precedence: sums, products, signs, powers, atoms; a node in braces is an *)
(* atom.  Sums and products group to the left.                             *)

Level(op) ==
  CASE op \in Sums -> 1
    [] op \in Products -> 2
    [] op \in Unaries -> 3
    [] op = "power" -> 4
    [] OTHER -> 5

Balance(ts, i, j) ==
  Cardinality({k \in i .. j : ts[k].type = "LBRACE"})
    - Cardinality({k \in i .. j : ts[k].type = "RBRACE"})

\* The brace that opens the span of the node closes at the end of the span.
InBraces(ts, node) ==
  LET from == node.span[1]
      to == node.span[2]
  IN /\ ts[from].type = "LBRACE" /\ Balance(ts, from, to) = 0
     /\ \A k \in from .. to - 1 : Balance(ts, from, k) > 0

Binds(ts, node, level) == InBraces(ts, node) \/ Level(node.op) >= level

\* The types of the tokens between two operands, or before a first one.
TypesBetween(ts, from, to) == [k \in 1 .. to - from - 1 |-> ts[from + k].type]

OperatorTypes ==
  [add |-> <<"PLUS">>, subtract |-> <<"MINUS">>, pm |-> <<"PM">>, multiply |-> <<"MULT">>,
   divide |-> <<"DIV">>, juxt |-> << >>, power |-> <<"POWER">>]

\* The operands of a node bind as tightly as its operator demands, and nothing
\* but the operator and the braces around the node belongs to it.
WellGrouped(ts, e, k) ==
  LET operand(i) == e[Operands(e, k)[i]]
      op == e[k].op
      before == TypesBetween(ts, e[k].span[1] - 1, operand(1).span[1])
      after == TypesBetween(ts, e[k - 1].span[2], e[k].span[2] + 1)
      braces == [i \in DOMAIN after |-> "LBRACE"]
  IN CASE op \in Leaves -> TRUE
       [] op \in DOMAIN OperatorTypes ->
            /\ Binds(ts, operand(1), IF op = "power" THEN 5 ELSE Level(op))
            /\ op \in Sums \cup Products =>
                 Binds(ts, operand(2), IF op = "juxt" THEN 4 ELSE Level(op) + 1)
            /\ TypesBetween(ts, operand(1).span[2], operand(2).span[1]) = OperatorTypes[op]
            /\ op = "juxt" => ts[operand(2).span[1]].type # "NUMBER"
            /\ before = braces /\ \A i \in DOMAIN after : after[i] = "RBRACE"
       [] op \in Unaries ->
            /\ Binds(ts, operand(1), 4)
            /\ before = Append(braces, IF op = "plus" THEN "PLUS" ELSE "MINUS")
            /\ \A i \in DOMAIN after : after[i] = "RBRACE"
       [] OTHER ->
            /\ before = SubSeq(braces, 2, Len(braces))
                          \o <<IF op = "frac" THEN "FRAC" ELSE "SQRT", "LBRACE">>
            /\ \A i \in DOMAIN after : after[i] = "RBRACE"
            /\ op = "frac" => TypesBetween(ts, operand(1).span[2], operand(2).span[1])
                                = <<"RBRACE", "LBRACE">>

\* An expression as it would be if its first token were token 1 + by.
Shifted(e, by) ==
  [k \in DOMAIN e |-> [e[k] EXCEPT !.span = <<e[k].span[1] + by, e[k].span[2] + by>>]]
==============================================================================
