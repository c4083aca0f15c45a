-------------------------------- MODULE Lexer --------------------------------
(***************************************************************************)
(* The lexer of the DSL (lexer.py): a dispatcher with three modes (q0, qP  *)
(* and qR in the documentation) and one automaton for each kind of token.  *)
(* An action reads at most one character; a loop of the code that reads    *)
(* several is the repetition of its action, as nothing runs in between.    *)
(*                                                                         *)
(* A source is a sequence of characters, a character a string of length 1. *)
(* A token keeps its type and its span; its lexeme is the source in that   *)
(* span.  Messages are left out.                                           *)
(***************************************************************************)
EXTENDS Integers, FiniteSets, Sequences, SequencesExt

CONSTANT Sources     \* the texts that are compiled

ASSUME SourcesAssumption == \A s \in Sources : s \in Seq(STRING)

-----------------------------------------------------------------------------
(* The alphabet and the words                                              *)

CR == "\r"
LF == "\n"
Backslash == "\\"
Newlines == {CR, LF}
Whitespace == {" ", "\t"} \cup Newlines
Digits == {"0", "1", "2", "3", "4", "5", "6", "7", "8", "9"}
Letters ==
  {"a", "b", "c", "d", "e", "f", "g", "h", "i", "j", "k", "l", "m",
   "n", "o", "p", "q", "r", "s", "t", "u", "v", "w", "x", "y", "z",
   "A", "B", "C", "D", "E", "F", "G", "H", "I", "J", "K", "L", "M",
   "N", "O", "P", "Q", "R", "S", "T", "U", "V", "W", "X", "Y", "Z"}
Identifier == Letters \cup Digits \cup {"_"}

\* _DIRECTIVES.
Directives ==
  [MODEL |-> <<"m", "o", "d", "e", "l">>,
   NORMAL |-> <<"n", "o", "r", "m", "a", "l">>,
   DISTRIB |-> <<"d", "i", "s", "t", "r", "i", "b">>,
   UNIFORM |-> <<"u", "n", "i", "f", "o", "r", "m">>,
   ITER |-> <<"i", "t", "e", "r">>,
   RESPONSE |-> <<"r", "e", "s", "p", "o", "n", "s", "e">>,
   FRAC |-> <<"f", "r", "a", "c">>, SQRT |-> <<"s", "q", "r", "t">>,
   PM |-> <<"p", "m">>]

\* _STATISTICS.
Statistics ==
  [AVG |-> <<"a", "v", "g">>, MIN |-> <<"m", "i", "n">>, MAX |-> <<"m", "a", "x">>,
   VAR |-> <<"v", "a", "r">>, STD |-> <<"s", "t", "d">>,
   COUNT |-> <<"c", "o", "u", "n", "t">>,
   VALID_RATE |-> <<"v", "a", "l", "i", "d", "_", "r", "a", "t", "e">>,
   DISCARD_RATE |-> <<"d", "i", "s", "c", "a", "r", "d", "_", "r", "a", "t", "e">>,
   P05 |-> <<"p", "0", "5">>, P50 |-> <<"p", "5", "0">>, P95 |-> <<"p", "9", "5">>]

\* _SYMBOLS.
Symbols == {"{", "}", ",", "=", "+", "-", "*", "/", "^"}
SymbolType(ch) ==
  CASE ch = "{" -> "LBRACE" [] ch = "}" -> "RBRACE" [] ch = "," -> "COMMA"
    [] ch = "=" -> "ASSIGN" [] ch = "+" -> "PLUS"   [] ch = "-" -> "MINUS"
    [] ch = "*" -> "MULT"   [] ch = "/" -> "DIV"    [] ch = "^" -> "POWER"

\* TokenType.
TokenTypes ==
  DOMAIN Directives \cup DOMAIN Statistics \cup {"VARIABLE", "NUMBER", "EOF"}
    \cup {"LBRACE", "RBRACE", "COMMA", "ASSIGN", "PLUS", "MINUS", "MULT", "DIV", "POWER"}

\* _is_number_delimiter.
NumberDelimiters == Symbols \cup Letters \cup Whitespace \cup {Backslash}

-----------------------------------------------------------------------------
VARIABLES
  source,
  position,      \* _offset, _line, _column and _previous_was_cr
  mode,          \* _mode
  scan,          \* the automaton at work and its state
  start,         \* where the token being read starts
  tokens,
  diagnostics    \* of the CompilationError raised, if any

lexerVars == <<source, position, mode, scan, start, tokens, diagnostics>>

NumberStates == {"n0", "nCero", "nEntero", "nPunto", "nFraccion"}
Automata == {"directive", "variable", "statistic"} \cup NumberStates

AtEnd == position.offset = Len(source)

\* The next character (_peek) is in S.
Reads(S) == ~AtEnd /\ source[position.offset + 1] \in S

\* Mutant: every line feed starts a line.
AdvanceAnyLF(p) ==
  LET ch == source[p.offset + 1] IN
  [offset |-> p.offset + 1,
   line |-> IF ch \in Newlines THEN p.line + 1 ELSE p.line,
   column |-> IF ch \in Newlines THEN 1 ELSE p.column + 1,
   afterCr |-> ch = CR]

\* Mutant: that a CR was read is never forgotten.
AdvanceKeepsCr(p) ==
  LET ch == source[p.offset + 1] IN
  [offset |-> p.offset + 1,
   line |-> IF ch = CR \/ (ch = LF /\ ~p.afterCr) THEN p.line + 1 ELSE p.line,
   column |-> IF ch \in Newlines THEN 1 ELSE p.column + 1,
   afterCr |-> ch = CR \/ p.afterCr]

\* _advance: CR, LF and CR LF end a line.
Advance(p) ==
  LET ch == source[p.offset + 1] IN
  [offset |-> p.offset + 1,
   line |-> IF ch = CR \/ (ch = LF /\ ~p.afterCr) THEN p.line + 1 ELSE p.line,
   column |-> IF ch \in Newlines THEN 1 ELSE p.column + 1,
   afterCr |-> ch = CR]

\* _position: what a span records of a position.
Recorded(p) == [offset |-> p.offset, line |-> p.line, column |-> p.column]

\* _position_after_current: unlike _advance, any newline starts a line.
AfterCurrent ==
  IF AtEnd THEN Recorded(position)
  ELSE IF Reads(Newlines)
  THEN [offset |-> position.offset + 1, line |-> position.line + 1, column |-> 1]
  ELSE [offset |-> position.offset + 1, line |-> position.line,
        column |-> position.column + 1]

\* _position_after_candidate: after the identifier that starts here.
AfterCandidate ==
  LET length == Cardinality({n \in 1 .. Len(source) - position.offset :
                               \A k \in 1 .. n : source[position.offset + k] \in Identifier})
  IN [offset |-> position.offset + length, line |-> position.line,
      column |-> position.column + length]

-----------------------------------------------------------------------------
(* The common parts of the actions                                         *)

Init ==
  /\ source \in Sources
  /\ position = [offset |-> 0, line |-> 1, column |-> 1, afterCr |-> FALSE]
  /\ mode = "NORMAL"
  /\ scan = "dispatch"
  /\ start = Recorded(position)
  /\ tokens = << >>
  /\ diagnostics = << >>

\* Reads the next character and goes on with automaton q.
Read(q) ==
  /\ position' = Advance(position)
  /\ scan' = q
  /\ UNCHANGED <<source, mode, tokens, diagnostics>>

\* Mutant: the start of the token before is kept.
BeginKeepsStart(q) ==
  /\ scan' = q
  /\ UNCHANGED <<source, mode, start, tokens, diagnostics>>

\* A token starts here; automaton q reads it.
Begin(q) ==
  /\ start' = Recorded(position)
  /\ scan' = q
  /\ UNCHANGED <<source, mode, tokens, diagnostics>>

\* _token: the token that ends at p; q is what comes next.
Emit(type, p, q) ==
  /\ tokens' = Append(tokens, [type |-> type, start |-> start', end |-> Recorded(p)])
  /\ scan' = q
  /\ UNCHANGED <<source, diagnostics>>

\* _raise: the lexer stops.
Reject(code, from, to) ==
  /\ diagnostics' = <<[code |-> code, start |-> from, end |-> to]>>
  /\ scan' = "done"
  /\ UNCHANGED <<source, position, mode, start, tokens>>

-----------------------------------------------------------------------------
(* _dispatch in its three modes, and the symbols                           *)

\* tokenize: the end of the source, in any mode.
EndOfSource ==
  /\ scan = "dispatch" /\ AtEnd
  /\ start' = Recorded(position)
  /\ Emit("EOF", position, "done")
  /\ UNCHANGED <<position, mode>>

SkipWhitespace ==
  /\ scan = "dispatch" /\ Reads(Whitespace)
  /\ Read("dispatch")
  /\ UNCHANGED start

\* The symbols that each mode takes.
SymbolsOf(m) ==
  CASE m = "NORMAL" -> Symbols
    [] m = "RESPONSE_PENDING" -> {"{"}
    [] m = "RESPONSE" -> {",", "}"}

\* Mutant: the brace that closes \response does not end its mode.
StaysInResponse(type) ==
  IF mode = "RESPONSE_PENDING" THEN "RESPONSE" ELSE mode

\* The mode after a symbol.
ModeAfter(type) ==
  CASE mode = "RESPONSE_PENDING" -> "RESPONSE"
    [] mode = "RESPONSE" /\ type = "RBRACE" -> "NORMAL"
    [] OTHER -> mode

ScanSymbol ==
  /\ scan = "dispatch" /\ Reads(SymbolsOf(mode))
  /\ LET type == SymbolType(source[position.offset + 1]) IN
     /\ start' = Recorded(position)
     /\ position' = Advance(position)
     /\ Emit(type, position', "dispatch")
     /\ mode' = ModeAfter(type)

\* Mutant: the character is left for the next round, in the same mode.
NotReprocessed == "RESPONSE_PENDING"

\* The mode in which a character that cannot open \response is read again.
Reprocessed == "NORMAL"

\* _dispatch_response_pending: no brace follows, for the parser to tell.
LeavePending ==
  /\ scan = "dispatch" /\ mode = "RESPONSE_PENDING"
  /\ ~AtEnd /\ ~Reads(Whitespace \cup {"{"})
  /\ mode' = Reprocessed
  /\ UNCHANGED <<source, position, scan, start, tokens, diagnostics>>

InvalidCharacter ==
  /\ scan = "dispatch" /\ ~AtEnd
  /\ \/ /\ mode = "NORMAL"
        /\ ~Reads(Symbols \cup Whitespace \cup Letters \cup Digits \cup {".", Backslash})
        /\ Reject("LEX005", Recorded(position), AfterCurrent)
     \/ /\ mode = "RESPONSE"
        /\ ~Reads(SymbolsOf(mode) \cup Whitespace \cup Letters)
        /\ Reject("LEX006", Recorded(position), AfterCurrent)

-----------------------------------------------------------------------------
(* Directives: the trie is the set of prefixes of the words                *)

InTrie(word) == \E type \in DOMAIN Directives : IsPrefix(word, Directives[type])
TypesOf(word) == {type \in DOMAIN Directives : Directives[type] = word}

WordRead == SubSeq(source, start.offset + 2, position.offset)
Extends == Reads(Letters) /\ InTrie(Append(WordRead, source[position.offset + 1]))

BeginDirective ==
  /\ scan = "dispatch" /\ mode = "NORMAL" /\ Reads({Backslash})
  /\ start' = Recorded(position)
  /\ Read("directive")

ReadDirective ==
  /\ scan = "directive" /\ Extends
  /\ Read("directive")
  /\ UNCHANGED start

\* What may not follow a directive.
NotAfterDirective == Letters \cup {"_"}

EndDirective ==
  /\ scan = "directive" /\ ~Reads(NotAfterDirective)
  /\ \E type \in TypesOf(WordRead) :
       /\ UNCHANGED <<start, position>>
       /\ Emit(type, position, "dispatch")
       /\ mode' = IF type = "RESPONSE" THEN "RESPONSE_PENDING" ELSE mode

RejectDirective ==
  /\ scan = "directive"
  /\ \/ /\ Reads(Letters) /\ ~Extends
        /\ Reject("LEX001", start, AfterCurrent)
     \/ /\ ~Reads(Letters) /\ TypesOf(WordRead) = {}
        /\ Reject("LEX002", start, Recorded(position))
     \/ /\ ~Reads(Letters) /\ Reads(NotAfterDirective) /\ TypesOf(WordRead) # {}
        /\ Reject("LEX001", start, AfterCurrent)

-----------------------------------------------------------------------------
(* Variables and numbers                                                   *)

BeginVariable ==
  /\ scan = "dispatch" /\ mode = "NORMAL" /\ Reads(Letters)
  /\ start' = Recorded(position)
  /\ Read("variable")

ReadVariable ==
  /\ scan = "variable" /\ Reads(Identifier)
  /\ Read("variable")
  /\ UNCHANGED start

EndVariable ==
  /\ scan = "variable" /\ ~Reads(Identifier)
  /\ UNCHANGED <<position, mode, start>>
  /\ Emit("VARIABLE", position, "dispatch")

\* Mutant: a zero takes no fraction.
NumberStepNoZero(q, ch) ==
  CASE q = "n0" /\ ch = "0" -> "nCero"
    [] q \in {"n0", "nEntero"} /\ ch \in Digits /\ ~(q = "n0" /\ ch = "0") -> "nEntero"
    [] q \in {"n0", "nEntero"} /\ ch = "." -> "nPunto"
    [] q \in {"nPunto", "nFraccion"} /\ ch \in Digits -> "nFraccion"
    [] OTHER -> "stop"

\* The transitions of _scan_number; its three states after a point agree.
NumberStep(q, ch) ==
  CASE q = "n0" /\ ch = "0" -> "nCero"
    [] q \in {"n0", "nEntero"} /\ ch \in Digits /\ ~(q = "n0" /\ ch = "0") -> "nEntero"
    [] q \in {"n0", "nCero", "nEntero"} /\ ch = "." -> "nPunto"
    [] q \in {"nPunto", "nFraccion"} /\ ch \in Digits -> "nFraccion"
    [] OTHER -> "stop"

NumberGoesOn == ~AtEnd /\ NumberStep(scan, source[position.offset + 1]) # "stop"

BeginNumber ==
  /\ scan = "dispatch" /\ mode = "NORMAL" /\ Reads(Digits \cup {"."})
  /\ Begin("n0")
  /\ UNCHANGED position

ReadNumber ==
  /\ scan \in NumberStates /\ NumberGoesOn
  /\ Read(NumberStep(scan, source[position.offset + 1]))
  /\ UNCHANGED start

\* _finish_number.
EndNumber ==
  /\ scan \in {"nCero", "nEntero", "nFraccion"} /\ ~NumberGoesOn
  /\ AtEnd \/ Reads(NumberDelimiters)
  /\ UNCHANGED <<position, mode, start>>
  /\ Emit("NUMBER", position, "dispatch")

RejectNumber ==
  /\ scan \in NumberStates /\ ~NumberGoesOn
  /\ \/ scan \in {"n0", "nPunto"}
     \/ ~AtEnd /\ ~Reads(NumberDelimiters)
  /\ Reject("LEX003", start, AfterCurrent)

-----------------------------------------------------------------------------
(* Statistics                                                              *)

\* Mutant: a statistic is recognised by its letters alone.
StatisticsStarting(offset) ==
  {type \in DOMAIN Statistics :
     LET end == offset + Len(Statistics[type]) IN
     end <= Len(source) /\ SubSeq(source, offset + 1, end) = Statistics[type]}

\* The statistic of which the word, and a terminator, follow.
StatisticsAt(offset) ==
  {type \in DOMAIN Statistics :
     LET end == offset + Len(Statistics[type]) IN
     /\ end <= Len(source) /\ SubSeq(source, offset + 1, end) = Statistics[type]
     /\ end = Len(source) \/ source[end + 1] \in {",", "}"} \cup Whitespace}

BeginStatistic ==
  /\ scan = "dispatch" /\ mode = "RESPONSE" /\ Reads(Letters)
  /\ StatisticsAt(position.offset) # {}
  /\ Begin("statistic")
  /\ UNCHANGED position

\* One character of the statistic that was found at start.
ReadStatistic ==
  /\ scan = "statistic" /\ Reads(Identifier)
  /\ \E type \in StatisticsAt(start.offset) :
       position.offset < start.offset + Len(Statistics[type])
  /\ Read("statistic")
  /\ UNCHANGED start

EndStatistic ==
  /\ scan = "statistic"
  /\ \E type \in StatisticsAt(start.offset) :
       /\ position.offset = start.offset + Len(Statistics[type])
       /\ UNCHANGED <<position, mode, start>>
       /\ Emit(type, position, "dispatch")

RejectStatistic ==
  /\ scan = "dispatch" /\ mode = "RESPONSE" /\ Reads(Letters)
  /\ StatisticsAt(position.offset) = {}
  /\ Reject("LEX007", Recorded(position), AfterCandidate)

Next ==
  \/ EndOfSource \/ SkipWhitespace \/ ScanSymbol \/ LeavePending \/ InvalidCharacter
  \/ BeginDirective \/ ReadDirective \/ EndDirective \/ RejectDirective
  \/ BeginVariable \/ ReadVariable \/ EndVariable
  \/ BeginNumber \/ ReadNumber \/ EndNumber \/ RejectNumber
  \/ BeginStatistic \/ ReadStatistic \/ EndStatistic \/ RejectStatistic

Spec == Init /\ [][Next]_lexerVars

-----------------------------------------------------------------------------
(* What the lexer must guarantee                                           *)

Positions == [offset : Nat, line : Nat, column : Nat]
Codes == {"LEX001", "LEX002", "LEX003", "LEX005", "LEX006", "LEX007"}

\* The state of the lexer: an automaton at work has read no newline, what it
\* reads starts at start, and at least the point or digit of a number follows.
\* This is what makes _position_after_current right after a CR LF.
LexerInv ==
  /\ source \in Seq(STRING)
  /\ position \in [offset : Nat, line : Nat, column : Nat, afterCr : BOOLEAN]
  /\ position.offset <= Len(source)
  /\ position.afterCr <=> position.offset > 0 /\ source[position.offset] = CR
  /\ mode \in {"NORMAL", "RESPONSE_PENDING", "RESPONSE"}
  /\ scan \in {"dispatch", "done"} \cup Automata
  /\ start \in Positions /\ start.offset <= position.offset
  /\ scan \in Automata =>
       \/ start = Recorded(position)
       \/ start.offset < position.offset /\ ~position.afterCr
  /\ scan = "n0" => Reads(Digits \cup {"."})
  /\ scan = "statistic" \/ scan = "n0" \/ scan \notin Automata
       \/ start.offset < position.offset
  /\ diagnostics # << >> => scan = "done"
  /\ tokens \in Seq([type : TokenTypes, start : Positions, end : Positions])
  /\ diagnostics \in Seq([code : Codes, start : Positions, end : Positions])

\* A line of the text ends with character k: CR LF ends it once.
LineBreak(text, k) ==
  text[k] = CR \/ (text[k] = LF /\ ~(k > 1 /\ text[k - 1] = CR))

\* A position has the line and the column that an editor would show.
Exact(text, p) ==
  /\ p.offset \in 0 .. Len(text)
  /\ p.line = 1 + Cardinality({k \in 1 .. p.offset : LineBreak(text, k)})
  /\ p.column \in 1 .. p.offset + 1
  /\ \A k \in 1 .. p.offset : k > p.offset + 1 - p.column => text[k] \notin Newlines
  /\ p.column = p.offset + 1 \/ text[p.offset + 1 - p.column] \in Newlines

\* Every line and column of a token or a diagnostic is exact, with whatever
\* mixture of CR, LF and CR LF, even where it is computed without the character
\* having been read: the page selects text with them.
PositionsExact ==
  /\ Exact(source, position) /\ Exact(source, start)
  /\ \A i \in DOMAIN tokens : Exact(source, tokens[i].start) /\ Exact(source, tokens[i].end)
  /\ \A i \in DOMAIN diagnostics :
       Exact(source, diagnostics[i].start) /\ Exact(source, diagnostics[i].end)

\* Character k is part of token t.
Within(k, t) == t.start.offset < k /\ k <= t.end.offset

\* Nothing is skipped and nothing is read twice: the tokens follow each other,
\* and every character read is white space, or of a token, or of the one
\* being read; a source that is accepted was read to its end.
SourceCovered ==
  /\ \A k \in 1 .. position.offset :
       \/ source[k] \in Whitespace
       \/ \E i \in DOMAIN tokens : Within(k, tokens[i])
       \/ k > start.offset /\ (scan \in Automata \/ diagnostics # << >>)
  /\ \A i, j \in DOMAIN tokens : i < j => tokens[i].end.offset <= tokens[j].start.offset
  /\ \A i \in DOMAIN tokens : tokens[i].end.offset <= position.offset
  /\ scan \in Automata =>
       \A i \in DOMAIN tokens : tokens[i].end.offset <= start.offset
  /\ scan = "done" /\ diagnostics = << >> => AtEnd

-----------------------------------------------------------------------------
(* The tokens by their regular expressions, without automata               *)

AllIn(word, S) == \A k \in DOMAIN word : word[k] \in S

\* (0 | [1-9][0-9]* | nothing) (.[0-9]+ | nothing), not empty.
IsNumber(word) ==
  /\ word # << >>
  /\ \E k \in 0 .. Len(word) :
       LET whole == SubSeq(word, 1, k)
           fraction == SubSeq(word, k + 1, Len(word))
       IN /\ AllIn(whole, Digits) /\ (k > 1 => whole[1] # "0")
          /\ fraction # << >> =>
               /\ fraction[1] = "." /\ Len(fraction) > 1
               /\ AllIn(Tail(fraction), Digits)

\* The words of a type, and the characters that may not follow them.
InLanguage(type, word) ==
  CASE type \in DOMAIN Directives -> word = <<Backslash>> \o Directives[type]
    [] type \in DOMAIN Statistics -> word = Statistics[type]
    [] type = "VARIABLE" ->
         word # << >> /\ word[1] \in Letters /\ AllIn(word, Identifier)
    [] type = "NUMBER" -> IsNumber(word)
    [] type = "EOF" -> word = << >>
    [] OTHER -> Len(word) = 1 /\ word[1] \in Symbols /\ SymbolType(word[1]) = type

MayFollow(type, ch) ==
  CASE type \in DOMAIN Directives -> ch \notin Letters \cup {"_"}
    [] type \in DOMAIN Statistics -> ch \in {",", "}"} \cup Whitespace
    [] type = "VARIABLE" -> ch \notin Identifier
    [] type = "NUMBER" -> ch \notin Digits \cup {".", "_"}
    [] OTHER -> TRUE

\* The source has a token of the type between two offsets.
TokenAt(type, from, to) ==
  /\ InLanguage(type, SubSeq(source, from + 1, to))
  /\ to < Len(source) => MayFollow(type, source[to + 1])

\* Each token is a whole word of its type: no directive, number or statistic
\* is the beginning of a longer word.
LexemesAreTokens ==
  \A i \in DOMAIN tokens :
     TokenAt(tokens[i].type, tokens[i].start.offset, tokens[i].end.offset)

\* The types that a rejected piece of text could have had: those of the mode.
Possible ==
  IF mode = "RESPONSE" THEN DOMAIN Statistics \cup {"COMMA", "RBRACE"}
  ELSE DOMAIN Directives \cup {SymbolType(ch) : ch \in Symbols}
         \cup {"VARIABLE", "NUMBER"}

\* The lexer rejects only text that starts no token (a number is followed by
\* a delimiter, which rules out characters foreign to the language).
RejectsOnlyNonTokens ==
  \A i \in DOMAIN diagnostics : \A type \in Possible :
     \A to \in diagnostics[i].start.offset .. Len(source) :
        TokenAt(type, diagnostics[i].start.offset, to) =>
          type = "NUMBER" /\ to < Len(source) /\ ~(source[to + 1] \in NumberDelimiters)

\* Token i is inside the braces of a \response.
InResponse(i) ==
  \E j \in 1 .. i - 2 :
     /\ tokens[j].type = "RESPONSE" /\ tokens[j + 1].type = "LBRACE"
     /\ \A k \in j + 2 .. i - 1 : tokens[k].type # "RBRACE"

\* Names are statistics inside the braces of \response and nowhere else: the
\* mode is entered and left with the braces, wherever white space stands.
StatisticsBracketed ==
  \A i \in DOMAIN tokens :
     IF InResponse(i)
     THEN tokens[i].type \in DOMAIN Statistics \cup {"COMMA", "RBRACE", "EOF"}
     ELSE tokens[i].type \notin DOMAIN Statistics
==============================================================================
