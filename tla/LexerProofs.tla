----------------------------- MODULE LexerProofs -----------------------------
(***************************************************************************)
(* Theorems about Lexer, for every set of source texts: its positions, and *)
(* that its tokens are the words of the language, with statistics between  *)
(* the braces of a response, and text is rejected where no token starts.   *)
(***************************************************************************)
EXTENDS Lexer, FiniteSetTheorems, TLAPS

-----------------------------------------------------------------------------
(* The alphabet                                                            *)

\* No character that an automaton reads ends a line.
LEMMA NoNewline ==
  /\ \A ch \in Identifier \cup {".", Backslash} \cup Symbols : ch \notin Newlines
  /\ CR \in Newlines
<1>1. \A ch \in Identifier \cup {"."} \cup Symbols : ch \notin Newlines
  <2>1. \A ch \in Letters : ch \notin Newlines
    BY DEF Newlines, CR, LF, Letters
  <2>2. \A ch \in Digits \cup {"_", "."} : ch \notin Newlines
    BY DEF Newlines, CR, LF, Digits
  <2>3. \A ch \in Symbols : ch \notin Newlines
    BY DEF Newlines, CR, LF, Symbols
  <2> QED
    BY <2>1, <2>2, <2>3 DEF Identifier
<1>2. Backslash # CR /\ Backslash # LF
  BY DEF CR, LF, Backslash
<1> QED
  BY <1>1, <1>2 DEF Newlines

\* The automaton of numbers reads digits and points, and keeps to its states.
LEMMA NumberStepReads ==
  ASSUME NEW q \in NumberStates, NEW ch, NumberStep(q, ch) # "stop"
  PROVE  ch \in Digits \cup {"."} /\ NumberStep(q, ch) \in NumberStates \ {"n0"}
BY DEF NumberStates, NumberStep, Digits

-----------------------------------------------------------------------------
(* Lines and columns                                                       *)

Breaks(text, n) == {k \in 1 .. n : LineBreak(text, k)}

LEMMA BreaksFinite ==
  ASSUME NEW text, NEW n \in Nat
  PROVE  IsFiniteSet(Breaks(text, n)) /\ Cardinality(Breaks(text, n)) \in Nat
<1>1. IsFiniteSet(1 .. n)
  BY FS_Interval
<1>2. Breaks(text, n) \subseteq 1 .. n
  BY DEF Breaks
<1> QED
  BY <1>1, <1>2, FS_Subset, FS_CardinalityType

\* One character more adds its own line break, if it is one.
LEMMA OneMoreBreak ==
  ASSUME NEW text, NEW n \in Nat
  PROVE  Cardinality(Breaks(text, n + 1)) =
           Cardinality(Breaks(text, n)) + IF LineBreak(text, n + 1) THEN 1 ELSE 0
<1>1. CASE LineBreak(text, n + 1)
  <2>1. Breaks(text, n + 1) = Breaks(text, n) \cup {n + 1}
    BY <1>1 DEF Breaks
  <2>2. n + 1 \notin Breaks(text, n)
    BY DEF Breaks
  <2> QED
    BY <1>1, <2>1, <2>2, BreaksFinite, FS_AddElement
<1>2. CASE ~LineBreak(text, n + 1)
  <2>1. Breaks(text, n + 1) = Breaks(text, n)
    BY <1>2 DEF Breaks
  <2> QED
    BY <1>2, <2>1, BreaksFinite
<1> QED
  BY <1>1, <1>2

\* Characters that end no line add no line break.
LEMMA NoMoreBreaks ==
  ASSUME NEW text, NEW m \in Nat, NEW n \in Nat,
         \A k \in m + 1 .. m + n : text[k] \notin Newlines
  PROVE  Breaks(text, m + n) = Breaks(text, m)
BY DEF Breaks, LineBreak, Newlines, CR, LF

\* What moves over one character keeps a position exact, if it counts a line
\* for the break of a line and a column for any other character.
LEMMA MoveOne ==
  ASSUME NEW text \in Seq(STRING), NEW p \in Positions, NEW q \in Positions,
         Exact(text, p), p.offset < Len(text),
         q.offset = p.offset + 1,
         q.line = p.line + IF LineBreak(text, q.offset) THEN 1 ELSE 0,
         q.column = IF text[q.offset] \in Newlines THEN 1 ELSE p.column + 1
  PROVE  Exact(text, q)
<1> DEFINE ch == text[q.offset]
<1>1. /\ p.offset \in Nat /\ p.line \in Nat /\ p.column \in Nat
      /\ q.offset \in 0 .. Len(text)
  BY DEF Positions
<1>2. q.line = 1 + Cardinality({k \in 1 .. q.offset : LineBreak(text, k)})
  <2>1. p.line = 1 + Cardinality(Breaks(text, p.offset))
    BY DEF Exact, Breaks
  <2>2. Cardinality(Breaks(text, p.offset + 1)) =
          Cardinality(Breaks(text, p.offset)) + IF LineBreak(text, p.offset + 1) THEN 1 ELSE 0
    BY <1>1, OneMoreBreak
  <2>3. Cardinality(Breaks(text, p.offset)) \in Nat
    BY <1>1, BreaksFinite
  <2>4. q.line = 1 + Cardinality(Breaks(text, q.offset))
    <3>1. CASE LineBreak(text, p.offset + 1)
      BY <3>1, <2>1, <2>2, <2>3
    <3>2. CASE ~LineBreak(text, p.offset + 1)
      BY <3>2, <2>1, <2>2, <2>3
    <3> QED
      BY <3>1, <3>2
  <2> QED
    BY <2>4 DEF Breaks
<1>3. CASE ch \in Newlines
  BY <1>1, <1>2, <1>3 DEF Exact
<1>4. CASE ch \notin Newlines
  <2>1. q.column = p.column + 1 /\ q.offset + 1 - q.column = p.offset + 1 - p.column
    BY <1>1, <1>4
  <2>2. \A k \in 1 .. q.offset : k > q.offset + 1 - q.column => text[k] \notin Newlines
    BY <1>1, <1>4, <2>1 DEF Exact
  <2>3. q.column \in 1 .. q.offset + 1
    <3>1. p.column >= 1 /\ p.column <= p.offset + 1
      BY <1>1 DEF Exact
    <3> QED
      BY <1>1, <2>1, <3>1
  <2>4. q.column = q.offset + 1 \/ text[q.offset + 1 - q.column] \in Newlines
    BY <1>1, <2>1 DEF Exact
  <2> QED
    BY <1>1, <1>2, <2>2, <2>3, <2>4 DEF Exact
<1> QED
  BY <1>3, <1>4

\* A position after characters that end no line.
LEMMA MoveMany ==
  ASSUME NEW text \in Seq(STRING), NEW p \in Positions, NEW n \in Nat,
         Exact(text, p), p.offset + n <= Len(text),
         \A k \in 1 .. n : text[p.offset + k] \notin Newlines
  PROVE  Exact(text, [offset |-> p.offset + n, line |-> p.line, column |-> p.column + n])
<1>1. p.offset \in Nat /\ p.line \in Nat /\ p.column \in Nat
  BY DEF Positions
<1>2. \A k \in p.offset + 1 .. p.offset + n : text[k] \notin Newlines
  <2> SUFFICES ASSUME NEW k \in p.offset + 1 .. p.offset + n PROVE text[k] \notin Newlines
    OBVIOUS
  <2>1. k - p.offset \in 1 .. n /\ p.offset + (k - p.offset) = k
    BY <1>1
  <2> QED
    BY <2>1
<1>3. Breaks(text, p.offset + n) = Breaks(text, p.offset)
  BY <1>1, <1>2, NoMoreBreaks
<1> DEFINE q == [offset |-> p.offset + n, line |-> p.line, column |-> p.column + n]
<1>4. /\ q.offset = p.offset + n /\ q.line = p.line /\ q.column = p.column + n
      /\ q.offset + 1 - q.column = p.offset + 1 - p.column
  <2>1. q.offset = p.offset + n /\ q.line = p.line /\ q.column = p.column + n
    OBVIOUS
  <2>2. q.offset \in Nat /\ q.column \in Nat
    BY <1>1, <2>1
  <2>3. \A a, b \in Nat : (a + n) + 1 - (b + n) = a + 1 - b
    OBVIOUS
  <2> HIDE DEF q
  <2>4. q.offset + 1 - q.column = p.offset + 1 - p.column
    BY <1>1, <2>1, <2>3
  <2> QED
    BY <2>1, <2>4
<1> HIDE DEF q
<1>5. q.line = 1 + Cardinality({k \in 1 .. q.offset : LineBreak(text, k)})
  BY <1>3, <1>4 DEF Exact, Breaks
<1>6. \A k \in 1 .. q.offset : k > q.offset + 1 - q.column => text[k] \notin Newlines
  <2> SUFFICES ASSUME NEW k \in 1 .. q.offset, k > q.offset + 1 - q.column
               PROVE  text[k] \notin Newlines
    OBVIOUS
  <2>1. CASE k <= p.offset
    BY <1>1, <1>4, <2>1 DEF Exact
  <2>2. CASE k > p.offset
    BY <1>1, <1>2, <1>4, <2>2
  <2> QED
    BY <1>1, <1>4, <2>1, <2>2
<1>7. q.column \in 1 .. q.offset + 1
  <2>1. p.column \in 1 .. p.offset + 1
    BY DEF Exact
  <2>2. q.offset = p.offset + n /\ q.column = p.column + n
    BY <1>4
  <2> QED
    BY <1>1, <2>1, <2>2
<1>8. q.column = q.offset + 1 \/ text[q.offset + 1 - q.column] \in Newlines
  BY <1>1, <1>4 DEF Exact
<1>9. q.offset \in 0 .. Len(text)
  BY <1>1, <1>4
<1> QED
  BY <1>5, <1>6, <1>7, <1>8, <1>9 DEF Exact, q

-----------------------------------------------------------------------------
(* LexerInv is inductive                                                   *)

PositionType == [offset : Nat, line : Nat, column : Nat, afterCr : BOOLEAN]
Token == [type : TokenTypes, start : Positions, end : Positions]
Diagnostic == [code : Codes, start : Positions, end : Positions]

\* A symbol is a token of its own, in every mode that takes it.
LEMMA SymbolsAreTokens ==
  /\ \A ch \in Symbols : SymbolType(ch) \in TokenTypes
  /\ \A m \in {"NORMAL", "RESPONSE_PENDING", "RESPONSE"} : SymbolsOf(m) \subseteq Symbols
<1>1. \A ch \in Symbols : SymbolType(ch) \in TokenTypes
  BY Zenon DEF Symbols, SymbolType, TokenTypes
<1>2. \A m \in {"NORMAL", "RESPONSE_PENDING", "RESPONSE"} : SymbolsOf(m) \subseteq Symbols
  BY DEF Symbols, SymbolsOf
<1> QED
  BY <1>1, <1>2

LEMMA RecordedType ==
  ASSUME NEW p \in PositionType
  PROVE  Recorded(p) \in Positions /\ Recorded(p).offset = p.offset
BY DEF PositionType, Recorded, Positions

\* _advance moves over one character and remembers a CR.
LEMMA Advancing ==
  ASSUME LexerInv, ~AtEnd
  PROVE  /\ Advance(position) \in PositionType
         /\ Advance(position).offset = position.offset + 1
         /\ Advance(position).offset \in 1 .. Len(source)
         /\ Advance(position).afterCr <=> source[position.offset + 1] = CR
         /\ source[position.offset + 1] \in STRING
<1>1. position \in PositionType /\ source \in Seq(STRING) /\ position.offset <= Len(source)
  BY DEF LexerInv, PositionType
<1>2. position.offset \in Nat /\ position.line \in Nat /\ position.column \in Nat
      /\ position.offset # Len(source)
  BY <1>1 DEF PositionType, AtEnd
<1>3. Advance(position).line \in Nat /\ Advance(position).column \in Nat
  BY <1>2 DEF Advance
<1>4. /\ Advance(position).offset = position.offset + 1
      /\ Advance(position).afterCr = (source[position.offset + 1] = CR)
      /\ Advance(position) = [offset |-> Advance(position).offset,
                              line |-> Advance(position).line,
                              column |-> Advance(position).column,
                              afterCr |-> Advance(position).afterCr]
  BY Zenon DEF Advance
<1>5. Advance(position).offset \in 1 .. Len(source) /\ source[position.offset + 1] \in STRING
  BY <1>1, <1>2, <1>4
<1>6. Advance(position) \in PositionType
  <2> DEFINE o == Advance(position).offset
             l == Advance(position).line
             c == Advance(position).column
             r == Advance(position).afterCr
  <2>1. o \in Nat /\ l \in Nat /\ c \in Nat /\ r \in BOOLEAN
    BY <1>2, <1>3, <1>4
  <2>2. Advance(position) = [offset |-> o, line |-> l, column |-> c, afterCr |-> r]
    BY <1>4
  <2> HIDE DEF o, l, c, r
  <2> QED
    BY <2>1, <2>2 DEF PositionType
<1> QED
  BY <1>4, <1>5, <1>6

\* Where an invalid character ends.
LEMMA AfterCurrentType ==
  ASSUME LexerInv
  PROVE  AfterCurrent \in Positions
<1>1. position.offset \in Nat /\ position.line \in Nat /\ position.column \in Nat
  BY DEF LexerInv
<1> QED
  BY <1>1 DEF AfterCurrent, Recorded, Positions

LEMMA AfterCandidateType ==
  ASSUME LexerInv
  PROVE  AfterCandidate \in Positions
<1> DEFINE D == {n \in 1 .. Len(source) - position.offset :
                   \A k \in 1 .. n : source[position.offset + k] \in Identifier}
<1>1. source \in Seq(STRING) /\ position.offset \in Nat /\ position.line \in Nat
      /\ position.column \in Nat
  BY DEF LexerInv
<1>2. Len(source) - position.offset \in Int
  BY <1>1
<1>3. IsFiniteSet(1 .. Len(source) - position.offset)
  BY <1>2, FS_Interval
<1>4. IsFiniteSet(D)
  BY <1>3, FS_Subset
<1>5. Cardinality(D) \in Nat
  BY <1>4, FS_CardinalityType
<1>6. AfterCandidate = [offset |-> position.offset + Cardinality(D), line |-> position.line,
                       column |-> position.column + Cardinality(D)]
  BY DEF AfterCandidate
<1> HIDE DEF D
<1> QED
  BY <1>1, <1>5, <1>6 DEF Positions

\* What is left of LexerInv when a character has been read.
LEMMA ReadKeepsInv ==
  ASSUME LexerInv, NEW q, Read(q), ~AtEnd, scan # "done",
         q \in {"dispatch"} \cup (Automata \ {"n0"}),
         start' \in Positions, start'.offset <= position.offset,
         q \in Automata => source[position.offset + 1] # CR
  PROVE  LexerInv'
<1>1. /\ source' = source /\ mode' = mode /\ tokens' = tokens /\ diagnostics' = diagnostics
      /\ scan' = q /\ position' = Advance(position)
  BY DEF Read
<1>2. /\ position' \in PositionType /\ position'.offset = position.offset + 1
      /\ position'.offset \in 1 .. Len(source)
      /\ position'.afterCr <=> source[position'.offset] = CR
  BY <1>1, Advancing
<1>3. position.offset \in Nat /\ start'.offset \in Nat
  BY DEF LexerInv, Positions
<1>4. start'.offset < position'.offset /\ position'.offset > 0 /\ position'.offset <= Len(source)
  BY <1>2, <1>3
<1>5. q \in Automata => ~position'.afterCr
  BY <1>2
<1>6. diagnostics' = << >>
  BY <1>1 DEF LexerInv
<1>7. /\ source' \in Seq(STRING) /\ tokens' \in Seq(Token) /\ diagnostics' \in Seq(Diagnostic)
      /\ mode' \in {"NORMAL", "RESPONSE_PENDING", "RESPONSE"}
  BY <1>1 DEF LexerInv, Token, Diagnostic
<1>8. /\ scan' \in {"dispatch", "done"} \cup Automata
      /\ scan' \in Automata => start'.offset < position'.offset /\ ~position'.afterCr
      /\ scan' # "n0"
  BY <1>1, <1>4, <1>5 DEF Automata, NumberStates
<1>9. /\ start' \in Positions /\ start'.offset <= position'.offset
      /\ position'.offset <= Len(source')
      /\ position'.afterCr <=> position'.offset > 0 /\ source'[position'.offset] = CR
  BY <1>1, <1>2, <1>3, <1>4
<1> QED
  BY <1>2, <1>6, <1>7, <1>8, <1>9 DEF LexerInv, PositionType, Token, Diagnostic

\* What is left of it when a token has ended, where position' is.
LEMMA EmitKeepsInv ==
  ASSUME LexerInv, NEW type \in TokenTypes, NEW q \in {"dispatch", "done"},
         Emit(type, position', q), diagnostics = << >>,
         \/ position' = position
         \/ ~AtEnd /\ position' = Advance(position),
         start' \in Positions, start'.offset <= position.offset,
         mode' \in {"NORMAL", "RESPONSE_PENDING", "RESPONSE"}
  PROVE  LexerInv'
<1>1. source' = source /\ diagnostics' = diagnostics /\ scan' = q
  BY DEF Emit
<1>2. position \in PositionType /\ position.offset \in Nat /\ start'.offset \in Nat
  BY DEF LexerInv, PositionType, Positions
<1>3. /\ position' \in PositionType /\ start'.offset <= position'.offset
      /\ position'.offset <= Len(source)
      /\ position'.afterCr <=> position'.offset > 0 /\ source[position'.offset] = CR
  <2>1. CASE position' = position
    BY <1>2, <2>1 DEF LexerInv
  <2>2. CASE ~AtEnd /\ position' = Advance(position)
    BY <1>2, <2>2, Advancing
  <2> QED
    BY <2>1, <2>2
<1>4. tokens' \in Seq(Token)
  <2>1. Recorded(position') \in Positions
    BY <1>3, RecordedType
  <2>2. [type |-> type, start |-> start', end |-> Recorded(position')] \in Token
    BY <2>1 DEF Token
  <2>3. tokens \in Seq(Token)
    BY DEF LexerInv, Token
  <2> QED
    BY <2>2, <2>3 DEF Emit
<1> QED
  BY <1>1, <1>3, <1>4 DEF LexerInv, PositionType, Token, Automata, NumberStates

\* What is left of it when the text is rejected.
LEMMA RejectKeepsInv ==
  ASSUME LexerInv, NEW code \in Codes, NEW from \in Positions, NEW to \in Positions,
         Reject(code, from, to)
  PROVE  LexerInv'
<1>1. [code |-> code, start |-> from, end |-> to] \in Diagnostic
  BY DEF Diagnostic
<1>2. diagnostics' \in Seq(Diagnostic)
  BY <1>1 DEF Reject
<1> QED
  BY <1>2 DEF Reject, LexerInv, Diagnostic, Automata, NumberStates

\* The start of a token that begins here.
LEMMA StartsHere ==
  ASSUME LexerInv
  PROVE  /\ Recorded(position) \in Positions
         /\ Recorded(position).offset = position.offset
         /\ start \in Positions /\ start.offset <= position.offset
         /\ position.offset \in Nat
<1>1. position \in PositionType
  BY DEF LexerInv, PositionType
<1> QED
  BY <1>1, RecordedType DEF LexerInv, PositionType

LEMMA BeginKeepsInv ==
  ASSUME LexerInv, NEW q \in {"n0", "statistic"}, Begin(q), scan = "dispatch",
         UNCHANGED position, q = "n0" => Reads(Digits \cup {"."})
  PROVE  LexerInv'
<1>1. /\ source' = source /\ mode' = mode /\ tokens' = tokens /\ diagnostics' = diagnostics
      /\ scan' = q /\ position' = position /\ start' = Recorded(position)
  BY DEF Begin
<1>2. diagnostics' = << >>
  BY <1>1 DEF LexerInv
<1>3. /\ start' \in Positions /\ start'.offset <= position'.offset /\ start' = Recorded(position')
  BY <1>1, StartsHere
<1>4. scan' = "n0" => Reads(Digits \cup {"."})'
  BY <1>1 DEF Reads, AtEnd
<1> QED
  BY <1>1, <1>2, <1>3, <1>4 DEF LexerInv, Automata, NumberStates

LEMMA DispatchKeepsInv ==
  ASSUME LexerInv,
         EndOfSource \/ SkipWhitespace \/ ScanSymbol \/ LeavePending \/ InvalidCharacter
  PROVE  LexerInv'
<1>1. CASE EndOfSource
  <2>1. "EOF" \in TokenTypes
    BY DEF TokenTypes
  <2>2. diagnostics = << >> /\ mode' = mode /\ mode \in {"NORMAL", "RESPONSE_PENDING", "RESPONSE"}
    BY <1>1 DEF EndOfSource, LexerInv
  <2>3. start' = Recorded(position) /\ position' = position /\ Emit("EOF", position', "done")
    BY <1>1 DEF EndOfSource
  <2> QED
    BY <2>1, <2>2, <2>3, StartsHere, EmitKeepsInv
<1>2. CASE SkipWhitespace
  BY <1>2, StartsHere, ReadKeepsInv DEF SkipWhitespace, Reads, Automata, NumberStates
<1>3. CASE ScanSymbol
  <2> DEFINE type == SymbolType(source[position.offset + 1])
  <2>1. mode \in {"NORMAL", "RESPONSE_PENDING", "RESPONSE"} /\ diagnostics = << >>
    BY <1>3 DEF ScanSymbol, LexerInv
  <2>2. ~AtEnd /\ source[position.offset + 1] \in Symbols
    BY <1>3, <2>1, SymbolsAreTokens DEF ScanSymbol, Reads
  <2>3. type \in TokenTypes
    BY <2>2, SymbolsAreTokens
  <2>4. /\ start' = Recorded(position) /\ position' = Advance(position)
        /\ Emit(type, position', "dispatch") /\ mode' = ModeAfter(type)
    BY <1>3 DEF ScanSymbol
  <2>5. mode' \in {"NORMAL", "RESPONSE_PENDING", "RESPONSE"}
    BY <2>1, <2>4 DEF ModeAfter
  <2> QED
    BY <2>1, <2>2, <2>3, <2>4, <2>5, StartsHere, EmitKeepsInv
<1>4. CASE LeavePending
  BY <1>4 DEF LeavePending, Reprocessed, LexerInv, Automata, NumberStates
<1>5. CASE InvalidCharacter
  <2>1. \E code \in Codes : Reject(code, Recorded(position), AfterCurrent)
    BY <1>5 DEF InvalidCharacter, Codes
  <2> QED
    BY <2>1, StartsHere, AfterCurrentType, RejectKeepsInv
<1> QED
  BY <1>1, <1>2, <1>3, <1>4, <1>5

\* None of the characters of a word is a CR.
LEMMA NotCR ==
  ASSUME NEW ch \in Identifier \cup {".", Backslash}
  PROVE  ch # CR
BY NoNewline

LEMMA DirectiveKeepsInv ==
  ASSUME LexerInv, BeginDirective \/ ReadDirective \/ EndDirective \/ RejectDirective
  PROVE  LexerInv'
<1>1. CASE BeginDirective
  BY <1>1, StartsHere, ReadKeepsInv, NotCR DEF BeginDirective, Reads, Automata, NumberStates
<1>2. CASE ReadDirective
  BY <1>2, StartsHere, ReadKeepsInv, NotCR
     DEF ReadDirective, Extends, Reads, Automata, NumberStates, Identifier
<1>3. CASE EndDirective
  <2>1. PICK type \in TypesOf(WordRead) :
          /\ UNCHANGED <<start, position>>
          /\ Emit(type, position, "dispatch")
          /\ mode' = IF type = "RESPONSE" THEN "RESPONSE_PENDING" ELSE mode
    BY <1>3 DEF EndDirective
  <2>2. type \in TokenTypes
    BY DEF TypesOf, TokenTypes
  <2>3. diagnostics = << >> /\ mode' \in {"NORMAL", "RESPONSE_PENDING", "RESPONSE"}
    BY <1>3, <2>1 DEF EndDirective, LexerInv
  <2>4. position' = position /\ start' = start /\ Emit(type, position', "dispatch")
    BY <2>1
  <2> QED
    BY <2>2, <2>3, <2>4, StartsHere, EmitKeepsInv
<1>4. CASE RejectDirective
  <2>1. \E code \in Codes :
          Reject(code, start, AfterCurrent) \/ Reject(code, start, Recorded(position))
    BY <1>4 DEF RejectDirective, Codes
  <2> QED
    BY <2>1, StartsHere, AfterCurrentType, RejectKeepsInv
<1> QED
  BY <1>1, <1>2, <1>3, <1>4

LEMMA VariableKeepsInv ==
  ASSUME LexerInv, BeginVariable \/ ReadVariable \/ EndVariable
  PROVE  LexerInv'
<1>1. CASE BeginVariable
  <2>1. /\ ~AtEnd /\ source[position.offset + 1] \in Letters /\ scan # "done"
        /\ start' = Recorded(position) /\ Read("variable")
    BY <1>1 DEF BeginVariable, Reads
  <2>2. source[position.offset + 1] # CR
    BY <2>1, NotCR DEF Identifier
  <2>3. "variable" \in Automata \ {"n0"}
    BY DEF Automata, NumberStates
  <2> QED
    BY <2>1, <2>2, <2>3, StartsHere, ReadKeepsInv
<1>2. CASE ReadVariable
  BY <1>2, StartsHere, ReadKeepsInv, NotCR DEF ReadVariable, Reads, Automata, NumberStates
<1>3. CASE EndVariable
  <2>1. "VARIABLE" \in TokenTypes
    BY DEF TokenTypes
  <2>2. diagnostics = << >> /\ mode' \in {"NORMAL", "RESPONSE_PENDING", "RESPONSE"}
    BY <1>3 DEF EndVariable, LexerInv
  <2>3. position' = position /\ start' = start /\ Emit("VARIABLE", position', "dispatch")
    BY <1>3 DEF EndVariable
  <2> QED
    BY <2>1, <2>2, <2>3, StartsHere, EmitKeepsInv
<1> QED
  BY <1>1, <1>2, <1>3

LEMMA NumberKeepsInv ==
  ASSUME LexerInv, BeginNumber \/ ReadNumber \/ EndNumber \/ RejectNumber
  PROVE  LexerInv'
<1>1. CASE BeginNumber
  BY <1>1, BeginKeepsInv DEF BeginNumber
<1>2. CASE ReadNumber
  <2> DEFINE ch == source[position.offset + 1]
             q == NumberStep(scan, ch)
  <2>1. scan \in NumberStates /\ ~AtEnd /\ q # "stop" /\ Read(q) /\ start' = start
    BY <1>2 DEF ReadNumber, NumberGoesOn
  <2>2. ch \in Digits \cup {"."} /\ q \in NumberStates \ {"n0"}
    BY <2>1, NumberStepReads
  <2>3. ch # CR
    BY <2>2, NotCR DEF Identifier
  <2>4. scan # "done" /\ q \in {"dispatch"} \cup (Automata \ {"n0"})
    BY <2>1, <2>2 DEF Automata, NumberStates
  <2> HIDE DEF q
  <2> QED
    BY <2>1, <2>3, <2>4, StartsHere, ReadKeepsInv
<1>3. CASE EndNumber
  <2>1. "NUMBER" \in TokenTypes
    BY DEF TokenTypes
  <2>2. diagnostics = << >> /\ mode' \in {"NORMAL", "RESPONSE_PENDING", "RESPONSE"}
    BY <1>3 DEF EndNumber, LexerInv
  <2>3. position' = position /\ start' = start /\ Emit("NUMBER", position', "dispatch")
    BY <1>3 DEF EndNumber
  <2> QED
    BY <2>1, <2>2, <2>3, StartsHere, EmitKeepsInv
<1>4. CASE RejectNumber
  <2>1. "LEX003" \in Codes /\ Reject("LEX003", start, AfterCurrent)
    BY <1>4 DEF RejectNumber, Codes
  <2> QED
    BY <2>1, StartsHere, AfterCurrentType, RejectKeepsInv
<1> QED
  BY <1>1, <1>2, <1>3, <1>4

LEMMA StatisticKeepsInv ==
  ASSUME LexerInv, BeginStatistic \/ ReadStatistic \/ EndStatistic \/ RejectStatistic
  PROVE  LexerInv'
<1>1. CASE BeginStatistic
  BY <1>1, BeginKeepsInv DEF BeginStatistic
<1>2. CASE ReadStatistic
  BY <1>2, StartsHere, ReadKeepsInv, NotCR DEF ReadStatistic, Reads, Automata, NumberStates
<1>3. CASE EndStatistic
  <2>1. PICK type \in StatisticsAt(start.offset) :
          /\ position.offset = start.offset + Len(Statistics[type])
          /\ UNCHANGED <<position, mode, start>>
          /\ Emit(type, position, "dispatch")
    BY <1>3 DEF EndStatistic
  <2>2. type \in TokenTypes
    BY DEF StatisticsAt, TokenTypes
  <2>3. diagnostics = << >> /\ mode' \in {"NORMAL", "RESPONSE_PENDING", "RESPONSE"}
    BY <1>3, <2>1 DEF EndStatistic, LexerInv
  <2>4. position' = position /\ start' = start /\ Emit(type, position', "dispatch")
    BY <2>1
  <2> QED
    BY <2>2, <2>3, <2>4, StartsHere, EmitKeepsInv
<1>4. CASE RejectStatistic
  <2>1. "LEX007" \in Codes /\ Reject("LEX007", Recorded(position), AfterCandidate)
    BY <1>4 DEF RejectStatistic, Codes
  <2> QED
    BY <2>1, StartsHere, AfterCandidateType, RejectKeepsInv
<1> QED
  BY <1>1, <1>2, <1>3, <1>4

LEMMA NextKeepsInv ==
  ASSUME LexerInv, [Next]_lexerVars
  PROVE  LexerInv'
<1>1. CASE UNCHANGED lexerVars
  BY <1>1 DEF lexerVars, LexerInv, Reads, AtEnd
<1> QED
  BY <1>1, DispatchKeepsInv, DirectiveKeepsInv, VariableKeepsInv, NumberKeepsInv,
     StatisticKeepsInv DEF Next

LEMMA InitInv ==
  ASSUME Init
  PROVE  LexerInv
<1>1. /\ source \in Seq(STRING) /\ position = [offset |-> 0, line |-> 1, column |-> 1, afterCr |-> FALSE]
      /\ mode = "NORMAL" /\ scan = "dispatch" /\ tokens = << >> /\ diagnostics = << >>
      /\ start = [offset |-> 0, line |-> 1, column |-> 1]
  BY SourcesAssumption DEF Init, Recorded
<1> QED
  BY <1>1 DEF LexerInv, Positions, Automata, NumberStates

\* The state of the lexer is sound: an automaton at work has read no newline
\* and what it reads starts at start, for every set of source texts.
THEOREM LexerSound == Spec => []LexerInv
<1>1. LexerInv /\ [Next]_lexerVars => LexerInv'
  BY NextKeepsInv
<1>2. Init => LexerInv
  BY InitInv
<1> QED
  BY <1>1, <1>2, PTL DEF Spec

-----------------------------------------------------------------------------
(* Positions                                                               *)

\* Only the three fields of a position count.
LEMMA SameFields ==
  ASSUME NEW text, NEW p, NEW q, Exact(text, p),
         q.offset = p.offset, q.line = p.line, q.column = p.column
  PROVE  Exact(text, q)
BY DEF Exact

LEMMA RecordedExact ==
  ASSUME NEW text, NEW p, Exact(text, p)
  PROVE  Exact(text, Recorded(p))
<1>1. Recorded(p).offset = p.offset /\ Recorded(p).line = p.line /\ Recorded(p).column = p.column
  BY DEF Recorded
<1> QED
  BY <1>1, SameFields

\* _advance counts a line exactly where one ends: it remembers a CR.
LEMMA AdvanceExact ==
  ASSUME LexerInv, ~AtEnd, Exact(source, position)
  PROVE  Exact(source, Advance(position))
<1> DEFINE p == Recorded(position)
           q == Recorded(Advance(position))
           ch == source[position.offset + 1]
<1>1. /\ p \in Positions /\ p.offset = position.offset
      /\ p.line = position.line /\ p.column = position.column
  BY StartsHere DEF Recorded
<1>2. /\ q \in Positions /\ q.offset = Advance(position).offset
      /\ q.line = Advance(position).line /\ q.column = Advance(position).column
  BY Advancing, RecordedType DEF Recorded
<1>3. Exact(source, p) /\ source \in Seq(STRING)
  BY RecordedExact DEF LexerInv
<1>4. q.offset = p.offset + 1 /\ p.offset < Len(source)
  <2>1. position.offset <= Len(source) /\ position.offset # Len(source) /\ Len(source) \in Nat
    BY <1>3 DEF LexerInv, AtEnd
  <2>2. position.offset \in Nat /\ q.offset = position.offset + 1
    BY StartsHere, <1>2, Advancing
  <2> QED
    BY <1>1, <2>1, <2>2
<1>5. position.afterCr <=> position.offset > 0 /\ source[position.offset] = CR
  BY DEF LexerInv
<1>6. position.offset \in Nat
  BY StartsHere
<1>7. LineBreak(source, position.offset + 1) <=> ch = CR \/ (ch = LF /\ ~position.afterCr)
  BY <1>5, <1>6 DEF LineBreak
<1>8. q.line = p.line + IF LineBreak(source, q.offset) THEN 1 ELSE 0
  <2>1. Advance(position).line = IF ch = CR \/ (ch = LF /\ ~position.afterCr)
                                 THEN position.line + 1 ELSE position.line
    BY DEF Advance
  <2>2. position.line \in Nat
    BY <1>1 DEF Positions
  <2> QED
    BY <1>1, <1>2, <1>4, <1>7, <2>1, <2>2
<1>9. q.column = IF source[q.offset] \in Newlines THEN 1 ELSE p.column + 1
  BY <1>1, <1>2, <1>4 DEF Advance
<1>10. Exact(source, q)
  <2> HIDE DEF p, q
  <2> QED
    BY <1>1, <1>2, <1>3, <1>4, <1>8, <1>9, MoveOne
<1> QED
  BY <1>2, <1>10, SameFields

\* _position_after_current is right wherever it is not used after a CR.
LEMMA AfterCurrentExact ==
  ASSUME LexerInv, Exact(source, position), ~Reads(Newlines) \/ ~position.afterCr
  PROVE  Exact(source, AfterCurrent)
<1>1. CASE AtEnd
  BY <1>1, RecordedExact DEF AfterCurrent
<1>2. CASE ~AtEnd
  <2>1. Exact(source, Advance(position))
    BY <1>2, AdvanceExact
  <2> DEFINE ch == source[position.offset + 1]
  <2>2. Reads(Newlines) <=> ch \in Newlines
    BY <1>2 DEF Reads
  <2>3. AfterCurrent = IF ch \in Newlines
          THEN [offset |-> position.offset + 1, line |-> position.line + 1, column |-> 1]
          ELSE [offset |-> position.offset + 1, line |-> position.line,
                column |-> position.column + 1]
    BY <1>2, <2>2 DEF AfterCurrent
  <2>4. CASE ch \in Newlines
    <3>1. ch = CR \/ (ch = LF /\ ~position.afterCr)
      BY <2>2, <2>4 DEF Newlines
    <3>2. /\ AfterCurrent.offset = Advance(position).offset
          /\ AfterCurrent.line = Advance(position).line
          /\ AfterCurrent.column = Advance(position).column
      BY <2>3, <2>4, <3>1 DEF Advance
    <3> QED
      BY <2>1, <3>2, SameFields
  <2>5. CASE ch \notin Newlines
    <3>1. ch # CR /\ ch # LF
      BY <2>5 DEF Newlines
    <3>2. /\ AfterCurrent.offset = Advance(position).offset
          /\ AfterCurrent.line = Advance(position).line
          /\ AfterCurrent.column = Advance(position).column
      BY <2>3, <2>5, <3>1 DEF Advance
    <3> QED
      BY <2>1, <3>2, SameFields
  <2> QED
    BY <2>4, <2>5
<1> QED
  BY <1>1, <1>2

\* The lengths of the prefixes with indices in G are all those up to the longest.
LEMMA LongestPrefix ==
  ASSUME NEW N \in Nat, NEW G, NEW D, NEW m, m = Cardinality(D),
         \A n : n \in D <=> n \in 1 .. N /\ \A k \in 1 .. n : k \in G
  PROVE  m \in 0 .. N /\ \A k \in 1 .. m : k \in G
<1>1. IsFiniteSet(1 .. N) /\ Cardinality(1 .. N) = N
  BY FS_Interval
<1>2. IsFiniteSet(D) /\ Cardinality(D) \in Nat /\ Cardinality(D) <= N
  <2>1. D \subseteq 1 .. N
    OBVIOUS
  <2> QED
    BY <1>1, <2>1, FS_Subset, FS_CardinalityType
<1>3. m \in 0 .. N
  BY <1>2
<1>4. m = 0 \/ m \in D
  <2> SUFFICES ASSUME m # 0, m \notin D PROVE FALSE
    OBVIOUS
  <2>1. \A n \in D : n \in 1 .. m - 1
    <3> SUFFICES ASSUME NEW n \in D PROVE n < m
      BY <1>3
    <3>1. n \in Nat /\ \A k \in 1 .. n : k \in G
      OBVIOUS
    <3> QED
      BY <1>3, <3>1
  <2>2. IsFiniteSet(1 .. m - 1) /\ Cardinality(1 .. m - 1) = m - 1
    <3>1. m - 1 \in Int /\ 1 \in Int /\ 1 <= m - 1 + 1 /\ m \in Nat
      BY <1>3
    <3>2. Cardinality(1 .. m - 1) = IF 1 > m - 1 THEN 0 ELSE (m - 1) - 1 + 1
      BY <3>1, FS_Interval
    <3>3. IsFiniteSet(1 .. m - 1)
      BY <3>1, FS_Interval
    <3> QED
      BY <3>1, <3>2, <3>3
  <2>3. D \subseteq 1 .. m - 1
    BY <2>1
  <2>4. Cardinality(D) <= Cardinality(1 .. m - 1)
    BY <2>2, <2>3, FS_Subset
  <2> QED
    BY <1>3, <2>2, <2>4
<1> QED
  BY <1>3, <1>4

\* _position_after_candidate moves over identifier characters only.
LEMMA AfterCandidateExact ==
  ASSUME LexerInv, Exact(source, position)
  PROVE  Exact(source, AfterCandidate)
<1> DEFINE N == Len(source) - position.offset
           D == {n \in 1 .. N : \A k \in 1 .. n : source[position.offset + k] \in Identifier}
           G == {k \in 1 .. N : source[position.offset + k] \in Identifier}
           m == Cardinality(D)
           p == Recorded(position)
<1>1. /\ source \in Seq(STRING) /\ position.offset \in Nat /\ N \in Nat
  <2>1. source \in Seq(STRING) /\ position.offset <= Len(source)
    BY DEF LexerInv
  <2> QED
    BY <2>1, StartsHere
<1>2. \A n : n \in D <=> n \in 1 .. N /\ \A k \in 1 .. n : k \in G
  BY <1>1
<1>3. m = Cardinality(D)
  OBVIOUS
<1>4. m \in 0 .. N /\ \A k \in 1 .. m : k \in G
  <2> HIDE DEF m, D, G, N
  <2> QED
    BY <1>1, <1>2, <1>3, LongestPrefix
<1>5. p \in Positions /\ p.offset = position.offset /\ p.line = position.line
      /\ p.column = position.column
  BY StartsHere DEF Recorded
<1>6. Exact(source, p)
  BY RecordedExact
<1>7. AfterCandidate = [offset |-> p.offset + m, line |-> p.line, column |-> p.column + m]
  BY <1>5 DEF AfterCandidate
<1> HIDE DEF m, D, p
<1>8. \A k \in 1 .. m : source[p.offset + k] \notin Newlines
  BY <1>4, <1>5, NoNewline
<1>9. p.offset + m <= Len(source) /\ m \in Nat
  BY <1>1, <1>4, <1>5
<1> QED
  BY <1>1, <1>5, <1>6, <1>7, <1>8, <1>9, MoveMany

\* A step moves the position by one character at most, and records positions
\* that are exact.
LEMMA StepKeepsExact ==
  ASSUME LexerInv, PositionsExact, source' = source,
         position' = position \/ (~AtEnd /\ position' = Advance(position)),
         start' = start \/ start' = Recorded(position),
         \/ tokens' = tokens
         \/ \E type \in TokenTypes :
              tokens' = Append(tokens, [type |-> type, start |-> start',
                                        end |-> Recorded(position')]),
         \/ diagnostics' = diagnostics
         \/ \E code \in Codes : \E from, to \in Positions :
              /\ Exact(source, from) /\ Exact(source, to)
              /\ diagnostics' = <<[code |-> code, start |-> from, end |-> to]>>
  PROVE  PositionsExact'
<1>1. Exact(source, position) /\ Exact(source, start)
  BY DEF PositionsExact
<1>2. Exact(source, position')
  BY <1>1, AdvanceExact
<1>3. Exact(source, start') /\ Exact(source, Recorded(position'))
  BY <1>1, <1>2, RecordedExact
<1>4. \A i \in DOMAIN tokens' :
        Exact(source, tokens'[i].start) /\ Exact(source, tokens'[i].end)
  <2>1. \A i \in DOMAIN tokens : Exact(source, tokens[i].start) /\ Exact(source, tokens[i].end)
    BY DEF PositionsExact
  <2>2. CASE tokens' = tokens
    BY <2>1, <2>2
  <2>3. ASSUME NEW type \in TokenTypes,
               tokens' = Append(tokens, [type |-> type, start |-> start',
                                         end |-> Recorded(position')])
        PROVE  \A i \in DOMAIN tokens' :
                 Exact(source, tokens'[i].start) /\ Exact(source, tokens'[i].end)
    <3> DEFINE t == [type |-> type, start |-> start', end |-> Recorded(position')]
    <3>1. t.start = start' /\ t.end = Recorded(position')
      OBVIOUS
    <3>2. tokens' = Append(tokens, t) /\ tokens \in Seq(Token)
      BY <2>3 DEF LexerInv, Token
    <3> HIDE DEF t
    <3>3. \A i \in DOMAIN tokens' : (i \in DOMAIN tokens /\ tokens'[i] = tokens[i]) \/ tokens'[i] = t
      BY <3>2
    <3> QED
      BY <1>3, <2>1, <3>1, <3>3
  <2> QED
    BY <2>2, <2>3
<1>5. \A i \in DOMAIN diagnostics' :
        Exact(source, diagnostics'[i].start) /\ Exact(source, diagnostics'[i].end)
  <2>1. CASE diagnostics' = diagnostics
    BY <2>1 DEF PositionsExact
  <2>2. ASSUME NEW code \in Codes, NEW from \in Positions, NEW to \in Positions,
               Exact(source, from), Exact(source, to),
               diagnostics' = <<[code |-> code, start |-> from, end |-> to]>>
        PROVE  \A i \in DOMAIN diagnostics' :
                 Exact(source, diagnostics'[i].start) /\ Exact(source, diagnostics'[i].end)
    BY <2>2
  <2> QED
    BY <2>1, <2>2
<1> QED
  BY <1>2, <1>3, <1>4, <1>5 DEF PositionsExact

\* A rejection that ends at a position that is exact.
LEMMA RejectKeepsExact ==
  ASSUME LexerInv, PositionsExact, NEW code \in Codes, NEW from \in Positions,
         NEW to \in Positions, Reject(code, from, to),
         from = start \/ from = Recorded(position), Exact(source, to)
  PROVE  PositionsExact'
<1>1. Exact(source, from)
  BY RecordedExact DEF PositionsExact
<1> QED
  BY <1>1, StepKeepsExact DEF Reject

\* Where a directive or a number ends in error, no CR stands before.
LEMMA AutomatonEndsExact ==
  ASSUME LexerInv, PositionsExact, RejectDirective \/ RejectNumber
  PROVE  Exact(source, AfterCurrent)
<1>1. Exact(source, position)
  BY DEF PositionsExact
<1>2. ~Reads(Newlines) \/ ~position.afterCr
  <2>1. CASE scan = "n0"
    <3>1. Reads(Digits \cup {"."})
      BY <2>1 DEF LexerInv
    <3> QED
      BY <3>1, NoNewline DEF Reads, Identifier
  <2>2. CASE scan # "n0"
    <3>1. scan \in Automata /\ scan # "statistic"
      BY <2>2 DEF RejectDirective, RejectNumber, Automata, NumberStates
    <3>2. start.offset < position.offset
      BY <2>2, <3>1 DEF LexerInv
    <3>3. start # Recorded(position)
      BY <3>2, StartsHere
    <3> QED
      BY <3>1, <3>3 DEF LexerInv
  <2> QED
    BY <2>1, <2>2
<1> QED
  BY <1>1, <1>2, AfterCurrentExact

LEMMA NextKeepsExact ==
  ASSUME LexerInv, PositionsExact, [Next]_lexerVars
  PROVE  PositionsExact'
<1>1. CASE UNCHANGED lexerVars
  BY <1>1 DEF lexerVars, PositionsExact
<1>2. CASE EndOfSource
  BY <1>2, StepKeepsExact DEF EndOfSource, Emit, TokenTypes
<1>3. CASE SkipWhitespace
  BY <1>3, StepKeepsExact DEF SkipWhitespace, Read, Reads
<1>4. CASE ScanSymbol
  <2> DEFINE type == SymbolType(source[position.offset + 1])
  <2>1. mode \in {"NORMAL", "RESPONSE_PENDING", "RESPONSE"}
    BY DEF LexerInv
  <2>2. ~AtEnd /\ source[position.offset + 1] \in Symbols
    BY <1>4, <2>1, SymbolsAreTokens DEF ScanSymbol, Reads
  <2>3. type \in TokenTypes
    BY <2>2, SymbolsAreTokens
  <2>4. /\ start' = Recorded(position) /\ position' = Advance(position)
        /\ Emit(type, position', "dispatch")
    BY <1>4 DEF ScanSymbol
  <2> HIDE DEF type
  <2> QED
    BY <2>2, <2>3, <2>4, StepKeepsExact DEF Emit
<1>5. CASE LeavePending
  BY <1>5, StepKeepsExact DEF LeavePending
<1>6. CASE InvalidCharacter
  <2>1. ~Reads(Newlines)
    BY <1>6 DEF InvalidCharacter, Reads, Whitespace
  <2>2. Exact(source, AfterCurrent)
    BY <2>1, AfterCurrentExact DEF PositionsExact
  <2>3. \E code \in Codes : Reject(code, Recorded(position), AfterCurrent)
    BY <1>6 DEF InvalidCharacter, Codes
  <2> QED
    BY <2>2, <2>3, StartsHere, AfterCurrentType, RejectKeepsExact
<1>7. CASE BeginDirective
  BY <1>7, StepKeepsExact DEF BeginDirective, Read, Reads
<1>8. CASE ReadDirective
  BY <1>8, StepKeepsExact DEF ReadDirective, Extends, Read, Reads
<1>9. CASE EndDirective
  BY <1>9, StepKeepsExact DEF EndDirective, Emit, TypesOf, TokenTypes
<1>10. CASE RejectDirective
  <2>1. Exact(source, AfterCurrent) /\ Exact(source, Recorded(position))
    BY <1>10, AutomatonEndsExact, RecordedExact DEF PositionsExact
  <2>2. \E code \in Codes :
          Reject(code, start, AfterCurrent) \/ Reject(code, start, Recorded(position))
    BY <1>10 DEF RejectDirective, Codes
  <2> QED
    BY <2>1, <2>2, StartsHere, AfterCurrentType, RejectKeepsExact
<1>11. CASE BeginVariable
  BY <1>11, StepKeepsExact DEF BeginVariable, Read, Reads
<1>12. CASE ReadVariable
  BY <1>12, StepKeepsExact DEF ReadVariable, Read, Reads
<1>13. CASE EndVariable
  BY <1>13, StepKeepsExact DEF EndVariable, Emit, TokenTypes
<1>14. CASE BeginNumber \/ BeginStatistic
  BY <1>14, StepKeepsExact DEF BeginNumber, BeginStatistic, Begin
<1>15. CASE ReadNumber
  BY <1>15, StepKeepsExact DEF ReadNumber, NumberGoesOn, Read
<1>16. CASE EndNumber
  BY <1>16, StepKeepsExact DEF EndNumber, Emit, TokenTypes
<1>17. CASE RejectNumber
  <2>1. Exact(source, AfterCurrent) /\ Reject("LEX003", start, AfterCurrent)
    BY <1>17, AutomatonEndsExact DEF RejectNumber
  <2> QED
    BY <2>1, StartsHere, AfterCurrentType, RejectKeepsExact DEF Codes
<1>18. CASE ReadStatistic
  BY <1>18, StepKeepsExact DEF ReadStatistic, Read, Reads
<1>19. CASE EndStatistic
  BY <1>19, StepKeepsExact DEF EndStatistic, Emit, StatisticsAt, TokenTypes
<1>20. CASE RejectStatistic
  <2>1. Exact(source, AfterCandidate)
    BY AfterCandidateExact DEF PositionsExact
  <2>2. Reject("LEX007", Recorded(position), AfterCandidate)
    BY <1>20 DEF RejectStatistic
  <2> QED
    BY <2>1, <2>2, StartsHere, AfterCandidateType, RejectKeepsExact DEF Codes
<1> QED
  BY <1>1, <1>2, <1>3, <1>4, <1>5, <1>6, <1>7, <1>8, <1>9, <1>10, <1>11, <1>12, <1>13,
     <1>14, <1>15, <1>16, <1>17, <1>18, <1>19, <1>20 DEF Next

LEMMA InitExact ==
  ASSUME Init
  PROVE  PositionsExact
<1> DEFINE p == [offset |-> 0, line |-> 1, column |-> 1, afterCr |-> FALSE]
<1>1. source \in Seq(STRING) /\ position = p /\ start = Recorded(p) /\ tokens = << >>
      /\ diagnostics = << >>
  BY SourcesAssumption DEF Init
<1>2. {k \in 1 .. 0 : LineBreak(source, k)} = {}
  OBVIOUS
<1>3. Cardinality({k \in 1 .. p.offset : LineBreak(source, k)}) = 0
  BY <1>2, FS_EmptySet
<1>4. Exact(source, p)
  BY <1>1, <1>3 DEF Exact
<1> QED
  BY <1>1, <1>4, RecordedExact DEF PositionsExact

\* Every line and column that the lexer records is the one an editor would
\* show, for every text: _advance and the two functions that compute an end
\* without reading agree on CR, LF and CR LF.
THEOREM PositionsAreExact == Spec => []PositionsExact
<1>1. Init => PositionsExact
  BY InitExact
<1>2. LexerInv /\ PositionsExact /\ [Next]_lexerVars => PositionsExact'
  BY NextKeepsExact
<1> QED
  BY <1>1, <1>2, LexerSound, PTL DEF Spec

-----------------------------------------------------------------------------
(* Nothing is skipped                                                      *)

\* The character at k is of the text that is dealt with.
Dealt(k) ==
  source[k] \in Whitespace \/ \E i \in DOMAIN tokens : Within(k, tokens[i])

\* The automata see the text up to start; the dispatcher all that was read.
LEMMA DealtBefore ==
  ASSUME LexerInv, SourceCovered, scan # "done"
  PROVE  /\ scan \in Automata => \A k \in 1 .. start.offset : Dealt(k)
         /\ scan = "dispatch" => \A k \in 1 .. position.offset : Dealt(k)
<1>1. diagnostics = << >> /\ start.offset <= position.offset
      /\ start.offset \in Nat /\ position.offset \in Nat
  BY StartsHere DEF LexerInv, Positions
<1>2. \A k \in 1 .. position.offset :
        Dealt(k) \/ (k > start.offset /\ scan \in Automata)
  BY <1>1 DEF SourceCovered, Dealt
<1>3. "dispatch" \notin Automata
  BY DEF Automata, NumberStates
<1> QED
  BY <1>1, <1>2, <1>3

LEMMA EndsAreOffsets ==
  ASSUME LexerInv
  PROVE  \A i \in DOMAIN tokens : tokens[i].end.offset \in Nat
<1>1. tokens \in Seq(Token)
  BY DEF LexerInv, Token
<1>2. \A i \in DOMAIN tokens : tokens[i] \in Token
  BY <1>1
<1> QED
  BY <1>2 DEF Token, Positions

\* What is left of SourceCovered when a token begins, goes on or ends.
LEMMA ReadKeepsCovered ==
  ASSUME LexerInv, SourceCovered, scan # "done",
         source' = source, tokens' = tokens, diagnostics' = diagnostics,
         position' = position \/ (~AtEnd /\ position' = Advance(position)),
         \/ scan = "dispatch" /\ start' = Recorded(position)
         \/ scan \in Automata /\ start' = start,
         scan' \in Automata
  PROVE  SourceCovered'
<1>1. /\ position.offset \in Nat /\ position'.offset \in Nat
      /\ position.offset <= position'.offset
  BY StartsHere, Advancing DEF PositionType
<1>2. start'.offset \in Nat /\ \A k \in 1 .. start'.offset : Dealt(k)
  BY DealtBefore, StartsHere DEF Positions
<1>3. \A k : Dealt(k) => Dealt(k)'
  BY DEF Dealt, Within
<1>4. \A i \in DOMAIN tokens : tokens[i].end.offset <= start'.offset
  BY StartsHere DEF SourceCovered
<1>5. \A i \in DOMAIN tokens : tokens[i].end.offset \in Nat
  BY EndsAreOffsets
<1>6. \A i \in DOMAIN tokens' : tokens'[i].end.offset <= position'.offset
  <2>1. \A i \in DOMAIN tokens : tokens[i].end.offset <= position.offset
    BY DEF SourceCovered
  <2> QED
    BY <1>1, <1>5, <2>1
<1>7. \A k \in 1 .. position'.offset : Dealt(k)' \/ (k > start'.offset /\ scan' \in Automata)
  BY <1>1, <1>2, <1>3
<1>8. scan' # "done"
  BY DEF Automata, NumberStates
<1> QED
  BY <1>4, <1>6, <1>7, <1>8 DEF SourceCovered, Dealt

LEMMA EmitKeepsCovered ==
  ASSUME LexerInv, SourceCovered, scan # "done",
         NEW type \in TokenTypes, NEW q \in {"dispatch", "done"}, Emit(type, position', q),
         position' = position \/ (~AtEnd /\ position' = Advance(position)),
         \/ scan = "dispatch" /\ start' = Recorded(position)
         \/ scan \in Automata /\ start' = start,
         q = "done" => AtEnd /\ position' = position
  PROVE  SourceCovered'
<1> DEFINE t == [type |-> type, start |-> start', end |-> Recorded(position')]
<1>1. /\ source' = source /\ diagnostics' = diagnostics /\ scan' = q
      /\ tokens' = Append(tokens, t)
  BY DEF Emit
<1>2. /\ position.offset \in Nat /\ position'.offset \in Nat
      /\ position.offset <= position'.offset
  BY StartsHere, Advancing DEF PositionType
<1>3. /\ start'.offset \in Nat /\ start'.offset <= position'.offset
      /\ \A k \in 1 .. start'.offset : Dealt(k)
  BY <1>2, DealtBefore, StartsHere DEF Positions
<1>4. t.start = start' /\ t.end.offset = position'.offset
  BY DEF Recorded
<1>5. tokens \in Seq(Token) /\ Len(tokens) \in Nat
  BY DEF LexerInv, Token
<1> HIDE DEF t
<1>6. /\ DOMAIN tokens' = DOMAIN tokens \cup {Len(tokens) + 1}
      /\ Len(tokens) + 1 \notin DOMAIN tokens
      /\ \A i \in DOMAIN tokens : tokens'[i] = tokens[i] /\ i < Len(tokens) + 1
      /\ tokens'[Len(tokens) + 1] = t
      /\ DOMAIN tokens = 1 .. Len(tokens)
  BY <1>1, <1>5
<1>7. \A i \in DOMAIN tokens : tokens[i].end.offset <= start'.offset
                               /\ tokens[i].end.offset \in Nat
  <2>1. \A i \in DOMAIN tokens : tokens[i].end.offset \in Nat
    BY EndsAreOffsets
  <2>2. CASE scan = "dispatch"
    BY <2>1, <2>2, StartsHere DEF SourceCovered, Automata, NumberStates
  <2>3. CASE scan \in Automata
    BY <2>1, <2>3 DEF SourceCovered, Automata, NumberStates
  <2> QED
    BY <2>2, <2>3
<1>8. \A k \in 1 .. position'.offset : Dealt(k)'
  <2>1. \A k : Dealt(k) => Dealt(k)'
    BY <1>1, <1>6 DEF Dealt, Within
  <2>2. \A k \in start'.offset + 1 .. position'.offset : Dealt(k)'
    BY <1>2, <1>3, <1>4, <1>6 DEF Dealt, Within
  <2> QED
    BY <1>2, <1>3, <2>1, <2>2
<1>9. \A i, j \in DOMAIN tokens' : i < j => tokens'[i].end.offset <= tokens'[j].start.offset
  <2>1. \A i, j \in DOMAIN tokens : i < j => tokens[i].end.offset <= tokens[j].start.offset
    BY DEF SourceCovered
  <2> SUFFICES ASSUME NEW i \in DOMAIN tokens', NEW j \in DOMAIN tokens', i < j
               PROVE  tokens'[i].end.offset <= tokens'[j].start.offset
    OBVIOUS
  <2>2. i \in DOMAIN tokens
    BY <1>5, <1>6
  <2>3. CASE j \in DOMAIN tokens
    BY <1>6, <2>1, <2>2, <2>3
  <2>4. CASE j = Len(tokens) + 1
    BY <1>4, <1>6, <1>7, <2>2, <2>4
  <2> QED
    BY <1>6, <2>3, <2>4
<1>10. \A i \in DOMAIN tokens' : tokens'[i].end.offset <= position'.offset
  <2> SUFFICES ASSUME NEW i \in DOMAIN tokens'
               PROVE  tokens'[i].end.offset <= position'.offset
    OBVIOUS
  <2>1. CASE i \in DOMAIN tokens
    BY <1>2, <1>3, <1>6, <1>7, <2>1
  <2>2. CASE i = Len(tokens) + 1
    BY <1>2, <1>4, <1>6, <2>2
  <2> QED
    BY <1>6, <2>1, <2>2
<1>11. scan' \notin Automata /\ (scan' = "done" => AtEnd')
  BY <1>1 DEF AtEnd, Automata, NumberStates
<1> QED
  BY <1>8, <1>9, <1>10, <1>11 DEF SourceCovered, Dealt

LEMMA RejectKeepsCovered ==
  ASSUME SourceCovered, NEW code, NEW from, NEW to, Reject(code, from, to)
  PROVE  SourceCovered'
<1>1. /\ UNCHANGED <<source, position, start, tokens>> /\ scan' = "done"
      /\ diagnostics' # << >>
  BY DEF Reject
<1>2. "done" \notin Automata
  BY DEF Automata, NumberStates
<1> QED
  BY <1>1, <1>2 DEF SourceCovered, Within, AtEnd

LEMMA NextKeepsCovered ==
  ASSUME LexerInv, SourceCovered, [Next]_lexerVars
  PROVE  SourceCovered'
<1>1. CASE UNCHANGED lexerVars
  BY <1>1 DEF lexerVars, SourceCovered, Within, AtEnd
<1>2. CASE EndOfSource
  BY <1>2, EmitKeepsCovered DEF EndOfSource, TokenTypes
<1>3. CASE SkipWhitespace
  <2>1. /\ ~AtEnd /\ source[position.offset + 1] \in Whitespace /\ scan = "dispatch"
        /\ UNCHANGED <<source, tokens, diagnostics, start>> /\ scan' = "dispatch"
        /\ position'.offset = position.offset + 1 /\ position.offset \in Nat
    BY <1>3, Advancing, StartsHere DEF SkipWhitespace, Reads, Read
  <2>2. \A k \in 1 .. position.offset : Dealt(k)
    BY <2>1, DealtBefore
  <2>3. \A k \in 1 .. position'.offset : Dealt(k)'
    BY <2>1, <2>2 DEF Dealt, Within
  <2>4. \A i \in DOMAIN tokens : tokens[i].end.offset \in Nat
                                 /\ tokens[i].end.offset <= position.offset
    BY EndsAreOffsets DEF SourceCovered
  <2>5. "dispatch" \notin Automata
    BY DEF Automata, NumberStates
  <2> QED
    BY <2>1, <2>3, <2>4, <2>5 DEF SourceCovered, Dealt
<1>4. CASE ScanSymbol
  <2> DEFINE type == SymbolType(source[position.offset + 1])
  <2>1. mode \in {"NORMAL", "RESPONSE_PENDING", "RESPONSE"}
    BY DEF LexerInv
  <2>2. ~AtEnd /\ source[position.offset + 1] \in Symbols /\ scan = "dispatch"
    BY <1>4, <2>1, SymbolsAreTokens DEF ScanSymbol, Reads
  <2>3. type \in TokenTypes
    BY <2>2, SymbolsAreTokens
  <2>4. /\ start' = Recorded(position) /\ position' = Advance(position)
        /\ Emit(type, position', "dispatch")
    BY <1>4 DEF ScanSymbol
  <2> HIDE DEF type
  <2> QED
    BY <2>2, <2>3, <2>4, EmitKeepsCovered
<1>5. CASE LeavePending
  BY <1>5 DEF LeavePending, SourceCovered, Within, AtEnd
<1>6. CASE InvalidCharacter \/ RejectDirective \/ RejectNumber \/ RejectStatistic
  BY <1>6, RejectKeepsCovered
     DEF InvalidCharacter, RejectDirective, RejectNumber, RejectStatistic
<1>7. CASE BeginDirective
  BY <1>7, ReadKeepsCovered DEF BeginDirective, Read, Reads, Automata, NumberStates
<1>8. CASE ReadDirective
  BY <1>8, ReadKeepsCovered DEF ReadDirective, Extends, Read, Reads, Automata, NumberStates
<1>9. CASE EndDirective
  BY <1>9, EmitKeepsCovered DEF EndDirective, TypesOf, TokenTypes, Automata
<1>10. CASE BeginVariable
  BY <1>10, ReadKeepsCovered DEF BeginVariable, Read, Reads, Automata, NumberStates
<1>11. CASE ReadVariable
  BY <1>11, ReadKeepsCovered DEF ReadVariable, Read, Reads, Automata, NumberStates
<1>12. CASE EndVariable
  BY <1>12, EmitKeepsCovered DEF EndVariable, TokenTypes, Automata
<1>13. CASE BeginNumber \/ BeginStatistic
  BY <1>13, ReadKeepsCovered DEF BeginNumber, BeginStatistic, Begin, Automata, NumberStates
<1>14. CASE ReadNumber
  <2> DEFINE q == NumberStep(scan, source[position.offset + 1])
  <2>1. /\ scan \in NumberStates /\ ~AtEnd /\ q # "stop" /\ Read(q) /\ start' = start
    BY <1>14 DEF ReadNumber, NumberGoesOn
  <2>2. q \in NumberStates
    BY <2>1, NumberStepReads
  <2> HIDE DEF q
  <2> QED
    BY <2>1, <2>2, ReadKeepsCovered DEF Read, Automata, NumberStates
<1>15. CASE EndNumber
  BY <1>15, EmitKeepsCovered DEF EndNumber, TokenTypes, Automata, NumberStates
<1>16. CASE ReadStatistic
  BY <1>16, ReadKeepsCovered DEF ReadStatistic, Read, Reads, Automata, NumberStates
<1>17. CASE EndStatistic
  BY <1>17, EmitKeepsCovered DEF EndStatistic, StatisticsAt, TokenTypes, Automata
<1> QED
  BY <1>1, <1>2, <1>3, <1>4, <1>5, <1>6, <1>7, <1>8, <1>9, <1>10, <1>11, <1>12, <1>13,
     <1>14, <1>15, <1>16, <1>17 DEF Next

\* No character is skipped or read twice, for every text: all that was read is
\* white space, of one token, or of the token being read.
THEOREM SourceIsCovered == Spec => []SourceCovered
<1>1. Init => SourceCovered
  BY DEF Init, SourceCovered, Automata, NumberStates
<1>2. LexerInv /\ SourceCovered /\ [Next]_lexerVars => SourceCovered'
  BY NextKeepsCovered
<1> QED
  BY <1>1, <1>2, LexerSound, PTL DEF Spec

-----------------------------------------------------------------------------
(* The words of the language                                               *)

LEMMA DirectiveWords ==
  /\ DOMAIN Directives = {"MODEL", "NORMAL", "DISTRIB", "UNIFORM", "ITER", "RESPONSE",
                          "FRAC", "SQRT", "PM"}
  /\ \A type \in DOMAIN Directives : Directives[type] \in Seq(Letters)
<1>1. DOMAIN Directives = {"MODEL", "NORMAL", "DISTRIB", "UNIFORM", "ITER", "RESPONSE",
                          "FRAC", "SQRT", "PM"}
  BY DEF Directives
<1>2. Directives["MODEL"] \in Seq(Letters)
  BY DEF Directives, Letters
<1>3. Directives["NORMAL"] \in Seq(Letters)
  BY DEF Directives, Letters
<1>4. Directives["DISTRIB"] \in Seq(Letters)
  BY DEF Directives, Letters
<1>5. Directives["UNIFORM"] \in Seq(Letters)
  BY DEF Directives, Letters
<1>6. Directives["ITER"] \in Seq(Letters)
  BY DEF Directives, Letters
<1>7. Directives["RESPONSE"] \in Seq(Letters)
  BY DEF Directives, Letters
<1>8. Directives["FRAC"] \in Seq(Letters)
  BY DEF Directives, Letters
<1>9. Directives["SQRT"] \in Seq(Letters)
  BY DEF Directives, Letters
<1>10. Directives["PM"] \in Seq(Letters)
  BY DEF Directives, Letters
<1> QED
  BY <1>1, <1>2, <1>3, <1>4, <1>5, <1>6, <1>7, <1>8, <1>9, <1>10

\* A statistic begins with a letter.
Name(word) == word \in Seq(Identifier) /\ Len(word) > 0 /\ word[1] \in Letters

LEMMA StatisticWords ==
  /\ DOMAIN Statistics = {"AVG", "MIN", "MAX", "VAR", "STD", "COUNT", "VALID_RATE",
                          "DISCARD_RATE", "P05", "P50", "P95"}
  /\ \A type \in DOMAIN Statistics : Name(Statistics[type])
<1>1. DOMAIN Statistics = {"AVG", "MIN", "MAX", "VAR", "STD", "COUNT", "VALID_RATE",
                          "DISCARD_RATE", "P05", "P50", "P95"}
  BY DEF Statistics
<1>2. Name(Statistics["AVG"])
  BY DEF Statistics, Letters, Digits, Identifier, Name
<1>3. Name(Statistics["MIN"])
  BY DEF Statistics, Letters, Digits, Identifier, Name
<1>4. Name(Statistics["MAX"])
  BY DEF Statistics, Letters, Digits, Identifier, Name
<1>5. Name(Statistics["VAR"])
  BY DEF Statistics, Letters, Digits, Identifier, Name
<1>6. Name(Statistics["STD"])
  BY DEF Statistics, Letters, Digits, Identifier, Name
<1>7. Name(Statistics["COUNT"])
  BY DEF Statistics, Letters, Digits, Identifier, Name
<1>8. Name(Statistics["VALID_RATE"])
  BY DEF Statistics, Letters, Digits, Identifier, Name
<1>9. Name(Statistics["DISCARD_RATE"])
  BY DEF Statistics, Letters, Digits, Identifier, Name
<1>10. Name(Statistics["P05"])
  BY DEF Statistics, Letters, Digits, Identifier, Name
<1>11. Name(Statistics["P50"])
  BY DEF Statistics, Letters, Digits, Identifier, Name
<1>12. Name(Statistics["P95"])
  BY DEF Statistics, Letters, Digits, Identifier, Name
<1> QED
  BY <1>1, <1>2, <1>3, <1>4, <1>5, <1>6, <1>7, <1>8, <1>9, <1>10, <1>11, <1>12

\* The kinds of tokens do not overlap.
LEMMA Kinds ==
  /\ \A type \in DOMAIN Directives : type \notin DOMAIN Statistics
  /\ \A type \in {"VARIABLE", "NUMBER", "EOF"} \cup {SymbolType(ch) : ch \in Symbols} :
        type \notin DOMAIN Directives /\ type \notin DOMAIN Statistics
  /\ \A ch \in Symbols : SymbolType(ch) \notin {"VARIABLE", "NUMBER", "EOF"}
<1>1. {SymbolType(ch) : ch \in Symbols} \subseteq
        {"LBRACE", "RBRACE", "COMMA", "ASSIGN", "PLUS", "MINUS", "MULT", "DIV", "POWER"}
  BY DEF Symbols, SymbolType
<1>2. DOMAIN Directives = {"MODEL", "NORMAL", "DISTRIB", "UNIFORM", "ITER", "RESPONSE",
                          "FRAC", "SQRT", "PM"}
  BY DirectiveWords
<1>3. DOMAIN Statistics = {"AVG", "MIN", "MAX", "VAR", "STD", "COUNT", "VALID_RATE",
                          "DISCARD_RATE", "P05", "P50", "P95"}
  BY StatisticWords
<1> QED
  BY <1>1, <1>2, <1>3

\* The words of each kind.
LEMMA WordsOfDirectives ==
  ASSUME NEW type \in DOMAIN Directives
  PROVE  /\ \A word : InLanguage(type, word) <=> word = <<Backslash>> \o Directives[type]
         /\ \A ch : MayFollow(type, ch) <=> ch \notin Letters \cup {"_"}
<1>1. type \notin DOMAIN Statistics /\ type \notin {"VARIABLE", "NUMBER", "EOF"}
  BY Kinds
<1> QED
  BY <1>1 DEF InLanguage, MayFollow

LEMMA WordsOfStatistics ==
  ASSUME NEW type \in DOMAIN Statistics
  PROVE  /\ \A word : InLanguage(type, word) <=> word = Statistics[type]
         /\ \A ch : MayFollow(type, ch) <=> ch \in {",", "}"} \cup Whitespace
<1>1. type \notin DOMAIN Directives /\ type \notin {"VARIABLE", "NUMBER", "EOF"}
  BY Kinds
<1> QED
  BY <1>1 DEF InLanguage, MayFollow

LEMMA WordsOfSymbols ==
  ASSUME NEW ch \in Symbols
  PROVE  \A word : InLanguage(SymbolType(ch), word) <=>
                     Len(word) = 1 /\ word[1] \in Symbols /\ SymbolType(word[1]) = SymbolType(ch)
<1>1. /\ SymbolType(ch) \notin DOMAIN Directives /\ SymbolType(ch) \notin DOMAIN Statistics
      /\ SymbolType(ch) \notin {"VARIABLE", "NUMBER", "EOF"}
  BY Kinds
<1> QED
  BY <1>1 DEF InLanguage

LEMMA OtherWords ==
  \A word : /\ InLanguage("VARIABLE", word) <=>
                  word # << >> /\ word[1] \in Letters /\ AllIn(word, Identifier)
            /\ InLanguage("NUMBER", word) <=> IsNumber(word)
            /\ InLanguage("EOF", word) <=> word = << >>
            /\ \A ch : /\ MayFollow("VARIABLE", ch) <=> ch \notin Identifier
                       /\ MayFollow("NUMBER", ch) <=> ch \notin Digits \cup {".", "_"}
<1>1. \A type \in {"VARIABLE", "NUMBER", "EOF"} :
         type \notin DOMAIN Directives /\ type \notin DOMAIN Statistics
  BY Kinds
<1>2. /\ "VARIABLE" \in {"VARIABLE", "NUMBER", "EOF"} /\ "NUMBER" \in {"VARIABLE", "NUMBER", "EOF"}
      /\ "EOF" \in {"VARIABLE", "NUMBER", "EOF"}
  OBVIOUS
<1> QED
  BY <1>1, <1>2 DEF InLanguage, MayFollow

\* Letters, digits, symbols and the characters that begin a token are apart.
LEMMA Alphabet ==
  /\ Backslash \notin Letters \cup Digits \cup Symbols \cup {".", "_"}
  /\ \A ch \in Letters : ch \notin Digits \cup Symbols \cup {".", "_"}
  /\ \A ch \in Digits : ch \notin Symbols \cup {".", "_"}
  /\ \A ch \in NumberDelimiters : ch \notin Digits \cup {".", "_"}
  /\ "0" \in Digits /\ "." \notin Symbols
<1>1. Backslash \notin Letters \cup Digits \cup Symbols \cup {".", "_"}
  BY DEF Backslash, Letters, Digits, Symbols
<1>2. \A ch \in Letters : ch \notin Digits /\ ch \notin Symbols /\ ch \notin {".", "_"}
  <2>1. \A ch \in Letters : ch \notin Digits
    BY DEF Letters, Digits
  <2>2. \A ch \in Letters : ch \notin Symbols
    <3>1. \A ch \in {"{", "}", ",", "=", "+"} : ch \notin Letters
      BY DEF Letters
    <3>2. \A ch \in {"-", "*", "/", "^"} : ch \notin Letters
      BY DEF Letters
    <3> QED
      BY <3>1, <3>2 DEF Symbols
  <2>3. \A ch \in Letters : ch \notin {".", "_"}
    BY DEF Letters
  <2> QED
    BY <2>1, <2>2, <2>3
<1>5. \A ch \in Whitespace : ch \notin Digits \cup Symbols \cup {".", "_"}
  BY DEF Digits, Symbols, Whitespace, Newlines, CR, LF
<1>3. \A ch \in Digits : ch \notin Symbols \cup {".", "_"}
  BY DEF Digits, Symbols
<1>4. "." \notin Symbols /\ "_" \notin Symbols /\ "0" \in Digits
  BY DEF Symbols, Digits
<1> QED
  BY <1>1, <1>2, <1>3, <1>4, <1>5 DEF NumberDelimiters

-----------------------------------------------------------------------------
(* The text between two offsets                                            *)

LEMMA Between ==
  ASSUME NEW text \in Seq(STRING), NEW a \in Nat, NEW b \in a .. Len(text)
  PROVE  /\ SubSeq(text, a + 1, b) \in Seq(STRING)
         /\ Len(SubSeq(text, a + 1, b)) = b - a
         /\ DOMAIN SubSeq(text, a + 1, b) = 1 .. b - a
         /\ \A k \in 1 .. b - a : SubSeq(text, a + 1, b)[k] = text[a + k]
OBVIOUS

\* All characters between two offsets are in a set.
AllOf(S, a, b) == \A k \in a + 1 .. b : source[k] \in S

\* The whole part of a number: no zero begins a longer one.
Whole(a, b) == AllOf(Digits, a, b) /\ (b > a + 1 => source[a + 1] # "0")

\* A number, of which d is the end of the whole part.
NumberAt(a, b, d) ==
  /\ Whole(a, d)
  /\ d < b => source[d + 1] = "." /\ d + 1 < b /\ AllOf(Digits, d + 1, b)

\* IsNumber says the same of the word.
LEMMA NumberWords ==
  ASSUME source \in Seq(STRING), NEW a \in Nat, NEW b \in a .. Len(source)
  PROVE  IsNumber(SubSeq(source, a + 1, b)) <=> a < b /\ \E d \in a .. b : NumberAt(a, b, d)
<1> DEFINE word == SubSeq(source, a + 1, b)
<1>1. /\ word \in Seq(STRING) /\ Len(word) = b - a /\ DOMAIN word = 1 .. b - a
      /\ \A k \in 1 .. b - a : word[k] = source[a + k]
  BY Between
<1>2. word # << >> <=> a < b
  BY <1>1
<1> DEFINE Split(k) ==
      LET whole == SubSeq(word, 1, k)
          fraction == SubSeq(word, k + 1, Len(word))
      IN /\ AllIn(whole, Digits) /\ (k > 1 => whole[1] # "0")
         /\ fraction # << >> =>
              /\ fraction[1] = "." /\ Len(fraction) > 1
              /\ AllIn(Tail(fraction), Digits)
<1>3. ASSUME NEW k \in 0 .. b - a
      PROVE  Split(k) <=> NumberAt(a, b, a + k)
  <2> DEFINE whole == SubSeq(word, 1, k)
             fraction == SubSeq(word, k + 1, Len(word))
  <2>0. b - a \in Nat /\ a + k \in a .. b
    OBVIOUS
  <2> HIDE DEF word
  <2>1. DOMAIN whole = 1 .. k /\ \A i \in 1 .. k : whole[i] = source[a + i]
    <3>1. \A i \in 1 .. k : i \in 1 .. b - a
      OBVIOUS
    <3> QED
      BY <1>1, <2>0, <3>1
  <2>2. /\ fraction \in Seq(STRING) /\ Len(fraction) = b - a - k
        /\ \A i \in 1 .. b - a - k : fraction[i] = source[a + k + i]
    <3>1. \A i \in 1 .. b - a - k : fraction[i] = word[k + i]
      BY <1>1, <2>0
    <3>2. \A i \in 1 .. b - a - k : k + i \in 1 .. b - a /\ a + (k + i) = a + k + i
      OBVIOUS
    <3> QED
      BY <1>1, <2>0, <3>1, <3>2
  <2> HIDE DEF whole, fraction
  <2>3. AllIn(whole, Digits) <=> AllOf(Digits, a, a + k)
    <3>1. AllIn(whole, Digits) <=> \A i \in 1 .. k : source[a + i] \in Digits
      BY <2>1 DEF AllIn
    <3>2. \A i \in a + 1 .. a + k : i - a \in 1 .. k /\ a + (i - a) = i
      OBVIOUS
    <3>3. \A i \in 1 .. k : a + i \in a + 1 .. a + k
      OBVIOUS
    <3> QED
      BY <3>1, <3>2, <3>3 DEF AllOf
  <2>4. k > 1 => whole[1] = source[a + 1]
    BY <2>1
  <2>5. a + k > a + 1 <=> k > 1
    OBVIOUS
  <2>6. fraction # << >> <=> a + k < b
    BY <2>2
  <2>7. ASSUME a + k < b
        PROVE  /\ fraction[1] = source[a + k + 1]
               /\ Len(fraction) > 1 <=> a + k + 1 < b
               /\ AllIn(Tail(fraction), Digits) <=> AllOf(Digits, a + k + 1, b)
    <3>1. fraction[1] = source[a + k + 1] /\ (Len(fraction) > 1 <=> a + k + 1 < b)
      BY <2>2, <2>7
    <3>2. /\ DOMAIN Tail(fraction) = 1 .. b - a - k - 1
          /\ \A i \in 1 .. b - a - k - 1 : Tail(fraction)[i] = source[a + k + 1 + i]
      <4>1. fraction # << >>
        BY <2>6, <2>7
      <4>2. /\ DOMAIN Tail(fraction) = 1 .. b - a - k - 1
            /\ \A i \in 1 .. b - a - k - 1 : Tail(fraction)[i] = fraction[i + 1]
        BY <2>2, <4>1
      <4>3. \A i \in 1 .. b - a - k - 1 :
              i + 1 \in 1 .. b - a - k /\ a + k + (i + 1) = a + k + 1 + i
        OBVIOUS
      <4> QED
        BY <2>2, <4>2, <4>3
    <3>3. \A i \in a + k + 2 .. b :
            i - (a + k + 1) \in 1 .. b - a - k - 1 /\ a + k + 1 + (i - (a + k + 1)) = i
      OBVIOUS
    <3>4. \A i \in 1 .. b - a - k - 1 : a + k + 1 + i \in a + k + 2 .. b
      OBVIOUS
    <3>5. a + k + 1 + 1 = a + k + 2
      OBVIOUS
    <3>6. AllIn(Tail(fraction), Digits) <=> AllOf(Digits, a + k + 1, b)
      BY <3>2, <3>3, <3>4, <3>5 DEF AllIn, AllOf
    <3> QED
      BY <3>1, <3>6
  <2>8. NumberAt(a, b, a + k) <=>
          /\ AllIn(whole, Digits) /\ (k > 1 => whole[1] # "0")
          /\ fraction # << >> =>
               /\ fraction[1] = "." /\ Len(fraction) > 1
               /\ AllIn(Tail(fraction), Digits)
    BY <2>3, <2>4, <2>5, <2>6, <2>7 DEF NumberAt, Whole
  <2> QED
    BY <2>8 DEF whole, fraction
<1>4. IsNumber(word) <=> word # << >> /\ \E k \in 0 .. Len(word) : Split(k)
  BY DEF IsNumber
<1>5. \A d \in a .. b : d - a \in 0 .. b - a /\ a + (d - a) = d
  OBVIOUS
<1>6. \A k \in 0 .. b - a : a + k \in a .. b
  OBVIOUS
<1> HIDE DEF Split, word
<1>7. (\E k \in 0 .. Len(word) : Split(k)) <=> \E d \in a .. b : NumberAt(a, b, d)
  <2>1. ASSUME NEW k \in 0 .. Len(word), Split(k)
        PROVE  \E d \in a .. b : NumberAt(a, b, d)
    BY <1>1, <1>3, <1>6, <2>1
  <2>2. ASSUME NEW d \in a .. b, NumberAt(a, b, d)
        PROVE  \E k \in 0 .. Len(word) : Split(k)
    <3>1. d - a \in 0 .. Len(word) /\ Split(d - a)
      BY <1>1, <1>3, <1>5, <2>2
    <3> QED
      BY <3>1
  <2> QED
    BY <2>1, <2>2
<1> QED
  BY <1>2, <1>4, <1>7 DEF word

-----------------------------------------------------------------------------
(* What an automaton at work has read                                      *)

\* The text from start to the position belongs to the state of the automaton,
\* and the automata of a mode work in that mode only.
Reading ==
  LET s == start.offset
      p == position.offset
  IN /\ scan \in {"directive", "variable"} \cup NumberStates => mode = "NORMAL"
     /\ scan = "statistic" => mode = "RESPONSE"
     /\ scan = "directive" => source[s + 1] = Backslash /\ AllOf(Letters, s + 1, p)
     /\ scan = "variable" => source[s + 1] \in Letters /\ AllOf(Identifier, s, p)
     /\ scan = "n0" => s = p
     /\ scan = "nCero" => p = s + 1 /\ source[p] = "0"
     /\ scan = "nEntero" => Whole(s, p) /\ source[s + 1] # "0"
     /\ scan = "nPunto" => Whole(s, p - 1) /\ source[p] = "."
     /\ scan = "nFraccion" => \E d \in s .. p - 2 : NumberAt(s, p, d)

\* The offsets of a state.
LEMMA Offsets ==
  ASSUME LexerInv
  PROVE  /\ position.offset \in Nat /\ start.offset \in 0 .. position.offset
         /\ position.offset <= Len(source) /\ Len(source) \in Nat /\ source \in Seq(STRING)
         /\ ~AtEnd => position.offset < Len(source)
         /\ scan \in {"directive", "variable"} \cup (NumberStates \ {"n0"}) =>
              start.offset < position.offset
<1>1. /\ position.offset \in Nat /\ start.offset \in Nat /\ start.offset <= position.offset
      /\ position.offset <= Len(source) /\ source \in Seq(STRING)
  BY StartsHere DEF LexerInv, Positions
<1>2. scan \in {"directive", "variable"} \cup (NumberStates \ {"n0"}) =>
        start.offset < position.offset
  BY DEF LexerInv, Automata, NumberStates
<1> QED
  BY <1>1, <1>2 DEF AtEnd

\* Reading one character more.
LEMMA ReadOne ==
  ASSUME LexerInv, ~AtEnd, NEW q, Read(q)
  PROVE  /\ position'.offset = position.offset + 1 /\ scan' = q
         /\ source' = source /\ mode' = mode /\ tokens' = tokens
         /\ diagnostics' = diagnostics
BY Advancing DEF Read

LEMMA OneMore ==
  ASSUME NEW a \in Nat, NEW p \in Nat, NEW S
  PROVE  /\ AllOf(S, p, p)
         /\ AllOf(S, a, p) /\ source[p + 1] \in S => AllOf(S, a, p + 1)
BY DEF AllOf

LEMMA NoAutomatonReads ==
  ASSUME scan' \in {"dispatch", "done"}
  PROVE  Reading'
BY DEF Reading, NumberStates

LEMMA DirectiveReads ==
  ASSUME LexerInv, Reading, BeginDirective \/ ReadDirective
  PROVE  Reading'
<1> DEFINE p == position.offset
<1>1. ~AtEnd /\ Read("directive")
  BY DEF BeginDirective, ReadDirective, Extends, Reads
<1>2. /\ position'.offset = p + 1 /\ scan' = "directive" /\ source' = source /\ mode' = mode
      /\ p \in Nat
  BY <1>1, ReadOne, Offsets
<1>3. CASE BeginDirective
  <2>1. start'.offset = p /\ source[p + 1] = Backslash /\ mode = "NORMAL"
    BY <1>3, StartsHere DEF BeginDirective, Reads
  <2>2. AllOf(Letters, p + 1, p + 1)
    BY <1>2, OneMore
  <2> QED
    BY <1>2, <2>1, <2>2 DEF Reading, NumberStates, AllOf
<1>4. CASE ReadDirective
  <2>1. start' = start /\ source[p + 1] \in Letters /\ scan = "directive"
    BY <1>4 DEF ReadDirective, Extends, Reads
  <2>2. /\ source[start.offset + 1] = Backslash /\ AllOf(Letters, start.offset + 1, p)
        /\ mode = "NORMAL" /\ start.offset + 1 \in Nat
    BY <2>1, Offsets DEF Reading
  <2>3. AllOf(Letters, start.offset + 1, p + 1)
    BY <1>2, <2>1, <2>2, OneMore
  <2> QED
    BY <1>2, <2>1, <2>2, <2>3 DEF Reading, NumberStates, AllOf
<1> QED
  BY <1>3, <1>4

LEMMA VariableReads ==
  ASSUME LexerInv, Reading, BeginVariable \/ ReadVariable
  PROVE  Reading'
<1> DEFINE p == position.offset
<1>1. ~AtEnd /\ Read("variable")
  BY DEF BeginVariable, ReadVariable, Reads
<1>2. /\ position'.offset = p + 1 /\ scan' = "variable" /\ source' = source /\ mode' = mode
      /\ p \in Nat
  BY <1>1, ReadOne, Offsets
<1>3. CASE BeginVariable
  <2>1. start'.offset = p /\ source[p + 1] \in Letters /\ mode = "NORMAL"
    BY <1>3, StartsHere DEF BeginVariable, Reads
  <2>2. source[p + 1] \in Identifier
    BY <2>1 DEF Identifier
  <2>3. AllOf(Identifier, p, p + 1)
    BY <1>2, <2>2, OneMore
  <2> QED
    BY <1>2, <2>1, <2>3 DEF Reading, NumberStates, AllOf
<1>4. CASE ReadVariable
  <2>1. start' = start /\ source[p + 1] \in Identifier /\ scan = "variable"
    BY <1>4 DEF ReadVariable, Reads
  <2>2. /\ source[start.offset + 1] \in Letters /\ AllOf(Identifier, start.offset, p)
        /\ mode = "NORMAL" /\ start.offset \in Nat
    BY <2>1, Offsets DEF Reading
  <2>3. AllOf(Identifier, start.offset, p + 1)
    BY <1>2, <2>1, <2>2, OneMore
  <2> QED
    BY <1>2, <2>1, <2>2, <2>3 DEF Reading, NumberStates, AllOf
<1> QED
  BY <1>3, <1>4

LEMMA NumberReads ==
  ASSUME LexerInv, Reading, BeginNumber \/ ReadNumber
  PROVE  Reading'
<1> DEFINE p == position.offset
           s == start.offset
           ch == source[p + 1]
<1>1. CASE BeginNumber
  <2>1. /\ start'.offset = position'.offset /\ scan' = "n0" /\ mode' = "NORMAL"
    BY <1>1, StartsHere DEF BeginNumber, Begin
  <2> QED
    BY <2>1 DEF Reading, NumberStates
<1>2. CASE ReadNumber
  <2>1. /\ scan \in NumberStates /\ ~AtEnd /\ NumberStep(scan, ch) # "stop"
        /\ Read(NumberStep(scan, ch)) /\ start' = start /\ mode = "NORMAL"
    BY <1>2 DEF ReadNumber, NumberGoesOn, Reading
  <2>2. /\ position'.offset = p + 1 /\ scan' = NumberStep(scan, ch) /\ source' = source
        /\ mode' = mode /\ p \in Nat /\ s \in 0 .. p /\ start'.offset = s
        /\ scan # "n0" => s < p
    BY <2>1, ReadOne, Offsets
  <2>3. CASE scan = "n0"
    <3>1. s = p
      BY <2>3 DEF Reading
    <3>2. CASE ch = "0"
      <4>1. scan' = "nCero"
        BY <2>2, <2>3, <3>2 DEF NumberStep, Digits
      <4> QED
        BY <2>1, <2>2, <3>1, <3>2, <4>1 DEF Reading, NumberStates
    <3>3. CASE ch \in Digits /\ ch # "0"
      <4>1. scan' = "nEntero"
        BY <2>2, <2>3, <3>3 DEF NumberStep, Digits
      <4>2. AllOf(Digits, s, p + 1)
        BY <2>2, <3>1, <3>3, OneMore
      <4>3. Whole(s, p + 1)
        BY <2>2, <3>1, <4>2 DEF Whole
      <4> QED
        BY <2>1, <2>2, <3>1, <3>3, <4>1, <4>3 DEF Reading, NumberStates, Whole, AllOf
    <3>4. CASE ch = "."
      <4>1. scan' = "nPunto"
        BY <2>2, <2>3, <3>4 DEF NumberStep, Digits
      <4>2. Whole(s, p)
        BY <2>2, <3>1, OneMore DEF Whole
      <4>3. p + 1 - 1 = p
        BY <2>2
      <4> QED
        BY <2>1, <2>2, <3>1, <3>4, <4>1, <4>2, <4>3 DEF Reading, NumberStates, Whole, AllOf
    <3> QED
      BY <2>1, <3>2, <3>3, <3>4, NumberStepReads
  <2>4. CASE scan = "nCero"
    <3>1. p = s + 1 /\ source[p] = "0"
      BY <2>4 DEF Reading
    <3>2. ch = "." /\ scan' = "nPunto"
      BY <2>1, <2>2, <2>4 DEF NumberStep, Digits
    <3>3. AllOf(Digits, s, p)
      BY <2>2, <3>1 DEF AllOf, Digits
    <3>4. Whole(s, p) /\ p + 1 - 1 = p
      BY <2>2, <3>1, <3>3 DEF Whole
    <3> QED
      BY <2>1, <2>2, <3>2, <3>4 DEF Reading, NumberStates, Whole, AllOf
  <2>5. CASE scan = "nEntero"
    <3>1. Whole(s, p) /\ source[s + 1] # "0" /\ s < p
      BY <2>2, <2>5 DEF Reading
    <3>2. CASE ch \in Digits
      <4>1. scan' = "nEntero"
        BY <2>2, <2>5, <3>2 DEF NumberStep, Digits
      <4>2. AllOf(Digits, s, p + 1)
        BY <2>2, <3>1, <3>2, OneMore DEF Whole
      <4>3. Whole(s, p + 1)
        BY <3>1, <4>2 DEF Whole
      <4> QED
        BY <2>1, <2>2, <3>1, <4>1, <4>3 DEF Reading, NumberStates, Whole, AllOf
    <3>3. CASE ch = "."
      <4>1. scan' = "nPunto" /\ p + 1 - 1 = p
        BY <2>2, <2>5, <3>3 DEF NumberStep, Digits
      <4> QED
        BY <2>1, <2>2, <3>1, <3>3, <4>1 DEF Reading, NumberStates, Whole, AllOf
    <3> QED
      BY <2>1, <3>2, <3>3, NumberStepReads
  <2>6. CASE scan = "nPunto"
    <3>1. Whole(s, p - 1) /\ source[p] = "." /\ s < p
      BY <2>2, <2>6 DEF Reading
    <3>2. ch \in Digits /\ scan' = "nFraccion"
      BY <2>1, <2>2, <2>6 DEF NumberStep, Digits
    <3>3. AllOf(Digits, p, p + 1)
      BY <2>2, <3>2, OneMore
    <3>4. NumberAt(s, p + 1, p - 1) /\ p - 1 \in s .. p + 1 - 2
      <4>1. p - 1 + 1 = p /\ p - 1 < p + 1 /\ p - 1 \in s .. p + 1 - 2
        BY <2>2, <3>1
      <4> QED
        BY <2>2, <3>1, <3>3, <4>1 DEF NumberAt
    <3> QED
      BY <2>1, <2>2, <3>2, <3>4 DEF Reading, NumberStates, NumberAt, Whole, AllOf
  <2>7. CASE scan = "nFraccion"
    <3>1. PICK d \in s .. p - 2 : NumberAt(s, p, d)
      BY <2>7 DEF Reading
    <3>2. ch \in Digits /\ scan' = "nFraccion"
      BY <2>1, <2>2, <2>7 DEF NumberStep, Digits
    <3>3. source[d + 1] = "." /\ d + 1 < p /\ AllOf(Digits, d + 1, p) /\ Whole(s, d)
      BY <2>2, <3>1 DEF NumberAt
    <3>4. AllOf(Digits, d + 1, p + 1)
      BY <2>2, <3>2, <3>3, OneMore
    <3>5. NumberAt(s, p + 1, d) /\ d \in s .. p + 1 - 2
      BY <2>2, <3>3, <3>4 DEF NumberAt
    <3> QED
      BY <2>1, <2>2, <3>2, <3>5 DEF Reading, NumberStates, NumberAt, Whole, AllOf
  <2> QED
    BY <2>1, <2>3, <2>4, <2>5, <2>6, <2>7 DEF NumberStates
<1> QED
  BY <1>1, <1>2

LEMMA NextReads ==
  ASSUME LexerInv, Reading, [Next]_lexerVars
  PROVE  Reading'
<1>1. CASE UNCHANGED lexerVars
  BY <1>1 DEF lexerVars, Reading, NumberAt, Whole, AllOf
<1>2. CASE \/ EndOfSource \/ ScanSymbol \/ InvalidCharacter
           \/ EndDirective \/ RejectDirective \/ EndVariable
           \/ EndNumber \/ RejectNumber \/ EndStatistic \/ RejectStatistic
  <2>1. scan' \in {"dispatch", "done"}
    BY <1>2 DEF EndOfSource, ScanSymbol, InvalidCharacter, EndDirective, RejectDirective,
       EndVariable, EndNumber, RejectNumber, EndStatistic, RejectStatistic, Emit, Reject
  <2> QED
    BY <2>1, NoAutomatonReads
<1>3. CASE SkipWhitespace \/ LeavePending
  <2>1. scan' = "dispatch"
    BY <1>3 DEF SkipWhitespace, LeavePending, Read
  <2> QED
    BY <2>1, NoAutomatonReads
<1>4. CASE BeginStatistic \/ ReadStatistic
  <2>1. scan' = "statistic" /\ mode' = "RESPONSE"
    BY <1>4 DEF BeginStatistic, ReadStatistic, Begin, Read, Reading
  <2> QED
    BY <2>1 DEF Reading, NumberStates
<1> QED
  BY <1>1, <1>2, <1>3, <1>4, DirectiveReads, VariableReads, NumberReads DEF Next

LEMMA ReadingHolds == Spec => []Reading
<1>1. Init => Reading
  BY DEF Init, Reading, NumberStates
<1>2. LexerInv /\ Reading /\ [Next]_lexerVars => Reading'
  BY NextReads
<1> QED
  BY <1>1, <1>2, LexerSound, PTL DEF Spec

-----------------------------------------------------------------------------
(* Tokens are whole words                                                  *)

\* A token that ends is a word of its type, if what was read is.
LEMMA EmitKeepsTokens ==
  ASSUME LexerInv, LexemesAreTokens, NEW type, NEW q, Emit(type, position', q),
         TokenAt(type, start'.offset, position'.offset)
  PROVE  LexemesAreTokens'
<1> DEFINE t == [type |-> type, start |-> start', end |-> Recorded(position')]
<1>1. source' = source /\ tokens' = Append(tokens, t) /\ tokens \in Seq(Token)
  BY DEF Emit, LexerInv, Token
<1>2. t.type = type /\ t.start = start' /\ t.end.offset = position'.offset
  BY DEF Recorded
<1> HIDE DEF t
<1>3. \A i \in DOMAIN tokens' : tokens'[i] = t \/ (i \in DOMAIN tokens /\ tokens'[i] = tokens[i])
  BY <1>1
<1>4. \A u, from, to : TokenAt(u, from, to) => TokenAt(u, from, to)'
  BY <1>1 DEF TokenAt
<1> QED
  BY <1>2, <1>3, <1>4 DEF LexemesAreTokens

LEMMA SymbolTokens ==
  ASSUME LexerInv, ScanSymbol
  PROVE  \E type : /\ Emit(type, position', "dispatch")
                   /\ TokenAt(type, start'.offset, position'.offset)
<1> DEFINE ch == source[position.offset + 1]
           type == SymbolType(ch)
           p == position.offset
           word == SubSeq(source, p + 1, p + 1)
<1>1. ~AtEnd /\ ch \in Symbols
  BY SymbolsAreTokens DEF ScanSymbol, Reads, LexerInv
<1>2. /\ start'.offset = p /\ position'.offset = p + 1 /\ p \in Nat
      /\ Emit(type, position', "dispatch") /\ p + 1 \in p .. Len(source)
      /\ source \in Seq(STRING)
  BY <1>1, StartsHere, Offsets, Advancing DEF ScanSymbol
<1>3. Len(word) = 1 /\ word[1] = ch
  <2>1. Len(word) = p + 1 - p /\ \A k \in 1 .. p + 1 - p : word[k] = source[p + k]
    <3>1. p \in Nat /\ p + 1 \in p .. Len(source) /\ source \in Seq(STRING)
      BY <1>2
    <3> HIDE DEF p
    <3> QED
      BY <3>1, Between
  <2>2. p + 1 - p = 1
    BY <1>2
  <2> HIDE DEF word
  <2> QED
    BY <2>1, <2>2
<1>4. /\ type \notin DOMAIN Directives /\ type \notin DOMAIN Statistics
      /\ type \notin {"VARIABLE", "NUMBER", "EOF"}
  BY <1>1, Kinds
<1> HIDE DEF type, word
<1>5. InLanguage(type, word) /\ MayFollow(type, source[p + 2])
  BY <1>1, <1>3, <1>4 DEF InLanguage, MayFollow, type
<1>6. TokenAt(type, p, p + 1)
  BY <1>2, <1>5 DEF TokenAt, word
<1> QED
  BY <1>2, <1>6

LEMMA OneBefore ==
  ASSUME NEW ch \in STRING, NEW rest \in Seq(STRING)
  PROVE  /\ <<ch>> \o rest \in Seq(STRING) /\ Len(<<ch>> \o rest) = 1 + Len(rest)
         /\ (<<ch>> \o rest)[1] = ch
         /\ \A k \in 2 .. 1 + Len(rest) : (<<ch>> \o rest)[k] = rest[k - 1]
OBVIOUS

LEMMA DirectiveTokens ==
  ASSUME LexerInv, Reading, EndDirective
  PROVE  \E type : /\ Emit(type, position', "dispatch")
                   /\ TokenAt(type, start'.offset, position'.offset)
<1> DEFINE s == start.offset
           p == position.offset
           word == SubSeq(source, s + 1, p)
<1>1. PICK type \in TypesOf(WordRead) :
          UNCHANGED <<start, position>> /\ Emit(type, position, "dispatch")
  BY DEF EndDirective
<1>2. /\ scan = "directive" /\ source[s + 1] = Backslash /\ s \in Nat /\ p \in Nat /\ s < p
      /\ p <= Len(source) /\ source \in Seq(STRING) /\ p \in s .. Len(source)
      /\ Len(source) \in Nat
  BY Offsets DEF EndDirective, Reading
<1>3. /\ type \in DOMAIN Directives /\ Directives[type] = SubSeq(source, s + 2, p)
  BY DEF TypesOf, WordRead
<1>4. word = <<Backslash>> \o Directives[type]
  <2>1. word \in Seq(STRING) /\ Len(word) = p - s /\ \A k \in 1 .. p - s : word[k] = source[s + k]
    BY <1>2, Between
  <2> HIDE DEF word
  <2> DEFINE rest == SubSeq(source, s + 1 + 1, p)
  <2>2. /\ rest \in Seq(STRING) /\ Len(rest) = p - (s + 1)
        /\ \A k \in 1 .. p - (s + 1) : rest[k] = source[s + 1 + k]
    <3>1. s + 1 \in Nat /\ p \in s + 1 .. Len(source)
      BY <1>2
    <3> QED
      BY <1>2, <3>1, Between
  <2>3. rest = Directives[type]
    <3>1. s + 1 + 1 = s + 2
      BY <1>2
    <3> QED
      BY <1>3, <3>1
  <2> HIDE DEF rest
  <2>4. /\ <<Backslash>> \o rest \in Seq(STRING) /\ Len(<<Backslash>> \o rest) = 1 + Len(rest)
        /\ (<<Backslash>> \o rest)[1] = Backslash
        /\ \A k \in 2 .. 1 + Len(rest) : (<<Backslash>> \o rest)[k] = rest[k - 1]
    <3>1. Backslash \in STRING
      BY <1>2
    <3> QED
      BY <2>2, <3>1, OneBefore
  <2>5. Len(word) = Len(<<Backslash>> \o rest)
    BY <1>2, <2>1, <2>2, <2>4
  <2>6. \A k \in 1 .. p - s : word[k] = (<<Backslash>> \o rest)[k]
    <3> SUFFICES ASSUME NEW k \in 1 .. p - s PROVE word[k] = (<<Backslash>> \o rest)[k]
      OBVIOUS
    <3>1. CASE k = 1
      BY <1>2, <2>1, <2>4, <3>1
    <3>2. CASE k # 1
      <4>1. k \in 2 .. 1 + Len(rest) /\ k - 1 \in 1 .. p - (s + 1) /\ s + 1 + (k - 1) = s + k
        BY SMTT(30), <1>2, <2>2, <3>2
      <4> QED
        BY <2>1, <2>2, <2>4, <4>1
    <3> QED
      BY <3>1, <3>2
  <2>7. word = <<Backslash>> \o rest
    BY <1>2, <2>1, <2>4, <2>5, <2>6
  <2> QED
    BY <2>3, <2>7
<1>5. p < Len(source) => source[p + 1] \notin Letters \cup {"_"}
  <2>1. ~Reads(NotAfterDirective)
    BY DEF EndDirective
  <2>2. p < Len(source) => ~AtEnd
    BY <1>2 DEF AtEnd
  <2> QED
    BY <2>1, <2>2 DEF Reads, NotAfterDirective
<1> HIDE DEF word
<1>6. InLanguage(type, word) /\ (p < Len(source) => MayFollow(type, source[p + 1]))
  BY <1>3, <1>4, <1>5, WordsOfDirectives
<1> QED
  BY <1>1, <1>6 DEF TokenAt, word

LEMMA VariableTokens ==
  ASSUME LexerInv, Reading, EndVariable
  PROVE  \E type : /\ Emit(type, position', "dispatch")
                   /\ TokenAt(type, start'.offset, position'.offset)
<1> DEFINE s == start.offset
           p == position.offset
           word == SubSeq(source, s + 1, p)
<1>1. /\ scan = "variable" /\ s \in Nat /\ p \in Nat /\ s < p /\ p \in s .. Len(source)
      /\ source \in Seq(STRING) /\ Len(source) \in Nat
      /\ source[s + 1] \in Letters /\ AllOf(Identifier, s, p)
  BY Offsets DEF EndVariable, Reading
<1>2. /\ DOMAIN word = 1 .. p - s /\ word # << >>
      /\ \A k \in 1 .. p - s : word[k] = source[s + k]
  <2> HIDE DEF p, s
  <2>1. /\ Len(word) = p - s /\ DOMAIN word = 1 .. p - s
        /\ \A k \in 1 .. p - s : word[k] = source[s + k]
    BY <1>1, Between
  <2>2. p - s # 0
    BY <1>1
  <2> HIDE DEF word
  <2> QED
    BY <2>1, <2>2
<1>3. \A k \in 1 .. p - s : s + k \in s + 1 .. p
  BY <1>1
<1> HIDE DEF word
<1>4. word[1] \in Letters /\ AllIn(word, Identifier)
  BY <1>1, <1>2, <1>3 DEF AllIn, AllOf
<1>5. p < Len(source) => source[p + 1] \notin Identifier
  BY <1>1 DEF EndVariable, Reads, AtEnd
<1>6. InLanguage("VARIABLE", word) /\ (p < Len(source) => MayFollow("VARIABLE", source[p + 1]))
  BY <1>2, <1>4, <1>5, OtherWords
<1> QED
  BY <1>6 DEF EndVariable, TokenAt, word

LEMMA NumberTokens ==
  ASSUME LexerInv, Reading, EndNumber
  PROVE  \E type : /\ Emit(type, position', "dispatch")
                   /\ TokenAt(type, start'.offset, position'.offset)
<1> DEFINE s == start.offset
           p == position.offset
           word == SubSeq(source, s + 1, p)
<1>1. /\ scan \in {"nCero", "nEntero", "nFraccion"} /\ s \in Nat /\ p \in Nat
      /\ s < p /\ p \in s .. Len(source) /\ source \in Seq(STRING) /\ Len(source) \in Nat
  BY Offsets DEF EndNumber, NumberStates
<1>2. \E d \in s .. p : NumberAt(s, p, d)
  <2>1. CASE scan = "nCero"
    <3>1. p = s + 1 /\ source[p] = "0"
      BY <2>1 DEF Reading
    <3>2. Whole(s, p)
      BY <1>1, <3>1 DEF Whole, AllOf, Digits
    <3> QED
      BY <1>1, <3>2 DEF NumberAt
  <2>2. CASE scan = "nEntero"
    BY <1>1, <2>2 DEF Reading, NumberAt
  <2>3. CASE scan = "nFraccion"
    BY <1>1, <2>3 DEF Reading
  <2> QED
    BY <1>1, <2>1, <2>2, <2>3
<1>3. IsNumber(word)
  BY <1>1, <1>2, NumberWords
<1>4. p < Len(source) => source[p + 1] \notin Digits \cup {".", "_"}
  <2>1. AtEnd \/ Reads(NumberDelimiters)
    BY DEF EndNumber
  <2>2. p < Len(source) => source[p + 1] \in NumberDelimiters
    BY <1>1, <2>1 DEF Reads, AtEnd
  <2> QED
    BY <2>2, Alphabet
<1> HIDE DEF word
<1>5. InLanguage("NUMBER", word) /\ (p < Len(source) => MayFollow("NUMBER", source[p + 1]))
  BY <1>3, <1>4, OtherWords
<1> QED
  BY <1>5 DEF EndNumber, TokenAt, word

LEMMA StatisticTokens ==
  ASSUME LexerInv, EndStatistic
  PROVE  \E type : /\ Emit(type, position', "dispatch")
                   /\ TokenAt(type, start'.offset, position'.offset)
<1>1. PICK type \in StatisticsAt(start.offset) :
          /\ position.offset = start.offset + Len(Statistics[type])
          /\ UNCHANGED <<position, mode, start>> /\ Emit(type, position, "dispatch")
  BY DEF EndStatistic
<1>2. /\ type \in DOMAIN Statistics
      /\ SubSeq(source, start.offset + 1, position.offset) = Statistics[type]
      /\ position.offset = Len(source) \/ source[position.offset + 1] \in {",", "}"} \cup Whitespace
  BY <1>1 DEF StatisticsAt
<1>3. /\ InLanguage(type, SubSeq(source, start.offset + 1, position.offset))
      /\ position.offset < Len(source) => MayFollow(type, source[position.offset + 1])
  <2> DEFINE word == SubSeq(source, start.offset + 1, position.offset)
             next == source[position.offset + 1]
  <2>1. position.offset < Len(source) => next \in {",", "}"} \cup Whitespace
    <3>1. position.offset < Len(source) => position.offset # Len(source)
      BY Offsets
    <3> QED
      BY <1>2, <3>1 DEF next
  <2> QED
    BY <1>2, <2>1, WordsOfStatistics
<1> QED
  BY <1>1, <1>3 DEF TokenAt

LEMMA EndTokens ==
  ASSUME LexerInv, EndOfSource
  PROVE  /\ Emit("EOF", position', "done")
         /\ TokenAt("EOF", start'.offset, position'.offset)
<1>1. /\ start'.offset = position.offset /\ position' = position
      /\ Emit("EOF", position', "done") /\ position.offset = Len(source)
      /\ source \in Seq(STRING)
  BY StartsHere, Offsets DEF EndOfSource, AtEnd
<1>2. SubSeq(source, position.offset + 1, position.offset) = << >>
  <2>1. position.offset \in Nat
    BY Offsets
  <2> QED
    BY <1>1, <2>1
<1>3. InLanguage("EOF", << >>) /\ MayFollow("EOF", source[position.offset + 1])
  BY Kinds DEF InLanguage, MayFollow
<1> QED
  BY <1>1, <1>2, <1>3 DEF TokenAt

LEMMA NextKeepsTokens ==
  ASSUME LexerInv, Reading, LexemesAreTokens, [Next]_lexerVars
  PROVE  LexemesAreTokens'
<1>1. CASE UNCHANGED <<source, tokens>>
  BY <1>1 DEF LexemesAreTokens, TokenAt, InLanguage, MayFollow
<1>2. CASE ScanSymbol \/ EndDirective \/ EndVariable \/ EndNumber \/ EndStatistic
  BY <1>2, SymbolTokens, DirectiveTokens, VariableTokens, NumberTokens, StatisticTokens,
     EmitKeepsTokens
<1>3. CASE EndOfSource
  BY <1>3, EndTokens, EmitKeepsTokens
<1>4. CASE UNCHANGED lexerVars
  BY <1>1, <1>4 DEF lexerVars
<1>5. CASE \/ SkipWhitespace \/ LeavePending \/ InvalidCharacter
           \/ BeginDirective \/ ReadDirective \/ RejectDirective
           \/ BeginVariable \/ ReadVariable
           \/ BeginNumber \/ ReadNumber \/ RejectNumber
           \/ BeginStatistic \/ ReadStatistic \/ RejectStatistic
  BY <1>1, <1>5 DEF SkipWhitespace, LeavePending, InvalidCharacter, BeginDirective,
     ReadDirective, RejectDirective, BeginVariable, ReadVariable, BeginNumber, ReadNumber,
     RejectNumber, BeginStatistic, ReadStatistic, RejectStatistic, Read, Begin, Reject
<1> QED
  BY <1>2, <1>3, <1>4, <1>5 DEF Next

\* Every token is a whole word of its type, for every text: the automata accept
\* what the regular expressions of the language do, and no directive, number
\* or statistic is the beginning of a longer word.
THEOREM LexemesSound == Spec => []LexemesAreTokens
<1>1. Init => LexemesAreTokens
  BY DEF Init, LexemesAreTokens
<1>2. LexerInv /\ Reading /\ LexemesAreTokens /\ [Next]_lexerVars => LexemesAreTokens'
  BY NextKeepsTokens
<1> QED
  BY <1>1, <1>2, LexerSound, ReadingHolds, PTL DEF Spec

-----------------------------------------------------------------------------
(* Only text that starts no token is rejected                              *)

\* The characters of a directive, and of any token, between two offsets.
LEMMA DirectiveCharacters ==
  ASSUME source \in Seq(STRING), NEW a \in Nat, NEW b \in a .. Len(source),
         NEW type \in DOMAIN Directives, TokenAt(type, a, b)
  PROVE  /\ b = a + 1 + Len(Directives[type]) /\ source[a + 1] = Backslash
         /\ \A k \in 1 .. Len(Directives[type]) : source[a + 1 + k] = Directives[type][k]
<1> DEFINE word == SubSeq(source, a + 1, b)
           D == Directives[type]
<1>1. /\ word \in Seq(STRING) /\ Len(word) = b - a
      /\ \A k \in 1 .. b - a : word[k] = source[a + k]
  BY Between
<1>2. InLanguage(type, word)
  BY DEF TokenAt
<1> HIDE DEF word
<1>3. D \in Seq(Letters) /\ word = <<Backslash>> \o D
  BY <1>2, WordsOfDirectives, DirectiveWords
<1> HIDE DEF D
<1>4. /\ Len(word) = 1 + Len(D) /\ word[1] = Backslash
      /\ \A k \in 1 .. Len(D) : word[1 + k] = D[k]
  BY <1>3
<1>5. Len(D) \in Nat /\ b - a = 1 + Len(D)
  BY <1>1, <1>3, <1>4
<1>6. b = a + 1 + Len(D) /\ 1 \in 1 .. b - a
  BY <1>5
<1>7. \A k \in 1 .. Len(D) : 1 + k \in 1 .. b - a /\ a + (1 + k) = a + 1 + k
  BY <1>5
<1>8. \A k \in 1 .. Len(D) : source[a + 1 + k] = D[k]
  BY <1>1, <1>4, <1>7
<1>9. source[a + 1] = Backslash
  BY <1>1, <1>4, <1>6
<1> QED
  BY <1>6, <1>8, <1>9 DEF D

LEMMA TokenCharacters ==
  ASSUME source \in Seq(STRING), NEW a \in Nat, NEW b \in a .. Len(source), NEW type,
         TokenAt(type, a, b)
  PROVE  /\ type \in DOMAIN Directives =>
              /\ b = a + 1 + Len(Directives[type]) /\ source[a + 1] = Backslash
              /\ \A k \in 1 .. Len(Directives[type]) : source[a + 1 + k] = Directives[type][k]
         /\ type \in DOMAIN Statistics =>
              /\ b = a + Len(Statistics[type]) /\ SubSeq(source, a + 1, b) = Statistics[type]
              /\ source[a + 1] \in Letters
         /\ type = "VARIABLE" => source[a + 1] \in Letters
         /\ type = "NUMBER" => a < b /\ \E d \in a .. b : NumberAt(a, b, d)
         /\ type \in {SymbolType(ch) : ch \in Symbols} =>
              source[a + 1] \in Symbols /\ SymbolType(source[a + 1]) = type
<1> DEFINE word == SubSeq(source, a + 1, b)
<1>1. /\ word \in Seq(STRING) /\ Len(word) = b - a /\ DOMAIN word = 1 .. b - a
      /\ \A k \in 1 .. b - a : word[k] = source[a + k]
  BY Between
<1>2. InLanguage(type, word)
  BY DEF TokenAt
<1>3. ASSUME type \in DOMAIN Directives
      PROVE  /\ b = a + 1 + Len(Directives[type]) /\ source[a + 1] = Backslash
             /\ \A k \in 1 .. Len(Directives[type]) : source[a + 1 + k] = Directives[type][k]
  BY <1>3, DirectiveCharacters
<1>4. ASSUME type \in DOMAIN Statistics
      PROVE  /\ b = a + Len(Statistics[type]) /\ word = Statistics[type]
             /\ source[a + 1] \in Letters
  <2> HIDE DEF word
  <2>1. word = Statistics[type] /\ Len(word) > 0 /\ word[1] \in Letters
    BY <1>2, <1>4, WordsOfStatistics, StatisticWords DEF Name
  <2>2. 1 \in 1 .. b - a /\ b = a + Len(word)
    BY <1>1, <2>1
  <2> QED
    BY <1>1, <2>1, <2>2
<1>5. ASSUME type = "VARIABLE"
      PROVE  source[a + 1] \in Letters
  <2> HIDE DEF word
  <2>1. word # << >> /\ word[1] \in Letters
    BY <1>2, <1>5, OtherWords
  <2>2. 1 \in 1 .. b - a
    BY <1>1, <2>1
  <2> QED
    BY <1>1, <2>1, <2>2
<1>6. ASSUME type = "NUMBER"
      PROVE  a < b /\ \E d \in a .. b : NumberAt(a, b, d)
  BY <1>2, <1>6, OtherWords, NumberWords
<1>7. ASSUME type \in {SymbolType(ch) : ch \in Symbols}
      PROVE  source[a + 1] \in Symbols /\ SymbolType(source[a + 1]) = type
  <2> HIDE DEF word
  <2>1. Len(word) = 1 /\ word[1] \in Symbols /\ SymbolType(word[1]) = type
    <3>1. PICK ch \in Symbols : type = SymbolType(ch)
      BY <1>7
    <3>2. InLanguage(SymbolType(ch), word)
      BY <1>2, <3>1
    <3> QED
      BY <3>1, <3>2, WordsOfSymbols
  <2>2. 1 \in 1 .. b - a
    <3>1. b - a = 1
      BY <1>1, <2>1
    <3> QED
      BY <3>1
  <2> QED
    BY <1>1, <2>1, <2>2
<1> QED
  BY <1>3, <1>4, <1>5, <1>6, <1>7

\* The text at an offset may be rejected.
StartsNone(offset) ==
  \A type \in Possible : \A to \in offset .. Len(source) :
     TokenAt(type, offset, to) =>
       type = "NUMBER" /\ to < Len(source) /\ ~(source[to + 1] \in NumberDelimiters)

LEMMA RejectIsRight ==
  ASSUME NEW code, NEW from, NEW to, Reject(code, from, to), StartsNone(from.offset)
  PROVE  RejectsOnlyNonTokens'
<1> DEFINE d == [code |-> code, start |-> from, end |-> to]
<1>1. diagnostics' = <<d>> /\ source' = source /\ mode' = mode
  BY DEF Reject
<1>2. d.start = from
  OBVIOUS
<1> HIDE DEF d
<1>3. DOMAIN diagnostics' = {1} /\ diagnostics'[1] = d
  BY <1>1
<1>4. Possible' = Possible /\ \A type, a, b : TokenAt(type, a, b)' <=> TokenAt(type, a, b)
  BY <1>1 DEF Possible, TokenAt
<1> QED
  BY <1>1, <1>2, <1>3, <1>4 DEF RejectsOnlyNonTokens, StartsNone

\* The types of the modes begin with their own characters.
LEMMA FirstCharacters ==
  ASSUME source \in Seq(STRING), NEW a \in Nat, NEW b \in a .. Len(source),
         NEW type \in Possible, TokenAt(type, a, b)
  PROVE  /\ mode = "RESPONSE" =>
              \/ type \in DOMAIN Statistics /\ source[a + 1] \in Letters
              \/ type \notin DOMAIN Statistics /\ source[a + 1] \in {",", "}"}
         /\ mode # "RESPONSE" =>
              \/ type \in DOMAIN Directives /\ source[a + 1] = Backslash
              \/ type = "VARIABLE" /\ source[a + 1] \in Letters
              \/ type = "NUMBER" /\ source[a + 1] \in Digits \cup {"."}
              \/ type \notin DOMAIN Directives \cup {"VARIABLE", "NUMBER"}
                   /\ source[a + 1] \in Symbols
<1>1. "," \in Symbols /\ "}" \in Symbols /\ SymbolType(",") = "COMMA" /\ SymbolType("}") = "RBRACE"
  BY DEF Symbols, SymbolType
<1>2. \A ch \in Symbols : SymbolType(ch) \in {"COMMA", "RBRACE"} => ch \in {",", "}"}
  BY DEF Symbols, SymbolType
<1>3. CASE mode = "RESPONSE"
  <2>1. type \in DOMAIN Statistics \cup {"COMMA", "RBRACE"}
    BY <1>3 DEF Possible
  <2>2. CASE type \in DOMAIN Statistics
    BY <1>3, <2>2, TokenCharacters
  <2>3. CASE type \in {"COMMA", "RBRACE"}
    <3>1. type \in {SymbolType(ch) : ch \in Symbols}
      BY <1>1, <2>3
    <3>2. source[a + 1] \in Symbols /\ SymbolType(source[a + 1]) = type
      BY <3>1, TokenCharacters
    <3> QED
      BY <1>2, <1>3, <2>3, <3>1, <3>2, Kinds
  <2> QED
    BY <2>1, <2>2, <2>3
<1>4. CASE mode # "RESPONSE"
  <2>1. \/ type \in DOMAIN Directives \/ type \in {SymbolType(ch) : ch \in Symbols}
        \/ type = "VARIABLE" \/ type = "NUMBER"
    BY <1>4 DEF Possible
  <2>2. CASE type \in DOMAIN Directives
    BY <1>4, <2>2, TokenCharacters
  <2>3. CASE type \in {SymbolType(ch) : ch \in Symbols}
    <3>1. source[a + 1] \in Symbols
      BY <2>3, TokenCharacters
    <3>2. type \notin DOMAIN Directives /\ type \notin {"VARIABLE", "NUMBER"}
      BY <2>3, Kinds
    <3> QED
      BY <1>4, <3>1, <3>2
  <2>4. CASE type = "VARIABLE"
    BY <1>4, <2>4, TokenCharacters
  <2>5. CASE type = "NUMBER"
    <3>1. PICK d \in a .. b : NumberAt(a, b, d) /\ a < b
      BY <2>5, TokenCharacters
    <3>2. CASE d = a
      <4>1. source[a + 1] = "."
        BY <3>1, <3>2 DEF NumberAt
      <4> QED
        BY <1>4, <2>5, <4>1
    <3>3. CASE d # a
      <4>1. a + 1 \in a + 1 .. d
        BY <3>3
      <4> QED
        BY <1>4, <2>5, <3>1, <4>1 DEF NumberAt, Whole, AllOf
    <3> QED
      BY <1>4, <2>5, <3>1, <3>2, <3>3
  <2> QED
    BY <2>1, <2>2, <2>3, <2>4, <2>5
<1> QED
  BY <1>3, <1>4

LEMMA InvalidIsRight ==
  ASSUME LexerInv, InvalidCharacter
  PROVE  RejectsOnlyNonTokens'
<1> DEFINE p == position.offset
<1>1. /\ p \in Nat /\ p < Len(source) /\ source \in Seq(STRING) /\ ~AtEnd
      /\ Recorded(position).offset = p
  BY Offsets, StartsHere DEF InvalidCharacter
<1>2. StartsNone(p)
  <2> SUFFICES ASSUME NEW type \in Possible, NEW to \in p .. Len(source), TokenAt(type, p, to)
               PROVE  FALSE
    BY DEF StartsNone
  <2>1. CASE /\ mode = "NORMAL"
             /\ ~Reads(Symbols \cup Whitespace \cup Letters \cup Digits \cup {".", Backslash})
    <3>1. source[p + 1] \notin Symbols \cup Letters \cup Digits \cup {".", Backslash}
      BY <1>1, <2>1 DEF Reads
    <3> QED
      BY <1>1, <2>1, <3>1, FirstCharacters
  <2>2. CASE mode = "RESPONSE" /\ ~Reads(SymbolsOf(mode) \cup Whitespace \cup Letters)
    <3>1. source[p + 1] \notin SymbolsOf("RESPONSE") \cup Letters
      BY <1>1, <2>2 DEF Reads
    <3>2. SymbolsOf("RESPONSE") = {",", "}"}
      BY DEF SymbolsOf
    <3> QED
      BY <1>1, <2>2, <3>1, <3>2, FirstCharacters
  <2> QED
    BY <2>1, <2>2 DEF InvalidCharacter
<1> QED
  BY <1>1, <1>2, RejectIsRight DEF InvalidCharacter

LEMMA StatisticIsRight ==
  ASSUME LexerInv, RejectStatistic
  PROVE  RejectsOnlyNonTokens'
<1> DEFINE p == position.offset
<1>1. /\ p \in Nat /\ source \in Seq(STRING) /\ source[p + 1] \in Letters
      /\ Recorded(position).offset = p /\ mode = "RESPONSE" /\ StatisticsAt(p) = {}
  BY Offsets, StartsHere DEF RejectStatistic, Reads
<1>2. StartsNone(p)
  <2> SUFFICES ASSUME NEW type \in Possible, NEW to \in p .. Len(source), TokenAt(type, p, to)
               PROVE  FALSE
    BY DEF StartsNone
  <2>1. type \in DOMAIN Statistics
    <3>1. source[p + 1] \notin {",", "}"}
      BY <1>1, Alphabet DEF Symbols
    <3> QED
      BY <1>1, <3>1, FirstCharacters
  <2> HIDE DEF p
  <2>2. to = p + Len(Statistics[type]) /\ SubSeq(source, p + 1, to) = Statistics[type]
    <3>1. p \in Nat /\ source \in Seq(STRING) /\ TokenAt(type, p, to)
      BY <1>1
    <3>2. type \in DOMAIN Statistics =>
            /\ to = p + Len(Statistics[type]) /\ SubSeq(source, p + 1, to) = Statistics[type]
            /\ source[p + 1] \in Letters
      BY <3>1, TokenCharacters
    <3> QED
      BY <2>1, <3>2
  <2>3. to = Len(source) \/ source[to + 1] \in {",", "}"} \cup Whitespace
    <3>1. to < Len(source) \/ to = Len(source)
      BY <1>1
    <3> QED
      BY <2>1, <3>1, WordsOfStatistics DEF TokenAt
  <2>4. type \in StatisticsAt(p)
    <3>1. to <= Len(source)
      BY <1>1
    <3> QED
      BY <2>1, <2>2, <2>3, <3>1 DEF StatisticsAt
  <2> QED
    BY <1>1, <2>4
<1> QED
  BY <1>1, <1>2, RejectIsRight DEF RejectStatistic

\* The word of a directive may be longer than what was read.
LEMMA ReadIsPrefix ==
  ASSUME NEW word \in Seq(STRING), NEW whole \in Seq(STRING), Len(word) <= Len(whole),
         \A k \in 1 .. Len(word) : word[k] = whole[k]
  PROVE  IsPrefix(word, whole) /\ (Len(word) = Len(whole) => word = whole)
<1>1. SubSeq(word, 1, Len(word)) = SubSeq(whole, 1, Len(word))
  OBVIOUS
<1>2. Len(word) = Len(whole) => word = whole
  OBVIOUS
<1> QED
  BY <1>1, <1>2 DEF IsPrefix

LEMMA DirectiveIsRight ==
  ASSUME LexerInv, Reading, RejectDirective
  PROVE  RejectsOnlyNonTokens'
<1> DEFINE p == position.offset
           s == start.offset
           ch == source[p + 1]
<1>1. /\ p \in Nat /\ s \in Nat /\ s < p /\ p <= Len(source) /\ Len(source) \in Nat
      /\ source \in Seq(STRING) /\ (~AtEnd => p < Len(source))
      /\ mode = "NORMAL" /\ source[s + 1] = Backslash /\ AllOf(Letters, s + 1, p)
  BY Offsets DEF RejectDirective, Reading
<1>2. StartsNone(s)
  <2> HIDE DEF p, s, ch
  <2> SUFFICES ASSUME NEW type \in Possible, NEW to \in s .. Len(source), TokenAt(type, s, to)
               PROVE  FALSE
    BY DEF StartsNone
  <2>0. s \in Nat /\ source \in Seq(STRING) /\ TokenAt(type, s, to)
    BY <1>1
  <2>1. type \in DOMAIN Directives
    <3>1. Backslash \notin Letters \cup Digits \cup {"."} \cup Symbols
      BY Alphabet
    <3> QED
      BY <1>1, <2>0, <3>1, FirstCharacters
  <2> DEFINE D == Directives[type]
  <2>2. /\ to = s + 1 + Len(D) /\ D \in Seq(Letters)
        /\ \A k \in 1 .. Len(D) : source[s + 1 + k] = D[k]
    BY <2>0, <2>1, DirectiveCharacters, DirectiveWords
  <2>3. to < Len(source) => source[to + 1] \notin Letters \cup {"_"}
    BY <2>1, WordsOfDirectives DEF TokenAt
  <2> HIDE DEF D
  <2>5. D \in Seq(STRING) /\ Len(D) \in Nat
    <3>1. D \in [1 .. Len(D) -> Letters] /\ Len(D) \in Nat
      BY <2>2
    <3>2. \A k \in 1 .. Len(D) : s + 1 + k \in 1 .. Len(source)
      BY <1>1, <2>2, <3>1
    <3>3. \A k \in 1 .. Len(D) : D[k] \in STRING
      BY SMTT(30), <1>1, <2>2, <3>2
    <3>4. D \in [1 .. Len(D) -> STRING]
      BY <3>1, <3>3
    <3> QED
      BY <3>1, <3>4
  <2>6. to >= p
    <3> SUFFICES ASSUME to < p PROVE FALSE
      BY <1>1
    <3>1. to + 1 \in s + 2 .. p /\ s + 1 + 1 = s + 2 /\ to < Len(source)
      BY <1>1, <2>2, <2>5
    <3> QED
      BY <1>1, <2>3, <3>1 DEF AllOf
  <2>7. to > p => Reads(Letters)
    <3> SUFFICES ASSUME to > p PROVE Reads(Letters)
      OBVIOUS
    <3>1. p - s \in 1 .. Len(D) /\ s + 1 + (p - s) = p + 1 /\ p < Len(source)
      BY <1>1, <2>2, <2>5
    <3>2. ch \in Letters
      BY <2>2, <3>1 DEF ch
    <3> QED
      BY <3>1, <3>2 DEF Reads, AtEnd, ch, p
  <2>8. /\ WordRead \in Seq(STRING) /\ Len(WordRead) = p - (s + 1)
        /\ \A k \in 1 .. p - (s + 1) : WordRead[k] = source[s + 1 + k]
    <3> DEFINE word == SubSeq(source, s + 1 + 1, p)
    <3>1. s + 1 \in Nat /\ p \in s + 1 .. Len(source) /\ s + 1 + 1 = s + 2
      BY <1>1
    <3>2. word \in Seq(STRING) /\ Len(word) = p - (s + 1)
          /\ \A k \in 1 .. p - (s + 1) : word[k] = source[s + 1 + k]
      BY <2>0, <3>1, Between
    <3>3. WordRead = word
      BY <3>1 DEF WordRead, p, s
    <3> QED
      BY <3>2, <3>3
  <2>9. to = p => type \in TypesOf(WordRead)
    <3> SUFFICES ASSUME to = p PROVE type \in TypesOf(WordRead)
      OBVIOUS
    <3>1. Len(D) = p - (s + 1) /\ \A k \in 1 .. Len(D) : WordRead[k] = D[k]
      BY <1>1, <2>2, <2>5, <2>8
    <3>2. WordRead = D
      BY <2>5, <2>8, <3>1, ReadIsPrefix
    <3> QED
      BY <2>1, <3>2 DEF TypesOf, D
  <2>10. to > p => Extends
    <3> SUFFICES ASSUME to > p PROVE Extends
      OBVIOUS
    <3> DEFINE word == Append(WordRead, ch)
    <3>1. Reads(Letters) /\ ch \in STRING
      <4>1. Reads(Letters) /\ p + 1 \in 1 .. Len(source)
        BY <1>1, <2>7 DEF Reads
      <4> QED
        BY <1>1, <4>1 DEF ch
    <3>2. word \in Seq(STRING) /\ Len(word) = p - s
      BY <1>1, <2>8, <3>1
    <3>3. p - s <= Len(D)
      BY <1>1, <2>2, <2>5
    <3>4. \A k \in 1 .. p - s : word[k] = D[k]
      <4> SUFFICES ASSUME NEW k \in 1 .. p - s PROVE word[k] = D[k]
        OBVIOUS
      <4>1. k \in 1 .. Len(D) /\ source[s + 1 + k] = D[k]
        BY <1>1, <2>2, <2>5, <3>3
      <4>2. CASE k = p - s
        <5>1. s + 1 + k = p + 1
          BY <1>1, <4>2
        <5>2. word[k] = ch
          BY <1>1, <2>8, <4>2
        <5> QED
          BY <4>1, <5>1, <5>2 DEF ch
      <4>3. CASE k # p - s
        <5>1. k \in 1 .. p - (s + 1)
          BY <1>1, <4>3
        <5>2. word[k] = WordRead[k]
          BY <1>1, <2>8, <5>1
        <5> QED
          BY <2>8, <4>1, <5>1, <5>2
      <4> QED
        BY <4>2, <4>3
    <3> HIDE DEF word
    <3>5. IsPrefix(word, D)
      BY <2>5, <3>2, <3>3, <3>4, ReadIsPrefix
    <3>6. InTrie(word)
      BY <2>1, <3>5 DEF InTrie, D
    <3>7. word = Append(WordRead, source[position.offset + 1])
      BY DEF word, ch, p
    <3> QED
      BY <3>1, <3>6, <3>7 DEF Extends
  <2>11. to = p => ~Reads(NotAfterDirective) /\ ~Reads(Letters)
    <3>1. to = p /\ ~AtEnd => ch \notin Letters \cup {"_"}
      BY <1>1, <2>3 DEF ch
    <3> QED
      BY <3>1 DEF Reads, NotAfterDirective, ch, p
  <2>12. to = p \/ to > p
    BY <1>1, <2>6
  <2>13. /\ ~(Reads(Letters) /\ ~Extends)
         /\ ~(~Reads(Letters) /\ TypesOf(WordRead) = {})
         /\ ~(~Reads(Letters) /\ Reads(NotAfterDirective) /\ TypesOf(WordRead) # {})
    BY <2>7, <2>9, <2>10, <2>11, <2>12
  <2> QED
    BY <2>13 DEF RejectDirective
<1>3. \E code, to : Reject(code, start, to)
  BY DEF RejectDirective
<1> QED
  BY <1>2, <1>3, RejectIsRight

\* What makes an automaton of numbers stop.
LEMMA Stops ==
  ASSUME NEW ch
  PROVE  /\ NumberStep("n0", ch) = "stop" => ch \notin Digits \cup {"."}
         /\ NumberStep("nCero", ch) = "stop" => ch # "."
         /\ NumberStep("nEntero", ch) = "stop" => ch \notin Digits \cup {"."}
         /\ NumberStep("nPunto", ch) = "stop" => ch \notin Digits
         /\ NumberStep("nFraccion", ch) = "stop" => ch \notin Digits
<1>1. CASE ch = "0"
  <2>1. ch \in Digits /\ ch # "."
    BY <1>1 DEF Digits
  <2> QED
    BY <1>1, <2>1 DEF NumberStep
<1>2. CASE ch \in Digits /\ ch # "0"
  <2>1. ch # "."
    BY <1>2 DEF Digits
  <2> QED
    BY <1>2, <2>1 DEF NumberStep
<1>3. CASE ch = "."
  <2>1. ch \notin Digits
    BY <1>3 DEF Digits
  <2> QED
    BY <1>3, <2>1 DEF NumberStep
<1> QED
  BY <1>1, <1>2, <1>3

\* The point of a number is where its whole part ends.
LEMMA OnePoint ==
  ASSUME NEW a \in Nat, NEW b \in Nat, NEW c \in Nat, NEW d \in a .. b, NEW e \in a .. c,
         NumberAt(a, b, d), Whole(a, e), e < b
  PROVE  /\ d >= e
         /\ source[e + 1] \notin Digits => d = e
<1>1. \A k \in a + 1 .. e : source[k] \in Digits
  BY DEF Whole, AllOf
<1>2. "." \notin Digits
  BY DEF Digits
<1>3. d >= e
  <2> SUFFICES ASSUME d < e PROVE FALSE
    OBVIOUS
  <2>1. d < b /\ d + 1 \in a + 1 .. e
    OBVIOUS
  <2>2. source[d + 1] = "."
    BY <2>1 DEF NumberAt
  <2> QED
    BY <1>1, <1>2, <2>1, <2>2
<1>4. d > e => source[e + 1] \in Digits
  <2> SUFFICES ASSUME d > e PROVE source[e + 1] \in Digits
    OBVIOUS
  <2>1. e + 1 \in a + 1 .. d
    OBVIOUS
  <2> QED
    BY <2>1 DEF NumberAt, Whole, AllOf
<1> QED
  BY <1>3, <1>4

\* A number that was read goes on with a delimiter or is none.
LEMMA NumberIsRight ==
  ASSUME LexerInv, Reading, RejectNumber
  PROVE  RejectsOnlyNonTokens'
<1> DEFINE p == position.offset
           s == start.offset
           ch == source[p + 1]
<1>1. /\ p \in Nat /\ s \in Nat /\ s \in 0 .. p /\ p <= Len(source) /\ Len(source) \in Nat
      /\ source \in Seq(STRING) /\ (AtEnd <=> p = Len(source))
      /\ scan \in NumberStates /\ mode = "NORMAL"
      /\ ~AtEnd => NumberStep(scan, ch) = "stop"
      /\ scan = "n0" => Reads(Digits \cup {"."})
      /\ scan # "n0" => s < p
      /\ scan \in {"nCero", "nEntero", "nFraccion"} =>
           ~AtEnd /\ p < Len(source) /\ ~(ch \in NumberDelimiters)
  BY Offsets DEF RejectNumber, Reading, LexerInv, NumberGoesOn, AtEnd, Reads
<1>2. scan # "n0"
  <2> SUFFICES ASSUME scan = "n0" PROVE FALSE
    OBVIOUS
  <2>1. ~AtEnd /\ ch \in Digits \cup {"."}
    BY <1>1 DEF Reads
  <2> QED
    BY <1>1, <2>1, Stops
<1> HIDE DEF p, s, ch
<1>3. /\ source[s + 1] \in Digits \cup {"."}
      /\ \A k \in s + 1 .. p : source[k] \in Digits \cup {"."}
  <2>1. CASE scan = "nCero"
    <3>1. p = s + 1 /\ source[p] = "0" /\ "0" \in Digits
      BY <2>1, Alphabet DEF Reading, p, s
    <3> QED
      BY <1>1, <3>1
  <2>2. CASE scan = "nEntero"
    <3>1. AllOf(Digits, s, p)
      BY <2>2 DEF Reading, Whole, p, s
    <3> QED
      BY <1>1, <1>2, <3>1 DEF AllOf
  <2>3. CASE scan = "nPunto"
    <3>1. AllOf(Digits, s, p - 1) /\ source[p] = "."
      BY <2>3 DEF Reading, Whole, p, s
    <3>2. \A k \in s + 1 .. p : k \in s + 1 .. p - 1 \/ k = p
      BY <1>1
    <3>3. s + 1 \in s + 1 .. p
      BY <1>1, <1>2
    <3> QED
      BY <3>1, <3>2, <3>3 DEF AllOf
  <2>4. CASE scan = "nFraccion"
    <3>1. PICK d \in s .. p - 2 : NumberAt(s, p, d)
      BY <2>4 DEF Reading, p, s
    <3>2. AllOf(Digits, s, d) /\ source[d + 1] = "." /\ AllOf(Digits, d + 1, p)
      BY <1>1, <3>1 DEF NumberAt, Whole
    <3>3. \A k \in s + 1 .. p : k \in s + 1 .. d \/ k = d + 1 \/ k \in d + 1 + 1 .. p
      BY <1>1
    <3>4. s + 1 \in s + 1 .. p
      BY <1>1, <1>2
    <3> QED
      BY <3>2, <3>3, <3>4 DEF AllOf
  <2> QED
    BY <1>1, <1>2, <2>1, <2>2, <2>3, <2>4 DEF NumberStates
<1>4. StartsNone(s)
  <2> SUFFICES ASSUME NEW type \in Possible, NEW to \in s .. Len(source), TokenAt(type, s, to)
               PROVE  type = "NUMBER" /\ to < Len(source) /\ ~(source[to + 1] \in NumberDelimiters)
    BY DEF StartsNone
  <2>1. s \in Nat /\ source \in Seq(STRING) /\ TokenAt(type, s, to) /\ mode = "NORMAL"
    BY <1>1
  <2>2. type = "NUMBER"
    <3>1. source[s + 1] \notin Letters \cup Symbols /\ source[s + 1] # Backslash
      BY <1>3, Alphabet
    <3> QED
      BY <2>1, <3>1, FirstCharacters
  <2>3. to < Len(source) => source[to + 1] \notin Digits \cup {".", "_"}
    BY <2>1, <2>2, OtherWords DEF TokenAt
  <2>4. PICK e \in s .. to : NumberAt(s, to, e)
    BY <2>1, <2>2, TokenCharacters
  <2>5. to >= p
    <3> SUFFICES ASSUME to < p PROVE FALSE
      BY <1>1
    <3>1. to + 1 \in s + 1 .. p /\ to < Len(source)
      BY <1>1
    <3> QED
      BY <1>3, <2>3, <3>1
  <2>6. to > p => FALSE
    <3> SUFFICES ASSUME to > p PROVE FALSE
      OBVIOUS
    <3>1. ~AtEnd /\ NumberStep(scan, ch) = "stop" /\ to \in Nat /\ p + 1 \in Nat
      BY <1>1
    <3>2. e < to => source[e + 1] = "." /\ AllOf(Digits, e + 1, to) /\ e + 1 < to
      BY <2>4 DEF NumberAt
    <3>3. "." \notin Digits
      BY DEF Digits
    <3>4. CASE scan = "nCero"
      <4>1. p = s + 1 /\ source[s + 1] = "0"
        BY <3>4 DEF Reading, p, s
      <4>2. ch # "."
        BY <3>1, <3>4, Stops
      <4>3. CASE e > s + 1
        BY <1>1, <2>4, <4>1, <4>3 DEF NumberAt, Whole
      <4>4. CASE e = s + 1
        BY <1>1, <3>2, <4>1, <4>2, <4>4 DEF ch
      <4>5. CASE e = s
        BY <1>1, <3>2, <4>1, <4>5
      <4> QED
        BY <1>1, <4>3, <4>4, <4>5
    <3>5. CASE scan = "nEntero"
      <4>1. Whole(s, p)
        BY <3>5 DEF Reading, p, s
      <4>2. ch \notin Digits /\ ch # "."
        BY <3>1, <3>5, Stops
      <4>3. p \in s .. p
        BY <1>1
      <4>4. e = p
        BY <1>1, <2>4, <3>1, <4>1, <4>2, <4>3, OnePoint DEF ch
      <4> QED
        BY <3>2, <4>2, <4>4 DEF ch
    <3>6. CASE scan = "nPunto"
      <4>1. Whole(s, p - 1) /\ source[p] = "."
        BY <3>6 DEF Reading, p, s
      <4>2. ch \notin Digits
        BY <3>1, <3>6, Stops
      <4>3. p - 1 \in s .. p /\ p - 1 + 1 = p /\ p - 1 < to
        BY <1>1, <1>2
      <4>4. e = p - 1
        BY <1>1, <2>4, <3>1, <3>3, <4>1, <4>3, OnePoint
      <4>5. AllOf(Digits, p, to) /\ p + 1 \in p + 1 .. to
        BY <1>1, <3>2, <4>3, <4>4
      <4> QED
        BY <4>2, <4>5 DEF AllOf, ch
    <3>7. CASE scan = "nFraccion"
      <4>1. PICK d \in s .. p - 2 : NumberAt(s, p, d)
        BY <3>7 DEF Reading, p, s
      <4>2. Whole(s, d) /\ source[d + 1] = "."
        BY <1>1, <4>1 DEF NumberAt
      <4>3. ch \notin Digits
        BY <3>1, <3>7, Stops
      <4>4. d \in s .. p /\ d < to /\ d + 1 < p
        BY <1>1
      <4>5. e = d
        BY <1>1, <2>4, <3>1, <3>3, <4>2, <4>4, OnePoint
      <4>6. AllOf(Digits, d + 1, to) /\ p + 1 \in d + 1 + 1 .. to
        BY <1>1, <3>2, <4>4, <4>5
      <4> QED
        BY <4>3, <4>6 DEF AllOf, ch
    <3> QED
      BY <1>1, <1>2, <3>4, <3>5, <3>6, <3>7 DEF NumberStates
  <2>7. to = p
    BY <1>1, <2>5, <2>6
  <2>8. CASE scan = "nPunto"
    <3>1. Whole(s, p - 1) /\ source[p] = "."
      BY <2>8 DEF Reading, p, s
    <3>2. p - 1 \in s .. p /\ p - 1 + 1 = p /\ p - 1 < p
      BY <1>1, <1>2
    <3>3. e = p - 1
      <4>1. "." \notin Digits
        BY DEF Digits
      <4> QED
        BY <1>1, <2>4, <2>7, <3>1, <3>2, <4>1, OnePoint
    <3>4. e + 1 < to
      BY <2>4, <2>7, <3>2, <3>3 DEF NumberAt
    <3> QED
      BY <1>1, <2>7, <3>3, <3>4
  <2>9. CASE scan \in {"nCero", "nEntero", "nFraccion"}
    BY <1>1, <2>2, <2>7, <2>9 DEF ch
  <2> QED
    BY <1>1, <1>2, <2>8, <2>9 DEF NumberStates
<1>5. \E code, to : Reject(code, start, to)
  BY DEF RejectNumber
<1> QED
  BY <1>4, <1>5, RejectIsRight DEF s

LEMMA NextRejectsRight ==
  ASSUME LexerInv, Reading, RejectsOnlyNonTokens, [Next]_lexerVars
  PROVE  RejectsOnlyNonTokens'
<1>1. CASE InvalidCharacter \/ RejectDirective \/ RejectNumber \/ RejectStatistic
  BY <1>1, InvalidIsRight, DirectiveIsRight, NumberIsRight, StatisticIsRight
<1>2. CASE UNCHANGED lexerVars
  BY <1>2 DEF lexerVars, RejectsOnlyNonTokens, Possible, TokenAt
<1>3. CASE diagnostics' = << >>
  BY <1>3 DEF RejectsOnlyNonTokens
<1>4. ASSUME \/ EndOfSource \/ SkipWhitespace \/ ScanSymbol \/ LeavePending
             \/ BeginDirective \/ ReadDirective \/ EndDirective
             \/ BeginVariable \/ ReadVariable \/ EndVariable
             \/ BeginNumber \/ ReadNumber \/ EndNumber
             \/ BeginStatistic \/ ReadStatistic \/ EndStatistic
      PROVE  diagnostics' = << >>
  <2>1. diagnostics' = diagnostics
    BY <1>4 DEF EndOfSource, SkipWhitespace, ScanSymbol, LeavePending, BeginDirective,
       ReadDirective, EndDirective, BeginVariable, ReadVariable, EndVariable, BeginNumber,
       ReadNumber, EndNumber, BeginStatistic, ReadStatistic, EndStatistic, Read, Begin, Emit
  <2>2. scan # "done"
    BY <1>4 DEF EndOfSource, SkipWhitespace, ScanSymbol, LeavePending, BeginDirective,
       ReadDirective, EndDirective, BeginVariable, ReadVariable, EndVariable, BeginNumber,
       ReadNumber, EndNumber, BeginStatistic, ReadStatistic, EndStatistic, NumberStates
  <2> QED
    BY <2>1, <2>2 DEF LexerInv
<1> QED
  BY <1>1, <1>2, <1>3, <1>4 DEF Next

\* The lexer rejects only text at which no token of its mode starts, for every
\* text: each diagnostic of lexer.py is right about what it says.
THEOREM RejectsSound == Spec => []RejectsOnlyNonTokens
<1>1. Init => RejectsOnlyNonTokens
  BY DEF Init, RejectsOnlyNonTokens
<1>2. LexerInv /\ Reading /\ RejectsOnlyNonTokens /\ [Next]_lexerVars => RejectsOnlyNonTokens'
  BY NextRejectsRight
<1> QED
  BY <1>1, <1>2, LexerSound, ReadingHolds, PTL DEF Spec

-----------------------------------------------------------------------------
(* Statistics stand in the braces of a response                            *)

\* The mode follows the braces; a brace that opens no response is not read
\* after the directive, as no white space is left to skip.
Bracketing ==
  LET n == Len(tokens)
      response == n > 0 /\ tokens[n].type = "RESPONSE"
  IN /\ mode = "RESPONSE" <=> InResponse(n + 1)
     /\ scan = "dispatch" /\ mode = "RESPONSE_PENDING" => response
     /\ scan = "dispatch" /\ mode = "NORMAL" /\ response =>
          ~AtEnd /\ ~Reads(Whitespace \cup {"{"})

\* InResponse without subtractions.
Opens(j) == tokens[j].type = "RESPONSE" /\ tokens[j + 1].type = "LBRACE"

LEMMA ResponseAfter ==
  ASSUME NEW n \in Nat
  PROVE  /\ InResponse(n + 1) <=>
              \E j \in 1 .. n - 1 : Opens(j) /\ \A k \in j + 2 .. n : tokens[k].type # "RBRACE"
         /\ InResponse(n + 2)' <=>
              \E j \in 1 .. n : Opens(j)' /\ \A k \in j + 2 .. n + 1 : tokens'[k].type # "RBRACE"
<1>1. n + 1 - 2 = n - 1 /\ n + 1 - 1 = n /\ n + 2 - 2 = n /\ n + 2 - 1 = n + 1
  OBVIOUS
<1>2. 1 .. n + 1 - 2 = 1 .. n - 1 /\ 1 .. n + 2 - 2 = 1 .. n
  BY <1>1
<1>3. \A j \in Int : j + 2 .. n + 1 - 1 = j + 2 .. n /\ j + 2 .. n + 2 - 1 = j + 2 .. n + 1
  BY <1>1
<1>4. InResponse(n + 1) <=>
        \E j \in 1 .. n - 1 : Opens(j) /\ \A k \in j + 2 .. n : tokens[k].type # "RBRACE"
  BY <1>2, <1>3 DEF InResponse, Opens
<1>5. InResponse(n + 2)' <=>
        \E j \in 1 .. n : Opens(j)' /\ \A k \in j + 2 .. n + 1 : tokens'[k].type # "RBRACE"
  BY <1>2, <1>3 DEF InResponse, Opens
<1> QED
  BY <1>4, <1>5

\* A token that follows changes what is inside a response only after it.
LEMMA OneTokenMore ==
  ASSUME NEW t, tokens \in Seq(Token), tokens' = Append(tokens, t),
         NEW n \in Nat, n = Len(tokens)
  PROVE  /\ Len(tokens') = n + 1 /\ tokens'[n + 1] = t
         /\ \A i \in 1 .. n : tokens'[i] = tokens[i]
         /\ \A i \in 1 .. n + 1 : InResponse(i)' <=> InResponse(i)
         /\ InResponse(n + 2)' <=>
              \/ InResponse(n + 1) /\ t.type # "RBRACE"
              \/ n > 0 /\ tokens[n].type = "RESPONSE" /\ t.type = "LBRACE"
<1>1. /\ Len(tokens') = n + 1 /\ tokens'[n + 1] = t
      /\ \A i \in 1 .. n : tokens'[i] = tokens[i]
  OBVIOUS
<1>2. ASSUME NEW i \in 1 .. n + 1
      PROVE  InResponse(i)' <=> InResponse(i)
  <2>1. \A j \in 1 .. i - 2 : j \in 1 .. n /\ j + 1 \in 1 .. n
    BY <1>1
  <2>2. \A j \in 1 .. i - 2 : \A k \in j + 2 .. i - 1 : k \in 1 .. n
    BY <1>1
  <2> QED
    BY <1>1, <2>1, <2>2 DEF InResponse
<1>3. ASSUME InResponse(n + 2)'
      PROVE  \/ InResponse(n + 1) /\ t.type # "RBRACE"
             \/ n > 0 /\ tokens[n].type = "RESPONSE" /\ t.type = "LBRACE"
  <2>1. PICK j \in 1 .. n : /\ tokens'[j].type = "RESPONSE" /\ tokens'[j + 1].type = "LBRACE"
                            /\ \A k \in j + 2 .. n + 1 : tokens'[k].type # "RBRACE"
    BY <1>1, <1>3, ResponseAfter DEF Opens
  <2>2. CASE j = n
    BY <1>1, <2>1, <2>2
  <2>3. CASE j # n
    <3>1. /\ j \in 1 .. n - 1 /\ j + 1 \in 1 .. n /\ n + 1 \in j + 2 .. n + 1
          /\ \A k \in j + 2 .. n : k \in 1 .. n /\ k \in j + 2 .. n + 1
      BY <1>1, <2>3
    <3>2. tokens[j].type = "RESPONSE" /\ tokens[j + 1].type = "LBRACE" /\ t.type # "RBRACE"
      BY <1>1, <2>1, <3>1
    <3>3. \A k \in j + 2 .. n : tokens[k].type # "RBRACE"
      BY <1>1, <2>1, <3>1
    <3>4. InResponse(n + 1)
      BY <1>1, <3>1, <3>2, <3>3, ResponseAfter DEF Opens
    <3> QED
      BY <3>2, <3>4
  <2> QED
    BY <2>2, <2>3
<1>4. ASSUME InResponse(n + 1), t.type # "RBRACE"
      PROVE  InResponse(n + 2)'
  <2>1. PICK j \in 1 .. n - 1 : /\ tokens[j].type = "RESPONSE" /\ tokens[j + 1].type = "LBRACE"
                                /\ \A k \in j + 2 .. n : tokens[k].type # "RBRACE"
    BY <1>1, <1>4, ResponseAfter DEF Opens
  <2>2. /\ j \in 1 .. n /\ j + 1 \in 1 .. n
        /\ \A k \in j + 2 .. n + 1 : (k \in 1 .. n /\ k \in j + 2 .. n) \/ k = n + 1
    BY <1>1
  <2>3. tokens'[j].type = "RESPONSE" /\ tokens'[j + 1].type = "LBRACE"
    BY <1>1, <2>1, <2>2
  <2>4. \A k \in j + 2 .. n + 1 : tokens'[k].type # "RBRACE"
    BY <1>1, <1>4, <2>1, <2>2
  <2> QED
    BY <1>1, <2>2, <2>3, <2>4, ResponseAfter DEF Opens
<1>5. ASSUME n > 0, tokens[n].type = "RESPONSE", t.type = "LBRACE"
      PROVE  InResponse(n + 2)'
  <2>1. /\ n \in 1 .. n
        /\ \A k \in n + 2 .. n + 1 : FALSE
    BY <1>1, <1>5
  <2>2. tokens'[n].type = "RESPONSE" /\ tokens'[n + 1].type = "LBRACE"
    BY <1>1, <1>5, <2>1
  <2> QED
    BY <1>1, <2>1, <2>2, ResponseAfter DEF Opens
<1> QED
  BY <1>1, <1>2, <1>3, <1>4, <1>5

\* The token of a mode, and the mode that it leaves.
LEMMA EmitKeepsBrackets ==
  ASSUME LexerInv, Bracketing, StatisticsBracketed, NEW type, NEW p, NEW q,
         Emit(type, p, q),
         mode = "RESPONSE" => type \in DOMAIN Statistics \cup {"COMMA", "RBRACE", "EOF"},
         mode # "RESPONSE" => type \notin DOMAIN Statistics,
         mode' = "RESPONSE" <=>
           \/ mode = "RESPONSE" /\ type # "RBRACE"
           \/ Len(tokens) > 0 /\ tokens[Len(tokens)].type = "RESPONSE" /\ type = "LBRACE",
         q = "dispatch" => (mode' = "RESPONSE_PENDING" => type = "RESPONSE"),
         q = "dispatch" => (mode' = "NORMAL" => type # "RESPONSE")
  PROVE  Bracketing' /\ StatisticsBracketed'
<1> DEFINE t == [type |-> type, start |-> start', end |-> Recorded(p)]
<1>1. tokens \in Seq(Token) /\ tokens' = Append(tokens, t) /\ scan' = q
  BY DEF Emit, LexerInv, Token
<1>0. PICK n \in Nat : n = Len(tokens)
  BY <1>1
<1>2. t.type = type
  OBVIOUS
<1> HIDE DEF t
<1>3. /\ Len(tokens') = n + 1 /\ tokens'[n + 1] = t
      /\ \A i \in 1 .. n : tokens'[i] = tokens[i]
      /\ \A i \in 1 .. n + 1 : InResponse(i)' <=> InResponse(i)
      /\ InResponse(n + 2)' <=>
           \/ InResponse(n + 1) /\ type # "RBRACE"
           \/ n > 0 /\ tokens[n].type = "RESPONSE" /\ type = "LBRACE"
  BY <1>0, <1>1, <1>2, OneTokenMore
<1>4. mode = "RESPONSE" <=> InResponse(n + 1)
  BY <1>0 DEF Bracketing
<1>5. mode' = "RESPONSE" <=> InResponse(n + 2)'
  BY <1>0, <1>3, <1>4
<1>6. Bracketing'
  <2>1. n + 1 + 1 = n + 2 /\ n + 1 > 0
    BY <1>2
  <2>2. Len(tokens') > 0 /\ tokens'[Len(tokens')].type = type
    BY <1>2, <1>3, <2>1
  <2>3. scan' = "dispatch" /\ mode' = "RESPONSE_PENDING" => type = "RESPONSE"
    BY <1>1
  <2>4. ~(scan' = "dispatch" /\ mode' = "NORMAL" /\ type = "RESPONSE")
    BY <1>1
  <2>5. mode' = "RESPONSE" <=> InResponse(Len(tokens) + 1)'
    BY <1>3, <1>5, <2>1 DEF InResponse
  <2> QED
    BY <2>2, <2>3, <2>4, <2>5 DEF Bracketing
<1>7. StatisticsBracketed'
  <2> SUFFICES ASSUME NEW i \in 1 .. n + 1
               PROVE  IF InResponse(i)'
                      THEN tokens'[i].type \in DOMAIN Statistics \cup {"COMMA", "RBRACE", "EOF"}
                      ELSE tokens'[i].type \notin DOMAIN Statistics
    <3>1. DOMAIN tokens' = 1 .. n + 1
      BY <1>1, <1>3
    <3> QED
      BY <3>1 DEF StatisticsBracketed
  <2>1. CASE i = n + 1
    BY <1>2, <1>3, <1>4, <2>1
  <2>2. CASE i # n + 1
    <3>1. i \in 1 .. n /\ i \in DOMAIN tokens
      BY <1>0, <1>1, <2>2
    <3> QED
      BY <1>3, <3>1 DEF StatisticsBracketed
  <2> QED
    BY <2>1, <2>2
<1> QED
  BY <1>6, <1>7

LEMMA SymbolKeepsBrackets ==
  ASSUME LexerInv, Bracketing, StatisticsBracketed, ScanSymbol
  PROVE  Bracketing' /\ StatisticsBracketed'
<1> DEFINE ch == source[position.offset + 1]
           type == SymbolType(ch)
<1>1. /\ Emit(type, position', "dispatch") /\ mode' = ModeAfter(type)
      /\ ~AtEnd /\ ch \in SymbolsOf(mode) /\ scan = "dispatch"
      /\ mode \in {"NORMAL", "RESPONSE_PENDING", "RESPONSE"}
  BY DEF ScanSymbol, Reads, LexerInv
<1>2. CASE mode = "NORMAL"
  <2>1. ch \in Symbols /\ mode' = "NORMAL"
    BY <1>1, <1>2 DEF SymbolsOf, ModeAfter
  <2>2. \A c \in Symbols : SymbolType(c) = "LBRACE" => c = "{"
    BY DEF Symbols, SymbolType
  <2>3. Len(tokens) > 0 /\ tokens[Len(tokens)].type = "RESPONSE" => ch # "{"
    BY <1>1, <1>2 DEF Bracketing, Reads
  <2>4. type \notin DOMAIN Statistics /\ type # "RESPONSE"
    <3>1. "RESPONSE" \in DOMAIN Directives
      BY DirectiveWords
    <3> QED
      BY <2>1, <3>1, Kinds
  <2> HIDE DEF ch, type
  <2> QED
    BY <1>1, <1>2, <2>1, <2>3, <2>4, <2>2, EmitKeepsBrackets DEF type
<1>3. CASE mode = "RESPONSE_PENDING"
  <2>1. ch = "{" /\ mode' = "RESPONSE"
    BY <1>1, <1>3 DEF SymbolsOf, ModeAfter
  <2>2. type = "LBRACE"
    BY <2>1 DEF SymbolType
  <2>3. Len(tokens) > 0 /\ tokens[Len(tokens)].type = "RESPONSE"
    BY <1>1, <1>3 DEF Bracketing
  <2>4. "LBRACE" \notin DOMAIN Statistics
    BY StatisticWords
  <2> HIDE DEF ch, type
  <2> QED
    BY <1>1, <1>3, <2>1, <2>2, <2>3, <2>4, EmitKeepsBrackets
<1>4. CASE mode = "RESPONSE"
  <2>1. ch \in {",", "}"}
    BY <1>1, <1>4 DEF SymbolsOf
  <2>2. type = "COMMA" \/ type = "RBRACE"
    BY <2>1 DEF SymbolType
  <2>3. mode' = IF type = "RBRACE" THEN "NORMAL" ELSE "RESPONSE"
    BY <1>1, <1>4 DEF ModeAfter
  <2> HIDE DEF ch, type
  <2> QED
    BY <1>1, <1>4, <2>2, <2>3, EmitKeepsBrackets
<1> QED
  BY <1>1, <1>2, <1>3, <1>4

LEMMA NextKeepsBrackets ==
  ASSUME LexerInv, Reading, Bracketing, StatisticsBracketed, [Next]_lexerVars
  PROVE  Bracketing' /\ StatisticsBracketed'
<1>1. ASSUME UNCHANGED tokens
      PROVE  StatisticsBracketed' /\ (InResponse(Len(tokens) + 1)' <=> InResponse(Len(tokens) + 1))
  BY <1>1 DEF StatisticsBracketed, InResponse
<1>2. CASE UNCHANGED lexerVars
  BY <1>1, <1>2 DEF lexerVars, Bracketing, AtEnd, Reads
<1>3. ASSUME UNCHANGED <<mode, tokens>>, scan' # "dispatch"
      PROVE  Bracketing' /\ StatisticsBracketed'
  BY <1>1, <1>3 DEF Bracketing
<1>4. CASE \/ InvalidCharacter \/ BeginDirective \/ ReadDirective \/ RejectDirective
           \/ BeginVariable \/ ReadVariable \/ BeginNumber \/ RejectNumber
           \/ BeginStatistic \/ ReadStatistic \/ RejectStatistic
  BY <1>3, <1>4 DEF InvalidCharacter, BeginDirective, ReadDirective, RejectDirective,
     BeginVariable, ReadVariable, BeginNumber, RejectNumber, BeginStatistic, ReadStatistic,
     RejectStatistic, Read, Begin, Reject
<1>5. CASE ReadNumber
  <2>1. UNCHANGED <<mode, tokens>> /\ scan' \in NumberStates
    BY <1>5, NumberStepReads DEF ReadNumber, Read, NumberGoesOn
  <2> QED
    BY <1>3, <2>1 DEF NumberStates
<1>6. CASE SkipWhitespace
  <2>1. /\ UNCHANGED <<mode, tokens>> /\ scan = "dispatch" /\ Reads(Whitespace \cup {"{"})
    BY <1>6 DEF SkipWhitespace, Read, Reads
  <2> QED
    BY <1>1, <2>1 DEF Bracketing
<1>7. CASE LeavePending
  <2>1. /\ UNCHANGED <<source, position, scan, tokens>> /\ mode' = "NORMAL"
        /\ mode = "RESPONSE_PENDING" /\ ~AtEnd /\ ~Reads(Whitespace \cup {"{"})
    BY <1>7 DEF LeavePending, Reprocessed
  <2>2. ~AtEnd' /\ ~Reads(Whitespace \cup {"{"})'
    BY <2>1 DEF AtEnd, Reads
  <2> QED
    BY <1>1, <2>1, <2>2 DEF Bracketing
<1>8. CASE EndOfSource
  <2>1. Emit("EOF", position, "done") /\ mode' = mode
    BY <1>8 DEF EndOfSource
  <2>2. "EOF" \notin DOMAIN Statistics
    BY StatisticWords
  <2> QED
    BY <2>1, <2>2, EmitKeepsBrackets
<1>9. CASE EndDirective
  <2>1. PICK type \in TypesOf(WordRead) :
            /\ Emit(type, position, "dispatch")
            /\ mode' = IF type = "RESPONSE" THEN "RESPONSE_PENDING" ELSE mode
    BY <1>9 DEF EndDirective
  <2>2. mode = "NORMAL"
    BY <1>9 DEF EndDirective, Reading
  <2>3. type \in DOMAIN Directives /\ "LBRACE" \notin DOMAIN Directives
    BY DirectiveWords DEF TypesOf
  <2>4. type \notin DOMAIN Statistics
    BY <2>3, Kinds
  <2> QED
    BY <2>1, <2>2, <2>3, <2>4, EmitKeepsBrackets
<1>10. CASE EndVariable \/ EndNumber
  <2>1. mode = "NORMAL" /\ mode' = mode
    BY <1>10 DEF EndVariable, EndNumber, Reading, NumberStates
  <2>2. PICK type \in {"VARIABLE", "NUMBER"} : Emit(type, position, "dispatch")
    BY <1>10 DEF EndVariable, EndNumber
  <2>3. type \notin DOMAIN Statistics /\ type # "RESPONSE" /\ type # "LBRACE"
    BY <2>2, StatisticWords
  <2> QED
    BY <2>1, <2>2, <2>3, EmitKeepsBrackets
<1>11. CASE EndStatistic
  <2>1. PICK type \in StatisticsAt(start.offset) :
            Emit(type, position, "dispatch") /\ mode' = mode
    BY <1>11 DEF EndStatistic
  <2>2. mode = "RESPONSE"
    BY <1>11 DEF EndStatistic, Reading
  <2>3. type \in DOMAIN Statistics /\ "RBRACE" \notin DOMAIN Statistics
    BY StatisticWords DEF StatisticsAt
  <2> QED
    BY <2>1, <2>2, <2>3, EmitKeepsBrackets
<1> QED
  BY <1>2, <1>4, <1>5, <1>6, <1>7, <1>8, <1>9, <1>10, <1>11, SymbolKeepsBrackets DEF Next

\* Between the braces of a response there are statistics only, and nowhere
\* else: the modes of lexer.py are entered and left with the braces.
THEOREM StatisticsInBrackets == Spec => []StatisticsBracketed
<1>1. Init => Bracketing /\ StatisticsBracketed
  <2> SUFFICES ASSUME Init PROVE Bracketing /\ StatisticsBracketed
    OBVIOUS
  <2>1. tokens = << >> /\ mode = "NORMAL"
    BY DEF Init
  <2>2. Len(tokens) = 0 /\ DOMAIN tokens = {} /\ ~InResponse(0 + 1)
    BY <2>1 DEF InResponse
  <2> QED
    BY <2>1, <2>2 DEF Bracketing, StatisticsBracketed
<1>2. LexerInv /\ Reading /\ Bracketing /\ StatisticsBracketed /\ [Next]_lexerVars =>
        Bracketing' /\ StatisticsBracketed'
  BY NextKeepsBrackets
<1> QED
  BY <1>1, <1>2, LexerSound, ReadingHolds, PTL DEF Spec
=============================================================================
