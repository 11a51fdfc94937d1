--------------------------- MODULE TokenizerProofs ---------------------------
(***************************************************************************)
(* Proofs about Tokenizer: types, the order of the indentation columns, the *)
(* assertion about f-strings, that the tokens are a stream as TokenStream   *)
(* promises it to the parser, and that they are all of the text.            *)
(***************************************************************************)
EXTENDS Tokenizer, SequenceTheorems, TLAPS

Quiet == {"newline", "comment", "backslash"}

Virtual == {"INDENT", "DEDENT", "ERROR_DEDENT"}

Indenting == pc \in {"indent", "append", "dedent", "lower"}

\* Between two lexemes, or about to make nothing but a line end of one.
Between == pc = "scan" \/ (pc = "token" /\ kind \in Quiet)

\* Only the innermost f-string holds lines, and none while code is read; a
\* line end in code leaves only f-strings with three quotes.
FStringsOK ==
  /\ newLine => \A i \in DOMAIN fstack : fstack[i].triple
  /\ \A i \in DOMAIN fstack :
       fstack[i].lines # <<>> => i = Len(fstack) /\ ~IsInExpr(Tos) /\ pc \notin {"token", "cont"}

\* Where in a line the tokenizer is, by the token it has yielded last.
LineOK ==
  /\ Indenting => ~Nested /\ kind \notin Quiet
  /\ ~Between /\ (Indenting \/ pc \in {"token", "cont"}) => ~newLine
  /\ Between /\ ~newLine => last \notin Virtual \cup {"start", "NEWLINE"}
  /\ Between /\ newLine /\ ~Nested => last \in {"start", "NEWLINE", "FSTRING_END"}
  /\ pc = "indent" => last \in {"start", "NEWLINE", "FSTRING_END"}
  /\ Nested /\ pc \in {"scan", "token"} => last \notin Virtual \cup {"start", "NEWLINE"}
  /\ pc = "cont" => contstr # <<>>

\* What was yielded last, and the columns that are open.
LastOK ==
  /\ last = "start" => indents = <<0>>
  /\ last = "ENDMARKER" => pc = "done"
  /\ last \in {"INDENT", "ERROR_DEDENT"} =>
       \/ pc \in {"append", "dedent", "lower"}
       \/ pc = "token" /\ kind \notin Quiet
       \/ pc \in {"cont", "eof"} /\ contstr # <<>>
  /\ pc = "append" => last = "INDENT" /\ col > Last(indents)
  /\ pc = "lower" => last = "ERROR_DEDENT" /\ col < Last(indents) /\ AboveBelow
  /\ pc = "dedent" =>
       /\ last # "ERROR_DEDENT"
       /\ last = "INDENT" => col = Last(indents)
       /\ last \in {"start", "NEWLINE", "DEDENT"} => col <= Last(indents)

Inv ==
  /\ TypeOK /\ IndentsIncrease /\ FStringsOK /\ LineOK /\ LastOK
  /\ AssertionHolds /\ StatementsAligned

\* A step of the stream of tokens, or none.
Step == Stream!StreamNext \/ UNCHANGED <<last, Depth, count>>

-----------------------------------------------------------------------------
(* Facts for all steps.                                                     *)

\* indents.pop()
LEMMA FrontFacts ==
  ASSUME NEW S, NEW s \in Seq(S), Len(s) > 1
  PROVE  /\ Front(s) \in Seq(S) /\ Front(s) # <<>>
         /\ Len(Front(s)) = Len(s) - 1
         /\ \A i \in 1 .. Len(s) - 1 : Front(s)[i] = s[i]
<1>1. Front(s) = SubSeq(s, 1, Len(s) - 1)
  BY DEF Front
<1>2. Front(s) \in Seq(S) /\ Len(Front(s)) = Len(s) - 1
  BY <1>1
<1>3. \A i \in 1 .. Len(s) - 1 : Front(s)[i] = s[i]
  BY <1>1
<1>4. Front(s) # <<>>
  BY <1>2
<1> QED
  BY <1>2, <1>3, <1>4

\* The innermost f-string is replaced.
LEMMA SetTosFacts ==
  ASSUME fstack \in Seq(FStringNode), fstack # <<>>, NEW node \in FStringNode, SetTos(node)
  PROVE  /\ fstack' \in Seq(FStringNode) /\ Len(fstack') = Len(fstack)
         /\ fstack'[Len(fstack)] = node
         /\ \A i \in 1 .. Len(fstack) - 1 : fstack'[i] = fstack[i]
BY DEF SetTos

\* What indents holds are columns, and those are numbers.
LEMMA ColumnFacts ==
  ASSUME TypeOK
  PROVE  /\ Len(indents) \in Nat \ {0} /\ Last(indents) = indents[Len(indents)]
         /\ \A i \in 1 .. Len(indents) : indents[i] \in Nat
         /\ col \in Nat /\ read \in Nat /\ count \in Nat
<1>1. indents \in Seq(Columns) /\ indents # <<>>
  BY DEF TypeOK
<1>2. \A i \in 1 .. Len(indents) : indents[i] \in Columns
  BY <1>1
<1>3. Last(indents) = indents[Len(indents)]
  BY DEF Last
<1>4. col \in Nat /\ read \in Nat /\ count \in Nat
  BY TokenizerAssumption DEF TypeOK
<1>5. Len(indents) \in Nat \ {0}
  BY <1>1
<1>6. \A i \in 1 .. Len(indents) : indents[i] \in Nat
  BY <1>2, TokenizerAssumption
<1> QED
  BY <1>3, <1>4, <1>5, <1>6

\* A token with text keeps the promise, unless it is a NEWLINE for nothing.
LEMMA TextPromised ==
  ASSUME NEW type \in TextTypes, NEW text, Yield(type, text), last # "ENDMARKER", Depth' = Depth,
         type = "NEWLINE" => last \notin Virtual \cup {"start", "NEWLINE"}
  PROVE  Step
<1>1. Stream!Promised(type)
  BY DEF Yield, Stream!Promised, Stream!YieldText, Stream!VirtualTokens, Virtual
<1> QED
  BY <1>1 DEF Step, Stream!StreamNext, Stream!Tokens

\* Sequences of lexemes stay such.
LEMMA TextFacts ==
  /\ <<>> \in Text
  /\ \A t \in Text, n \in Nat : Append(t, n) \in Text
  /\ \A t, u \in Text : t \o u \in Text
BY DEF Text

\* What a yield leaves for the parser.
LEMMA YieldTypes ==
  ASSUME TypeOK, NEW text \in Text, NEW type, Yield(type, text)
  PROVE  last' = type /\ count' \in Nat /\ yielded' \in Text
BY TextFacts DEF TypeOK, Yield

\* The innermost f-string.
LEMMA TosFacts ==
  ASSUME TypeOK, fstack # <<>>
  PROVE  /\ Len(fstack) \in DOMAIN fstack /\ Tos \in FStringNode
         /\ Tos.lines \in Text /\ Tos.parens \in Int /\ Tos.specs \in Nat
<1>1. fstack \in Seq(FStringNode) /\ Len(fstack) \in DOMAIN fstack
  BY DEF TypeOK
<1>2. Tos \in FStringNode
  BY <1>1 DEF Tos
<1> QED
  BY <1>1, <1>2 DEF FStringNode

\* An f-string holds lines only where its text is read.
LEMMA NoLines ==
  ASSUME TypeOK, FStringsOK, NoString, NEW i \in DOMAIN fstack
  PROVE  fstack[i].lines = <<>>
<1>1. SUFFICES ASSUME fstack[i].lines # <<>> PROVE FALSE
  OBVIOUS
<1>2. i = Len(fstack) /\ ~IsInExpr(Tos)
  BY <1>1 DEF FStringsOK
<1> QED
  BY <1>1, <1>2 DEF NoString, InCode, Tos

\* The lines of the innermost f-string change, and nothing else of f-strings.
LEMMA SetLinesFacts ==
  ASSUME TypeOK, fstack # <<>>, NEW text \in Text, SetLines(text)
  PROVE  /\ fstack' \in Seq(FStringNode) /\ fstack' # <<>> /\ Len(fstack') = Len(fstack)
         /\ Tos' = [Tos EXCEPT !.lines = text]
         /\ \A i \in DOMAIN fstack' :
              i \in DOMAIN fstack /\ fstack'[i].triple = fstack[i].triple
                /\ (i # Len(fstack) => fstack'[i] = fstack[i])
<1>1. [Tos EXCEPT !.lines = text] \in FStringNode
  BY TosFacts DEF FStringNode
<1>2. fstack \in Seq(FStringNode)
  BY DEF TypeOK
<1>3. /\ fstack' \in Seq(FStringNode) /\ Len(fstack') = Len(fstack)
      /\ fstack'[Len(fstack)] = [Tos EXCEPT !.lines = text]
      /\ \A i \in 1 .. Len(fstack) - 1 : fstack'[i] = fstack[i]
  BY <1>1, <1>2, SetTosFacts DEF SetLines
<1>4. Tos' = [Tos EXCEPT !.lines = text]
  BY <1>3 DEF Tos
<1>5. ASSUME NEW i \in DOMAIN fstack'
      PROVE  i \in DOMAIN fstack /\ fstack'[i].triple = fstack[i].triple
               /\ (i # Len(fstack) => fstack'[i] = fstack[i])
  <2>1. i \in 1 .. Len(fstack) /\ DOMAIN fstack = 1 .. Len(fstack)
    BY <1>2, <1>3
  <2>2. CASE i = Len(fstack)
    BY <2>1, <2>2, <1>3, TosFacts DEF Tos, FStringNode
  <2>3. CASE i # Len(fstack)
    BY <2>1, <2>3, <1>3
  <2> QED
    BY <2>2, <2>3
<1>6. fstack' # <<>>
  BY <1>2, <1>3
<1> QED
  BY <1>3, <1>4, <1>5, <1>6

\* A column below the innermost one has one below it to go to.
LEMMA ColumnBelow ==
  ASSUME TypeOK, IndentsIncrease, col < Last(indents)
  PROVE  Len(indents) > 1
BY ColumnFacts DEF IndentsIncrease

\* The columns rise without the last one, too.
LEMMA Popped ==
  ASSUME TypeOK, IndentsIncrease, Len(indents) > 1, indents' = Front(indents)
  PROVE  /\ indents' \in Seq(Columns) /\ indents' # <<>> /\ Len(indents') = Len(indents) - 1
         /\ Last(indents') = indents[Len(indents) - 1]
         /\ IndentsIncrease'
<1>1. indents \in Seq(Columns)
  BY DEF TypeOK
<1>2. /\ indents' \in Seq(Columns) /\ indents' # <<>> /\ Len(indents') = Len(indents) - 1
      /\ \A i \in 1 .. Len(indents) - 1 : indents'[i] = indents[i]
  BY <1>1, FrontFacts
<1>3. Last(indents') = indents[Len(indents) - 1]
  BY <1>2, ColumnFacts DEF Last
<1>4. ASSUME NEW i \in 1 .. Len(indents') - 1
      PROVE  indents'[i] < indents'[i + 1]
  <2>1. i \in 1 .. Len(indents) - 1 /\ i + 1 \in 1 .. Len(indents) - 1
    BY <1>2, ColumnFacts
  <2> QED
    BY <1>2, <2>1 DEF IndentsIncrease
<1>5. indents'[1] = 0
  BY <1>2, ColumnFacts DEF IndentsIncrease
<1> QED
  BY <1>2, <1>3, <1>4, <1>5 DEF IndentsIncrease

-----------------------------------------------------------------------------
(* One lemma per action: the invariant holds after it, and for the parser it  *)
(* is a step of the stream or none.                                           *)

\* A quote ends an f-string, and the f-strings inside of it.
LEMMA CloseFStringStep ==
  ASSUME Inv, NEW i \in DOMAIN fstack, CloseFString(i)
  PROVE  Inv' /\ Step
<1>1. TypeOK /\ FStringsOK /\ LineOK /\ LastOK
  BY DEF Inv
<1>i. i \in 1 .. Len(fstack) /\ fstack \in Seq(FStringNode) /\ fstack[i].lines = <<>>
  BY <1>1, NoLines DEF CloseFString, TypeOK
<1>c. pc = "scan" /\ pc' = "scan" /\ Yield("FSTRING_END", Append(addPrefix, read'))
  BY <1>i DEF CloseFString
<1>s. /\ fstack' \in Seq(FStringNode)
      /\ \A j \in DOMAIN fstack' : j \in DOMAIN fstack /\ j # Len(fstack) /\ fstack'[j] = fstack[j]
  BY <1>i DEF CloseFString
<1>2. TypeOK'
  <2>1. read' \in Nat /\ kind' \in Kinds
    BY <1>1 DEF TypeOK, Kinds, CloseFString, ReadLexeme
  <2>2. last' = "FSTRING_END" /\ count' \in Nat /\ yielded' \in Text
    BY <1>1, <1>c, <2>1, YieldTypes, TextFacts DEF TypeOK
  <2> QED
    BY <1>1, <1>s, <2>1, <2>2, TextFacts DEF TypeOK, PC, TextTypes, CloseFString
<1>3. IndentsIncrease' /\ AssertionHolds'
  BY <1>c DEF Inv, IndentsIncrease, AssertionHolds, CloseFString
<1>4. FStringsOK'
  BY <1>1, <1>s DEF FStringsOK, CloseFString
<1>5. LineOK'
  BY DEF LineOK, Between, Indenting, Virtual, Yield, CloseFString
<1>6. LastOK'
  BY <1>1 DEF LastOK, Yield, CloseFString, output
<1>7. StatementsAligned'
  BY DEF StatementsAligned, CloseFString
<1>8. Step
  BY <1>1, TextPromised DEF Step, Depth, LastOK, TextTypes, CloseFString, output
<1> QED
  BY <1>2, <1>3, <1>4, <1>5, <1>6, <1>7, <1>8 DEF Inv

\* A lexeme is matched; a line that begins is over.
LEMMA PseudoMatchStep ==
  ASSUME Inv, NEW k \in PlainKinds \cup {"colon"}, NEW c \in Columns, PseudoMatch(k, c)
  PROVE  Inv' /\ Step
<1>1. TypeOK /\ FStringsOK /\ LineOK /\ LastOK
  BY DEF Inv
<1>2. TypeOK'
  BY <1>1 DEF TypeOK, PC, Kinds, PseudoMatch, ReadLexeme, strings, output
<1>3. IndentsIncrease' /\ AssertionHolds'
  BY DEF Inv, IndentsIncrease, AssertionHolds, PseudoMatch
<1>4. FStringsOK'
  <2>1. NoString
    BY DEF PseudoMatch, Matches, NoString
  <2> QED
    BY <1>1, <2>1, NoLines DEF FStringsOK, PseudoMatch
<1>5. LineOK'
  BY <1>1
     DEF TypeOK, LineOK, Between, Indenting, Quiet, Nested, PseudoMatch, ReadLexeme,
         output
<1>6. LastOK'
  BY <1>1 DEF LastOK, PseudoMatch, output
<1>7. StatementsAligned'
  BY DEF Inv, StatementsAligned, LineOK, Between, Virtual, PseudoMatch, ReadLexeme, output
<1>8. Step
  BY DEF Step, Depth, PseudoMatch, output
<1> QED
  BY <1>2, <1>3, <1>4, <1>5, <1>6, <1>7, <1>8 DEF Inv

\* The column of the first token is compared.
LEMMA IndentStep ==
  ASSUME Inv, Indent
  PROVE  Inv' /\ Step
<1>1. TypeOK /\ FStringsOK /\ LineOK /\ LastOK
  BY DEF Inv
<1>2. TypeOK'
  <2>1. /\ last' \in TextTypes \cup {"INDENT", "DEDENT", "ERROR_DEDENT", "ENDMARKER", "start"}
        /\ count' \in Nat
    BY <1>1 DEF TypeOK, Yield, Indent, output
  <2>2. yielded' \in Text
    BY <1>1 DEF TypeOK, Yield, Indent, output
  <2>3. /\ pc' \in PC /\ line' \in Nat \X Kinds \X Columns \X BOOLEAN
        /\ newLine' \in BOOLEAN /\ parens' \in Nat
    BY <1>1 DEF TypeOK, PC, Indent, line
  <2>4. fstack' \in Seq(FStringNode)
    BY <1>1 DEF TypeOK, Indent
  <2>5. indents' \in Seq(Columns) /\ indents' # <<>>
    BY <1>1 DEF TypeOK, Indent
  <2>6. addPrefix' \in Text /\ prefix' \in Text /\ contstr' \in Text
    BY <1>1 DEF TypeOK, Indent, strings
  <2> QED
    BY <2>1, <2>2, <2>3, <2>4, <2>5, <2>6 DEF TypeOK, line
<1>3. IndentsIncrease' /\ AssertionHolds'
  BY DEF Inv, IndentsIncrease, AssertionHolds, Indent
<1>4. FStringsOK'
  BY <1>1 DEF FStringsOK, Tos, Indent
<1>5. LineOK'
  BY <1>1 DEF LineOK, Between, Indenting, Nested, Indent, line
<1>6. LastOK'
  BY <1>1, ColumnFacts DEF LastOK, Yield, Indent, line, output
<1>7. StatementsAligned'
  BY DEF StatementsAligned, Indent
<1>8. Step
  <2>1. CASE col > Last(indents)
    <3>1. last' = "INDENT" /\ count' = count + 1 /\ Depth' = Depth + 1
      BY <2>1 DEF Indent, Depth, Yield
    <3>2. Stream!Promised("INDENT")
      BY <1>1, <3>1 DEF Indent, LineOK, Stream!Promised, Stream!YieldIndent
    <3> QED
      BY <3>2 DEF Step, Stream!StreamNext, Stream!Tokens, Stream!VirtualTokens
  <2>2. CASE ~(col > Last(indents))
    BY <2>2 DEF Indent, Step, Depth, output
  <2> QED
    BY <2>1, <2>2
<1> QED
  BY <1>2, <1>3, <1>4, <1>5, <1>6, <1>7, <1>8 DEF Inv

\* A deeper column is kept.
LEMMA AppendIndentStep ==
  ASSUME Inv, AppendIndent
  PROVE  Inv' /\ Step
<1>1. TypeOK /\ FStringsOK /\ LineOK /\ LastOK
  BY DEF Inv
<1>a. /\ indents' \in Seq(Columns) /\ Len(indents') = Len(indents) + 1 /\ Last(indents') = col
      /\ \A i \in 1 .. Len(indents) : indents'[i] = indents[i]
  BY <1>1 DEF TypeOK, AppendIndent, Last
<1>b. col > Last(indents) /\ indents'[Len(indents) + 1] = col
  BY <1>1 DEF AppendIndent, LastOK
<1>2. TypeOK'
  BY <1>1 DEF TypeOK, PC, line, strings, output, AppendIndent
<1>3. IndentsIncrease' /\ AssertionHolds'
  <2>1. ASSUME NEW i \in 1 .. Len(indents') - 1
        PROVE  indents'[i] < indents'[i + 1]
    <3>1. CASE i = Len(indents)
      BY <1>1, <1>a, <1>b, <3>1, ColumnFacts
    <3>2. CASE i # Len(indents)
      BY <1>a, <3>2 DEF Inv, IndentsIncrease
    <3> QED
      BY <3>1, <3>2
  <2> QED
    BY <2>1, ColumnFacts DEF Inv, IndentsIncrease, AssertionHolds, AppendIndent
<1>4. FStringsOK'
  BY <1>1 DEF FStringsOK, Tos, AppendIndent
<1>5. LineOK'
  BY <1>1 DEF LineOK, Between, Indenting, Nested, AppendIndent, line
<1>6. LastOK'
  BY <1>1, <1>a DEF LastOK, AppendIndent, line, output
<1>7. StatementsAligned'
  BY DEF StatementsAligned, AppendIndent
<1>8. Step
  BY DEF Step, Depth, AppendIndent, output
<1> QED
  BY <1>2, <1>3, <1>4, <1>5, <1>6, <1>7, <1>8 DEF Inv

\* One column less.
LEMMA DedentStep ==
  ASSUME Inv, Dedent
  PROVE  Inv' /\ Step
<1>1. TypeOK /\ FStringsOK /\ LineOK /\ LastOK
  BY DEF Inv
<1>d. Len(indents) > 1
  BY ColumnBelow DEF Inv, Dedent
<1>p. /\ indents' \in Seq(Columns) /\ indents' # <<>> /\ Len(indents') = Len(indents) - 1
      /\ Last(indents') = indents[Len(indents) - 1] /\ IndentsIncrease'
  BY <1>d, Popped DEF Inv, Dedent
<1>2. TypeOK'
  <2>1. yielded' \in Text
    BY <1>1 DEF TypeOK, Yield, Dedent
  <2> QED
    BY <1>1, <1>p DEF TypeOK, Yield, Dedent, line, strings
<1>3. IndentsIncrease' /\ AssertionHolds'
  BY <1>p DEF AssertionHolds, Dedent
<1>4. FStringsOK'
  BY <1>1 DEF FStringsOK, Tos, Dedent
<1>5. LineOK'
  BY <1>1 DEF LineOK, Between, Indenting, Nested, Dedent, line
<1>6. LastOK'
  BY <1>1, <1>p, ColumnFacts DEF LastOK, AboveBelow, Dedent, Yield, line
<1>7. StatementsAligned'
  BY DEF StatementsAligned, Dedent
<1>8. Step
  <2>1. last' = "DEDENT" /\ count' = count + 1 /\ Depth > 0 /\ Depth' = Depth - 1
    BY <1>p DEF Depth, Dedent, Yield
  <2>2. last \notin {"start", "INDENT", "ERROR_DEDENT", "ENDMARKER"}
    BY <1>1, ColumnFacts DEF LastOK, Dedent
  <2>3. Stream!Promised("DEDENT")
    BY <2>1, <2>2 DEF Stream!Promised, Stream!YieldDedent
  <2> QED
    BY <2>3 DEF Step, Stream!StreamNext, Stream!Tokens, Stream!VirtualTokens
<1> QED
  BY <1>2, <1>3, <1>4, <1>5, <1>6, <1>7, <1>8 DEF Inv

\* Between two columns.
LEMMA ErrorDedentStep ==
  ASSUME Inv, ErrorDedent
  PROVE  Inv' /\ Step
<1>1. TypeOK /\ FStringsOK /\ LineOK /\ LastOK
  BY DEF Inv
<1>2. TypeOK'
  BY <1>1 DEF TypeOK, PC, Yield, ErrorDedent, line, strings
<1>3. IndentsIncrease' /\ AssertionHolds'
  BY DEF Inv, IndentsIncrease, AssertionHolds, ErrorDedent
<1>4. FStringsOK'
  BY <1>1 DEF FStringsOK, Tos, ErrorDedent
<1>5. LineOK'
  BY <1>1 DEF LineOK, Between, Indenting, Nested, ErrorDedent, line
<1>6. LastOK'
  BY DEF LastOK, AboveBelow, Yield, ErrorDedent, AboveBelow, line
<1>7. StatementsAligned'
  BY DEF StatementsAligned, ErrorDedent
<1>8. Step
  <2>1. Len(indents) > 1
    BY ColumnBelow DEF Inv, ErrorDedent
  <2>2. last' = "ERROR_DEDENT" /\ count' = count + 1 /\ Depth > 0 /\ Depth' = Depth
    BY <2>1 DEF Depth, ErrorDedent, Yield
  <2>3. last \notin {"start", "INDENT", "ERROR_DEDENT", "ENDMARKER"}
    BY <1>1, ColumnFacts DEF LastOK, ErrorDedent
  <2>4. Stream!Promised("ERROR_DEDENT")
    BY <2>2, <2>3 DEF Stream!Promised, Stream!YieldErrorDedent
  <2> QED
    BY <2>4 DEF Step, Stream!StreamNext, Stream!Tokens, Stream!VirtualTokens
<1> QED
  BY <1>2, <1>3, <1>4, <1>5, <1>6, <1>7, <1>8 DEF Inv

\* The innermost column is replaced.
LEMMA LowerIndentStep ==
  ASSUME Inv, LowerIndent
  PROVE  Inv' /\ Step
<1>1. TypeOK /\ FStringsOK /\ LineOK /\ LastOK
  BY DEF Inv
<1>d. Len(indents) > 1
  BY ColumnBelow DEF Inv, LowerIndent, LastOK
<1>l. /\ indents' \in Seq(Columns) /\ Len(indents') = Len(indents) /\ Last(indents') = col
      /\ indents'[Len(indents)] = col
      /\ \A i \in 1 .. Len(indents) - 1 : indents'[i] = indents[i]
  BY <1>1 DEF TypeOK, LowerIndent, Lowered, Last
<1>2. TypeOK'
  BY <1>1 DEF TypeOK, PC, LowerIndent, Lowered, line, strings, output
<1>3. IndentsIncrease' /\ AssertionHolds'
  <2>1. ASSUME NEW i \in 1 .. Len(indents') - 1
        PROVE  indents'[i] < indents'[i + 1]
    <3>1. i \in 1 .. Len(indents) - 1 /\ indents'[i] = indents[i]
      BY <1>l
    <3>2. CASE i = Len(indents) - 1
      BY <1>1, <1>l, <3>2 DEF LowerIndent, LastOK, AboveBelow
    <3>3. CASE i # Len(indents) - 1
      <4>1. i + 1 \in 1 .. Len(indents) - 1
        BY <3>1, <3>3
      <4> QED
        BY <1>l, <4>1 DEF Inv, IndentsIncrease
    <3> QED
      BY <3>2, <3>3
  <2> QED
    BY <1>d, <1>l, <2>1 DEF Inv, IndentsIncrease, AssertionHolds, LowerIndent
<1>4. FStringsOK'
  BY <1>1 DEF FStringsOK, LineOK, Indenting, Nested, LowerIndent
<1>5. LineOK'
  BY <1>1 DEF LineOK, Between, Indenting, Nested, LowerIndent, line
<1>6. LastOK'
  BY <1>1 DEF LastOK, LineOK, Indenting, LowerIndent, line, output
<1>7. StatementsAligned'
  BY <1>l DEF StatementsAligned, LowerIndent, line
<1>8. Step
  BY DEF Step, Depth, LowerIndent, Lowered, output
<1> QED
  BY <1>2, <1>3, <1>4, <1>5, <1>6, <1>7, <1>8 DEF Inv

\* The column has been found.
LEMMA NoMoreDedentsStep ==
  ASSUME Inv, NoMoreDedents
  PROVE  Inv' /\ Step
<1>1. TypeOK /\ FStringsOK /\ LineOK /\ LastOK
  BY DEF Inv
<1>2. TypeOK'
  BY <1>1 DEF TypeOK, PC, NoMoreDedents, line, strings, output
<1>3. IndentsIncrease' /\ AssertionHolds'
  BY DEF Inv, IndentsIncrease, AssertionHolds, NoMoreDedents
<1>4. FStringsOK'
  BY <1>1 DEF FStringsOK, LineOK, Indenting, Nested, NoMoreDedents
<1>5. LineOK'
  BY <1>1 DEF LineOK, Between, Indenting, Nested, NoMoreDedents, line
<1>6. LastOK'
  BY <1>1 DEF LastOK, LineOK, Indenting, NoMoreDedents, line, output
<1>7. StatementsAligned'
  BY ColumnFacts DEF Inv, StatementsAligned, LastOK, NoMoreDedents, line, output
<1>8. Step
  BY DEF Step, Depth, NoMoreDedents, output
<1> QED
  BY <1>2, <1>3, <1>4, <1>5, <1>6, <1>7, <1>8 DEF Inv

\* Text of an f-string comes out.
LEMMA FStringStringStep ==
  ASSUME Inv, FStringString
  PROVE  Inv' /\ Step
<1>1. TypeOK /\ FStringsOK /\ LineOK /\ LastOK
  BY DEF Inv
<1>f. fstack # <<>> /\ Tos.lines \in Text
  BY <1>1, TosFacts DEF FStringString, TextAhead, InCode
<1>t. /\ fstack' \in Seq(FStringNode) /\ fstack' # <<>> /\ Len(fstack') = Len(fstack)
      /\ Tos' = [Tos EXCEPT !.lines = <<>>]
      /\ \A i \in DOMAIN fstack' :
           i \in DOMAIN fstack /\ fstack'[i].triple = fstack[i].triple
             /\ (i # Len(fstack) => fstack'[i] = fstack[i])
  <2>1. <<>> \in Text
    BY DEF Text
  <2> QED
    BY <1>1, <1>f, <2>1, SetLinesFacts DEF FStringString
<1>2. TypeOK'
  <2>1. read' \in Nat /\ kind' \in Kinds
    BY <1>1 DEF TypeOK, Kinds, FStringString, ReadLexeme
  <2>2. /\ last' \in TextTypes \cup {"INDENT", "DEDENT", "ERROR_DEDENT", "ENDMARKER", "start"}
        /\ count' \in Nat
    BY <1>1 DEF TypeOK, TextTypes, Yield, FStringString
  <2>3. yielded' \in Text
    BY <1>1, <1>f, <2>1 DEF TypeOK, Text, Yield, FStringString
  <2> QED
    BY <1>1, <1>t, <2>1, <2>2, <2>3 DEF TypeOK, FStringString, strings
<1>3. IndentsIncrease' /\ AssertionHolds'
  BY DEF Inv, IndentsIncrease, AssertionHolds, FStringString
<1>4. FStringsOK'
  BY <1>1 DEF FStringsOK, Tos, SetTos, FStringString, SetLines
<1>5. LineOK'
  BY <1>t DEF LineOK, Indenting, Virtual, Nested, Yield, FStringString, TextAhead
<1>6. LastOK'
  BY DEF LastOK, Yield, FStringString, TextAhead
<1>7. StatementsAligned'
  BY DEF StatementsAligned, FStringString, TextAhead
<1>8. Step
  BY <1>1, TextPromised DEF Depth, LastOK, TextTypes, FStringString, TextAhead
<1> QED
  BY <1>2, <1>3, <1>4, <1>5, <1>6, <1>7, <1>8 DEF Inv

\* Text of an f-string waits for the next line.
LEMMA FStringLineStep ==
  ASSUME Inv, FStringLine
  PROVE  Inv' /\ Step
<1>1. TypeOK /\ FStringsOK /\ LineOK /\ LastOK
  BY DEF Inv
<1>f. fstack # <<>> /\ Tos.lines \in Text
  BY <1>1, TosFacts DEF FStringLine, TextAhead, InCode
<1>t. /\ fstack' \in Seq(FStringNode) /\ fstack' # <<>> /\ Len(fstack') = Len(fstack)
      /\ Tos' = [Tos EXCEPT !.lines = Append(Tos.lines, read')]
      /\ \A i \in DOMAIN fstack' :
           i \in DOMAIN fstack /\ fstack'[i].triple = fstack[i].triple
             /\ (i # Len(fstack) => fstack'[i] = fstack[i])
  <2>1. Append(Tos.lines, read') \in Text
    BY <1>1, <1>f DEF TypeOK, Text, FStringLine, ReadLexeme
  <2> QED
    BY <1>1, <1>f, <2>1, SetLinesFacts DEF FStringLine
<1>2. TypeOK'
  <2>1. read' \in Nat /\ kind' \in Kinds
    BY <1>1 DEF TypeOK, Kinds, FStringLine, ReadLexeme
  <2> QED
    BY <1>1, <1>t, <2>1 DEF TypeOK, FStringLine, strings, output
<1>3. IndentsIncrease' /\ AssertionHolds'
  BY DEF Inv, IndentsIncrease, AssertionHolds, FStringLine
<1>4. FStringsOK'
  BY <1>1 DEF FStringsOK, Tos, IsInExpr, SetTos, FStringLine, TextAhead, SetLines, InCode
<1>5. LineOK'
  BY <1>1, <1>t DEF LineOK, Indenting, Nested, FStringLine, TextAhead, output
<1>6. LastOK'
  BY <1>1 DEF LastOK, FStringLine, TextAhead, output
<1>7. StatementsAligned'
  BY DEF StatementsAligned, FStringLine, TextAhead
<1>8. Step
  BY DEF Step, Depth, FStringLine, output
<1> QED
  BY <1>2, <1>3, <1>4, <1>5, <1>6, <1>7, <1>8 DEF Inv

\* Text of the lines before comes out.
LEMMA PreviousLinesStep ==
  ASSUME Inv, PreviousLines
  PROVE  Inv' /\ Step
<1>1. TypeOK /\ FStringsOK /\ LineOK /\ LastOK
  BY DEF Inv
<1>f. fstack # <<>> /\ Tos.lines \in Text
  BY <1>1, TosFacts DEF PreviousLines, NoString, InCode
<1>t. /\ fstack' \in Seq(FStringNode) /\ fstack' # <<>> /\ Len(fstack') = Len(fstack)
      /\ Tos' = [Tos EXCEPT !.lines = <<>>]
      /\ \A i \in DOMAIN fstack' :
           i \in DOMAIN fstack /\ fstack'[i].triple = fstack[i].triple
             /\ (i # Len(fstack) => fstack'[i] = fstack[i])
  <2>1. <<>> \in Text
    BY DEF Text
  <2> QED
    BY <1>1, <1>f, <2>1, SetLinesFacts DEF PreviousLines
<1>2. TypeOK'
  <2>1. read' \in Nat /\ kind' \in Kinds
    BY <1>1 DEF TypeOK, PreviousLines, line
  <2>2. /\ last' \in TextTypes \cup {"INDENT", "DEDENT", "ERROR_DEDENT", "ENDMARKER", "start"}
        /\ count' \in Nat
    BY <1>1 DEF TypeOK, TextTypes, Yield, PreviousLines
  <2>3. yielded' \in Text
    BY <1>1, <1>f DEF TypeOK, Text, Yield, PreviousLines
  <2> QED
    BY <1>1, <1>t, <2>2, <2>3 DEF TypeOK, PreviousLines, line, strings
<1>3. IndentsIncrease' /\ AssertionHolds'
  BY DEF Inv, IndentsIncrease, AssertionHolds, PreviousLines
<1>4. FStringsOK'
  BY <1>1 DEF FStringsOK, Tos, SetTos, PreviousLines, SetLines
<1>5. LineOK'
  BY <1>t DEF LineOK, Indenting, Virtual, Nested, Yield, PreviousLines
<1>6. LastOK'
  BY DEF LastOK, Yield, PreviousLines
<1>7. StatementsAligned'
  BY DEF StatementsAligned, PreviousLines
<1>8. Step
  BY <1>1, TextPromised DEF Depth, LastOK, TextTypes, PreviousLines
<1> QED
  BY <1>2, <1>3, <1>4, <1>5, <1>6, <1>7, <1>8 DEF Inv

\* A keyword breaks brackets off.
LEMMA BreakStep ==
  ASSUME Inv, Break
  PROVE  Inv' /\ Step
<1>1. TypeOK /\ FStringsOK /\ LineOK /\ LastOK
  BY DEF Inv
<1>2. TypeOK'
  BY <1>1 DEF TypeOK, PC, Break, Token, line, strings, output
<1>3. IndentsIncrease' /\ AssertionHolds'
  BY DEF Inv, IndentsIncrease, AssertionHolds, Break
<1>4. FStringsOK'
  BY DEF FStringsOK, Break
<1>5. LineOK'
  BY <1>1 DEF LineOK, Between, Quiet, Nested, Break, Token, line
<1>6. LastOK'
  BY <1>1 DEF LastOK, LineOK, Virtual, Break, Token, output
<1>7. StatementsAligned'
  BY DEF Inv, StatementsAligned, LineOK, Virtual, Break, Token, output
<1>8. Step
  BY DEF Step, Depth, Break, Token, output
<1> QED
  BY <1>2, <1>3, <1>4, <1>5, <1>6, <1>7, <1>8 DEF Inv

\* A name.
LEMMA NameStep ==
  ASSUME Inv, Name
  PROVE  Inv' /\ Step
<1>1. TypeOK /\ FStringsOK /\ LineOK /\ LastOK
  BY DEF Inv
<1>2. TypeOK'
  <2>1. /\ last' \in TextTypes \cup {"INDENT", "DEDENT", "ERROR_DEDENT", "ENDMARKER", "start"}
        /\ count' \in Nat
    BY <1>1 DEF TypeOK, TextTypes, Yield, Name, Emit
  <2>2. yielded' \in Text
    BY <1>1 DEF TypeOK, Text, Yield, Name, Emit
  <2>3. /\ pc' \in PC /\ line' \in Nat \X Kinds \X Columns \X BOOLEAN
        /\ newLine' \in BOOLEAN /\ parens' \in Nat
    BY <1>1 DEF TypeOK, PC, Name, Emit, line
  <2>4. fstack' \in Seq(FStringNode)
    BY <1>1 DEF TypeOK, Name
  <2>5. indents' \in Seq(Columns) /\ indents' # <<>>
    BY <1>1 DEF TypeOK, Name, Emit
  <2>6. addPrefix' \in Text /\ prefix' \in Text /\ contstr' \in Text
    BY <1>1 DEF TypeOK, Text, Name, Emit
  <2> QED
    BY <2>1, <2>2, <2>3, <2>4, <2>5, <2>6 DEF TypeOK, line
<1>3. IndentsIncrease' /\ AssertionHolds'
  BY DEF Inv, IndentsIncrease, AssertionHolds, Name, Emit
<1>4. FStringsOK'
  BY <1>1 DEF FStringsOK, Name, Token, Emit
<1>5. LineOK'
  BY <1>1 DEF LineOK, Between, Indenting, Virtual, Quiet, Yield, Name, Token, Emit
<1>6. LastOK'
  BY DEF LastOK, Yield, Name, Emit
<1>7. StatementsAligned'
  BY DEF StatementsAligned, Name, Emit
<1>8. Step
  BY <1>1, TextPromised DEF Depth, LastOK, TextTypes, Name, Token, Emit
<1> QED
  BY <1>2, <1>3, <1>4, <1>5, <1>6, <1>7, <1>8 DEF Inv

\* The end of a line, which may end f-strings and the statement.
LEMMA NewlineStep ==
  ASSUME Inv, Newline
  PROVE  Inv' /\ Step
<1>1. TypeOK /\ FStringsOK /\ LineOK /\ LastOK
  BY DEF Inv
<1>2. TypeOK'
  <2>1. Append(addPrefix, read) \in Text
    BY <1>1, TextFacts DEF TypeOK
  <2>2. fstack' \in Seq(FStringNode)
    BY <1>1 DEF TypeOK, Newline
  <2>3. CASE ~newLine /\ parens = 0 /\ fstack' = <<>>
    <3>1. last' = "NEWLINE" /\ count' \in Nat /\ yielded' \in Text
      BY <1>1, <2>1, <2>3, YieldTypes DEF Newline
    <3> QED
      BY <1>1, <2>2, <2>3, <3>1, TextFacts DEF TypeOK, PC, TextTypes, Newline
  <2>4. CASE ~(~newLine /\ parens = 0 /\ fstack' = <<>>)
    BY <1>1, <2>1, <2>2, <2>4 DEF TypeOK, PC, Newline, Postpone, output
  <2> QED
    BY <2>3, <2>4
<1>3. IndentsIncrease' /\ AssertionHolds'
  BY DEF Inv, IndentsIncrease, AssertionHolds, Newline, Postpone
<1>4. FStringsOK'
  BY <1>1 DEF FStringsOK, Newline, Token
<1>5. LineOK'
  BY <1>1
     DEF TypeOK, LineOK, FStringsOK, Indenting, Nested, Yield, Newline, Token, Postpone,
         output
<1>6. LastOK'
  BY <1>1 DEF LastOK, Quiet, Yield, Newline, Token, Postpone, output
<1>7. StatementsAligned'
  BY DEF StatementsAligned, Newline, Postpone
<1>8. Step
  BY <1>1, TextPromised
     DEF Step, Depth, LastOK, LineOK, Between, Quiet, TextTypes, Newline, Token, Postpone,
         output
<1> QED
  BY <1>2, <1>3, <1>4, <1>5, <1>6, <1>7, <1>8 DEF Inv

\* A comment is part of a prefix, but in an f-string.
LEMMA CommentStep ==
  ASSUME Inv, Comment
  PROVE  Inv' /\ Step
<1>1. TypeOK /\ FStringsOK /\ LineOK /\ LastOK
  BY DEF Inv
<1>2. TypeOK'
  <2>1. Append(addPrefix, read) \in Text
    BY <1>1, TextFacts DEF TypeOK
  <2>2. CASE fstack # <<>>
    <3>1. last' = "ERRORTOKEN" /\ count' \in Nat /\ yielded' \in Text
      BY <1>1, <2>1, <2>2, YieldTypes DEF Comment, Emit
    <3> QED
      BY <1>1, <2>2, <3>1, TextFacts DEF TypeOK, PC, TextTypes, Comment, Emit
  <2>3. CASE fstack = <<>>
    <3>1. addPrefix' \in Text /\ pc' = "scan" /\ bol' = FALSE /\ UNCHANGED newLine
      BY <2>1, <2>3 DEF Comment, Postpone
    <3>2. UNCHANGED <<read, kind, col, parens, fstack, indents, prefix, contstr,
                       last, count, yielded>>
      BY <2>3 DEF Comment, Postpone, output
    <3> QED
      BY <1>1, <3>1, <3>2 DEF TypeOK, PC
  <2> QED
    BY <2>2, <2>3
<1>3. IndentsIncrease' /\ AssertionHolds'
  BY DEF Inv, IndentsIncrease, AssertionHolds, Comment, Emit, Postpone
<1>4. FStringsOK'
  BY <1>1 DEF FStringsOK, Comment, Token, Emit
<1>5. LineOK'
  BY <1>1
     DEF LineOK, Between, Indenting, Virtual, Quiet, Nested, Yield, Comment, Token, Emit,
         Postpone, output
<1>6. LastOK'
  BY <1>1 DEF LastOK, Quiet, Yield, Comment, Token, Emit, Postpone, output
<1>7. StatementsAligned'
  BY DEF StatementsAligned, Comment, Emit, Postpone
<1>8. Step
  BY <1>1, TextPromised
     DEF Step, Depth, LastOK, TextTypes, Comment, Token, Emit, Postpone, output
<1> QED
  BY <1>2, <1>3, <1>4, <1>5, <1>6, <1>7, <1>8 DEF Inv

\* A line that goes on.
LEMMA BackslashStep ==
  ASSUME Inv, Backslash
  PROVE  Inv' /\ Step
<1>1. TypeOK /\ FStringsOK /\ LineOK /\ LastOK
  BY DEF Inv
<1>2. TypeOK'
  BY <1>1 DEF TypeOK, PC, Text, Backslash, Token, Postpone, output
<1>3. IndentsIncrease' /\ AssertionHolds'
  BY DEF Inv, IndentsIncrease, AssertionHolds, Backslash, Postpone
<1>4. FStringsOK'
  BY <1>1 DEF FStringsOK, Backslash, Token
<1>5. LineOK'
  BY <1>1 DEF LineOK, Between, Indenting, Quiet, Nested, Backslash, Token, Postpone, output
<1>6. LastOK'
  BY <1>1 DEF LastOK, Quiet, Backslash, Token, Postpone, output
<1>7. StatementsAligned'
  BY DEF StatementsAligned, Backslash, Postpone
<1>8. Step
  BY DEF Step, Depth, Backslash, Token, Postpone, output
<1> QED
  BY <1>2, <1>3, <1>4, <1>5, <1>6, <1>7, <1>8 DEF Inv

\* What no pattern matches.
LEMMA IllegalStep ==
  ASSUME Inv, Illegal
  PROVE  Inv' /\ Step
<1>1. TypeOK /\ FStringsOK /\ LineOK /\ LastOK
  BY DEF Inv
<1>2. TypeOK'
  <2>1. /\ last' \in TextTypes \cup {"INDENT", "DEDENT", "ERROR_DEDENT", "ENDMARKER", "start"}
        /\ count' \in Nat
    BY <1>1 DEF TypeOK, TextTypes, Yield, Illegal, Emit
  <2>2. yielded' \in Text
    BY <1>1 DEF TypeOK, Text, Yield, Illegal, Emit
  <2>3. /\ pc' \in PC /\ line' \in Nat \X Kinds \X Columns \X BOOLEAN
        /\ newLine' \in BOOLEAN /\ parens' \in Nat
    BY <1>1 DEF TypeOK, PC, Illegal, Emit, line
  <2>4. fstack' \in Seq(FStringNode)
    BY <1>1 DEF TypeOK, Illegal
  <2>5. indents' \in Seq(Columns) /\ indents' # <<>>
    BY <1>1 DEF TypeOK, Illegal, Emit
  <2>6. addPrefix' \in Text /\ prefix' \in Text /\ contstr' \in Text
    BY <1>1 DEF TypeOK, Text, Illegal, Emit
  <2> QED
    BY <2>1, <2>2, <2>3, <2>4, <2>5, <2>6 DEF TypeOK, line
<1>3. IndentsIncrease' /\ AssertionHolds'
  BY DEF Inv, IndentsIncrease, AssertionHolds, Illegal, Emit
<1>4. FStringsOK'
  BY <1>1 DEF FStringsOK, Illegal, Token, Emit
<1>5. LineOK'
  BY <1>1 DEF LineOK, Between, Indenting, Virtual, Quiet, Yield, Illegal, Token, Emit
<1>6. LastOK'
  BY DEF LastOK, Yield, Illegal, Emit
<1>7. StatementsAligned'
  BY DEF StatementsAligned, Illegal, Emit
<1>8. Step
  BY <1>1, TextPromised DEF Depth, LastOK, TextTypes, Illegal, Token, Emit
<1> QED
  BY <1>2, <1>3, <1>4, <1>5, <1>6, <1>7, <1>8 DEF Inv

\* An f-string begins.
LEMMA StartFStringStep ==
  ASSUME Inv, StartFString
  PROVE  Inv' /\ Step
<1>1. TypeOK /\ FStringsOK /\ LineOK /\ LastOK
  BY DEF Inv
<1>2. TypeOK'
  <2>1. /\ last' \in TextTypes \cup {"INDENT", "DEDENT", "ERROR_DEDENT", "ENDMARKER", "start"}
        /\ count' \in Nat
    BY <1>1 DEF TypeOK, TextTypes, Yield, StartFString, Emit
  <2>2. yielded' \in Text
    BY <1>1 DEF TypeOK, Text, Yield, StartFString, Emit
  <2>3. /\ pc' \in PC /\ line' \in Nat \X Kinds \X Columns \X BOOLEAN
        /\ newLine' \in BOOLEAN /\ parens' \in Nat
    BY <1>1 DEF TypeOK, PC, StartFString, Emit, line
  <2>4. fstack' \in Seq(FStringNode)
    BY <1>1 DEF TypeOK, FStringNode, Text, StartFString
  <2>5. indents' \in Seq(Columns) /\ indents' # <<>>
    BY <1>1 DEF TypeOK, StartFString, Emit
  <2>6. addPrefix' \in Text /\ prefix' \in Text /\ contstr' \in Text
    BY <1>1 DEF TypeOK, Text, StartFString, Emit
  <2> QED
    BY <2>1, <2>2, <2>3, <2>4, <2>5, <2>6 DEF TypeOK, line
<1>3. IndentsIncrease' /\ AssertionHolds'
  BY DEF Inv, IndentsIncrease, AssertionHolds, StartFString, Emit
<1>4. FStringsOK'
  <2>1. PICK node : node.lines = <<>> /\ fstack' = Append(fstack, node)
    BY DEF StartFString
  <2>2. \A i \in DOMAIN fstack' : (i \in DOMAIN fstack /\ fstack'[i] = fstack[i]) \/ fstack'[i] = node
    BY <2>1
  <2>3. \A i \in DOMAIN fstack : fstack[i].lines = <<>>
    BY <1>1 DEF FStringsOK, StartFString, Token
  <2>4. ~newLine'
    BY <1>1 DEF LineOK, Between, Quiet, StartFString, Token, Emit
  <2> QED
    BY <2>1, <2>3, <2>4 DEF FStringsOK
<1>5. LineOK'
  BY DEF LineOK, Indenting, Virtual, Nested, Yield, StartFString, Emit
<1>6. LastOK'
  BY DEF LastOK, Yield, StartFString, Emit
<1>7. StatementsAligned'
  BY DEF StatementsAligned, StartFString, Emit
<1>8. Step
  BY <1>1, TextPromised DEF Depth, LastOK, TextTypes, StartFString, Token, Emit
<1> QED
  BY <1>2, <1>3, <1>4, <1>5, <1>6, <1>7, <1>8 DEF Inv

\* An operator changes what the innermost f-string counts; no f-string holds lines then.
LEMMA OperatorFStrings ==
  ASSUME TypeOK, FStringsOK, Operator
  PROVE  /\ fstack' \in Seq(FStringNode) /\ Len(fstack') = Len(fstack)
         /\ \A i \in DOMAIN fstack' : fstack'[i].lines = <<>>
<1>n. Token("op") \/ Token("open") \/ Token("close") \/ Token("colon")
  BY DEF Operator
<1>1. CASE fstack = <<>>
  BY <1>1 DEF Operator
<1>2. CASE fstack # <<>>
  <2>1. Tos \in FStringNode /\ Tos.lines = <<>>
    BY <1>n, <1>2, TosFacts DEF FStringsOK, Token, Tos
  <2>2. PICK node \in FStringNode : SetTos(node) /\ node.lines = <<>>
    <3>1. CASE kind = "open"
      BY <1>2, <2>1, <3>1 DEF Operator, FStringNode
    <3>2. CASE kind = "close"
      <4>1. Closed(Tos) \in FStringNode /\ Closed(Tos).lines = <<>>
        <5>1. Closed(Tos) = [Tos EXCEPT !.parens = Tos.parens - 1,
                                        !.specs = IF Tos.parens = 1 THEN 0 ELSE Tos.specs]
          BY DEF Closed
        <5>2. Closed(Tos) = [triple |-> Tos.triple, parens |-> Tos.parens - 1,
                             specs |-> IF Tos.parens = 1 THEN 0 ELSE Tos.specs,
                             lines |-> Tos.lines]
          BY <2>1, <5>1 DEF FStringNode
        <5> QED
          BY <2>1, <5>2 DEF FStringNode
      <4> QED
        BY <1>2, <3>2, <4>1 DEF Operator
    <3>3. CASE kind = "colon" /\ Tos.parens - Tos.specs = 1
      BY <1>2, <2>1, <3>3 DEF Operator, FStringNode
    <3>4. CASE kind \notin {"open", "close"} /\ ~(kind = "colon" /\ Tos.parens - Tos.specs = 1)
      BY <1>2, <2>1, <3>4 DEF Operator
    <3> QED
      BY <3>1, <3>2, <3>3, <3>4
  <2>3. /\ fstack' \in Seq(FStringNode) /\ Len(fstack') = Len(fstack)
        /\ fstack'[Len(fstack)] = node
        /\ \A i \in 1 .. Len(fstack) - 1 : fstack'[i] = fstack[i]
    BY <1>2, <2>2, SetTosFacts DEF TypeOK
  <2> QED
    BY <2>2, <2>3 DEF FStringsOK
<1> QED
  BY <1>1, <1>2

\* Operators and brackets.
LEMMA OperatorStep ==
  ASSUME Inv, Operator
  PROVE  Inv' /\ Step
<1>1. TypeOK /\ FStringsOK /\ LineOK /\ LastOK
  BY DEF Inv
<1>n. Token("op") \/ Token("open") \/ Token("close") \/ Token("colon")
  BY DEF Operator
<1>w. ~newLine /\ UNCHANGED newLine
  BY <1>1 DEF LineOK, Between, Quiet, Token, Operator, Emit
<1>f. /\ fstack' \in Seq(FStringNode) /\ Len(fstack') = Len(fstack)
      /\ \A i \in DOMAIN fstack' : fstack'[i].lines = <<>>
  BY <1>1, OperatorFStrings
<1>2. TypeOK'
  <2>1. parens' \in Nat
    BY <1>1 DEF TypeOK, Operator, Bracketed
  <2>2. last' = "OP" /\ count' \in Nat /\ yielded' \in Text
    BY <1>1, YieldTypes, TextFacts DEF TypeOK, Operator, Emit
  <2> QED
    BY <1>1, <1>f, <2>1, <2>2, TextFacts DEF TypeOK, PC, TextTypes, Operator, Emit
<1>3. IndentsIncrease' /\ AssertionHolds'
  BY DEF Inv, IndentsIncrease, AssertionHolds, Operator, Emit
<1>4. FStringsOK'
  BY <1>f, <1>w DEF FStringsOK
<1>5. LineOK'
  BY <1>1 DEF LineOK, Between, Indenting, Virtual, Quiet, Yield, Operator, Token, Emit
<1>6. LastOK'
  BY DEF LastOK, Yield, Operator, Emit
<1>7. StatementsAligned'
  BY DEF StatementsAligned, Operator, Emit
<1>8. Step
  BY <1>1, TextPromised DEF Depth, LastOK, TextTypes, Operator, Token, Emit
<1> QED
  BY <1>2, <1>3, <1>4, <1>5, <1>6, <1>7, <1>8 DEF Inv

\* A string over several lines begins.
LEMMA StartStringStep ==
  ASSUME Inv, StartString
  PROVE  Inv' /\ Step
<1>1. TypeOK /\ FStringsOK /\ LineOK /\ LastOK
  BY DEF Inv
<1>2. TypeOK'
  BY <1>1 DEF TypeOK, PC, Text, StartString, Token, line, output
<1>3. IndentsIncrease' /\ AssertionHolds'
  BY DEF Inv, IndentsIncrease, AssertionHolds, StartString
<1>4. FStringsOK'
  BY <1>1 DEF FStringsOK, StartString, Token
<1>5. LineOK'
  BY <1>1 DEF LineOK, Between, Indenting, Quiet, StartString, Token
<1>6. LastOK'
  BY <1>1 DEF LastOK, StartString, Token, output
<1>7. StatementsAligned'
  BY DEF StatementsAligned, StartString
<1>8. Step
  BY DEF Step, Depth, StartString, Token, output
<1> QED
  BY <1>2, <1>3, <1>4, <1>5, <1>6, <1>7, <1>8 DEF Inv

\* It goes on.
LEMMA ContinueStringStep ==
  ASSUME Inv, ContinueString
  PROVE  Inv' /\ Step
<1>1. TypeOK /\ FStringsOK /\ LineOK /\ LastOK
  BY DEF Inv
<1>2. TypeOK'
  BY <1>1 DEF TypeOK, Kinds, Text, ContinueString, ReadLexeme, output
<1>3. IndentsIncrease' /\ AssertionHolds'
  BY DEF Inv, IndentsIncrease, AssertionHolds, ContinueString
<1>4. FStringsOK'
  BY <1>1 DEF FStringsOK, ContinueString
<1>5. LineOK'
  BY <1>1 DEF LineOK, Between, Indenting, ContinueString
<1>6. LastOK'
  BY <1>1 DEF LastOK, ContinueString, output
<1>7. StatementsAligned'
  BY DEF StatementsAligned, ContinueString
<1>8. Step
  BY DEF Step, Depth, ContinueString, output
<1> QED
  BY <1>2, <1>3, <1>4, <1>5, <1>6, <1>7, <1>8 DEF Inv

\* It ends.
LEMMA EndStringStep ==
  ASSUME Inv, EndString
  PROVE  Inv' /\ Step
<1>1. TypeOK /\ FStringsOK /\ LineOK /\ LastOK
  BY DEF Inv
<1>2. TypeOK'
  <2>1. read' \in Nat /\ kind' \in Kinds
    BY <1>1 DEF TypeOK, Kinds, EndString, ReadLexeme
  <2>2. last' = "STRING" /\ count' \in Nat /\ yielded' \in Text
    BY <1>1, <2>1, YieldTypes, TextFacts DEF TypeOK, EndString, StringSoFar
  <2> QED
    BY <1>1, <2>1, <2>2, TextFacts DEF TypeOK, PC, TextTypes, EndString
<1>3. IndentsIncrease' /\ AssertionHolds'
  BY DEF Inv, IndentsIncrease, AssertionHolds, EndString
<1>4. FStringsOK'
  BY <1>1 DEF FStringsOK, EndString
<1>5. LineOK'
  BY <1>1 DEF LineOK, Between, Indenting, Virtual, Yield, EndString
<1>6. LastOK'
  BY DEF LastOK, Yield, EndString
<1>7. StatementsAligned'
  BY DEF StatementsAligned, EndString
<1>8. Step
  BY <1>1, TextPromised DEF Depth, LastOK, TextTypes, EndString
<1> QED
  BY <1>2, <1>3, <1>4, <1>5, <1>6, <1>7, <1>8 DEF Inv

\* A byte order mark.
LEMMA BomStep ==
  ASSUME Inv, Bom
  PROVE  Inv' /\ Step
<1>1. TypeOK /\ FStringsOK /\ LineOK /\ LastOK
  BY DEF Inv
<1>2. TypeOK'
  BY <1>1 DEF TypeOK, Kinds, Text, Bom, ReadLexeme, output
<1>3. IndentsIncrease' /\ AssertionHolds'
  BY DEF Inv, IndentsIncrease, AssertionHolds, Bom
<1>4. FStringsOK'
  BY <1>1 DEF FStringsOK, Tos, Bom
<1>5. LineOK'
  BY <1>1 DEF LineOK, Between, Indenting, Nested, Bom, output
<1>6. LastOK'
  BY <1>1 DEF LastOK, Bom, output
<1>7. StatementsAligned'
  BY DEF StatementsAligned, Bom
<1>8. Step
  BY DEF Step, Depth, Bom, output
<1> QED
  BY <1>2, <1>3, <1>4, <1>5, <1>6, <1>7, <1>8 DEF Inv

\* Only spaces are left.
LEMMA BlankStep ==
  ASSUME Inv, Blank
  PROVE  Inv' /\ Step
<1>1. TypeOK /\ FStringsOK /\ LineOK /\ LastOK
  BY DEF Inv
<1>2. TypeOK'
  BY <1>1 DEF TypeOK, PC, Kinds, Text, Blank, ReadLexeme, output
<1>3. IndentsIncrease' /\ AssertionHolds'
  BY DEF Inv, IndentsIncrease, AssertionHolds, Blank
<1>4. FStringsOK'
  BY <1>1 DEF FStringsOK, Tos, Blank
<1>5. LineOK'
  BY DEF LineOK, Between, Indenting, Blank
<1>6. LastOK'
  BY <1>1 DEF LastOK, Blank, output
<1>7. StatementsAligned'
  BY DEF StatementsAligned, Blank
<1>8. Step
  BY DEF Step, Depth, Blank, output
<1> QED
  BY <1>2, <1>3, <1>4, <1>5, <1>6, <1>7, <1>8 DEF Inv

\* No lines are left.
LEMMA NoMoreLinesStep ==
  ASSUME Inv, NoMoreLines
  PROVE  Inv' /\ Step
<1>1. TypeOK /\ FStringsOK /\ LineOK /\ LastOK
  BY DEF Inv
<1>2. TypeOK'
  BY <1>1 DEF TypeOK, PC, NoMoreLines, line, strings, output
<1>3. IndentsIncrease' /\ AssertionHolds'
  BY DEF Inv, IndentsIncrease, AssertionHolds, NoMoreLines
<1>4. FStringsOK'
  BY <1>1 DEF FStringsOK, Tos, NoMoreLines
<1>5. LineOK'
  BY DEF LineOK, Between, Indenting, NoMoreLines
<1>6. LastOK'
  BY <1>1 DEF LastOK, NoMoreLines, strings, output
<1>7. StatementsAligned'
  BY DEF StatementsAligned, NoMoreLines
<1>8. Step
  BY DEF Step, Depth, NoMoreLines, output
<1> QED
  BY <1>2, <1>3, <1>4, <1>5, <1>6, <1>7, <1>8 DEF Inv

\* A string that has not ended.
LEMMA UnfinishedStringStep ==
  ASSUME Inv, UnfinishedString
  PROVE  Inv' /\ Step
<1>1. TypeOK /\ FStringsOK /\ LineOK /\ LastOK
  BY DEF Inv
<1>2. TypeOK'
  <2>1. CASE contstr # <<>>
    <3>1. last' = "ERRORTOKEN" /\ count' \in Nat /\ yielded' \in Text
      BY <1>1, <2>1, YieldTypes, TextFacts DEF TypeOK, UnfinishedString, StringSoFar
    <3> QED
      BY <1>1, <3>1 DEF TypeOK, PC, TextTypes, UnfinishedString, line, strings
  <2>2. CASE contstr = <<>>
    BY <1>1, <2>2 DEF TypeOK, PC, UnfinishedString, line, strings, output
  <2> QED
    BY <2>1, <2>2
<1>3. IndentsIncrease' /\ AssertionHolds'
  BY DEF Inv, IndentsIncrease, AssertionHolds, UnfinishedString
<1>4. FStringsOK'
  BY <1>1 DEF FStringsOK, Tos, UnfinishedString
<1>5. LineOK'
  BY DEF LineOK, Between, Indenting, UnfinishedString
<1>6. LastOK'
  BY <1>1 DEF LastOK, Yield, UnfinishedString, output
<1>7. StatementsAligned'
  BY DEF StatementsAligned, UnfinishedString
<1>8. Step
  BY <1>1, TextPromised DEF Step, Depth, LastOK, TextTypes, UnfinishedString, output
<1> QED
  BY <1>2, <1>3, <1>4, <1>5, <1>6, <1>7, <1>8 DEF Inv

\* The text of an f-string that has not ended.
LEMMA UnfinishedFStringStep ==
  ASSUME Inv, UnfinishedFString
  PROVE  Inv' /\ Step
<1>1. TypeOK /\ FStringsOK /\ LineOK /\ LastOK
  BY DEF Inv
<1>2. TypeOK'
  <2>1. CASE fstack # <<>> /\ Tos.lines # <<>>
    <3>1. last' = "FSTRING_STRING" /\ count' \in Nat /\ yielded' \in Text
      BY <1>1, <2>1, YieldTypes, TosFacts DEF UnfinishedFString
    <3> QED
      BY <1>1, <3>1 DEF TypeOK, PC, TextTypes, UnfinishedFString, line, strings
  <2>2. CASE ~(fstack # <<>> /\ Tos.lines # <<>>)
    BY <1>1, <2>2 DEF TypeOK, PC, UnfinishedFString, line, strings, output
  <2> QED
    BY <2>1, <2>2
<1>3. IndentsIncrease' /\ AssertionHolds'
  BY DEF Inv, IndentsIncrease, AssertionHolds, UnfinishedFString
<1>4. FStringsOK'
  BY <1>1 DEF FStringsOK, Tos, UnfinishedFString
<1>5. LineOK'
  BY DEF LineOK, Between, Indenting, UnfinishedFString
<1>6. LastOK'
  BY <1>1 DEF LastOK, Yield, UnfinishedFString, output
<1>7. StatementsAligned'
  BY DEF StatementsAligned, UnfinishedFString
<1>8. Step
  BY <1>1, TextPromised DEF Step, Depth, LastOK, TextTypes, UnfinishedFString, output
<1> QED
  BY <1>2, <1>3, <1>4, <1>5, <1>6, <1>7, <1>8 DEF Inv

\* The DEDENTs left over and the ENDMARKER.
LEMMA EndOfIndentsStep ==
  ASSUME Inv, EndOfIndents
  PROVE  Inv' /\ Step
<1>1. TypeOK /\ FStringsOK /\ LineOK /\ LastOK
  BY DEF Inv
<1>p. Len(indents) > 1 =>
       /\ indents' = Front(indents) /\ Yield("DEDENT", <<>>) /\ pc' = pc
       /\ indents' \in Seq(Columns) /\ indents' # <<>> /\ Len(indents') = Len(indents) - 1
       /\ IndentsIncrease'
  BY Popped DEF Inv, EndOfIndents
<1>q. ~(Len(indents) > 1) =>
        /\ indents' = indents
        /\ Yield("ENDMARKER", addPrefix) /\ pc' = "done"
  BY DEF EndOfIndents
<1>r. pc = "end of indents"
  BY DEF EndOfIndents
<1>s. Len(indents) \in Nat \ {0} /\ count \in Nat
  BY <1>1, ColumnFacts
<1>2. TypeOK'
  <2>1. last' \in {"DEDENT", "ENDMARKER"} /\ count' \in Nat /\ yielded' \in Text
    BY <1>1, <1>p, <1>q, YieldTypes, TextFacts DEF TypeOK
  <2> QED
    BY <1>1, <1>p, <2>1 DEF TypeOK, PC, EndOfIndents, line, strings
<1>3. IndentsIncrease' /\ AssertionHolds'
  <2>1. CASE Len(indents) > 1
    BY <1>p, <2>1 DEF AssertionHolds, EndOfIndents
  <2>2. CASE ~(Len(indents) > 1)
    BY <1>q, <2>2 DEF Inv, IndentsIncrease, AssertionHolds
  <2> QED
    BY <2>1, <2>2
<1>4. FStringsOK'
  BY <1>1 DEF FStringsOK, Tos, EndOfIndents
<1>5. LineOK'
  BY DEF LineOK, Between, Indenting, EndOfIndents
<1>6. LastOK'
  BY DEF LastOK, Yield, EndOfIndents
<1>7. StatementsAligned'
  BY DEF StatementsAligned, EndOfIndents
<1>8. Step
  <2>1. last \notin {"INDENT", "ERROR_DEDENT", "ENDMARKER"}
    BY <1>1 DEF LastOK, EndOfIndents
  <2>2. CASE Len(indents) > 1
    <3>1. last' = "DEDENT" /\ count' = count + 1 /\ Depth > 0 /\ Depth' = Depth - 1
      <4>1. Yield("DEDENT", <<>>) /\ pc' = "end of indents" /\ Len(indents') = Len(indents) - 1
        BY <1>p, <1>r, <2>2
      <4>2. Depth = Len(indents) - 1 /\ Depth' = Len(indents') - 1
        BY <1>r, <4>1 DEF Depth
      <4>3. last' = "DEDENT" /\ count' = count + 1
        BY <4>1 DEF Yield
      <4>4. Len(indents) - 1 > 0 /\ Len(indents') - 1 = (Len(indents) - 1) - 1
        <5>1. Len(indents') = Len(indents) - 1
          BY <4>1
        <5> QED
          BY <2>2, <5>1
      <4> QED
        BY <4>2, <4>3, <4>4
    <3>2. last # "start"
      BY <1>1, <2>2 DEF LastOK
    <3>3. Stream!Promised("DEDENT")
      BY <2>1, <3>1, <3>2 DEF Stream!Promised, Stream!YieldDedent
    <3> QED
      BY <3>3 DEF Step, Stream!StreamNext, Stream!Tokens, Stream!VirtualTokens
  <2>3. CASE ~(Len(indents) > 1)
    <3>1. last' = "ENDMARKER" /\ count' = count + 1 /\ Depth = 0 /\ Depth' = 0
      <4>1. Yield("ENDMARKER", addPrefix) /\ pc' = "done" /\ indents' = indents
        BY <1>q, <2>3
      <4>2. Depth = Len(indents) - 1 /\ Depth' = Len(indents') - 1
        BY <1>r, <4>1 DEF Depth
      <4> QED
        BY <1>s, <2>3, <4>1, <4>2 DEF Yield
    <3>2. Stream!Promised("ENDMARKER")
      BY <2>1, <3>1 DEF Stream!Promised, Stream!YieldEndmarker
    <3> QED
      BY <3>2 DEF Step, Stream!StreamNext, Stream!Tokens
  <2> QED
    BY <2>2, <2>3
<1> QED
  BY <1>2, <1>3, <1>4, <1>5, <1>6, <1>7, <1>8 DEF Inv

-----------------------------------------------------------------------------
(* The invariant.                                                           *)

\* It holds before the first line.
LEMMA InitInv == Init => Inv
BY TokenizerAssumption
   DEF Init, Inv, TypeOK, IndentsIncrease, FStringsOK, LineOK, LastOK, AssertionHolds,
       StatementsAligned, PC, Kinds, Text, Between, Indenting, Virtual, Quiet, Nested

\* Nothing that it speaks of changes in a stuttering step.
LEMMA Stuttering == ASSUME Inv, UNCHANGED vars PROVE Inv' /\ UNCHANGED <<last, Depth, count>>
<1>1. UNCHANGED <<pc, read, kind, col, bol, newLine, parens, fstack, indents, addPrefix, prefix,
                  contstr, last, count, yielded>>
  BY DEF vars, line, strings, output
<1>2. TypeOK' /\ IndentsIncrease' /\ AssertionHolds'
  BY <1>1 DEF Inv, TypeOK, IndentsIncrease, AssertionHolds
<1>3. FStringsOK'
  BY <1>1 DEF Inv, FStringsOK, Tos, IsInExpr
<1>4. LineOK' /\ LastOK' /\ StatementsAligned'
  BY <1>1 DEF Inv, LineOK, LastOK, StatementsAligned, AboveBelow, Between, Indenting, Nested
<1>5. UNCHANGED <<last, Depth, count>>
  BY <1>1 DEF Depth
<1> QED
  BY <1>2, <1>3, <1>4, <1>5 DEF Inv

\* Every step keeps it.
LEMMA NextInv == Inv /\ [Next]_vars => Inv' /\ Step
<1>1. SUFFICES ASSUME Inv, Next \/ UNCHANGED vars PROVE Inv' /\ Step
  OBVIOUS
<1>2. CASE UNCHANGED vars
  BY <1>1, <1>2, Stuttering DEF Step
<1>3. CASE Next
  <2>1. CASE \/ FStringString \/ FStringLine \/ PreviousLines
             \/ \E i \in DOMAIN fstack : CloseFString(i)
    BY <1>1, <2>1, FStringStringStep, FStringLineStep, PreviousLinesStep, CloseFStringStep
  <2>2. CASE \E k \in PlainKinds \cup {"colon"}, c \in Columns : PseudoMatch(k, c)
    BY <1>1, <2>2, PseudoMatchStep
  <2>3. CASE \/ Indent \/ AppendIndent \/ Dedent
             \/ ErrorDedent \/ LowerIndent \/ NoMoreDedents
    BY <1>1, <2>3, IndentStep, AppendIndentStep, DedentStep, ErrorDedentStep,
       LowerIndentStep, NoMoreDedentsStep
  <2>4. CASE \/ Break \/ Name \/ Newline \/ Comment
             \/ Backslash \/ Illegal \/ StartFString \/ Operator
    BY <1>1, <2>4, BreakStep, NameStep, NewlineStep, CommentStep, BackslashStep,
       IllegalStep, StartFStringStep, OperatorStep
  <2>5. CASE StartString \/ ContinueString \/ EndString
    BY <1>1, <2>5, StartStringStep, ContinueStringStep, EndStringStep
  <2>6. CASE \/ Bom \/ Blank \/ NoMoreLines
             \/ UnfinishedString \/ UnfinishedFString \/ EndOfIndents
    BY <1>1, <2>6, BomStep, BlankStep, NoMoreLinesStep, UnfinishedStringStep,
       UnfinishedFStringStep, EndOfIndentsStep
  <2> QED
    BY <1>3, <2>1, <2>2, <2>3, <2>4, <2>5, <2>6 DEF Next
<1> QED
  BY <1>1, <1>2, <1>3

\* The inductive invariant of tokenize_lines.
THEOREM InvHolds == Spec => []Inv
BY InitInv, NextInv, PTL DEF Spec

-----------------------------------------------------------------------------
\* The variables hold what the code keeps in them, whatever the columns, and
\* the indents are never all popped.
THEOREM TypeCorrect == Spec => []TypeOK
<1>1. Inv => TypeOK
  BY DEF Inv
<1> QED
  BY <1>1, InvHolds, PTL

\* indents of tokenize_lines rises from column 0, so that the loop in
\* dedent_if_necessary finds the column below and ends.
THEOREM IndentsRise == Spec => []IndentsIncrease
<1>1. Inv => IndentsIncrease
  BY DEF Inv
<1> QED
  BY <1>1, InvHolds, PTL

\* The assertion of _close_fstring_if_necessary never fails.
THEOREM NoLinesLost == Spec => []AssertionHolds
<1>1. Inv => AssertionHolds
  BY DEF Inv
<1> QED
  BY <1>1, InvHolds, PTL

\* A statement begins at the column that indents ends with.
THEOREM Aligned == Spec => []StatementsAligned
<1>1. Inv => StatementsAligned
  BY DEF Inv
<1> QED
  BY <1>1, InvHolds, PTL

\* What tokenize_lines yields is what BaseParser.parse may rely on: every step
\* is one of TokenStream or none.
THEOREM PromiseKept == Spec => KeepsPromise
<1>1. Init => Stream!StreamInit
  BY DEF Init, Stream!StreamInit, Depth
<1>2. Step => [Stream!StreamNext]_(Stream!streamVars)
  BY DEF Step, Stream!streamVars
<1>3. Inv /\ [Next]_vars => [Stream!StreamNext]_(Stream!streamVars)
  BY <1>2, NextInv
<1> QED
  BY <1>1, <1>3, InvHolds, PTL DEF Spec, KeepsPromise, Stream!StreamSpec

-----------------------------------------------------------------------------
(* All of the text is yielded.                                              *)

\* The first n lexemes.
UpTo(n) == [i \in 1 .. n |-> i]

LinesOf(f) == IF f = <<>> THEN <<>> ELSE f[Len(f)].lines

WithToken == {"indent", "append", "dedent", "lower", "token"}

\* Held, as a function of the variables it depends on.
HeldIn(p, add, pre, cont, f, n) ==
  (IF p = "done" THEN <<>> ELSE add)
    \o (IF p \in {"cont", "eof"} /\ cont # <<>> THEN pre \o cont ELSE <<>>)
    \o (IF p \in {"end of indents", "done"} THEN <<>> ELSE LinesOf(f))
    \o (IF p \in WithToken THEN <<n>> ELSE <<>>)

\* At most one of additional_prefix, contstr and the innermost f-string holds
\* text; the lexeme that is about to be a token in the text of an f-string is
\* one that leaves its text with a token, or ends it.
HoldsOne ==
  /\ ~InCode => addPrefix = <<>>
  /\ contstr # <<>> => /\ addPrefix = <<>>
                       /\ pc \in {"cont", "eof", "end of text", "end of indents", "done"}
  /\ read = 0 => fstack = <<>> /\ pc \notin WithToken
  /\ pc = "token" /\ ~InCode =>
       kind \in {"open", "close", "illegal"} \/ (kind = "newline" /\ ~Tos.triple)

TextInv == Inv /\ EverythingYielded /\ HoldsOne

\* What there is to know of concatenation.
LEMMA Concats ==
  /\ <<>> \in Text
  /\ \A s \in Text : s \o <<>> = s /\ <<>> \o s = s
  /\ \A s, t \in Text : s \o t \in Text
  /\ \A s, t, u \in Text : (s \o t) \o u = s \o (t \o u)
  /\ \A s \in Text, n \in Nat : <<n>> \in Text /\ Append(s, n) \in Text /\ s \o <<n>> = Append(s, n)
  /\ \A s, t \in Text, n \in Nat : s \o Append(t, n) = Append(s \o t, n)
<1>1. /\ <<>> \in Text
      /\ \A s \in Text : s \o <<>> = s /\ <<>> \o s = s
  BY ConcatEmptySeq DEF Text
<1>2. \A s, t \in Text : s \o t \in Text
  BY ConcatProperties DEF Text
<1>3. \A s, t, u \in Text : (s \o t) \o u = s \o (t \o u)
  BY ConcatAssociative DEF Text
<1>4. \A s \in Text, n \in Nat : <<n>> \in Text /\ Append(s, n) \in Text /\ s \o <<n>> = Append(s, n)
  BY DEF Text
<1>5. \A s, t \in Text, n \in Nat : s \o Append(t, n) = Append(s \o t, n)
  BY <1>2, <1>3, <1>4
<1> QED
  BY <1>1, <1>2, <1>3, <1>4, <1>5

LEMMA UpToFacts ==
  /\ \A n \in Nat : UpTo(n) \in Text /\ Len(UpTo(n)) = n
  /\ \A n \in Nat : UpTo(n + 1) = Append(UpTo(n), n + 1)
  /\ UpTo(0) = <<>>
<1>1. \A n \in Nat : UpTo(n) \in Text /\ Len(UpTo(n)) = n
  BY DEF UpTo, Text
<1>2. ASSUME NEW n \in Nat PROVE UpTo(n + 1) = Append(UpTo(n), n + 1)
  <2>1. /\ UpTo(n + 1) \in Seq(Nat) /\ Append(UpTo(n), n + 1) \in Seq(Nat)
        /\ Len(UpTo(n + 1)) = n + 1 /\ Len(Append(UpTo(n), n + 1)) = n + 1
    BY <1>1 DEF Text
  <2>2. \A i \in 1 .. n + 1 : UpTo(n + 1)[i] = Append(UpTo(n), n + 1)[i]
    BY <1>1 DEF UpTo, Text
  <2> QED
    BY <2>1, <2>2, SeqEqual
<1>3. UpTo(0) = <<>>
  BY <1>1 DEF Text
<1> QED
  BY <1>1, <1>2, <1>3

\* What is held, by where the tokenizer is.
HeldAs(held, p, add, pre, cont, f, n) ==
  /\ LinesOf(f) \in Text
  /\ p \in WithToken /\ LinesOf(f) = <<>> => held = Append(add, n)
  /\ p \in {"scan", "end of text"} => held = add \o LinesOf(f)
  /\ p = "cont" /\ cont # <<>> /\ add = <<>> /\ LinesOf(f) = <<>> => held = pre \o cont
  /\ p = "eof" /\ cont = <<>> => held = add \o LinesOf(f)
  /\ p = "eof" /\ cont # <<>> /\ add = <<>> => held = (pre \o cont) \o LinesOf(f)
  /\ p = "end of indents" => held = add
  /\ p = "done" => held = <<>>

LEMMA HeldFacts ==
  ASSUME NEW p, NEW add \in Text, NEW pre \in Text, NEW cont \in Text,
         NEW f \in Seq(FStringNode), NEW n \in Nat
  PROVE  HeldAs(HeldIn(p, add, pre, cont, f, n), p, add, pre, cont, f, n)
<1> DEFINE lines == LinesOf(f)
           held == HeldIn(p, add, pre, cont, f, n)
<1>1. lines \in Text
  <2>1. CASE f = <<>>
    BY <2>1, Concats DEF LinesOf
  <2>2. CASE f # <<>>
    <3>1. f[Len(f)] \in FStringNode
      BY <2>2
    <3> QED
      BY <2>2, <3>1 DEF LinesOf, FStringNode
  <2> QED
    BY <2>1, <2>2
<1>2. pre \o cont \in Text
  BY Concats
<1> HIDE DEF lines
<1>3. p \in WithToken /\ lines = <<>> => held = Append(add, n)
  <2> SUFFICES ASSUME p \in WithToken, lines = <<>> PROVE held = Append(add, n)
    OBVIOUS
  <2>1. held = ((add \o <<>>) \o <<>>) \o <<n>>
    BY DEF HeldIn, WithToken, lines
  <2> QED
    BY <2>1, Concats
<1>4. p \in {"scan", "end of text"} \/ (p = "eof" /\ cont = <<>>) => held = add \o lines
  <2> SUFFICES ASSUME p \in {"scan", "end of text"} \/ (p = "eof" /\ cont = <<>>)
               PROVE  held = add \o lines
    OBVIOUS
  <2>1. held = ((add \o <<>>) \o lines) \o <<>>
    BY DEF HeldIn, WithToken, lines
  <2> QED
    BY <1>1, <2>1, Concats
<1>5. p \in {"cont", "eof"} /\ cont # <<>> /\ add = <<>> => held = (pre \o cont) \o lines
  <2> SUFFICES ASSUME p \in {"cont", "eof"}, cont # <<>>, add = <<>>
               PROVE  held = (pre \o cont) \o lines
    OBVIOUS
  <2>1. held = ((<<>> \o (pre \o cont)) \o lines) \o <<>>
    BY DEF HeldIn, WithToken, lines
  <2> QED
    BY <1>1, <1>2, <2>1, Concats
<1>6. p = "end of indents" => held = add
  <2> SUFFICES ASSUME p = "end of indents" PROVE held = add
    OBVIOUS
  <2>1. held = ((add \o <<>>) \o <<>>) \o <<>>
    BY DEF HeldIn, WithToken
  <2> QED
    BY <2>1, Concats
<1>7. p = "done" => held = <<>>
  <2> SUFFICES ASSUME p = "done" PROVE held = <<>>
    OBVIOUS
  <2>1. held = ((<<>> \o <<>>) \o <<>>) \o <<>>
    BY DEF HeldIn, WithToken
  <2> QED
    BY <2>1, Concats
<1>8. p = "cont" /\ cont # <<>> /\ add = <<>> /\ lines = <<>> => held = pre \o cont
  <2> SUFFICES ASSUME p = "cont", cont # <<>>, add = <<>>, lines = <<>> PROVE held = pre \o cont
    OBVIOUS
  <2>1. held = (pre \o cont) \o <<>>
    BY <1>5
  <2> QED
    BY <1>2, <2>1, Concats
<1> HIDE DEF held
<1>9. /\ lines \in Text
      /\ p \in WithToken /\ lines = <<>> => held = Append(add, n)
      /\ p \in {"scan", "end of text"} => held = add \o lines
      /\ p = "cont" /\ cont # <<>> /\ add = <<>> /\ lines = <<>> => held = pre \o cont
      /\ p = "eof" /\ cont = <<>> => held = add \o lines
      /\ p = "eof" /\ cont # <<>> /\ add = <<>> => held = (pre \o cont) \o lines
      /\ p = "end of indents" => held = add
      /\ p = "done" => held = <<>>
  BY <1>1, <1>3, <1>4, <1>5, <1>6, <1>7, <1>8
<1> QED
  BY <1>9 DEF lines, held, HeldAs

\* Held is HeldIn of the variables, before and after a step.
LEMMA HeldVars ==
  /\ Held = HeldIn(pc, addPrefix, prefix, contstr, fstack, read)
  /\ Held' = HeldIn(pc', addPrefix', prefix', contstr', fstack', read')
BY DEF Held, HeldIn, LinesOf, WithToken, Tos

LEMMA HeldBefore ==
  ASSUME TextInv
  PROVE  LET lines == LinesOf(fstack)
         IN /\ TypeOK /\ FStringsOK /\ LineOK /\ HoldsOne
            /\ addPrefix \in Text /\ prefix \in Text /\ contstr \in Text /\ yielded \in Text
            /\ fstack \in Seq(FStringNode) /\ read \in Nat /\ lines \in Text
            /\ yielded \o Held = UpTo(read) /\ UpTo(read) \in Text
            /\ InCode => lines = <<>>
            /\ pc \in WithToken => Held = Append(addPrefix, read) /\ lines = <<>>
            /\ pc = "scan" => Held = addPrefix \o lines /\ contstr = <<>>
            /\ pc = "cont" => /\ Held = prefix \o contstr /\ contstr # <<>>
                              /\ addPrefix = <<>> /\ lines = <<>>
            /\ pc = "eof" /\ contstr = <<>> => Held = addPrefix \o lines
            /\ pc = "eof" /\ contstr # <<>> => Held = (prefix \o contstr) \o lines /\ addPrefix = <<>>
            /\ pc = "end of text" => Held = addPrefix \o lines
            /\ pc = "end of indents" => Held = addPrefix
            /\ pc = "done" => Held = <<>>
<1> DEFINE lines == LinesOf(fstack)
<1>1. TypeOK /\ FStringsOK /\ LineOK /\ AssertionHolds /\ HoldsOne
  BY DEF TextInv, Inv
<1>2. /\ addPrefix \in Text /\ prefix \in Text /\ contstr \in Text /\ yielded \in Text
      /\ fstack \in Seq(FStringNode) /\ read \in Nat /\ UpTo(read) \in Text
  BY <1>1, UpToFacts DEF TypeOK
<1>3. yielded \o Held = UpTo(read)
  BY <1>1 DEF TextInv, EverythingYielded, UpTo, AssertionHolds
<1>4. lines # <<>> => /\ fstack # <<>> /\ ~IsInExpr(Tos) /\ pc \notin {"token", "cont"}
  BY <1>1, <1>2, TosFacts DEF FStringsOK, LinesOf, Tos
<1>5. /\ InCode => lines = <<>>
      /\ pc \in WithToken \cup {"cont"} => lines = <<>>
  BY <1>1, <1>4 DEF InCode, LineOK, Indenting, Nested, WithToken
<1>6. /\ pc = "cont" => contstr # <<>>
      /\ contstr # <<>> => /\ addPrefix = <<>>
                           /\ pc \in {"cont", "eof", "end of text", "end of indents", "done"}
  BY <1>1 DEF LineOK, HoldsOne
<1>7. Held = HeldIn(pc, addPrefix, prefix, contstr, fstack, read)
  BY HeldVars
<1>8. HeldAs(Held, pc, addPrefix, prefix, contstr, fstack, read)
  BY <1>2, <1>7, HeldFacts
<1>9. contstr # <<>> => pc # "scan"
  BY <1>6
<1> QED
  BY <1>1, <1>2, <1>3, <1>5, <1>6, <1>8, <1>9 DEF HeldAs

\* What a step yields, and holds then, is what was held, and what was read.
LEMMA Accounted ==
  ASSUME TextInv, NEW out \in Text, Held \in Text, Held' \in Text,
         yielded' = yielded \o out \/ (out = <<>> /\ yielded' = yielded),
         \/ read' = read /\ out \o Held' = Held
         \/ read' = read + 1 /\ out \o Held' = Append(Held, read + 1)
  PROVE  EverythingYielded'
<1>1. yielded \in Text /\ read \in Nat /\ yielded \o Held = UpTo(read)
  BY HeldBefore
<1>2. yielded' = yielded \o out
  BY <1>1, Concats
<1>3. yielded' \o Held' = yielded \o (out \o Held')
  BY <1>1, <1>2, Concats
<1>4. CASE read' = read /\ out \o Held' = Held
  BY <1>1, <1>3, <1>4 DEF EverythingYielded, UpTo
<1>5. CASE read' = read + 1 /\ out \o Held' = Append(Held, read + 1)
  <2>1. read + 1 \in Nat
    BY <1>1
  <2> DEFINE held == Held
  <2> HIDE DEF held
  <2>2. held \in Text /\ yielded \o held = UpTo(read)
    BY <1>1 DEF held
  <2>3. yielded \o Append(held, read + 1) = Append(yielded \o held, read + 1)
    BY <1>1, <2>1, <2>2, Concats
  <2>4. yielded \o Append(Held, read + 1) = Append(UpTo(read), read + 1)
    BY <2>2, <2>3 DEF held
  <2>5. yielded' \o Held' = UpTo(read')
    BY <1>1, <1>3, <1>5, <2>4, UpToFacts
  <2> QED
    BY <2>5 DEF EverythingYielded, UpTo
<1> QED
  BY <1>4, <1>5

\* A token, or a line end that becomes none, is done with.
LEMMA TokenText ==
  ASSUME TextInv, Inv', pc = "token", pc' = "scan", read' = read, LinesOf(fstack') = <<>>,
         \/ yielded' = yielded \o Append(addPrefix, read) /\ addPrefix' = <<>>
         \/ yielded' = yielded /\ addPrefix' = Append(addPrefix, read)
  PROVE  EverythingYielded'
<1>1. /\ Held = Append(addPrefix, read) /\ read \in Nat /\ addPrefix \in Text /\ yielded \in Text
  BY HeldBefore DEF WithToken
<1>2. /\ addPrefix' \in Text /\ prefix' \in Text /\ contstr' \in Text
      /\ fstack' \in Seq(FStringNode) /\ read' \in Nat
  BY DEF Inv, TypeOK
<1>3. Held' = addPrefix' \o <<>>
  <2>1. HeldAs(Held', pc', addPrefix', prefix', contstr', fstack', read')
    BY <1>2, HeldVars, HeldFacts
  <2> QED
    BY <2>1 DEF HeldAs
<1>4. Held' = addPrefix' /\ Held \in Text /\ Append(addPrefix, read) \in Text
  BY <1>1, <1>2, <1>3, Concats
<1>5. CASE yielded' = yielded \o Append(addPrefix, read) /\ addPrefix' = <<>>
  <2>1. Append(addPrefix, read) \o <<>> = Held
    BY <1>1, <1>4, Concats
  <2> QED
    BY <1>1, <1>2, <1>4, <1>5, <2>1, Accounted
<1>6. CASE yielded' = yielded /\ addPrefix' = Append(addPrefix, read)
  <2>1. <<>> \o Held' = Held /\ <<>> \in Text
    BY <1>1, <1>4, <1>6, Concats
  <2> QED
    BY <1>1, <1>2, <1>4, <1>6, <2>1, Accounted
<1> QED
  BY <1>5, <1>6

\* A lexeme that is still to be a token stays that.
LEMMA PendingText ==
  ASSUME TextInv, Inv', pc \in WithToken, pc' \in WithToken, read' = read, addPrefix' = addPrefix,
         LinesOf(fstack') = <<>>, yielded' \in {yielded, yielded \o <<>>}
  PROVE  EverythingYielded'
<1>1. Held = Append(addPrefix, read) /\ read \in Nat /\ addPrefix \in Text /\ yielded \in Text
  BY HeldBefore
<1>2. /\ prefix' \in Text /\ contstr' \in Text /\ fstack' \in Seq(FStringNode)
  BY DEF Inv, TypeOK
<1>3. Held' = Append(addPrefix, read)
  <2>1. HeldAs(Held', pc', addPrefix', prefix', contstr', fstack', read')
    BY <1>1, <1>2, HeldVars, HeldFacts
  <2> QED
    BY <2>1 DEF HeldAs
<1>4. Held \in Text /\ <<>> \in Text /\ <<>> \o Held' = Held
  BY <1>1, <1>3, Concats
<1> QED
  BY <1>1, <1>3, <1>4, Accounted

\* What is held after a step, by where the tokenizer is then.
LEMMA HeldAfter ==
  ASSUME Inv'
  PROVE  /\ HeldAs(Held', pc', addPrefix', prefix', contstr', fstack', read')
         /\ addPrefix' \in Text /\ prefix' \in Text /\ contstr' \in Text
         /\ fstack' \in Seq(FStringNode) /\ read' \in Nat
<1>1. /\ addPrefix' \in Text /\ prefix' \in Text /\ contstr' \in Text
      /\ fstack' \in Seq(FStringNode) /\ read' \in Nat
  BY DEF Inv, TypeOK
<1> QED
  BY <1>1, HeldVars, HeldFacts

\* Indentation is compared, or f-strings are broken off, before the token.
LEMMA PendingSteps ==
  ASSUME TextInv, Inv',
         \/ Indent \/ AppendIndent \/ Dedent \/ ErrorDedent \/ LowerIndent \/ NoMoreDedents
         \/ Break
  PROVE  EverythingYielded' /\ HoldsOne'
<1>1. LineOK /\ HoldsOne
  BY HeldBefore
<1>2. /\ pc \in WithToken /\ pc' \in WithToken
      /\ read' = read /\ addPrefix' = addPrefix /\ contstr' = contstr
      /\ yielded' \in {yielded, yielded \o <<>>}
  BY DEF Indent, AppendIndent, Dedent, ErrorDedent, LowerIndent, NoMoreDedents, Break, Token,
         WithToken, Yield, line, strings, output
<1>3. fstack' = <<>>
  BY <1>1
     DEF Indent, AppendIndent, Dedent, ErrorDedent, LowerIndent, NoMoreDedents, Break,
         LineOK, Indenting, Nested
<1>4. EverythingYielded'
  BY <1>2, <1>3, PendingText DEF LinesOf
<1>5. InCode' /\ (read' = 0 => FALSE) /\ contstr' = <<>>
  BY <1>1, <1>2, <1>3 DEF HoldsOne, InCode, WithToken
<1> QED
  BY <1>4, <1>5 DEF HoldsOne

\* The lexeme is a token with the prefix collected, or the next part of it.
LEMMA TokenSteps ==
  ASSUME TextInv, Inv',
         Name \/ Newline \/ Comment \/ Backslash \/ Illegal \/ StartFString \/ Operator
  PROVE  EverythingYielded' /\ HoldsOne'
<1>1. /\ TypeOK /\ FStringsOK /\ HoldsOne
      /\ fstack \in Seq(FStringNode) /\ LinesOf(<<>>) = <<>>
  BY HeldBefore DEF LinesOf
<1>2. pc = "token" /\ pc' = "scan" /\ read' = read /\ contstr' = contstr
  BY DEF Name, Newline, Comment, Backslash, Illegal, StartFString, Operator, Token, Emit, Postpone
<1>3. read # 0 /\ contstr = <<>> /\ LinesOf(fstack) = <<>>
  BY <1>1, <1>2, HeldBefore DEF HoldsOne, WithToken
<1>4. LinesOf(fstack') = <<>>
  <2>1. CASE Name \/ Newline \/ Comment \/ Backslash \/ Illegal
    BY <1>1, <1>3, <2>1 DEF Name, Newline, Comment, Backslash, Illegal
  <2>2. CASE StartFString
    <3>1. PICK node : node.lines = <<>> /\ fstack' = Append(fstack, node)
      BY <2>2 DEF StartFString
    <3> QED
      BY <1>1, <3>1 DEF LinesOf
  <2>3. CASE Operator
    <3>1. fstack' \in Seq(FStringNode) /\ \A i \in DOMAIN fstack' : fstack'[i].lines = <<>>
      BY <1>1, <2>3, OperatorFStrings
    <3> QED
      BY <3>1 DEF LinesOf
  <2> QED
    BY <2>1, <2>2, <2>3
<1>5. \/ Emit(last') /\ addPrefix' = <<>>
      \/ Yield("NEWLINE", Append(addPrefix, read)) /\ addPrefix' = <<>>
      \/ addPrefix' = Append(addPrefix, read) /\ yielded' = yielded /\ InCode'
  <2>1. CASE Name \/ Illegal \/ StartFString \/ Operator
    BY <2>1 DEF Name, Illegal, StartFString, Operator, Emit, Yield
  <2>2. CASE Comment
    BY <2>2 DEF Comment, Emit, Yield, Postpone, InCode, output
  <2>3. CASE Backslash
    BY <1>1, <2>3 DEF Backslash, Postpone, HoldsOne, InCode, Tos, Token, output
  <2>4. CASE Newline
    <3>1. InCode'
      <4>1. CASE InCode
        BY <2>4, <4>1 DEF Newline, InCode, Tos
      <4>2. CASE ~InCode
        <5>1. fstack # <<>> /\ ~Tos.triple
          BY <1>1, <2>4, <4>2 DEF HoldsOne, InCode, Newline, Token
        <5>2. fstack' = <<>>
          BY <1>1, <2>4, <5>1, TosFacts DEF Newline, Tos
        <5> QED
          BY <5>2 DEF InCode
      <4> QED
        BY <4>1, <4>2
    <3> QED
      BY <2>4, <3>1 DEF Newline, Postpone, output
  <2> QED
    BY <2>1, <2>2, <2>3, <2>4
<1>6. EverythingYielded'
  BY <1>2, <1>4, <1>5, TokenText DEF Emit, Yield
<1>7. HoldsOne'
  BY <1>2, <1>3, <1>5 DEF HoldsOne, WithToken
<1> QED
  BY <1>6, <1>7

\* A string over several lines holds its prefix and its lines until it ends.
LEMMA StringSteps ==
  ASSUME TextInv, Inv', StartString \/ ContinueString \/ EndString
  PROVE  EverythingYielded' /\ HoldsOne'
<1>1. /\ TypeOK /\ HoldsOne /\ read \in Nat
      /\ addPrefix \in Text /\ prefix \in Text /\ contstr \in Text /\ LinesOf(fstack) = <<>>
  <2>1. pc \in WithToken \/ pc = "cont"
    BY DEF StartString, ContinueString, EndString, Token, WithToken
  <2> QED
    BY <2>1, HeldBefore
<1>2. /\ HeldAs(Held', pc', addPrefix', prefix', contstr', fstack', read')
      /\ fstack' = fstack /\ LinesOf(fstack') = <<>> /\ addPrefix' = <<>>
  BY <1>1, HeldAfter, HeldBefore DEF StartString, ContinueString, EndString
<1>3. /\ prefix \o contstr \in Text /\ <<>> \in Text /\ Append(addPrefix, read) \in Text
      /\ read + 1 \in Nat
  <2>1. read \in Nat
    BY <1>1
  <2>2. read + 1 \in Nat
    BY <2>1
  <2> QED
    BY <1>1, <2>2, Concats
<1>4. CASE StartString
  <2>1. /\ pc = "token" /\ pc' = "cont" /\ read' = read /\ yielded' = yielded
        /\ prefix' = addPrefix /\ contstr' = <<read>> /\ contstr' # <<>>
    BY <1>4 DEF StartString, Token, line, output
  <2>2. Held = Append(addPrefix, read)
    BY <2>1, HeldBefore DEF WithToken
  <2>3. Held' = prefix' \o contstr'
    BY <1>2, <2>1 DEF HeldAs
  <2>4. Held' = Append(addPrefix, read) /\ <<>> \o Held' = Held
    BY <1>1, <1>3, <2>1, <2>2, <2>3, Concats
  <2>5. EverythingYielded'
    BY <1>3, <2>1, <2>2, <2>4, Accounted
  <2>6. read # 0
    BY <1>1, <2>1 DEF HoldsOne, WithToken
  <2> QED
    BY <1>2, <2>1, <2>5, <2>6 DEF HoldsOne, WithToken
<1>5. CASE ContinueString
  <2>1. /\ pc = "cont" /\ pc' = "cont" /\ read' = read + 1 /\ yielded' = yielded
        /\ prefix' = prefix /\ contstr' = Append(contstr, read + 1) /\ contstr' # <<>>
    BY <1>1, <1>3, <1>5 DEF ContinueString, ReadLexeme, output, Text
  <2>2. Held = prefix \o contstr
    BY <2>1, HeldBefore
  <2>3. Held' = prefix' \o contstr'
    BY <1>2, <2>1 DEF HeldAs
  <2>4. Held' = Append(prefix \o contstr, read + 1)
    BY <1>1, <1>3, <2>1, <2>3, Concats
  <2>5. Held' \in Text /\ <<>> \o Held' = Append(Held, read + 1)
    BY <1>1, <1>3, <2>2, <2>4, Concats
  <2>6. EverythingYielded'
    BY <1>3, <2>1, <2>2, <2>5, Accounted
  <2>7. read' # 0
    BY <1>1, <2>1
  <2> QED
    BY <1>2, <2>1, <2>6, <2>7 DEF HoldsOne, WithToken
<1>6. CASE EndString
  <2> DEFINE out == Append(prefix \o contstr, read + 1)
  <2>1. /\ pc = "cont" /\ pc' = "scan" /\ read' = read + 1 /\ yielded' = yielded \o out
        /\ contstr' = <<>>
    BY <1>6 DEF EndString, ReadLexeme, Yield, StringSoFar
  <2>2. Held = prefix \o contstr
    BY <2>1, HeldBefore
  <2>3. Held' = <<>>
    BY <1>2, <1>3, <2>1, Concats DEF HeldAs
  <2>4. out \in Text /\ out \o Held' = Append(Held, read + 1)
    BY <1>1, <1>3, <2>2, <2>3, Concats
  <2>5. EverythingYielded'
    BY <1>3, <2>1, <2>2, <2>3, <2>4, Accounted
  <2>6. read' # 0
    BY <1>1, <2>1
  <2> QED
    BY <1>2, <2>1, <2>5, <2>6 DEF HoldsOne, WithToken
<1> QED
  BY <1>4, <1>5, <1>6

\* The text of an f-string holds its lines until it ends.
LEMMA FStringTextSteps ==
  ASSUME TextInv, Inv', FStringString \/ FStringLine \/ PreviousLines
  PROVE  EverythingYielded' /\ HoldsOne'
<1>1. /\ TypeOK /\ HoldsOne /\ read \in Nat /\ read + 1 \in Nat
      /\ addPrefix \in Text /\ pc = "scan" /\ contstr = <<>> /\ Held = addPrefix \o LinesOf(fstack)
  <2>1. pc = "scan"
    BY DEF FStringString, FStringLine, PreviousLines, TextAhead
  <2> QED
    BY <2>1, HeldBefore
<1>2. fstack # <<>> /\ ~InCode /\ Tos.lines \in Text
  BY <1>1, TosFacts
     DEF FStringString, FStringLine, PreviousLines, TextAhead, NoString, InCode
<1>3. addPrefix = <<>> /\ read # 0 /\ Held = Tos.lines
  BY <1>1, <1>2, Concats DEF HoldsOne, LinesOf, Tos
<1>4. PICK text \in Text : /\ SetLines(text) /\ (FStringLine => text = Append(Tos.lines, read + 1))
                           /\ (~FStringLine => text = <<>>)
  BY <1>1, <1>2, Concats DEF FStringString, FStringLine, PreviousLines, ReadLexeme
<1>5. fstack' # <<>> /\ Tos' = [Tos EXCEPT !.lines = text] /\ LinesOf(fstack') = text
  BY <1>1, <1>2, <1>4, SetLinesFacts, TosFacts DEF LinesOf, Tos, FStringNode
<1>6. /\ pc' = "scan" /\ addPrefix' = <<>> /\ contstr' = <<>>
      /\ read' = IF PreviousLines THEN read ELSE read + 1
  BY <1>1, <1>3 DEF FStringString, FStringLine, PreviousLines, ReadLexeme, NoString, line, strings
<1>7. Held' = text
  BY <1>4, <1>5, <1>6, HeldAfter, Concats DEF HeldAs
<1>8. HoldsOne'
  BY <1>1, <1>3, <1>6 DEF HoldsOne, WithToken
<1>9. EverythingYielded'
  <2> DEFINE lines == Tos.lines
  <2>1. lines \in Text /\ <<>> \in Text /\ Held = lines /\ yielded \in Text
    BY <1>2, <1>3, Concats, HeldBefore
  <2> HIDE DEF lines
  <2>2. lines \o <<>> = lines /\ Append(lines, read + 1) \in Text
    BY <1>1, <2>1, Concats
  <2>3. CASE FStringString
    <3>1. read' = read + 1 /\ text = <<>> /\ yielded' = yielded \o Append(lines, read + 1)
      BY <1>4, <2>3 DEF FStringString, FStringLine, ReadLexeme, Yield, output, lines
    <3>2. Append(lines, read + 1) \o <<>> = Append(lines, read + 1)
      BY <2>2, Concats
    <3> QED
      BY <1>7, <2>1, <2>2, <3>1, <3>2, Accounted
  <2>4. CASE FStringLine
    <3>1. read' = read + 1 /\ text = Append(lines, read + 1) /\ yielded' = yielded
      BY <1>4, <2>4 DEF FStringLine, ReadLexeme, output, lines
    <3>2. <<>> \o Append(lines, read + 1) = Append(lines, read + 1)
      BY <2>2, Concats
    <3> QED
      BY <1>7, <2>1, <2>2, <3>1, <3>2, Accounted
  <2>5. CASE PreviousLines
    <3>1. read' = read /\ text = <<>> /\ yielded' = yielded \o lines
      BY <1>1, <1>4, <2>5 DEF PreviousLines, FStringLine, ReadLexeme, Yield, line, lines
    <3> QED
      BY <1>7, <2>1, <2>2, <3>1, Accounted
  <2> QED
    BY <2>3, <2>4, <2>5
<1> QED
  BY <1>8, <1>9

\* A quote ends an f-string; no f-string around holds lines.
LEMMA CloseFStringText ==
  ASSUME TextInv, Inv', NEW i \in DOMAIN fstack, CloseFString(i)
  PROVE  EverythingYielded' /\ HoldsOne'
<1>1. /\ TypeOK /\ FStringsOK /\ HoldsOne /\ read \in Nat /\ addPrefix \in Text
      /\ fstack \in Seq(FStringNode)
      /\ contstr = <<>> /\ Held = addPrefix \o LinesOf(fstack)
  <2>1. pc = "scan"
    BY DEF CloseFString
  <2> QED
    BY <2>1, HeldBefore
<1>2. \A j \in DOMAIN fstack : fstack[j].lines = <<>>
  BY <1>1, NoLines DEF CloseFString
<1>3. LinesOf(fstack) = <<>> /\ LinesOf(fstack') = <<>>
  BY <1>1, <1>2 DEF LinesOf, CloseFString
<1>4. /\ pc' = "scan" /\ read' = read + 1 /\ addPrefix' = <<>> /\ contstr' = <<>>
      /\ yielded' = yielded \o Append(addPrefix, read + 1)
  BY <1>1, <1>2 DEF CloseFString, ReadLexeme, Yield
<1>5. Held = addPrefix /\ Held' = <<>>
  <2>1. Held' = <<>> \o <<>>
    BY <1>3, <1>4, HeldAfter DEF HeldAs
  <2> QED
    BY <1>1, <1>3, <2>1, Concats
<1>6. read + 1 \in Nat /\ read' # 0
  BY <1>1, <1>4
<1>7. /\ <<>> \in Text /\ Append(addPrefix, read + 1) \in Text
      /\ Append(addPrefix, read + 1) \o <<>> = Append(addPrefix, read + 1)
  BY <1>1, <1>6, Concats
<1>8. EverythingYielded'
  BY <1>1, <1>4, <1>5, <1>7, Accounted
<1> QED
  BY <1>4, <1>6, <1>8 DEF HoldsOne, WithToken

\* A lexeme is matched, and held until it is a token.
LEMMA PseudoMatchText ==
  ASSUME TextInv, Inv', NEW k \in PlainKinds \cup {"colon"}, NEW c \in Columns, PseudoMatch(k, c)
  PROVE  EverythingYielded' /\ HoldsOne'
<1>1. /\ TypeOK /\ FStringsOK /\ HoldsOne /\ read \in Nat /\ addPrefix \in Text
      /\ contstr = <<>> /\ Held = addPrefix \o LinesOf(fstack)
      /\ InCode => LinesOf(fstack) = <<>>
  <2>1. pc = "scan"
    BY DEF PseudoMatch
  <2> QED
    BY <2>1, HeldBefore
<1>2. LinesOf(fstack) = <<>>
  BY <1>1 DEF PseudoMatch, Matches, NoString, LinesOf, Tos
<1>3. /\ pc' \in {"indent", "token"} /\ read' = read + 1 /\ kind' = k /\ fstack' = fstack
      /\ addPrefix' = addPrefix /\ contstr' = <<>> /\ yielded' = yielded
  BY <1>1 DEF PseudoMatch, ReadLexeme, strings, output
<1>4. Held = addPrefix /\ Held' = Append(addPrefix, read + 1)
  BY <1>1, <1>2, <1>3, HeldAfter, Concats DEF HeldAs, WithToken
<1>5. read + 1 \in Nat /\ read' # 0
  BY <1>1, <1>3
<1>6. /\ <<>> \in Text /\ Append(addPrefix, read + 1) \in Text
      /\ <<>> \o Append(addPrefix, read + 1) = Append(addPrefix, read + 1)
  BY <1>1, <1>5, Concats
<1>7. EverythingYielded'
  BY <1>1, <1>3, <1>4, <1>6, Accounted
<1>8. InCode' = InCode /\ Tos' = Tos
  BY <1>3 DEF InCode, Tos
<1>9. ~InCode => k \in {"open", "close", "illegal"} \/ (k = "newline" /\ ~Tos.triple)
  BY DEF PseudoMatch, Matches
<1> QED
  BY <1>1, <1>3, <1>5, <1>7, <1>8, <1>9 DEF HoldsOne

\* A byte order mark, or the spaces before the end of the text, are prefix.
LEMMA PrefixSteps ==
  ASSUME TextInv, Inv', Bom \/ Blank
  PROVE  EverythingYielded' /\ HoldsOne'
<1>1. /\ HoldsOne /\ read \in Nat /\ addPrefix \in Text /\ yielded \in Text
      /\ yielded \o Held = UpTo(read)
      /\ contstr = <<>> /\ Held = addPrefix \o LinesOf(fstack)
      /\ InCode => LinesOf(fstack) = <<>>
  <2>1. pc = "scan"
    BY DEF Bom, Blank
  <2> QED
    BY <2>1, HeldBefore
<1>2. InCode /\ LinesOf(fstack) = <<>> /\ Held = addPrefix
  <2>1. InCode
    BY <1>1 DEF HoldsOne, InCode, Bom, Blank
  <2> QED
    BY <1>1, <2>1, Concats
<1>3. /\ pc' \in {"scan", "eof"} /\ read' = read + 1 /\ fstack' = fstack /\ contstr' = <<>>
      /\ yielded' = yielded
  BY <1>1 DEF Bom, Blank, ReadLexeme, output
<1>4. read + 1 \in Nat /\ read' # 0
  BY <1>1, <1>3
<1>5. addPrefix' = Append(addPrefix, read + 1)
  <2>1. CASE Bom
    <3>1. yielded \o addPrefix = <<>>
      BY <1>1, <1>2, <2>1, UpToFacts DEF Bom
    <3>2. addPrefix = <<>>
      BY <1>1, <3>1 DEF Text
    <3> QED
      BY <1>3, <2>1, <3>2 DEF Bom
  <2>2. CASE Blank
    BY <1>3, <2>2 DEF Blank
  <2> QED
    BY <2>1, <2>2
<1>6. Append(addPrefix, read + 1) \in Text /\ <<>> \in Text
  BY <1>1, <1>4, Concats
<1>7. Held' = Append(addPrefix, read + 1)
  <2>1. Held' = addPrefix' \o <<>>
    BY <1>2, <1>3, HeldAfter DEF HeldAs
  <2> QED
    BY <1>5, <1>6, <2>1, Concats
<1>8. <<>> \o Append(addPrefix, read + 1) = Append(addPrefix, read + 1)
  BY <1>6, Concats
<1>9. EverythingYielded'
  BY <1>1, <1>2, <1>3, <1>6, <1>7, <1>8, Accounted
<1>10. InCode'
  BY <1>2, <1>3 DEF InCode, Tos
<1> QED
  BY <1>3, <1>4, <1>9, <1>10 DEF HoldsOne, WithToken

\* At the end comes out what a string, an f-string and the prefix still hold.
LEMMA EndSteps ==
  ASSUME TextInv, Inv', NoMoreLines \/ UnfinishedString \/ UnfinishedFString \/ EndOfIndents
  PROVE  EverythingYielded' /\ HoldsOne'
<1> DEFINE lines == LinesOf(fstack)
<1>1. /\ HoldsOne /\ read \in Nat /\ addPrefix \in Text /\ prefix \in Text /\ contstr \in Text
      /\ yielded \in Text /\ lines \in Text
      /\ contstr # <<>> => addPrefix = <<>>
      /\ lines # <<>> => addPrefix = <<>>
  BY HeldBefore DEF HoldsOne
<1>2. /\ read' = read /\ fstack' = fstack /\ LinesOf(fstack') = lines
      /\ addPrefix' = addPrefix /\ prefix' = prefix /\ contstr' = contstr
      /\ pc' \in {"eof", "end of text", "end of indents", "done"}
  BY DEF NoMoreLines, UnfinishedString, UnfinishedFString, EndOfIndents, line, strings
<1>3. HoldsOne'
  BY <1>1, <1>2 DEF HoldsOne, InCode, Tos, WithToken
<1>4. HeldAs(Held', pc', addPrefix, prefix, contstr, fstack, read)
  BY <1>2, HeldAfter
<1>5. /\ <<>> \in Text /\ prefix \o contstr \in Text
      /\ \A s \in Text : s \o <<>> = s /\ <<>> \o s = s
      /\ \A s, t \in Text : s \o t \in Text
  BY <1>1, Concats
<1>6. CASE NoMoreLines
  <2>1. pc \in {"scan", "cont"} /\ pc' = "eof" /\ yielded' = yielded
    BY <1>6 DEF NoMoreLines, output
  <2>2. Held' = Held /\ Held \in Text
    <3>1. CASE pc = "scan"
      BY <1>1, <1>4, <1>5, <2>1, <3>1, HeldBefore DEF HeldAs
    <3>2. CASE pc = "cont"
      BY <1>1, <1>4, <1>5, <2>1, <3>2, HeldBefore DEF HeldAs
    <3> QED
      BY <2>1, <3>1, <3>2
  <2> QED
    BY <1>2, <1>3, <1>5, <2>1, <2>2, Accounted
<1>7. CASE UnfinishedString
  <2>1. pc = "eof" /\ pc' = "end of text" /\ Held' = addPrefix \o lines
    BY <1>4, <1>7 DEF UnfinishedString, HeldAs
  <2>2. CASE contstr # <<>>
    <3>1. /\ yielded' = yielded \o (prefix \o contstr) /\ addPrefix = <<>>
          /\ Held = (prefix \o contstr) \o lines
      BY <1>7, <2>1, <2>2, HeldBefore DEF UnfinishedString, Yield, StringSoFar
    <3>2. Held' = lines
      BY <1>1, <1>5, <2>1, <3>1
    <3> QED
      BY <1>1, <1>2, <1>3, <1>5, <3>1, <3>2, Accounted
  <2>3. CASE contstr = <<>>
    <3>1. yielded' = yielded /\ Held = addPrefix \o lines
      BY <1>7, <2>1, <2>3, HeldBefore DEF UnfinishedString, output
    <3> QED
      BY <1>1, <1>2, <1>3, <1>5, <2>1, <3>1, Accounted
  <2> QED
    BY <2>2, <2>3
<1>8. CASE UnfinishedFString
  <2>1. pc = "end of text" /\ pc' = "end of indents" /\ Held' = addPrefix
    BY <1>4, <1>8 DEF UnfinishedFString, HeldAs
  <2>2. Held = addPrefix \o lines
    BY <2>1, HeldBefore
  <2>3. CASE lines # <<>>
    <3>1. yielded' = yielded \o lines /\ addPrefix = <<>>
      BY <1>1, <1>8, <2>3 DEF UnfinishedFString, Yield, LinesOf, Tos
    <3> QED
      BY <1>1, <1>2, <1>3, <1>5, <2>1, <2>2, <3>1, Accounted
  <2>4. CASE lines = <<>>
    <3>1. yielded' = yielded
      BY <1>8, <2>4 DEF UnfinishedFString, LinesOf, Tos, output
    <3> QED
      BY <1>1, <1>2, <1>3, <1>5, <2>1, <2>2, <2>4, <3>1, Accounted
  <2> QED
    BY <2>3, <2>4
<1>9. CASE EndOfIndents
  <2>1. pc = "end of indents" /\ Held = addPrefix
    <3>1. pc = "end of indents"
      BY <1>9 DEF EndOfIndents
    <3> QED
      BY <3>1, HeldBefore
  <2>2. CASE Len(indents) > 1
    <3>1. pc' = pc /\ yielded' = yielded \o <<>>
      BY <1>9, <2>2 DEF EndOfIndents, Yield
    <3>2. Held' = addPrefix
      BY <1>4, <2>1, <3>1 DEF HeldAs
    <3> QED
      BY <1>1, <1>2, <1>3, <1>5, <2>1, <3>1, <3>2, Accounted
  <2>3. CASE ~(Len(indents) > 1)
    <3>1. pc' = "done" /\ yielded' = yielded \o addPrefix
      BY <1>9, <2>3 DEF EndOfIndents, Yield
    <3>2. Held' = <<>>
      BY <1>4, <3>1 DEF HeldAs
    <3> QED
      BY <1>1, <1>2, <1>3, <1>5, <2>1, <3>1, <3>2, Accounted
  <2> QED
    BY <2>2, <2>3
<1> QED
  BY <1>6, <1>7, <1>8, <1>9

\* Before the first line nothing is read, and nothing yielded.
LEMMA InitText == Init => TextInv
<1>1. SUFFICES ASSUME Init PROVE TextInv
  OBVIOUS
<1>2. Inv
  BY <1>1, InitInv
<1>3. HoldsOne
  BY <1>1 DEF Init, HoldsOne, InCode, WithToken
<1>4. EverythingYielded
  <2>1. /\ pc = "scan" /\ read = 0 /\ yielded = <<>> /\ addPrefix = <<>> /\ prefix = <<>>
        /\ contstr = <<>> /\ fstack = <<>> /\ LinesOf(fstack) = <<>>
    BY <1>1 DEF Init, LinesOf
  <2>2. Held = <<>> \o <<>>
    <3>1. /\ addPrefix \in Text /\ prefix \in Text /\ contstr \in Text
          /\ fstack \in Seq(FStringNode) /\ read \in Nat
      BY <1>2 DEF Inv, TypeOK
    <3>2. HeldAs(Held, pc, addPrefix, prefix, contstr, fstack, read)
      BY <3>1, HeldVars, HeldFacts
    <3> QED
      BY <2>1, <3>2 DEF HeldAs
  <2>3. yielded \o Held = UpTo(read)
    BY <2>1, <2>2, Concats, UpToFacts
  <2> QED
    BY <2>3 DEF EverythingYielded, UpTo
<1> QED
  BY <1>2, <1>3, <1>4 DEF TextInv

\* Every step keeps account of the text.
LEMMA NextText == TextInv /\ [Next]_vars => TextInv'
<1>1. SUFFICES ASSUME TextInv, Next \/ UNCHANGED vars PROVE TextInv'
  OBVIOUS
<1>2. Inv'
  BY <1>1, NextInv DEF TextInv
<1>3. CASE UNCHANGED vars
  <2>1. UNCHANGED <<pc, read, kind, col, bol, newLine, parens, fstack, indents, addPrefix, prefix,
                    contstr, last, count, yielded>>
    BY <1>3 DEF vars, line, strings, output
  <2>2. Held' = Held
    BY <2>1, HeldVars
  <2>3. EverythingYielded'
    BY <1>1, <2>1, <2>2 DEF TextInv, EverythingYielded
  <2>4. HoldsOne'
    BY <1>1, <2>1 DEF TextInv, HoldsOne, InCode, IsInExpr, Tos
  <2> QED
    BY <1>2, <2>3, <2>4 DEF TextInv
<1>4. CASE Next
  <2>1. CASE FStringString \/ FStringLine \/ PreviousLines
    BY <1>1, <1>2, <2>1, FStringTextSteps DEF TextInv
  <2>2. CASE \E i \in DOMAIN fstack : CloseFString(i)
    BY <1>1, <1>2, <2>2, CloseFStringText DEF TextInv
  <2>3. CASE \E k \in PlainKinds \cup {"colon"}, c \in Columns : PseudoMatch(k, c)
    BY <1>1, <1>2, <2>3, PseudoMatchText DEF TextInv
  <2>4. CASE \/ Indent \/ AppendIndent \/ Dedent \/ ErrorDedent \/ LowerIndent \/ NoMoreDedents
             \/ Break
    BY <1>1, <1>2, <2>4, PendingSteps DEF TextInv
  <2>5. CASE Name \/ Newline \/ Comment \/ Backslash \/ Illegal \/ StartFString \/ Operator
    BY <1>1, <1>2, <2>5, TokenSteps DEF TextInv
  <2>6. CASE StartString \/ ContinueString \/ EndString
    BY <1>1, <1>2, <2>6, StringSteps DEF TextInv
  <2>7. CASE Bom \/ Blank
    BY <1>1, <1>2, <2>7, PrefixSteps DEF TextInv
  <2>8. CASE NoMoreLines \/ UnfinishedString \/ UnfinishedFString \/ EndOfIndents
    BY <1>1, <1>2, <2>8, EndSteps DEF TextInv
  <2> QED
    BY <1>4, <2>1, <2>2, <2>3, <2>4, <2>5, <2>6, <2>7, <2>8 DEF Next
<1> QED
  BY <1>1, <1>3, <1>4

\* The inductive invariant of what is yielded and what is held back.
THEOREM TextInvariant == Spec => []TextInv
BY InitText, NextText, PTL DEF Spec

\* The tokens that tokenize_lines yields, with their prefixes, are the text that
\* it has read, once and in order, up to what it holds back.
THEOREM TextIsYielded == Spec => []EverythingYielded
<1>1. TextInv => EverythingYielded
  BY DEF TextInv
<1> QED
  BY <1>1, TextInvariant, PTL

\* After the ENDMARKER nothing is held back: the tokens are all of the text.
THEOREM RoundTrip == Spec => [](pc = "done" => yielded = [i \in 1 .. read |-> i])
<1>1. ASSUME TextInv, pc = "done" PROVE yielded = [i \in 1 .. read |-> i]
  <2>1. yielded \in Text /\ yielded \o Held = UpTo(read) /\ Held = <<>>
    BY <1>1, HeldBefore
  <2>2. yielded = UpTo(read)
    BY <2>1, Concats
  <2> QED
    BY <2>2 DEF UpTo
<1>2. TextInv => (pc = "done" => yielded = [i \in 1 .. read |-> i])
  BY <1>1
<1> QED
  BY <1>2, TextInvariant, PTL
=============================================================================
