------------------------------ MODULE Tokenizer ------------------------------
(***************************************************************************)
(* tokenize_lines (python/tokenize.py): a generator that cuts lines into    *)
(* tokens and turns indentation into INDENT and DEDENT.  What the regular   *)
(* expressions match at the current position is the next lexeme, chosen     *)
(* among the kinds that can match there; a lexeme stands for the spaces     *)
(* before it, too.  Every yield is a step of its own, since the parser runs *)
(* in between and the diff parser looks at indents then.                    *)
(***************************************************************************)
EXTENDS Integers, Sequences, SequencesExt

CONSTANTS
  Columns,             \* where the first token of a line can be, 0 among them
  MaxLexemes,          \* bound: the lexemes of the file
  MaxFStrings          \* bound: f-strings inside one another

ASSUME TokenizerAssumption ==
  /\ Columns \subseteq Nat /\ 0 \in Columns
  /\ MaxLexemes \in Nat
  /\ MaxFStrings \in Nat

VARIABLES
  pc,
  read,                \* the lexemes read; the last one is at this position
  kind,                \* its kind
  col,                 \* start, for the first token of a line
  bol,                 \* nothing but spaces is before the next lexeme in its line
  newLine,             \* new_line
  parens,              \* paren_level
  fstack,              \* fstring_stack
  indents,
  addPrefix,           \* additional_prefix
  prefix,              \* prefix, kept for a string over several lines
  contstr,
  last,                \* type of the last token yielded
  count,               \* the tokens yielded
  yielded              \* history: the lexemes in the tokens yielded

line == <<read, kind, col, bol>>
strings == <<addPrefix, prefix, contstr>>
output == <<last, count, yielded>>
vars == <<pc, line, newLine, parens, fstack, indents, strings, output>>

\* Numbers and strings on one line are operators here.
TextTypes == {"NAME", "OP", "STRING", "NEWLINE", "ERRORTOKEN",
              "FSTRING_START", "FSTRING_STRING", "FSTRING_END"}

PlainKinds == {"name", "break", "op", "open", "close", "newline", "comment", "backslash",
               "illegal", "string", "fstring1", "fstring3"}
Kinds == PlainKinds \cup {"colon", "none", "bom", "blank", "text", "textline", "quote",
                          "contline", "contend"}

PC == {"scan", "indent", "append", "dedent", "lower", "token", "cont",
       "eof", "end of text", "end of indents", "done", "assertion"}

Text == Seq(Nat)
FStringNode == [triple : BOOLEAN, parens : Int, specs : Nat, lines : Text]

TypeOK ==
  /\ pc \in PC
  /\ read \in Nat /\ kind \in Kinds /\ col \in Columns /\ bol \in BOOLEAN
  /\ newLine \in BOOLEAN
  /\ parens \in Nat
  /\ fstack \in Seq(FStringNode)
  /\ indents \in Seq(Columns) /\ indents # <<>>
  /\ addPrefix \in Text /\ prefix \in Text /\ contstr \in Text /\ yielded \in Text
  /\ last \in TextTypes \cup {"INDENT", "DEDENT", "ERROR_DEDENT", "ENDMARKER", "start"}
  /\ count \in Nat

Init ==
  /\ pc = "scan"
  /\ read = 0 /\ kind = "none" /\ col = 0 /\ bol = TRUE
  /\ newLine = TRUE
  /\ parens = 0
  /\ fstack = <<>>
  /\ indents = <<0>>
  /\ addPrefix = <<>> /\ prefix = <<>> /\ contstr = <<>>
  /\ last = "start" /\ count = 0 /\ yielded = <<>>

-----------------------------------------------------------------------------
Yield(type, text) ==
  /\ last' = type
  /\ count' = count + 1
  /\ yielded' = yielded \o text

Tos == fstack[Len(fstack)]
SetTos(node) == fstack' = [fstack EXCEPT ![Len(fstack)] = node]
SetLines(text) == SetTos([Tos EXCEPT !.lines = text])

IsInExpr(node) == node.parens > node.specs
IsInFormatSpec(node) == ~IsInExpr(node) /\ node.specs # 0

\* Between the braces of an f-string, or outside of f-strings.
InCode == fstack # <<>> => IsInExpr(Tos)

\* Mistake: paren_level is not asked for.
NestedInFString == fstack # <<>>

Nested == fstack # <<>> \/ parens > 0

-----------------------------------------------------------------------------
(* The text of an f-string, and its end.                                    *)

ReadLexeme(k) ==
  /\ read < MaxLexemes
  /\ read' = read + 1
  /\ kind' = k

\* The pattern for text takes all there is: none follows in the same line.
TextAhead == pc = "scan" /\ ~InCode /\ last # "FSTRING_STRING"

FStringString ==
  /\ TextAhead
  /\ ReadLexeme("text")
  /\ Yield("FSTRING_STRING", Append(Tos.lines, read'))
  /\ SetLines(<<>>)
  /\ bol' = FALSE
  /\ UNCHANGED <<pc, col, newLine, parens, indents, strings>>

\* The line ends with the f-string still open, in one of three quotes or
\* behind a backslash.
FStringLine ==
  /\ TextAhead
  /\ ReadLexeme("textline")
  /\ SetLines(Append(Tos.lines, read'))
  /\ bol' = TRUE
  /\ UNCHANGED <<pc, col, newLine, parens, indents, strings, output>>

\* Mistake: what no text follows is not returned.
NothingHeld == TRUE

\* _find_fstring_string has returned ''.
NoString == ~InCode => Tos.lines = <<>>

\* No text matches: what is left of the lines before comes out.
PreviousLines ==
  /\ pc = "scan"
  /\ ~NoString
  /\ Yield("FSTRING_STRING", Tos.lines)
  /\ SetLines(<<>>)
  /\ UNCHANGED <<pc, line, newLine, parens, indents, strings>>

\* _close_fstring_if_necessary: the quote of any f-string around ends it.
CloseFString(i) ==
  /\ pc = "scan"
  /\ NoString
  /\ ~InCode => kind # "illegal"
  /\ ReadLexeme("quote")
  /\ IF fstack[i].lines = <<>>
     THEN /\ Yield("FSTRING_END", Append(addPrefix, read'))
          /\ UNCHANGED pc
     ELSE pc' = "assertion" /\ UNCHANGED output
  /\ addPrefix' = <<>>
  /\ fstack' = SubSeq(fstack, 1, i - 1)
  /\ bol' = FALSE
  /\ UNCHANGED <<col, newLine, parens, indents, prefix, contstr>>

-----------------------------------------------------------------------------
(* The pseudo token.                                                        *)

\* A comment goes to the end of its line.
InComment == kind = "comment" /\ addPrefix # <<>>

\* What can match, or fail to, at the current position.  Between the braces of
\* two f-strings with single quotes no quote is left for a string.  In the text
\* of an f-string, "{{" and "}}" are text, and so is what follows a "\" that is not.
Matches(k) ==
  IF InCode
  THEN /\ k = "colon" => fstack # <<>>
       /\ k \in {"fstring1", "fstring3"} => Len(fstack) < MaxFStrings
       /\ k = "string" => \A i, j \in DOMAIN fstack : i # j => fstack[i].triple \/ fstack[j].triple
       /\ InComment => k = "newline"
  ELSE /\ NoString /\ kind # "illegal"
       /\ \/ k = "open" /\ (kind = "open" => IsInFormatSpec(Tos))
          \/ k = "close" /\ (kind = "close" /\ Tos.parens < 0 => IsInFormatSpec(Tos))
          \/ k = "newline" /\ ~Tos.triple
          \/ k = "illegal" /\ ~IsInFormatSpec(Tos)

\* The column matters for the first token of a line, and for the first one
\* after a line end that an f-string has swallowed.
ColumnAhead(c) ==
  IF bol THEN c \in Columns ELSE IF newLine THEN c \in Columns \ {0} ELSE c = col

PseudoMatch(k, c) ==
  /\ pc = "scan"
  /\ Matches(k)
  /\ ReadLexeme(k)
  /\ ColumnAhead(c)
  /\ col' = c
  /\ newLine' = (newLine /\ k \in {"newline", "comment", "backslash"})
  /\ pc' = IF newLine # newLine' /\ ~Nested THEN "indent" ELSE "token"
  /\ UNCHANGED <<bol, parens, fstack, indents, strings, output>>

Indent ==
  /\ pc = "indent"
  /\ IF col > Last(indents)
     THEN Yield("INDENT", <<>>) /\ pc' = "append"
     ELSE pc' = "dedent" /\ UNCHANGED output
  /\ UNCHANGED <<line, newLine, parens, fstack, indents, strings>>

AppendIndent ==
  /\ pc = "append"
  /\ indents' = Append(indents, col)
  /\ pc' = "dedent"
  /\ UNCHANGED <<line, newLine, parens, fstack, strings, output>>

(* dedent_if_necessary                                                      *)

\* Mistake: start >= indents[-2]
AtLeastBelow == col >= indents[Len(indents) - 1]

AboveBelow == col > indents[Len(indents) - 1]

Dedent ==
  /\ pc = "dedent"
  /\ col < Last(indents)
  /\ ~AboveBelow
  /\ indents' = Front(indents)
  /\ Yield("DEDENT", <<>>)
  /\ UNCHANGED <<pc, line, newLine, parens, fstack, strings>>

ErrorDedent ==
  /\ pc = "dedent"
  /\ col < Last(indents)
  /\ AboveBelow
  /\ Yield("ERROR_DEDENT", <<>>)
  /\ pc' = "lower"
  /\ UNCHANGED <<line, newLine, parens, fstack, indents, strings>>

\* Mistake: the innermost indentation stays.
NotLowered == indents

Lowered == [indents EXCEPT ![Len(indents)] = col]

LowerIndent ==
  /\ pc = "lower"
  /\ indents' = Lowered
  /\ pc' = "token"
  /\ UNCHANGED <<line, newLine, parens, fstack, strings, output>>

NoMoreDedents ==
  /\ pc = "dedent"
  /\ col >= Last(indents)
  /\ pc' = "token"
  /\ UNCHANGED <<line, newLine, parens, fstack, indents, strings, output>>

-----------------------------------------------------------------------------
(* The token, by its kind.                                                  *)

Token(k) == pc = "token" /\ kind = k

\* The token with the prefix collected, and on with the line.
Emit(type) ==
  /\ Yield(type, Append(addPrefix, read))
  /\ addPrefix' = <<>>
  /\ bol' = FALSE
  /\ pc' = "scan"
  /\ UNCHANGED <<read, kind, col, newLine, indents, prefix, contstr>>

\* No token; the lexeme belongs to the prefix of the next one.
Postpone(endsLine) ==
  /\ addPrefix' = Append(addPrefix, read)
  /\ bol' = endsLine
  /\ pc' = "scan"
  /\ UNCHANGED <<read, kind, col, indents, prefix, contstr, output>>

\* A keyword that cannot be in brackets breaks off all that are open.
Break ==
  /\ Token("break")
  /\ Nested
  /\ fstack' = <<>>
  /\ parens' = 0
  /\ pc' = IF bol THEN "dedent" ELSE "token"
  /\ UNCHANGED <<line, newLine, indents, strings, output>>

Name ==
  /\ Token("name") \/ (Token("break") /\ ~Nested)
  /\ Emit("NAME")
  /\ UNCHANGED <<parens, fstack>>

Newline ==
  /\ Token("newline")
  /\ fstack' = IF \E i \in DOMAIN fstack : ~fstack[i].triple THEN <<>> ELSE fstack
  /\ newLine' = TRUE
  /\ IF ~newLine /\ parens = 0 /\ fstack' = <<>>
     THEN /\ Yield("NEWLINE", Append(addPrefix, read))
          /\ addPrefix' = <<>>
          /\ bol' = TRUE
          /\ pc' = "scan"
          /\ UNCHANGED <<read, kind, col, indents, prefix, contstr>>
     ELSE Postpone(TRUE)
  /\ UNCHANGED parens

Comment ==
  /\ Token("comment")
  /\ IF fstack # <<>> THEN Emit("ERRORTOKEN") ELSE Postpone(FALSE) /\ UNCHANGED newLine
  /\ UNCHANGED <<parens, fstack>>

Backslash ==
  /\ Token("backslash")
  /\ Postpone(TRUE)
  /\ UNCHANGED <<newLine, parens, fstack>>

Illegal ==
  /\ Token("illegal")
  /\ Emit("ERRORTOKEN")
  /\ UNCHANGED <<parens, fstack>>

StartFString ==
  /\ Token("fstring1") \/ Token("fstring3")
  /\ fstack' = Append(fstack, [triple |-> kind = "fstring3", parens |-> 0, specs |-> 0,
                               lines |-> <<>>])
  /\ Emit("FSTRING_START")
  /\ UNCHANGED parens

\* paren_level after an operator outside of f-strings.
Bracketed ==
  CASE kind = "open" -> parens + 1
    [] kind = "close" /\ parens > 0 -> parens - 1
    [] OTHER -> parens

\* close_parentheses: without parentheses the format spec is finished, too.
Closed(node) ==
  [node EXCEPT !.parens = @ - 1, !.specs = IF node.parens = 1 THEN 0 ELSE @]

Operator ==
  /\ \E k \in {"op", "open", "close", "colon"} : Token(k)
  /\ Emit("OP")
  /\ IF fstack # <<>>
     THEN /\ SetTos(CASE kind = "open"  -> [Tos EXCEPT !.parens = @ + 1]
                      [] kind = "close" -> Closed(Tos)
                      [] kind = "colon" /\ Tos.parens - Tos.specs = 1 -> [Tos EXCEPT !.specs = @ + 1]
                      [] OTHER -> Tos)
          /\ UNCHANGED parens
     ELSE /\ parens' = Bracketed
          /\ UNCHANGED fstack

-----------------------------------------------------------------------------
(* Strings over several lines.                                              *)

StartString ==
  /\ Token("string")
  /\ prefix' = addPrefix
  /\ addPrefix' = <<>>
  /\ contstr' = <<read>>
  /\ pc' = "cont"
  /\ UNCHANGED <<line, newLine, parens, fstack, indents, output>>

\* Mistake: the prefix of the string is gone.
StringWithoutPrefix == contstr

StringSoFar == prefix \o contstr

ContinueString ==
  /\ pc = "cont"
  /\ ReadLexeme("contline")
  /\ contstr' = Append(contstr, read')
  /\ UNCHANGED <<pc, col, bol, newLine, parens, fstack, indents, addPrefix, prefix, output>>

EndString ==
  /\ pc = "cont"
  /\ ReadLexeme("contend")
  /\ Yield("STRING", Append(StringSoFar, read'))
  /\ contstr' = <<>>
  /\ bol' = FALSE
  /\ pc' = "scan"
  /\ UNCHANGED <<col, newLine, parens, fstack, indents, addPrefix, prefix>>

-----------------------------------------------------------------------------
(* The first and the last line.                                             *)

Bom ==
  /\ pc = "scan"
  /\ read = 0
  /\ ReadLexeme("bom")
  /\ addPrefix' = <<read'>>
  /\ UNCHANGED <<pc, col, bol, newLine, parens, fstack, indents, prefix, contstr, output>>

\* Spaces and then the end of the last line: token == ''
Blank ==
  /\ pc = "scan"
  /\ InCode
  /\ ~InComment
  /\ ReadLexeme("blank")
  /\ addPrefix' = Append(addPrefix, read')
  /\ pc' = "eof"
  /\ UNCHANGED <<col, bol, newLine, parens, fstack, indents, prefix, contstr, output>>

NoMoreLines ==
  /\ pc \in {"scan", "cont"}
  /\ pc' = "eof"
  /\ UNCHANGED <<line, newLine, parens, fstack, indents, strings, output>>

UnfinishedString ==
  /\ pc = "eof"
  /\ IF contstr # <<>>
     THEN Yield("ERRORTOKEN", StringSoFar)
     ELSE UNCHANGED output
  /\ pc' = "end of text"
  /\ UNCHANGED <<line, newLine, parens, fstack, indents, strings>>

UnfinishedFString ==
  /\ pc = "end of text"
  /\ IF fstack # <<>> /\ Tos.lines # <<>>
     THEN Yield("FSTRING_STRING", Tos.lines)
     ELSE UNCHANGED output
  /\ pc' = "end of indents"
  /\ UNCHANGED <<line, newLine, parens, fstack, indents, strings>>

EndOfIndents ==
  /\ pc = "end of indents"
  /\ IF Len(indents) > 1
     THEN /\ indents' = Front(indents)
          /\ Yield("DEDENT", <<>>)
          /\ UNCHANGED pc
     ELSE /\ Yield("ENDMARKER", addPrefix)
          /\ pc' = "done"
          /\ UNCHANGED indents
  /\ UNCHANGED <<line, newLine, parens, fstack, strings>>

Next ==
  \/ FStringString \/ FStringLine \/ PreviousLines
  \/ \E i \in DOMAIN fstack : CloseFString(i)
  \/ \E k \in PlainKinds \cup {"colon"}, c \in Columns : PseudoMatch(k, c)
  \/ Indent \/ AppendIndent \/ Dedent \/ ErrorDedent \/ LowerIndent \/ NoMoreDedents
  \/ Break \/ Name \/ Newline \/ Comment \/ Backslash \/ Illegal
  \/ StartFString \/ Operator
  \/ StartString \/ ContinueString \/ EndString
  \/ Bom \/ Blank \/ NoMoreLines
  \/ UnfinishedString \/ UnfinishedFString \/ EndOfIndents

Spec == Init /\ [][Next]_vars

-----------------------------------------------------------------------------
\* The INDENTs the parser has seen and no DEDENT has closed: an INDENT is
\* yielded before its column is appended.
Depth == Len(indents) - (IF pc = "append" THEN 0 ELSE 1)

Stream == INSTANCE TokenStream
  WITH TextTokens <- TextTypes, MaxTokens <- 0, MaxDepth <- 0, depth <- Depth

\* The tokens keep the promise the parser relies on: INDENT and DEDENT are
\* balanced up to the ENDMARKER, whatever brackets, f-strings and strings are
\* broken off, an INDENT comes at the begin of a statement only and always
\* with a token of it, and NEWLINE ends no empty statement.
KeepsPromise == Stream!StreamSpec

\* The lexemes read that are in no token yet.
Held ==
  (IF pc = "done" THEN <<>> ELSE addPrefix)
    \o (IF pc \in {"cont", "eof"} /\ contstr # <<>> THEN prefix \o contstr ELSE <<>>)
    \o (IF fstack = <<>> \/ pc \in {"end of indents", "done"} THEN <<>> ELSE Tos.lines)
    \o (IF pc \in {"indent", "append", "dedent", "lower", "token"} THEN <<read>> ELSE <<>>)

\* The tokens with their prefixes are the text of the file, once and in order,
\* but for what additional_prefix, contstr and the innermost f-string hold, and
\* at the end they are all of it: the round trip rests on it.
EverythingYielded ==
  pc # "assertion" => yielded \o Held = [i \in 1 .. read |-> i]

\* An f-string that is closed from inside another one holds no lines (the
\* assertion in _close_fstring_if_necessary).
AssertionHolds == pc # "assertion"

\* However far dedents fall between two columns and rewrite the innermost one,
\* the columns of indents rise from 0, so that dedent_if_necessary always finds
\* the one below and ends.
IndentsIncrease ==
  /\ indents[1] = 0
  /\ \A i \in 1 .. Len(indents) - 1 : indents[i] < indents[i + 1]

\* When the first token of a statement comes out, the innermost indentation is
\* its column, whatever was broken off before.
StatementsAligned ==
  (/\ pc = "token" /\ kind \notin {"newline", "comment", "backslash"} /\ ~Nested
   /\ last \in {"start", "NEWLINE", "INDENT", "DEDENT", "ERROR_DEDENT"}) =>
    Last(indents) = col
=============================================================================
