----------------------------- MODULE LineTokens -----------------------------
(***************************************************************************)
(* tokenize_lines (python/tokenize.py) as a function: all the tokens of     *)
(* lines, each with what the list indents holds when it is yielded, since   *)
(* the diff parser reads it while it pulls them.  Tokenizer has the control *)
(* in full; strings, f-strings and comments are not among the lines here.   *)
(*                                                                         *)
(* A line is <<kind, col, ends>>: its lexemes, the column of the first one, *)
(* and whether it ends in a newline, as all lines but the last one do.      *)
(***************************************************************************)
EXTENDS Trees

CONSTANTS
  Lexemes,             \* kind -> its tokens, as pairs of a token and an offset
  AlwaysBreak          \* ALWAYS_BREAK_TOKENS

(* Prefixes: the widths of the lines.                                       *)

NoPrefix == <<0>>
LineEnd == <<0, 0>>
Spaces(n) == <<n>>

Join(p, q) == Front(p) \o <<Last(p) + Head(q)>> \o Tail(q)

HasLineEnd(p) == Len(p) > 1
EndsInLineEnd(p) == HasLineEnd(p) /\ Last(p) = 0

\* Up to and including the last line end.
UntilLineEnd(p) == [p EXCEPT ![Len(p)] = 0]

-----------------------------------------------------------------------------
TokenizerStart(indents) ==
  [tokens |-> <<>>, indents |-> indents, parens |-> 0, newLine |-> TRUE, prefix |-> NoPrefix]

YieldToken(s, tok, line, col, prefix) ==
  [s EXCEPT !.tokens =
     Append(@, [tok |-> tok, line |-> line, col |-> col, prefix |-> prefix, indents |-> s.indents])]

RECURSIVE DedentIfNecessary(_, _, _)
DedentIfNecessary(s, line, col) ==
  IF col >= Last(s.indents) THEN s
  ELSE IF col > s.indents[Len(s.indents) - 1]
  THEN [YieldToken(s, "ERROR_DEDENT", line, col, NoPrefix)
          EXCEPT !.indents = Append(Front(@), col)]
  ELSE DedentIfNecessary(
         YieldToken([s EXCEPT !.indents = Front(@)], "DEDENT", line, col, NoPrefix), line, col)

Indented(s, line, col) ==
  IF col > Last(s.indents)
  THEN [YieldToken(s, "INDENT", line, col, NoPrefix) EXCEPT !.indents = Append(@, col)]
  ELSE DedentIfNecessary(s, line, col)

\* A name or an operator, gap columns after what is before it in the line.
Word(s, tok, line, col, gap, isFirst) ==
  LET begun == IF s.newLine /\ s.parens = 0 THEN Indented(s, line, col) ELSE s
      breaks == tok \in AlwaysBreak /\ begun.parens > 0
      out == IF breaks /\ isFirst THEN DedentIfNecessary(begun, line, col) ELSE begun
      parens == IF breaks THEN 0 ELSE out.parens
  IN [YieldToken(out, tok, line, col, Join(s.prefix, Spaces(gap))) EXCEPT
        !.newLine = FALSE,
        !.prefix = NoPrefix,
        !.parens = CASE tok = "(" -> parens + 1
                     [] tok = ")" /\ parens > 0 -> parens - 1
                     [] OTHER -> parens]

Newline(s, line, col, gap) ==
  LET prefix == Join(s.prefix, Spaces(gap))
  IN IF ~s.newLine /\ s.parens = 0
     THEN [YieldToken(s, "NEWLINE", line, col, prefix) EXCEPT
             !.newLine = TRUE, !.prefix = NoPrefix]
     ELSE [s EXCEPT !.newLine = TRUE, !.prefix = Join(prefix, LineEnd)]

LineWidth(kind, col) ==
  LET lexemes == Lexemes[kind]
  IN col + IF lexemes = <<>> THEN 0 ELSE Last(lexemes)[2] + Width[Last(lexemes)[1]]

TokenizeLine(s, n, line) ==
  LET lexemes == Lexemes[line[1]]
      col == line[2]
      Gap(i) == IF i = 1 THEN col
                ELSE lexemes[i][2] - lexemes[i - 1][2] - Width[lexemes[i - 1][1]]
      words == FoldLeft(LAMBDA r, i : Word(r, lexemes[i][1], n, col + lexemes[i][2], Gap(i), i = 1),
                        s, [i \in DOMAIN lexemes |-> i])
      blank == IF lexemes = <<>> THEN col ELSE 0
  IN IF line[3] THEN Newline(words, n, LineWidth(line[1], col), blank)
     ELSE [words EXCEPT !.prefix = Join(@, Spaces(blank))]

\* The end: every level is left, and the ENDMARKER has the prefix that remains.
RECURSIVE EndOfLines(_, _, _)
EndOfLines(s, n, col) ==
  IF Len(s.indents) > 1
  THEN EndOfLines(YieldToken([s EXCEPT !.indents = Front(@)], "DEDENT", n, col, NoPrefix), n, col)
  ELSE YieldToken(s, "ENDMARKER", n, col, s.prefix).tokens

\* The tokens of the lines after the first `before` ones.
Tokenize(lines, before, indents) ==
  LET s == FoldLeft(LAMBDA r, n : TokenizeLine(r, n, lines[n]), TokenizerStart(indents),
                    [i \in 1 .. Len(lines) - before |-> before + i])
  IN EndOfLines(s, Len(lines), LineWidth(Last(lines)[1], Last(lines)[2]))
=============================================================================
