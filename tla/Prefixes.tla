------------------------------ MODULE Prefixes ------------------------------
(***************************************************************************)
(* Text that means nothing to the parser: how it is cut into lines          *)
(* (split_lines in utils.py) and into parts with positions (split_prefix in *)
(* python/prefix.py).  A text is a sequence of characters: "lf", "cr", "ff" *)
(* for a form feed and the other _NON_LINE_BREAKS, "hash", "bs" for a       *)
(* backslash, "sp" for a space or tab, and "ch" for all others.  Prefixes   *)
(* with a byte order mark, whose columns are off, are left out.             *)
(***************************************************************************)
EXTENDS Integers, Sequences, SequencesExt

-----------------------------------------------------------------------------
(* split_lines(text, keepends=True)                                          *)

EndsAt(text, i, breaks) ==
  /\ text[i] \in breaks
  /\ ~(text[i] = "cr" /\ i < Len(text) /\ text[i + 1] = "lf")

LinesBetween(text, breaks) ==
  LET ends == SelectSeq([i \in DOMAIN text |-> i],
                        LAMBDA i : EndsAt(text, i, breaks) \/ i = Len(text))
  IN [k \in DOMAIN ends |-> SubSeq(text, IF k = 1 THEN 1 ELSE ends[k - 1] + 1, ends[k])]

\* str.splitlines(True)
StdSplitLines(text) == LinesBetween(text, {"lf", "cr", "ff"})

Merged(lines, index) ==
  IF index < Len(lines)
  THEN SubSeq(lines, 1, index - 1) \o <<lines[index] \o lines[index + 1]>>
         \o SubSeq(lines, index + 2, Len(lines))
  ELSE lines

\* Mistake: the lines are merged from the first one on.
MergeForward(lines, merge) == FoldLeft(Merged, lines, merge)

MergeBroken(lines, merge) == FoldLeft(Merged, lines, Reverse(merge))

SplitLines(text) ==
  LET lines == StdSplitLines(text)
      merge == SelectSeq([i \in DOMAIN lines |-> i], LAMBDA i : Last(lines[i]) = "ff")
      merged == MergeBroken(lines, merge)
  IN IF text = <<>> \/ Last(text) \in {"lf", "cr"} THEN Append(merged, <<>>) ELSE merged

-----------------------------------------------------------------------------
(* split_prefix.  A part is [type, spacing, length, pos]: how much spacing   *)
(* is before its value, how long that is, and its start_pos.                 *)

FirstFrom(prefix, i, chars) ==
  LET next == SelectInSubSeq(prefix, i, Len(prefix), LAMBDA c : c \in chars)
  IN IF next = 0 THEN Len(prefix) + 1 ELSE next

\* What the regular expression matches after the spacing, at position i.
NewlineLength(prefix, i) ==
  IF prefix[i] = "cr" /\ i < Len(prefix) /\ prefix[i + 1] = "lf" THEN 2 ELSE 1

Types == [hash |-> "comment", bs |-> "backslash", ff |-> "formfeed", lf |-> "newline", cr |-> "newline"]

MatchLength(prefix, i) ==
  CASE prefix[i] = "hash" -> FirstFrom(prefix, i, {"lf", "cr", "ff"}) - i
    [] prefix[i] = "bs" -> 1 + NewlineLength(prefix, i + 1)
    [] OTHER -> NewlineLength(prefix, i)

\* The column that the next line starts in, less what of the prefix is read.
ColumnAfterLine(start) == -start

\* From the character after `start` on, at line and column less start.
RECURSIVE PartsFrom(_, _, _, _)
PartsFrom(prefix, start, line, column) ==
  LET next == SelectInSubSeq(prefix, start + 1, Len(prefix), LAMBDA c : c # "sp")
      spacing == next - 1 - start
      length == MatchLength(prefix, next)
      end == next - 1 + length
      part == [type |-> Types[prefix[next]], spacing |-> spacing, length |-> length,
               pos |-> <<line, column + start + spacing>>]
  IN IF next = 0                       \* only spacing, and maybe none
     THEN <<[type |-> "spacing", spacing |-> 0, length |-> Len(prefix) - start,
             pos |-> <<line, column + start>>]>>
     ELSE <<part>> \o IF prefix[end] \in {"lf", "cr"}
                      THEN PartsFrom(prefix, end, line + 1, ColumnAfterLine(end))
                      ELSE PartsFrom(prefix, end, line, column)

SplitPrefix(prefix, startPos) == PartsFrom(prefix, 0, startPos[1], startPos[2])

\* The i-th character is in a comment.
InComment(text, i) ==
  LET line == SelectLastInSubSeq(text, 1, i - 1, LAMBDA c : c \in {"lf", "cr"})
  IN SelectInSubSeq(text, line + 1, i - 1, LAMBDA c : c = "hash") # 0

\* The prefixes of a leaf: a backslash is before a line end, and other characters
\* are in comments.  Comments with a form feed in them, which split_prefix does
\* not expect, are left out.
IsPrefixText(text) ==
  /\ ~InComment(text, Len(text) + 1)
  /\ \A i \in DOMAIN text :
       CASE text[i] = "ch" -> InComment(text, i)
         [] text[i] = "ff" -> ~InComment(text, i)
         [] text[i] = "bs" ->
              InComment(text, i) \/ (i < Len(text) /\ text[i + 1] \in {"lf", "cr"})
         [] OTHER -> TRUE
=============================================================================
