---------------------------- MODULE TokenStream ----------------------------
(***************************************************************************)
(* What tokenize_lines promises to the parser that iterates over it: which  *)
(* tokens can follow one another, and that INDENT and DEDENT are balanced.  *)
(* Token values are abstracted to the transition they are for the parser    *)
(* (_token_to_transition): a keyword or operator is a token of its own.     *)
(***************************************************************************)
EXTENDS Naturals, Sequences, FiniteSets

CONSTANTS
  TextTokens,          \* the tokens that carry text, NEWLINE among them
  MaxTokens,           \* bound: tokens before the tokenizer runs out of lines
  MaxDepth             \* bound: the indentations open at once

VirtualTokens == {"INDENT", "DEDENT", "ERROR_DEDENT"}  \* value '' and prefix ''

ASSUME TokenAssumption ==
  /\ "NEWLINE" \in TextTokens
  /\ TextTokens \cap (VirtualTokens \cup {"ENDMARKER", "start"}) = {}
  /\ MaxTokens \in Nat
  /\ MaxDepth \in Nat

Tokens == TextTokens \cup VirtualTokens \cup {"ENDMARKER"}

VARIABLES
  last,                \* the last token yielded, "start" before the first
  depth,               \* INDENTs not closed by a DEDENT yet
  count                \* the tokens yielded

streamVars == <<last, depth, count>>

StreamInit == last = "start" /\ depth = 0 /\ count = 0

StreamTypeOK ==
  /\ last \in Tokens \cup {"start"}
  /\ depth \in Nat
  /\ count \in Nat

\* The line whose first token deepens the indentation: on a new line, outside
\* brackets and f-strings, and that token is no newline and no comment.
YieldIndent ==
  /\ last \in {"start", "NEWLINE", "FSTRING_END"}
  /\ last' = "INDENT"
  /\ depth' = depth + 1

\* dedent_if_necessary, for the first token of a line or for a keyword that
\* breaks off open brackets, and the indentation left over at the end.
YieldDedent ==
  /\ last \notin {"start", "INDENT", "ERROR_DEDENT"}
  /\ depth > 0
  /\ last' = "DEDENT"
  /\ depth' = depth - 1

\* dedent_if_necessary between two levels of the indents list
YieldErrorDedent ==
  /\ last \notin {"start", "INDENT", "ERROR_DEDENT"}
  /\ depth > 0
  /\ last' = "ERROR_DEDENT"
  /\ UNCHANGED depth

\* A token with text; a NEWLINE ends a line that has some other token.
YieldText(t) ==
  /\ t = "NEWLINE" => last \notin VirtualTokens \cup {"start", "NEWLINE"}
  /\ last' = t
  /\ UNCHANGED depth

\* Every indentation was closed by a DEDENT before.
YieldEndmarker ==
  /\ last \notin {"INDENT", "ERROR_DEDENT"}
  /\ depth = 0
  /\ last' = "ENDMARKER"
  /\ UNCHANGED depth

Promised(t) ==
  /\ last # "ENDMARKER"
  /\ count' = count + 1
  /\ \/ t = "INDENT" /\ YieldIndent
     \/ t = "DEDENT" /\ YieldDedent
     \/ t = "ERROR_DEDENT" /\ YieldErrorDedent
     \/ t \in TextTokens /\ YieldText(t)
     \/ t = "ENDMARKER" /\ YieldEndmarker

\* The bounds, which leave a way to the end: the token an INDENT must have, and
\* the DEDENTs.
WithinBounds(t) ==
  /\ t = "INDENT" => depth < MaxDepth
  /\ t \notin {"DEDENT", "ENDMARKER"} =>
       count < MaxTokens \/ (t \in TextTokens /\ last \in {"INDENT", "ERROR_DEDENT"})

Yield(t) == WithinBounds(t) /\ Promised(t)

-----------------------------------------------------------------------------
(* The promise on its own, for the tokenizer that keeps it.                 *)

StreamNext == \E t \in Tokens : Promised(t)

StreamSpec == StreamInit /\ [][StreamNext]_streamVars
=============================================================================
