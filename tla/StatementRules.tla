--------------------------- MODULE StatementRules ----------------------------
(***************************************************************************)
(* The error finder with its rules for single statements: what ErrorFinder  *)
(* leaves to constants is what ErrorRules and Prefixes compute.             *)
(***************************************************************************)
EXTENDS ErrorFinder, ErrorRules, Prefixes

CONSTANTS
  Signatures, Calls, Clauses, Targets    \* what the rules for statements see

RuledStatements ==
  ({"signature"} \X Signatures) \cup ({"call"} \X Calls)
    \cup ({"clauses"} \X Clauses) \cup ({"target"} \X Targets)

\* feed_node of the rules that are registered for its nodes
MessagesOf(kind, detail) ==
  CASE kind = "signature" -> ParameterIssues(detail)
    [] kind = "call" -> ArglistRule(detail)
    [] kind = "clauses" -> TryStmtRule(detail)
    [] kind = "target" -> IF TargetIssue(detail[1], detail[2]) THEN <<"target">> ELSE <<>>

LinesOf(text) == Len(SplitLines(text))
LastPartLine(text) == Last(SplitPrefix(text, <<1, 0>>)).pos[1]

-----------------------------------------------------------------------------
(* Single statements, and what is before one.                                *)

\* Two bare excepts pass, and before := the names and places in brackets.
PassesNevertheless(s) ==
  \/ s.kind = "clauses" /\ Cardinality({i \in DOMAIN s.detail : s.detail[i] = "bare"}) > 1
  \/ s.kind = "target" /\ s.detail[1] = "named" /\ s.detail[2].type \in Brackets

\* Of the parameters of a function, the arguments of a call and the except
\* clauses of a try, those and only those are refused that Python refuses,
\* although the rules go through them once and keep no more than a few flags.
SignaturesDecided ==
  finished /\ Alone =>
    LET s == program[1]
    IN s.kind # "target" /\ ~PassesNevertheless(s) =>
         (errors # <<>>) = CASE s.kind = "signature" -> ParametersIllegal(s.detail)
                             [] s.kind = "call" -> ArgumentsIllegal(s.detail)
                             [] s.kind = "clauses" -> ClausesIllegal(s.detail)

\* The rules for targets and the two for stars, each called at its own nodes,
\* refuse together what cannot be assigned to, deleted or annotated, however
\* deep it is in brackets, and nothing else.
TargetsDecided ==
  finished /\ Alone =>
    LET s == program[1]
    IN s.kind = "target" /\ ~PassesNevertheless(s) =>
         (errors # <<>>) = TargetIllegal(s.detail[1], s.detail[2])

\* The offset of a part's value in the prefix, and of a position in the lines.
OffsetOf(parts, k) ==
  FoldLeft(LAMBDA n, part : n + part.spacing + part.length, 0, SubSeq(parts, 1, k - 1)) + parts[k].spacing
PlaceOf(lines, pos) == Len(FlattenSeq(SubSeq(lines, 1, pos[1] - 1))) + pos[2]

\* split_lines, which merges what splitlines breaks, and split_prefix, which
\* counts the lines itself, agree: the lines are the text, and each part is
\* in the line and column its position names.  So an error for the spacing
\* before a statement is in the line of the statement.
PartsAreInTheLines ==
  head # <<>> =>
    LET lines == SplitLines(head)
        parts == SplitPrefix(head, <<1, 0>>)
    IN /\ FlattenSeq(lines) = head
       /\ \A k \in DOMAIN parts :
            LET pos == parts[k].pos
            IN /\ pos[1] \in DOMAIN lines
               /\ pos[2] \in 0 .. Len(lines[pos[1]]) - (IF pos[1] = Len(lines) THEN 0 ELSE 1)
               /\ PlaceOf(lines, pos) = OffsetOf(parts, k)
       /\ finished => DOMAIN errors = {Line(1)}
=============================================================================
