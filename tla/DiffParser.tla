----------------------------- MODULE DiffParser -----------------------------
(***************************************************************************)
(* DiffParser.update (python/diff.py): the tree of the old lines becomes    *)
(* the tree of the new ones.  Ranges that are equal are copied as far as    *)
(* that goes, the others are parsed, each until the parser is in a state    *)
(* that more can be added to; every round of these loops is a step.         *)
(* Byte order marks, for which nothing is copied, are left out.             *)
(***************************************************************************)
EXTENDS NodesTree, SequenceMatcher

CONSTANT Updates       \* the pairs of old and new lines

VARIABLES
  old, new,            \* the lines
  module,              \* self._module
  tree,                \* self._nodes_tree
  opcodes,             \* those of difflib that are left; the first is at work
  pc,
  parseUntil,          \* until_line of _parse
  parseLast,           \* last_until_line of _parse
  copyLast             \* last_until_line of _copy_from_old_parser

vars == <<old, new, module, tree, opcodes, pc, parseUntil, parseLast, copyLast>>

\* "failed" is an assertion, or the exception at the end of update.
PC == {"opcode", "copy", "parse", "done", "failed"}

Init ==
  /\ \E pair \in Updates : old = pair[1] /\ new = pair[2]
  /\ module = ParseLines(old)
  /\ tree = NewTree
  /\ opcodes = Opcodes(old, new)
  /\ pc = "opcode"
  /\ parseUntil = 0 /\ parseLast = 0 /\ copyLast = 0

-----------------------------------------------------------------------------
(* _diff_tokenize: the tokens of the lines after those parsed, up to where   *)
(* the parser, which takes them one by one, can stop.                        *)

\* _flows_finished
FlowsFinished(stack) == \A i \in DOMAIN stack : Nonterminal(stack[i]) # "while_stmt"

\* Mistake: a decorator may be parsed without what it decorates.
SuiteIsValid(stack) ==
  LET i == SelectLastInSeq(stack, LAMBDA n : Nonterminal(n) = "suite")
  IN FlowsFinished(stack) /\ (i # 0 => Len(stack[i].nodes) > 1)

\* _suite_or_file_input_is_valid
SuiteOrFileInputIsValid(stack) ==
  LET i == SelectLastInSeq(stack, LAMBDA n : Nonterminal(n) \in {"decorator", "suite"})
  IN /\ FlowsFinished(stack)
     /\ i # 0 => Nonterminal(stack[i]) = "suite" /\ Len(stack[i].nodes) > 1

EndMarker(line, col, prefix) ==
  [tok |-> "ENDMARKER", line |-> line, col |-> col, prefix |-> prefix]

\* Where the tokens leave a level that was there at the start: what can come
\* now is the end, or another block further out.
EndOfBlock(tokens, i) ==
  LET j == CHOOSE k \in i + 1 .. Len(tokens) :
             /\ tokens[k].tok \notin {"DEDENT", "ERROR_DEDENT"}
             /\ \A l \in i + 1 .. k - 1 : tokens[l].tok \in {"DEDENT", "ERROR_DEDENT"}
      t == tokens[j]
      e == SelectLastInSubSeq(tokens, i + 1, j - 1, LAMBDA u : u.tok = "ERROR_DEDENT")
      prefix == IF HasLineEnd(t.prefix) THEN UntilLineEnd(t.prefix)
                ELSE IF t.col = t.prefix[1] THEN NoPrefix
                ELSE t.prefix
  IN [token |-> EndMarker(t.line, t.col, prefix), indents |-> t.indents,
      tosIndent |-> IF e = 0 THEN {} ELSE {tokens[e].col + 1}]

\* The partial parse from the i-th token on.  keywords: _keyword_token_indents;
\* tosIndent: _replace_tos_indent, if there is one.
RECURSIVE ParsePart(_, _, _)
ParsePart(c, i, s) ==
  LET t == c.tokens[i]
      leaves == t.tok = "DEDENT" /\ Len(t.indents) < c.levels
      stops == /\ t.tok # "DEDENT" /\ s.wasNewline
               /\ ~(t.tok = "NEWLINE" /\ t.line >= c.untilLine)
               /\ Len(t.indents) = c.levels
               /\ SuiteOrFileInputIsValid(s.parser.stack)
      out == EndOfBlock(c.tokens, i)
      Result(token, indents, tosIndent) ==
        [root |-> FinishParse(Feed(s.parser, token).stack), indents |-> indents,
         tosIndent |-> tosIndent, keywords |-> s.keywords]
      keywords == IF t.tok = "class"
                  THEN [p \in DOMAIN s.keywords \cup {<<t.line, t.col>>} |->
                          IF p = <<t.line, t.col>> THEN t.indents ELSE s.keywords[p]]
                  ELSE s.keywords
      newline == IF t.tok = "DEDENT" THEN s.wasNewline ELSE t.tok = "NEWLINE" /\ t.line >= c.untilLine
  IN IF leaves THEN Result(out.token, out.indents, out.tosIndent)
     ELSE IF stops THEN Result(EndMarker(t.line, t.col, NoPrefix), t.indents, {})
     ELSE IF i = Len(c.tokens) THEN Result(t, t.indents, {})
     ELSE ParsePart(c, i + 1, [parser |-> Feed(s.parser, t), wasNewline |-> newline,
                               keywords |-> keywords])

\* _try_parse_part
TryParsePart(untilLine) ==
  ParsePart([tokens |-> Tokenize(new, ParsedUntilLine(tree), tree.indents),
             levels |-> Len(tree.indents), untilLine |-> untilLine],
            1, [parser |-> ParserStart, wasNewline |-> FALSE, keywords |-> <<>>])

-----------------------------------------------------------------------------
(* update                                                                    *)

Current == Head(opcodes)

\* Mistake: the last line counts, even if it is empty.
UntilLast(op) == op.j2

\* The empty part after the last newline is not relevant.
UntilNew(op) ==
  IF op.j2 = Len(new) /\ Last(new) = <<"blank", 0, FALSE>> THEN op.j2 - 1 ELSE op.j2

StartOpcode ==
  /\ pc = "opcode"
  /\ opcodes # <<>>
  /\ \/ /\ Current.tag = "equal"
        /\ pc' = "copy" /\ copyLast' = -1
        /\ UNCHANGED <<opcodes, parseUntil, parseLast>>
     \/ /\ Current.tag \in {"replace", "insert"}
        /\ pc' = "parse" /\ parseUntil' = UntilNew(Current) /\ parseLast' = 0
        /\ UNCHANGED <<opcodes, copyLast>>
     \/ /\ Current.tag = "delete"
        /\ opcodes' = Tail(opcodes)
        /\ UNCHANGED <<pc, parseUntil, parseLast, copyLast>>
  /\ UNCHANGED <<old, new, module, tree>>

FinishOpcode ==
  /\ \/ pc = "parse" /\ Current.tag # "equal" /\ parseUntil <= ParsedUntilLine(tree)
     \/ pc = "copy" /\ UntilNew(Current) <= ParsedUntilLine(tree)
  /\ opcodes' = Tail(opcodes)
  /\ pc' = "opcode"
  /\ UNCHANGED <<old, new, module, tree, parseUntil, parseLast, copyLast>>

-----------------------------------------------------------------------------
(* _parse                                                                    *)

ParseRound ==
  /\ pc = "parse"
  /\ parseUntil > ParsedUntilLine(tree)
  /\ \E part \in {TryParsePart(parseUntil)} :
       /\ tree' = [AddParsedNodes(tree, part.root, part.keywords) EXCEPT
                     !.indents = IF part.tosIndent = {} THEN part.indents
                                 ELSE Append(Front(part.indents), CHOOSE n \in part.tosIndent : TRUE)]
       /\ parseLast' = ParsedUntilLine(tree')
       /\ pc' = IF part.root.children[1].type = "NEWLINE" \/ parseLast' = parseLast
                THEN "failed" ELSE "parse"
  /\ UNCHANGED <<old, new, module, opcodes, parseUntil, copyLast>>

-----------------------------------------------------------------------------
(* _copy_from_old_parser                                                     *)

IsBlockNode(path) == At(module, path).type \in {"file_input", "suite"}

RECURSIVE StatementOf(_)
StatementOf(path) == IF IsBlockNode(Front(path)) THEN path ELSE StatementOf(Front(path))

\* Mistake: a statement that begins before the line is one, too.
StatementAround(line) ==
  LET found == LeafForPosition(module, <<line, 0>>)
      leaf == IF EndsWithNewline(module, found) THEN NextLeaf(module, found) ELSE found
  IN IF StartPosOfPrefix(module, leaf)[1] = line THEN StatementOf(leaf) ELSE None

\* _get_old_line_stmt: not the rest of a statement that only goes on there.
OldLineStmt(line) ==
  LET found == LeafForPosition(module, <<line, 0>>)
      leaf == IF EndsWithNewline(module, found) THEN NextLeaf(module, found) ELSE found
      statement == StatementOf(leaf)
  IN IF /\ StartPosOfPrefix(module, leaf)[1] = line
        /\ StartPos(At(module, statement))[1] >= line
     THEN statement
     ELSE None

\* The tree with the nodes copied for the equal range, or as it was.
Copied ==
  LET offset == Current.j1 - Current.i1
      statement == OldLineStmt(ParsedUntilLine(tree) - offset + 1)
  IN IF statement = None THEN tree
     ELSE CopyNodes(tree, module, Front(statement), Last(statement), Current.i2, offset)

CopyAsserted ==
  /\ copyLast' = ParsedUntilLine(tree')
  /\ pc' = IF copyLast' = copyLast THEN "failed" ELSE "copy"

CopyRound ==
  /\ pc = "copy"
  /\ UntilNew(Current) > ParsedUntilLine(tree)
  /\ tree' = Copied
  /\ tree' # tree
  /\ CopyAsserted
  /\ UNCHANGED <<old, new, module, opcodes, parseUntil, parseLast>>

\* Nothing can be copied here: parse one line at least, and try again.
ParseInstead ==
  /\ pc = "copy"
  /\ UntilNew(Current) > ParsedUntilLine(tree)
  /\ Copied = tree
  /\ pc' = "parse"
  /\ parseUntil' = ParsedUntilLine(tree) + 1
  /\ parseLast' = 0
  /\ UNCHANGED <<old, new, module, tree, opcodes, copyLast>>

BackToCopy ==
  /\ pc = "parse"
  /\ Current.tag = "equal"
  /\ parseUntil <= ParsedUntilLine(tree)
  /\ tree' = tree
  /\ CopyAsserted
  /\ UNCHANGED <<old, new, module, opcodes, parseUntil, parseLast>>

-----------------------------------------------------------------------------
CloseTree ==
  /\ pc = "opcode"
  /\ opcodes = <<>>
  /\ module' = Close(tree)
  /\ pc' = IF EndPos(module')[1] = Len(new) THEN "done" ELSE "failed"
  /\ UNCHANGED <<old, new, tree, opcodes, parseUntil, parseLast, copyLast>>

Next ==
  \/ StartOpcode \/ FinishOpcode
  \/ ParseRound
  \/ CopyRound \/ ParseInstead \/ BackToCopy
  \/ CloseTree

Spec == Init /\ [][Next]_vars

-----------------------------------------------------------------------------
\* The tree is the one a full parse of the new lines gives, leaf by leaf with
\* type, prefix and position, and node by node (_assert_nodes_are_equal): so a
\* copy with an offset, an indentation the tokenizer was started with, and a
\* prefix cut at a seam never show, and the next update starts from a tree that
\* is like the first one.
SameTree == pc = "done" => module = ParseLines(new)

\* No assertion of diff.py fails, and the tree ends on the last line.
NeverFails == pc # "failed"

\* The text of leaves or tokens: each with what is before it, and the rest.
Text(leaves) ==
  FoldLeft(LAMBDA r, leaf :
             IF leaf.tok \in IndentationTokens \cup {"ENDMARKER"}
             THEN [r EXCEPT !.rest = Join(@, leaf.prefix)]
             ELSE [words |-> Append(r.words, <<Join(r.rest, leaf.prefix), leaf.tok>>),
                   rest  |-> NoPrefix],
           [words |-> <<>>, rest |-> NoPrefix], leaves)

\* Between any two rounds the nodes collected hold the text of the lines that
\* count as parsed, in order and to the last space: nothing is copied or parsed
\* twice or left out, wherever the old statements and the partial parses end.
CoversParsedLines ==
  LET collected == Text(Leaves(Node("file_input", FinishNode(BaseNode(tree.stack)))))
      n == ParsedUntilLine(tree)
      lines == IF n < Len(new) THEN Append(SubSeq(new, 1, n), <<"blank", 0, FALSE>>) ELSE new
  IN pc \notin {"done", "failed"} =>
       [collected EXCEPT !.rest =
          Join(Join(@, tree.prefix), IF n < Len(new) THEN NoPrefix ELSE tree.remainder)]
         = Text(Tokenize(lines, 0, <<0>>))

\* Every round gets ahead by a line at least or, without going back, gives up an
\* indent that a failed copy has left (the code asserts only that rounds of a
\* loop do not end on the same line).
RoundsAdvance ==
  [][tree' # tree /\ pc' # "failed" =>
       \/ ParsedUntilLine(tree') > ParsedUntilLine(tree)
       \/ ParsedUntilLine(tree') = ParsedUntilLine(tree) /\ Len(tree'.indents) < Len(tree.indents)]_vars

\* The binary search finds, for every line of the old tree, the first leaf that
\* does not end before it, although leaves of indentation are empty and a
\* newline ends in the next line.
SearchFindsFirst ==
  pc = "opcode" /\ tree = NewTree =>
    \A line \in 1 .. Len(old) :
      LET paths == LeafPaths(module, <<>>)
          Covers(i) == AtOrBefore(<<line, 0>>, LeafEndPos(At(module, paths[i])))
      IN LeafForPosition(module, <<line, 0>>) = paths[SelectInSeq([i \in DOMAIN paths |-> i], Covers)]
=============================================================================
