----------------------------- MODULE TreeParser -----------------------------
(***************************************************************************)
(* The parsing engine and Python's error recovery (parser.py and            *)
(* python/parser.py) as a function from tokens to a tree.  It takes the     *)
(* steps of Parser, and builds the tree that Parser abstracts from.  A      *)
(* parser is [stack, omit, level]; an exception that is not ParserSyntaxError *)
(* would have no value here, and end the model checking.                    *)
(***************************************************************************)
EXTENDS LineTokens

CONSTANTS FromRule, Final, Transitions, StmtArc, StartState      \* as in Parser

StackNode(dfa) == [dfa |-> dfa, nodes |-> <<>>]

ParserStart == [stack |-> <<StackNode(StartState)>>, omit |-> <<>>, level |-> 0]

Nonterminal(stackNode) == FromRule[stackNode.dfa]

\* convert_leaf, and PythonErrorLeaf
Leaf(type, t) ==
  [type |-> type, tok |-> t.tok, line |-> t.line, col |-> t.col, prefix |-> t.prefix]

Node(type, children) == [type |-> type, children |-> children]

ConvertNode(rule, children) ==
  Node(rule, IF rule = "suite" THEN <<children[1]>> \o SubSeq(children, 3, Len(children) - 1)
                               ELSE children)

Finished(stackNode) ==
  IF Len(stackNode.nodes) = 1 THEN stackNode.nodes[1]
  ELSE ConvertNode(Nonterminal(stackNode), stackNode.nodes)

AddNode(stack, node) == [stack EXCEPT ![Len(stack)].nodes = Append(@, node)]

Pop(stack) == AddNode(Front(stack), Finished(Last(stack)))

SetDfa(stack, dfa) == [stack EXCEPT ![Len(stack)].dfa = dfa]

-----------------------------------------------------------------------------
\* A simple_stmt at the end of a file or block may lack its newline.
LacksNewline(stack, t) ==
  LET top == Last(stack)
      plans == Transitions[top.dfa]
  IN /\ t.tok = "ENDMARKER" \/ (t.tok = "DEDENT" /\ LastLeaf(Last(top.nodes)).tok # "NEWLINE")
     /\ Nonterminal(top) = "simple_stmt"
     /\ "NEWLINE" \in DOMAIN plans
     /\ plans["NEWLINE"].next \in Final /\ plans["NEWLINE"].pushes = <<>>

\* current_suite
UntilIndex(stack) ==
  SelectLastInSeq(stack, LAMBDA n : \/ Nonterminal(n) = "file_input"
                                    \/ Nonterminal(n) = "suite" /\ Len(n.nodes) # 1)

\* The end of error_recovery: a suite counts as having a statement.
WithStatement(p) ==
  LET dfa == Last(p.stack).dfa
  IN IF Nonterminal(Last(p.stack)) = "suite" /\ dfa \in DOMAIN StmtArc
     THEN [p EXCEPT !.stack = SetDfa(@, StmtArc[dfa])]
     ELSE p

RECURSIVE AddToken(_, _)

ErrorRecovery(p, t) ==
  LET i == UntilIndex(p.stack)
      kept == SubSeq(p.stack, 1, i)
      removed == FlattenSeq([j \in 1 .. Len(p.stack) - i |-> p.stack[i + j].nodes])
  IN IF LacksNewline(p.stack, t)
     THEN AddToken([p EXCEPT !.stack =
                      SetDfa(@, Transitions[Last(p.stack).dfa]["NEWLINE"].next)], t)
     ELSE WithStatement(
            IF removed # <<>>
            THEN AddToken([p EXCEPT !.stack = AddNode(kept, Node("error_node", removed))], t)
            ELSE [p EXCEPT !.stack = AddNode(kept, Leaf("error_leaf", t)),
                           !.omit = IF t.tok = "INDENT" THEN Append(@, p.level) ELSE @])

AddToken(p, t) ==
  LET top == Last(p.stack)
      plans == Transitions[top.dfa]
      plan == plans[t.tok]
  IN IF t.tok \in DOMAIN plans
     THEN [p EXCEPT !.stack =
             AddNode(SetDfa(@, plan.next) \o [i \in DOMAIN plan.pushes |-> StackNode(plan.pushes[i])],
                     Leaf(t.tok, t))]
     ELSE IF top.dfa \in Final
     THEN AddToken([p EXCEPT !.stack = Pop(@)], t)
     ELSE ErrorRecovery(p, t)

\* _recovery_tokenize, and the token loop of parse
Feed(p, t) ==
  IF t.tok = "DEDENT" /\ p.omit # <<>> /\ Last(p.omit) = p.level
  THEN [p EXCEPT !.omit = Front(@), !.level = @ - 1]
  ELSE AddToken([p EXCEPT !.level = CASE t.tok = "INDENT" -> @ + 1
                                      [] t.tok = "DEDENT" -> @ - 1
                                      [] OTHER -> @], t)

\* The last loop of parse.
RECURSIVE FinishParse(_)
FinishParse(stack) ==
  IF Len(stack) > 1 THEN FinishParse(Pop(stack))
  ELSE ConvertNode("file_input", stack[1].nodes)

Parse(tokens) == FinishParse(FoldLeft(Feed, ParserStart, tokens).stack)

ParseLines(lines) == Parse(Tokenize(lines, 0, <<0>>))
=============================================================================
