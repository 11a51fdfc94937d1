------------------------------- MODULE Parser -------------------------------
(***************************************************************************)
(* The parsing engine (parser.py) with Python's error recovery on top       *)
(* (python/parser.py): a stack of nodes driven by the transitions that      *)
(* pgen2 generates, one token at a time.  _add_token and error_recovery     *)
(* call each other; the pending calls of error_recovery, which still have   *)
(* to look at the suite on top when _add_token returns, are a counter.      *)
(*                                                                         *)
(* A tree node is abstracted to its type, the positions in the token        *)
(* sequence of the text below it, and its last leaf.                        *)
(***************************************************************************)
EXTENDS TokenStream, Integers

CONSTANTS
  Nonterminals,        \* the rules of the grammar
  States,              \* the DFA states of all rules
  FromRule,            \* state -> its rule
  Final,               \* the final states
  Transitions,         \* state -> terminal -> [next, pushes]
  StmtArc,             \* arcs['stmt']: the states that have it -> where it goes
  StartState,          \* the first state of file_input
  LineEndTokens,       \* tokens whose text ends in a newline
  ErrorRecovery        \* the error_recovery argument of the parser

NodeTypes == Tokens \cup Nonterminals \cup {"error_leaf", "error_node"}

ASSUME GrammarAssumption ==
  /\ {"file_input", "suite", "simple_stmt", "stmt"} \subseteq Nonterminals
  /\ FromRule \in [States -> Nonterminals]
  /\ Final \subseteq States
  /\ StartState \in States /\ FromRule[StartState] = "file_input"
  /\ \A s \in States :
       /\ DOMAIN Transitions[s] \subseteq Tokens
       /\ \A t \in DOMAIN Transitions[s] :
            Transitions[s][t] \in [next : States, pushes : Seq(States)]
  /\ DOMAIN StmtArc \subseteq States
  /\ \A s \in DOMAIN StmtArc : StmtArc[s] \in States
  /\ LineEndTokens \subseteq TextTokens
  /\ ErrorRecovery \in BOOLEAN

\* Waits for the INDENT of a block.
AwaitsIndent(s) == FromRule[s] = "suite" /\ "INDENT" \in DOMAIN Transitions[s]

\* suite: simple_stmt | NEWLINE INDENT stmt+ DEDENT
ASSUME SuiteAssumption ==
  /\ \A s \in States : \A t \in DOMAIN Transitions[s] :
       LET plan == Transitions[s][t]
       IN /\ FromRule[plan.next] = FromRule[s]
          /\ \A i \in DOMAIN plan.pushes :
               FromRule[plan.pushes[i]] = "suite" =>
                 IF i < Len(plan.pushes) THEN plan.pushes[i] \in Final
                                         ELSE AwaitsIndent(plan.pushes[i])
  /\ \A s \in States : FromRule[s] = "suite" =>
       /\ s \in Final => DOMAIN Transitions[s] = {}
       /\ AwaitsIndent(s) =>
            /\ DOMAIN Transitions[s] = {"INDENT"}
            /\ Transitions[s]["INDENT"].pushes = <<>>
            /\ Transitions[s]["INDENT"].next \in DOMAIN StmtArc
       /\ s \in DOMAIN StmtArc =>
            /\ s \notin Final
            /\ StmtArc[s] \in DOMAIN StmtArc /\ FromRule[StmtArc[s]] = "suite"
            /\ \A t \in DOMAIN Transitions[s] :
                 LET plan == Transitions[s][t]
                 IN IF t = "DEDENT"
                    THEN plan.pushes = <<>> /\ plan.next \in Final
                    ELSE plan.pushes # <<>> /\ plan.next \in DOMAIN StmtArc

\* Can end its block: it has a statement, or what recovery takes for one.
Dedents(s) == "DEDENT" \in DOMAIN Transitions[s]

\* Nothing but a suite has an INDENT and a DEDENT, with a stmt between them.
ASSUME BlockAssumption ==
  \A s \in States :
    /\ DOMAIN Transitions[s] \cap {"INDENT", "DEDENT"} # {} => FromRule[s] = "suite"
    /\ AwaitsIndent(s) => ~Dedents(Transitions[s]["INDENT"].next)
    /\ FromRule[s] = "suite" /\ s \in DOMAIN StmtArc =>
         /\ Dedents(StmtArc[s])
         /\ \A t \in DOMAIN Transitions[s] \ {"DEDENT"} : Dedents(Transitions[s][t].next)

\* Some plan begins the rule, below another.
Begun(rule) ==
  \E s \in States : \E t \in DOMAIN Transitions[s] :
    LET pushes == Transitions[s][t].pushes
    IN \E i \in DOMAIN pushes : FromRule[pushes[i]] = rule

\* file_input: stmt* ENDMARKER, and neither it nor eval_input is part of a rule.
ASSUME EndAssumption ==
  /\ ~Begun("file_input")
  /\ StartState \notin Final
  /\ \A s \in States :
       /\ "ENDMARKER" \in DOMAIN Transitions[s] => ~Begun(FromRule[s])
       /\ FromRule[s] = "file_input" =>
            /\ s \notin Final =>
                 /\ "ENDMARKER" \in DOMAIN Transitions[s]
                 /\ Transitions[s]["ENDMARKER"].pushes = <<>>
            /\ \A t \in DOMAIN Transitions[s] :
                 Transitions[s][t].next \in Final <=> t = "ENDMARKER"

\* No rule of S begins one that is not of S.
Closed(S) ==
  \A s \in States : FromRule[s] \in S =>
    \A t \in DOMAIN Transitions[s] :
      LET pushes == Transitions[s][t].pushes
      IN \A i \in DOMAIN pushes : FromRule[pushes[i]] \in S

\* The rules that can be begun within a suite of one line.
HasOneLineRules(S) ==
  \A s \in States : \A t \in DOMAIN Transitions[s] :
    LET pushes == Transitions[s][t].pushes
    IN \A i, j \in DOMAIN pushes :
         i < j /\ FromRule[pushes[i]] = "suite" => FromRule[pushes[j]] \in S

\* A suite of one line is a simple_stmt, and nothing in that begins a suite.
ASSUME OneLineAssumption ==
  \E S \in SUBSET (Nonterminals \ {"suite"}) : Closed(S) /\ HasOneLineRules(S)

VARIABLES
  stack,               \* Stack: a sequence of [dfa, nodes]
  tok,                 \* the token _add_token is given
  pc,                  \* where the parser is, see PC
  pending,             \* calls of error_recovery that wait for _add_token
  omit,                \* _omit_dedent_list
  indentCounter,       \* _indent_counter
  text                 \* history: the positions of the tokens with text

parserVars == <<stack, tok, pc, pending, omit, indentCounter, text>>
vars == <<streamVars, parserVars>>

\* "pull": next(tokens); "add": the loop of _add_token; "fixup": after the
\* recursive _add_token of error_recovery; "finish": the loop at the end of
\* BaseParser.parse; "raised": ParserSyntaxError; "crashed": an exception that
\* is no ParserSyntaxError (InternalParseError, IndexError, AttributeError).
PC == {"pull", "add", "fixup", "finish", "done", "raised", "crashed"}

Positions == 1 .. count

Node == [type : NodeTypes, leaves : SUBSET Positions, last : Tokens]
StackNode == [dfa : States, nodes : Seq(Node)]

TypeOK ==
  /\ StreamTypeOK
  /\ stack \in Seq(StackNode) /\ stack # <<>>
  /\ tok \in Tokens
  /\ pc \in PC
  /\ pending \in Nat
  /\ omit \in Seq(Int)
  /\ indentCounter \in Int
  /\ text \subseteq Positions

Init ==
  /\ StreamInit
  /\ stack = <<[dfa |-> StartState, nodes |-> <<>>]>>
  /\ tok = "ENDMARKER"
  /\ pc = "pull"
  /\ pending = 0
  /\ omit = <<>>
  /\ indentCounter = 0
  /\ text = {}

-----------------------------------------------------------------------------
(* Helpers on the stack.                                                    *)

Top == stack[Len(stack)]
TopRule == FromRule[Top.dfa]
LastOf(nodes) == nodes[Len(nodes)]

Leaves(nodes) == UNION {nodes[i].leaves : i \in DOMAIN nodes}

\* The position of the token being added, if it has text.
TokLeaves == IF tok \in VirtualTokens THEN {} ELSE {count}

Leaf(type) == [type |-> type, leaves |-> TokLeaves, last |-> tok]

\* Mistake: children[3:-1]
ConvertNodeLate(rule, children) ==
  LET kept == IF rule = "suite"
              THEN <<children[1]>> \o SubSeq(children, 4, Len(children) - 1)
              ELSE children
  IN [type |-> rule, leaves |-> Leaves(kept), last |-> LastOf(kept).last]

\* convert_node: a suite loses its second child and its last one.
ConvertNode(rule, children) ==
  LET kept == IF rule = "suite"
              THEN <<children[1]>> \o SubSeq(children, 3, Len(children) - 1)
              ELSE children
  IN [type |-> rule, leaves |-> Leaves(kept), last |-> LastOf(kept).last]

\* The node a finished stack node becomes in _pop: an only child stays itself.
Finished(stackNode) ==
  IF Len(stackNode.nodes) = 1
  THEN stackNode.nodes[1]
  ELSE ConvertNode(FromRule[stackNode.dfa], stackNode.nodes)

\* Mistake: nodes.insert(0, node)
PrependTo(s, i, node) == [s EXCEPT ![i].nodes = <<node>> \o @]

AppendTo(s, i, node) == [s EXCEPT ![i].nodes = Append(@, node)]

Popped == AppendTo(SubSeq(stack, 1, Len(stack) - 1), Len(stack) - 1, Finished(Top))

Advance(dfa) == [stack EXCEPT ![Len(stack)].dfa = dfa]

\* Where _add_token returns to: the error_recovery that called it, or parse.
Return == IF pending > 0 THEN "fixup" ELSE "pull"

-----------------------------------------------------------------------------
(* _recovery_tokenize, and the token loop of BaseParser.parse               *)

OmitsDedent == omit # <<>> /\ omit[Len(omit)] = indentCounter

IndentChange(t) == IF t = "INDENT" THEN 1 ELSE IF t = "DEDENT" THEN -1 ELSE 0

\* A DEDENT that closes an INDENT the recovery made an error leaf of.
OmitDedent ==
  /\ pc = "pull"
  /\ ErrorRecovery
  /\ OmitsDedent
  /\ Yield("DEDENT")
  /\ omit' = SubSeq(omit, 1, Len(omit) - 1)
  /\ indentCounter' = indentCounter - 1
  /\ UNCHANGED <<stack, tok, pc, pending, text>>

PullToken(t) ==
  /\ pc = "pull"
  /\ t = "DEDENT" => ~(ErrorRecovery /\ OmitsDedent)
  /\ Yield(t)
  /\ tok' = t
  /\ pc' = "add"
  /\ indentCounter' = IF ErrorRecovery THEN indentCounter + IndentChange(t) ELSE indentCounter
  /\ text' = IF t \in VirtualTokens THEN text ELSE text \cup {count + 1}
  /\ UNCHANGED <<stack, pending, omit>>

TokensExhausted ==
  /\ pc = "pull"
  /\ last = "ENDMARKER"
  /\ pc' = "finish"
  /\ UNCHANGED <<streamVars, stack, tok, pending, omit, indentCounter, text>>

-----------------------------------------------------------------------------
(* _add_token                                                               *)

HasPlan == tok \in DOMAIN Transitions[Top.dfa]

\* The plan moves the node on top on, and pushes a node for every rule begun.
Shift ==
  /\ pc = "add"
  /\ HasPlan
  /\ LET plan == Transitions[Top.dfa][tok]
         pushed == Advance(plan.next)
                     \o [i \in DOMAIN plan.pushes |-> [dfa |-> plan.pushes[i], nodes |-> <<>>]]
     IN stack' = AppendTo(pushed, Len(pushed), Leaf(tok))
  /\ pc' = Return
  /\ UNCHANGED <<streamVars, tok, pending, omit, indentCounter, text>>

\* No plan in a final state: the rule is complete, try again in the one below.
PopFinal ==
  /\ pc = "add"
  /\ ~HasPlan
  /\ Top.dfa \in Final
  /\ IF Len(stack) = 1
     THEN pc' = "crashed" /\ UNCHANGED stack
     ELSE stack' = Popped /\ UNCHANGED pc
  /\ UNCHANGED <<streamVars, tok, pending, omit, indentCounter, text>>

-----------------------------------------------------------------------------
(* error_recovery                                                           *)

InError == pc = "add" /\ ~HasPlan /\ Top.dfa \notin Final

\* last_leaf is None when the node on top has no children yet.
NoLastLeaf == tok = "DEDENT" /\ Top.nodes = <<>>

\* Mistake: at the end of the file only, or of a block only.
LacksNewlineAtEnd ==
  /\ tok = "ENDMARKER"
  /\ TopRule = "simple_stmt"
  /\ "NEWLINE" \in DOMAIN Transitions[Top.dfa]

LacksNewlineInBlock ==
  /\ tok = "DEDENT" /\ LastOf(Top.nodes).last \notin LineEndTokens
  /\ TopRule = "simple_stmt"
  /\ "NEWLINE" \in DOMAIN Transitions[Top.dfa]

\* A simple_stmt that ends without its newline, where the file or block ends.
LacksNewline ==
  /\ tok = "ENDMARKER" \/ (tok = "DEDENT" /\ LastOf(Top.nodes).last \notin LineEndTokens)
  /\ TopRule = "simple_stmt"
  /\ "NEWLINE" \in DOMAIN Transitions[Top.dfa]
  /\ LET plan == Transitions[Top.dfa]["NEWLINE"]
     IN plan.next \in Final /\ plan.pushes = <<>>

\* Mistake: the state on top stays what it was.
AssumeNewlineInPlace ==
  /\ InError
  /\ ~NoLastLeaf
  /\ LacksNewline
  /\ UNCHANGED vars

\* self.stack[-1].dfa = plan.next_dfa; self._add_token(token); return
AssumeNewline ==
  /\ InError
  /\ IF NoLastLeaf
     THEN pc' = "crashed" /\ UNCHANGED stack
     ELSE /\ LacksNewline
          /\ stack' = Advance(Transitions[Top.dfa]["NEWLINE"].next)
          /\ UNCHANGED pc
  /\ UNCHANGED <<streamVars, tok, pending, omit, indentCounter, text>>

Unrecovered == InError /\ ~NoLastLeaf /\ ~LacksNewline

\* BaseParser.error_recovery: ParserSyntaxError
RaiseSyntaxError ==
  /\ Unrecovered
  /\ ~ErrorRecovery
  /\ pc' = "raised"
  /\ UNCHANGED <<streamVars, stack, tok, pending, omit, indentCounter, text>>

\* Mistake: a suite that is just a newline is a block, too.
IsAnyBlock(stackNode) == FromRule[stackNode.dfa] \in {"file_input", "suite"}

\* current_suite: the innermost file_input, or suite that is not just a newline.
IsBlock(stackNode) ==
  \/ FromRule[stackNode.dfa] = "file_input"
  \/ FromRule[stackNode.dfa] = "suite" /\ Len(stackNode.nodes) # 1

\* Mistake: everything but file_input is discarded.
UntilFileInput == 1

\* Mistake: only what is on top is discarded.
UntilBelowTop == IF Len(stack) > 1 THEN Len(stack) - 1 ELSE 1

UntilIndex ==
  CHOOSE i \in DOMAIN stack :
    /\ IsBlock(stack[i]) \/ i = 1
    /\ \A j \in i + 1 .. Len(stack) : ~IsBlock(stack[j])

\* _stack_removal: all children of the nodes from start on.
RemovedLeaves(start) == UNION {Leaves(stack[i].nodes) : i \in start .. Len(stack)}

NodesRemoved(start) == \E i \in start .. Len(stack) : stack[i].nodes # <<>>

LastRemoved(start) ==
  LET i == CHOOSE i \in start .. Len(stack) :
             /\ stack[i].nodes # <<>>
             /\ \A j \in i + 1 .. Len(stack) : stack[j].nodes = <<>>
  IN LastOf(stack[i].nodes).last

\* What was begun above the block becomes one error node; then the token is
\* added again, and this call of error_recovery waits for that.
RemoveStack ==
  /\ Unrecovered
  /\ ErrorRecovery
  /\ NodesRemoved(UntilIndex + 1)
  /\ LET u == UntilIndex
         node == [type |-> "error_node", leaves |-> RemovedLeaves(u + 1),
                  last |-> LastRemoved(u + 1)]
     IN stack' = AppendTo(SubSeq(stack, 1, u), u, node)
  /\ pending' = pending + 1
  /\ UNCHANGED <<streamVars, tok, pc, omit, indentCounter, text>>

\* Mistake: no else, so the token is tried again, too.
AddErrorLeafAndRetry ==
  /\ Unrecovered
  /\ ErrorRecovery
  /\ ~NodesRemoved(UntilIndex + 1)
  /\ stack' = AppendTo(SubSeq(stack, 1, UntilIndex), UntilIndex, Leaf("error_leaf"))
  /\ omit' = IF tok = "INDENT" THEN Append(omit, indentCounter) ELSE omit
  /\ pending' = pending + 1
  /\ UNCHANGED <<streamVars, tok, pc, indentCounter, text>>

\* Mistake: the INDENT is not remembered.
AddErrorLeafOnly ==
  /\ Unrecovered
  /\ ErrorRecovery
  /\ ~NodesRemoved(UntilIndex + 1)
  /\ stack' = AppendTo(SubSeq(stack, 1, UntilIndex), UntilIndex, Leaf("error_leaf"))
  /\ pending' = pending + 1
  /\ pc' = "fixup"
  /\ UNCHANGED <<streamVars, tok, omit, indentCounter, text>>

\* Nothing to remove: the token itself becomes an error leaf of the block, and
\* the DEDENT of an INDENT is to be left out when it comes.
AddErrorLeaf ==
  /\ Unrecovered
  /\ ErrorRecovery
  /\ ~NodesRemoved(UntilIndex + 1)
  /\ stack' = AppendTo(SubSeq(stack, 1, UntilIndex), UntilIndex, Leaf("error_leaf"))
  /\ omit' = IF tok = "INDENT" THEN Append(omit, indentCounter) ELSE omit
  /\ pending' = pending + 1
  /\ pc' = "fixup"
  /\ UNCHANGED <<streamVars, tok, indentCounter, text>>

\* Mistake: a suite with an error in it still needs a statement.
FinishRecoveryPlain ==
  /\ pc = "fixup"
  /\ pending' = pending - 1
  /\ pc' = IF pending > 1 THEN "fixup" ELSE "pull"
  /\ UNCHANGED <<streamVars, stack, tok, omit, indentCounter, text>>

\* Mistake: it returns once more than it was called.
FinishRecoveryTwice ==
  /\ pc = "fixup"
  /\ pending' = pending - 1
  /\ pc' = IF pending > 0 THEN "fixup" ELSE "pull"
  /\ UNCHANGED <<streamVars, stack, tok, omit, indentCounter, text>>

\* The end of error_recovery: a suite on top counts as having a statement.
FinishRecovery ==
  /\ pc = "fixup"
  /\ stack' = IF TopRule = "suite" /\ Top.dfa \in DOMAIN StmtArc
              THEN Advance(StmtArc[Top.dfa])
              ELSE stack
  /\ pending' = pending - 1
  /\ pc' = IF pending > 1 THEN "fixup" ELSE "pull"
  /\ UNCHANGED <<streamVars, tok, omit, indentCounter, text>>

-----------------------------------------------------------------------------
\* The last loop of BaseParser.parse; file_input is left on the stack at "done".
Finish ==
  /\ pc = "finish"
  /\ IF Top.dfa \notin Final
     THEN pc' = "crashed" /\ UNCHANGED stack
     ELSE IF Len(stack) > 1
          THEN stack' = Popped /\ UNCHANGED pc
          ELSE pc' = "done" /\ UNCHANGED stack
  /\ UNCHANGED <<streamVars, tok, pending, omit, indentCounter, text>>

AddToken == Shift \/ PopFinal

Recover == AssumeNewline \/ RaiseSyntaxError \/ RemoveStack \/ AddErrorLeaf \/ FinishRecovery

Next ==
  \/ OmitDedent
  \/ \E t \in Tokens : PullToken(t)
  \/ TokensExhausted
  \/ AddToken
  \/ Recover
  \/ Finish

Spec == Init /\ [][Next]_vars

-----------------------------------------------------------------------------
\* Everything the tokenizer yielded with text is in the tree: no removal, no
\* conversion and no error leaf drops or invents any (parso's round trip).
\* The token in hand is added exactly when the parser next asks for one.
TextInTree == UNION {Leaves(stack[i].nodes) : i \in DOMAIN stack}

InHand == IF pc \in {"add", "raised"} THEN TokLeaves ELSE {}

NothingLost == pc # "crashed" => TextInTree \cup InHand = text

\* ... and it is there once, and in the order of the source: concatenating the
\* leaves of the tree gives back the code.
Before(m, n) == \A i \in m.leaves, j \in n.leaves : i < j

InOrder ==
  /\ \A i \in DOMAIN stack : \A j, k \in DOMAIN stack[i].nodes :
       j < k => Before(stack[i].nodes[j], stack[i].nodes[k])
  /\ \A i, j \in DOMAIN stack : i < j =>
       \A k \in DOMAIN stack[i].nodes, l \in DOMAIN stack[j].nodes :
         Before(stack[i].nodes[k], stack[j].nodes[l])
  /\ pc = "add" => \A i \in TextInTree : i < count

\* "Basically this shouldn't happen" (InternalParseError): the parser never
\* runs out of stack, and never asks for the last leaf of a childless node.
NeverCrashes == pc # "crashed"

\* The suites of the stack that an INDENT has opened and no DEDENT has closed.
OpenSuites ==
  {i \in DOMAIN stack : /\ FromRule[stack[i].dfa] = "suite"
                        /\ stack[i].dfa \notin Final
                        /\ Len(stack[i].nodes) >= 2}

\* Between two tokens every level of indentation is either an open suite or an
\* omitted INDENT, and omitted ones are met by their own DEDENT: the list grows
\* strictly and never beyond the counter.
IndentsAccounted ==
  (pc = "pull" /\ ErrorRecovery) =>
    /\ indentCounter = depth
    /\ Cardinality(OpenSuites) + Len(omit) = indentCounter
    /\ \A i \in DOMAIN omit : omit[i] \in 1 .. indentCounter
    /\ \A i, j \in DOMAIN omit : i < j => omit[i] < omit[j]

\* The suite conversion strips an INDENT and a DEDENT, and nothing else.
SuiteStripsIndents ==
  [][ (Len(stack') < Len(stack) /\ TopRule = "suite" /\ Len(Top.nodes) # 1 /\ pending' = pending) =>
        /\ Top.nodes[2].type = "INDENT"
        /\ LastOf(Top.nodes).type = "DEDENT"
        /\ Len(Top.nodes) >= 4 ]_vars

\* What a block on the stack has got, it keeps: recovery only ever appends to
\* the innermost block, and only a complete block leaves the stack.
BlocksKept ==
  [][ \A i \in DOMAIN stack :
        IsBlock(stack[i]) =>
          \/ i = Len(stack) /\ stack[i].dfa \in Final
          \/ /\ i \in DOMAIN stack'
             /\ \A j \in DOMAIN stack[i].nodes : stack'[i].nodes[j] = stack[i].nodes[j] ]_vars

\* However deep the blocks are nested, error_recovery and _add_token call each
\* other at most three deep: a one-line suite is given up, then the statement
\* it belongs to, then the token itself.
RecoveryDepth == pending <= 3

\* The parser never goes round in circles on a token: whenever _add_token
\* tries it again, or error_recovery has it tried again, the stack is smaller,
\* or a simple_stmt on top that lacked its newline has become final.
RetriesShrink ==
  [][ (pc = "add" /\ pc' = "add") =>
        \/ Len(stack') < Len(stack)
        \/ Len(stack') = Len(stack) /\ Top.dfa \notin Final /\ Top'.dfa \in Final ]_vars

\* So every token is shifted, becomes an error leaf or raises.
TokenConsumed == pc = "add" ~> pc \in {"pull", "raised"}
=============================================================================
