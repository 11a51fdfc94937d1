-------------------------- MODULE ParserReference --------------------------
(***************************************************************************)
(* The parser beside a reference recognizer of the same grammar: all stacks *)
(* of rules a token sequence could have led to, found by search from the    *)
(* arcs alone, without first plans, without eager pushes and with no        *)
(* commitment to one choice.                                                *)
(***************************************************************************)
EXTENDS Parser

CONSTANTS
  Arcs,                \* <<state, label, state>>: the arcs of all DFAs
  FirstStateOf         \* nonterminal -> dfas[0]

VARIABLE configs       \* the stacks of DFA states that are possible

refVars == <<vars, configs>>

TopOf(c) == c[Len(c)]
Below(c) == SubSeq(c, 1, Len(c) - 1)
ArcsAt(s) == {arc \in Arcs : arc[1] = s}

\* Begin a rule, or come back from one that is complete.
Moves(c) ==
  {Below(c) \o <<arc[3], FirstStateOf[arc[2]]>> :
     arc \in {b \in ArcsAt(TopOf(c)) : b[2] \in Nonterminals}}
    \cup (IF TopOf(c) \in Final /\ Len(c) > 1 THEN {Below(c)} ELSE {})

\* A statement may end without its newline where the file or a block ends.
NewlineLeftOut(c, t) ==
  {Below(c) \o <<arc[3]>> :
     arc \in {b \in ArcsAt(TopOf(c)) : /\ t \in {"ENDMARKER", "DEDENT"}
                                       /\ FromRule[b[1]] = "simple_stmt"
                                       /\ b[2] = "NEWLINE"}}

RECURSIVE Closure(_, _)
Closure(C, t) ==
  LET more == C \cup UNION {Moves(c) \cup NewlineLeftOut(c, t) : c \in C}
  IN IF more = C THEN C ELSE Closure(more, t)

Read(C, t) ==
  UNION {{Below(c) \o <<arc[3]>> : arc \in {b \in ArcsAt(TopOf(c)) : b[2] = t}} :
           c \in Closure(C, t)}

RefInit == Init /\ configs = {<<StartState>>}

\* The recognizer reads the tokens the parser takes from the tokenizer.
RefNext ==
  /\ Next
  /\ configs' = IF last' # last \/ count' # count THEN Read(configs, last') ELSE configs

RefSpec == RefInit /\ [][RefNext]_refVars

\* The parser is one thread that runs to the end of its input.
FairRefSpec == RefSpec /\ WF_refVars(RefNext)

-----------------------------------------------------------------------------
ErrorsInTree ==
  \E i \in DOMAIN stack : \E j \in DOMAIN stack[i].nodes :
    stack[i].nodes[j].type \in {"error_leaf", "error_node"}

\* Without error recovery the parser refuses a token exactly when no sequence
\* of tokens that begins like this is in the language of the grammar: one
\* token of lookahead, the first plans and the eager pushes lose nothing.
StrictDecidesGrammar ==
  ~ErrorRecovery =>
    /\ pc = "pull" => configs # {}
    /\ pc = "raised" => configs = {}
    /\ pc = "done" => \E c \in Closure(configs, "end") : Len(c) = 1 /\ c[1] \in Final

\* With error recovery a prefix of a valid program is never touched by it.
ErrorsOnlyWhenInvalid ==
  (ErrorRecovery /\ configs # {}) => ~ErrorsInTree /\ omit = <<>> /\ pending = 0
=============================================================================
