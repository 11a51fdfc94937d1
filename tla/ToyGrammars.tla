---------------------------- MODULE ToyGrammars ----------------------------
(* A grammar with the shape of Python's: statements, blocks, and a compound *)
(* statement with a clause that is required and one that is optional, as in *)
(*   try_stmt: 'try' suite 'except' suite ['else' suite]                    *)
(* Its DFAs are written down, and compared with what the model of pgen2     *)
(* makes of the rules; the transitions are the model's.                     *)
EXTENDS Sequences

P == INSTANCE PlanTables

One(s) == [mul |-> "one", sym |-> s]
Star(s) == [mul |-> "star", sym |-> s]
Plus(s) == [mul |-> "plus", sym |-> s]
Opt(rhs) == [mul |-> "opt", rhs |-> rhs]

Clause(keyword) == <<One(keyword), One("suite")>>

Rules ==
  [file_input  |-> << <<Star("stmt"), One("ENDMARKER")>> >>,
   stmt        |-> << <<One("simple_stmt")>>, <<One("try_stmt")>>, <<One("NEWLINE")>> >>,
   simple_stmt |-> << <<One("NAME"), One("NEWLINE")>> >>,
   try_stmt    |-> << Clause("try") \o Clause("except") \o <<Opt(<<Clause("else")>>)>> >>,
   suite       |-> << <<One("simple_stmt")>>,
                      <<One("NEWLINE"), One("INDENT"), Plus("stmt"), One("DEDENT")>> >>]

Arc(rule, from, label, to) == <<<<rule, from>>, label, <<rule, to>>>>

MCArcs ==
  {Arc("file_input", 1, "stmt", 1), Arc("file_input", 1, "ENDMARKER", 2),
   Arc("stmt", 1, "simple_stmt", 2), Arc("stmt", 1, "try_stmt", 2), Arc("stmt", 1, "NEWLINE", 2),
   Arc("simple_stmt", 1, "NAME", 2), Arc("simple_stmt", 2, "NEWLINE", 3),
   Arc("try_stmt", 1, "try", 2), Arc("try_stmt", 2, "suite", 3),
   Arc("try_stmt", 3, "except", 4), Arc("try_stmt", 4, "suite", 5),
   Arc("try_stmt", 5, "else", 6), Arc("try_stmt", 6, "suite", 7),
   Arc("suite", 1, "simple_stmt", 5), Arc("suite", 1, "NEWLINE", 2), Arc("suite", 2, "INDENT", 3),
   Arc("suite", 3, "stmt", 4), Arc("suite", 4, "stmt", 4), Arc("suite", 4, "DEDENT", 5)}

MCFinal == {<<"file_input", 2>>, <<"stmt", 2>>, <<"simple_stmt", 3>>,
            <<"try_stmt", 5>>, <<"try_stmt", 7>>, <<"suite", 5>>}

MCNonterminals == DOMAIN Rules
MCStates == UNION {{arc[1], arc[3]} : arc \in MCArcs}
MCFirstStateOf == [A \in DOMAIN Rules |-> <<A, 1>>]

MCStartState == MCFirstStateOf["file_input"]

G == [rules |-> MCNonterminals, states |-> MCStates, arcs |-> MCArcs, final |-> MCFinal]

MCFromRule == [s \in MCStates |-> P!RuleOf(s)]
MCTransitions == P!TransitionTable(G)

MCStmtArc == P!StmtArcsOf(G)

MCTextTokens ==
  {arc[2] : arc \in MCArcs} \ (MCNonterminals \cup {"INDENT", "DEDENT", "ENDMARKER"})

\* The automata above are, but for the numbers of their states, those of the rules.
ASSUME AutomataAssumption == P!AutomataOfRules(G, Rules)
=============================================================================
