---------------------------- MODULE BlockGrammar ----------------------------
(* The part of Python's grammar that the diff parser treats specially:      *)
(* classes with their suites, decorators, a flow statement with an else, and *)
(* brackets that go over lines; and the lines the files are made of.         *)
EXTENDS Integers, Sequences

P == INSTANCE PlanTables

One(s) == [mul |-> "one", sym |-> s]
Star(s) == [mul |-> "star", sym |-> s]
Plus(s) == [mul |-> "plus", sym |-> s]
Opt(items) == [mul |-> "opt", rhs |-> <<items>>]
Ones(symbols) == [i \in DOMAIN symbols |-> One(symbols[i])]

Rules ==
  [file_input  |-> << <<Star("stmt"), One("ENDMARKER")>> >>,
   stmt        |-> << Ones(<<"simple_stmt">>), Ones(<<"while_stmt">>), Ones(<<"classdef">>),
                      Ones(<<"decorated">>), Ones(<<"NEWLINE">>) >>,
   simple_stmt |-> << Ones(<<"term", "NEWLINE">>) >>,
   term        |-> << <<One("atom_expr"),
                        [mul |-> "star", rhs |-> <<Ones(<<"@", "atom_expr">>)>>]>> >>,
   atom_expr   |-> << <<One("atom"), Star("trailer")>> >>,
   atom        |-> << Ones(<<"NAME">>), <<One("("), Opt(Ones(<<"term">>)), One(")")>> >>,
   trailer     |-> << <<One("("), Opt(Ones(<<"term">>)), One(")")>> >>,
   while_stmt  |-> << Ones(<<"while", "term", ":", "suite">>)
                        \o <<Opt(Ones(<<"else", ":", "suite">>))>> >>,
   classdef    |-> << Ones(<<"class", "NAME", ":", "suite">>) >>,
   decorator   |-> << Ones(<<"@", "term", "NEWLINE">>) >>,
   decorators  |-> << <<Plus("decorator")>> >>,
   decorated   |-> << Ones(<<"decorators", "classdef">>) >>,
   suite       |-> << Ones(<<"simple_stmt">>),
                      <<One("NEWLINE"), One("INDENT"), Plus("stmt"), One("DEDENT")>> >>]

Arcs(rule, arcs) == {<<<<rule, arc[1]>>, arc[2], <<rule, arc[3]>>>> : arc \in arcs}

MCArcs ==
  UNION {
    Arcs("file_input", {<<1, "stmt", 1>>, <<1, "ENDMARKER", 2>>}),
    Arcs("stmt", {<<1, s, 2>> : s \in {"simple_stmt", "while_stmt", "classdef", "decorated", "NEWLINE"}}),
    Arcs("simple_stmt", {<<1, "term", 2>>, <<2, "NEWLINE", 3>>}),
    Arcs("term", {<<1, "atom_expr", 2>>, <<2, "@", 1>>}),
    Arcs("atom_expr", {<<1, "atom", 2>>, <<2, "trailer", 2>>}),
    Arcs("atom", {<<1, "NAME", 4>>, <<1, "(", 2>>, <<2, "term", 3>>, <<2, ")", 4>>, <<3, ")", 4>>}),
    Arcs("trailer", {<<1, "(", 2>>, <<2, "term", 3>>, <<2, ")", 4>>, <<3, ")", 4>>}),
    Arcs("while_stmt", {<<1, "while", 2>>, <<2, "term", 3>>, <<3, ":", 4>>, <<4, "suite", 5>>,
                        <<5, "else", 6>>, <<6, ":", 7>>, <<7, "suite", 8>>}),
    Arcs("classdef", {<<1, "class", 2>>, <<2, "NAME", 3>>, <<3, ":", 4>>, <<4, "suite", 5>>}),
    Arcs("decorator", {<<1, "@", 2>>, <<2, "term", 3>>, <<3, "NEWLINE", 4>>}),
    Arcs("decorators", {<<1, "decorator", 2>>, <<2, "decorator", 2>>}),
    Arcs("decorated", {<<1, "decorators", 2>>, <<2, "classdef", 3>>}),
    Arcs("suite", {<<1, "simple_stmt", 5>>, <<1, "NEWLINE", 2>>, <<2, "INDENT", 3>>,
                   <<3, "stmt", 4>>, <<4, "stmt", 4>>, <<4, "DEDENT", 5>>})}

MCFinal ==
  {<<"file_input", 2>>, <<"stmt", 2>>, <<"simple_stmt", 3>>, <<"term", 2>>, <<"atom_expr", 2>>,
   <<"atom", 4>>, <<"trailer", 4>>, <<"while_stmt", 5>>, <<"while_stmt", 8>>, <<"classdef", 5>>,
   <<"decorator", 4>>, <<"decorators", 2>>, <<"decorated", 3>>, <<"suite", 5>>}

MCStates == UNION {{arc[1], arc[3]} : arc \in MCArcs}

G == [rules |-> DOMAIN Rules, states |-> MCStates, arcs |-> MCArcs, final |-> MCFinal]

MCStartState == P!FirstState("file_input")
MCFromRule == [s \in MCStates |-> P!RuleOf(s)]
MCTransitions == P!TransitionTable(G)
MCStmtArc == P!StmtArcsOf(G)

\* The automata above are, but for the numbers of their states, those of the rules.
ASSUME AutomataAssumption == P!AutomataOfRules(G, Rules)

\* The tokens of a line, and where they are from its first one on.
MCLexemes ==
  [x     |-> << <<"NAME", 0>> >>,                                   \* x
   class |-> << <<"class", 0>>, <<"NAME", 6>>, <<":", 7>> >>,        \* class C:
   short |-> << <<"class", 0>>, <<"NAME", 6>>, <<":", 7>>, <<"NAME", 9>> >>,   \* class C: x
   while |-> << <<"while", 0>>, <<"NAME", 6>>, <<":", 7>> >>,        \* while x:
   else  |-> << <<"else", 0>>, <<":", 4>> >>,                        \* else:
   deco  |-> << <<"@", 0>>, <<"NAME", 1>> >>,                        \* @x
   open  |-> << <<"(", 0>> >>,
   close |-> << <<")", 0>> >>,
   blank |-> <<>>]

MCWidth ==
  [t \in {"NAME", "class", "while", "else", ":", "@", "(", ")", "INDENT", "DEDENT",
          "ERROR_DEDENT", "ENDMARKER"} |->
     CASE t \in {"class", "while"} -> 5
       [] t = "else" -> 4
       [] t \in {"INDENT", "DEDENT", "ERROR_DEDENT", "ENDMARKER"} -> 0
       [] OTHER -> 1]

\* ALWAYS_BREAK_TOKENS: else is none of them.
MCAlwaysBreak == {"class", "while"}
=============================================================================
