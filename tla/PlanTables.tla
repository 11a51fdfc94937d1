----------------------------- MODULE PlanTables -----------------------------
(***************************************************************************)
(* The second half of pgen2/generator.py: the DFAs of all rules, connected. *)
(* A grammar is a function from rule names to right-hand sides; a label is  *)
(* a nonterminal when it is one of those names, and a terminal otherwise.   *)
(* A DFA state is <<rule, i>>, and <<rule, 1>> is dfas[0], the first one.   *)
(***************************************************************************)
EXTENDS Dfas

\* An entry of rule_to_dfas: the simplified DFA with its states numbered.
Numbered(A, dfa) ==
  LET order == <<dfa.init>> \o SetToSeq(dfa.states \ {dfa.init})
      Id(S) == <<A, CHOOSE i \in DOMAIN order : order[i] = S>>
  IN [states |-> {Id(S) : S \in dfa.states},
      arcs   |-> {<<Id(arc[1]), arc[2], Id(arc[3])>> : arc \in dfa.arcs},
      final  |-> {Id(S) : S \in dfa.final}]

\* All rules together: the union of their states, arcs and final states.
Connected(dfas) ==
  LET All(f) == UNION {dfas[A][f] : A \in DOMAIN dfas}
  IN [rules  |-> DOMAIN dfas,
      states |-> All("states"), arcs |-> All("arcs"), final |-> All("final")]

Compiled(rules) == Connected([A \in DOMAIN rules |-> Numbered(A, CompileRule(rules[A]))])

FirstState(A) == <<A, 1>>

RuleOf(s) == s[1]

ArcsAt(g, s) == {arc \in g.arcs : arc[1] = s}

TerminalArcs(g, s) == {arc \in ArcsAt(g, s) : arc[2] \notin g.rules}

NonterminalArcs(g, s) == {arc \in ArcsAt(g, s) : arc[2] \in g.rules}

\* _calculate_first_plans recurses into every nonterminal the first state of a
\* rule has an arc for, and raises when it meets one it has not finished.
RECURSIVE LeftRecursiveFrom(_, _, _)
LeftRecursiveFrom(g, A, unfinished) ==
  \E arc \in NonterminalArcs(g, FirstState(A)) :
    IF arc[2] \in unfinished \cup {A}
    THEN TRUE
    ELSE LeftRecursiveFrom(g, arc[2], unfinished \cup {A})

LeftRecursive(g) == \E A \in g.rules : LeftRecursiveFrom(g, A, {})

\* The first plans of A, as pairs of a terminal and the states to push for it.
RECURSIVE FirstPlans(_, _)

\* Mistake: new_first_plans[t] = pushes + [next_]
FirstPlansAppended(g, A) ==
  {<<arc[2], <<arc[3]>> >> : arc \in TerminalArcs(g, FirstState(A))}
    \cup UNION {{<<plan[1], plan[2] \o <<arc[3]>> >> : plan \in FirstPlans(g, arc[2])} :
                  arc \in NonterminalArcs(g, FirstState(A))}

\* Mistake: no recursion into the nonterminals.
TerminalFirstPlans(g, A) ==
  {<<arc[2], <<arc[3]>> >> : arc \in TerminalArcs(g, FirstState(A))}

FirstPlans(g, A) ==
  {<<arc[2], <<arc[3]>> >> : arc \in TerminalArcs(g, FirstState(A))}
    \cup UNION {{<<plan[1], <<arc[3]>> \o plan[2]>> : plan \in FirstPlans(g, arc[2])} :
                  arc \in NonterminalArcs(g, FirstState(A))}

\* The transitions of state s, as pairs of a terminal and a DFAPlan: the state
\* the node on the stack moves to at once, and the states of the nodes pushed.
PlansAt(g, s) ==
  {<<arc[2], [next |-> arc[3], pushes |-> <<>>]>> : arc \in TerminalArcs(g, s)}
    \cup UNION {{<<plan[1], [next |-> arc[3], pushes |-> plan[2]]>> :
                    plan \in FirstPlans(g, arc[2])} :
                  arc \in NonterminalArcs(g, s)}

\* Mistake: the plan just entered counts as the previous one.
AmbiguousWithItself(g) ==
  \E s \in g.states : \E p, q \in PlansAt(g, s) : p[1] = q[1]

\* Two plans for one terminal: "given a %s token, we can't determine ..."
Ambiguous(g) ==
  \E s \in g.states : \E p, q \in PlansAt(g, s) : p # q /\ p[1] = q[1]

\* The transitions dictionaries of a grammar that raises neither error.
TransitionTable(g) ==
  [s \in g.states |->
     LET plans == PlansAt(g, s)
     IN [t \in {p[1] : p \in plans} |-> (CHOOSE p \in plans : p[1] = t)[2]]]

\* DFAState.arcs['stmt'], where there is one
StmtArcsOf(g) ==
  LET arcs == {arc \in g.arcs : arc[2] = "stmt"}
  IN [s \in {arc[1] : arc \in arcs} |-> (CHOOSE arc \in arcs : arc[1] = s)[3]]

-----------------------------------------------------------------------------
\* The states of two automata that the same labels lead to.
RECURSIVE Paired(_, _, _)
Paired(arcs1, arcs2, pairs) ==
  LET more == pairs \cup
        {<<bc[1][3], bc[2][3]>> :
           bc \in {d \in arcs1 \X arcs2 : d[1][2] = d[2][2] /\ <<d[1][1], d[2][1]>> \in pairs}}
  IN IF more = pairs THEN pairs ELSE Paired(arcs1, arcs2, more)

\* g is, but for the numbers of its states, what generator.py makes of rules.
AutomataOfRules(g, rules) ==
  LET c == Compiled(rules)
      pairs == Paired(c.arcs, g.arcs, {<<FirstState(A), FirstState(A)>> : A \in DOMAIN rules})
      Here(s) == (CHOOSE p \in pairs : p[1] = s)[2]
  IN /\ \A p, q \in pairs : p[1] = q[1] <=> p[2] = q[2]
     /\ {p[1] : p \in pairs} = c.states /\ {p[2] : p \in pairs} = g.states
     /\ g.arcs = {<<Here(arc[1]), arc[2], Here(arc[3])>> : arc \in c.arcs}
     /\ g.final = {Here(s) : s \in c.final}
=============================================================================
