-------------------------- MODULE GrammarGenerator --------------------------
(***************************************************************************)
(* generate_grammar: GrammarParser.parse builds the NFA of a rule,          *)
(* _make_dfas its DFA, and _simplify_dfas unifies two equal states at a     *)
(* time, in whatever order its loops meet them, until there are none.  When *)
(* all rules are compiled the traversal connects them or raises ValueError. *)
(***************************************************************************)
EXTENDS PlanTables, GrammarMeaning

CONSTANTS Grammars,    \* the grammars that may be compiled
          MaxWord      \* the length of the words the language is compared on

VARIABLES phase,       \* where the generator is, or the error it has raised
          rules,       \* the grammar: rule name -> right-hand side
          rule,        \* the rule being compiled
          frag,        \* its NFA
          dfa,         \* its DFA
          dfas,        \* rule_to_dfas
          transitions  \* state -> terminal -> plan

vars == <<phase, rules, rule, frag, dfa, dfas, transitions>>

None == [none |-> TRUE]

Init ==
  /\ phase = "parse"
  /\ rules \in Grammars
  /\ rule = "none"
  /\ frag = None
  /\ dfa = None
  /\ dfas = <<>>
  /\ transitions = <<>>

Uncompiled == DOMAIN rules \ DOMAIN dfas

\* The rules are compiled in the order of the file; no rule looks at another.
ParseRule ==
  /\ phase = "parse"
  /\ Uncompiled # {}
  /\ phase' = "make"
  /\ rule' = CHOOSE A \in Uncompiled : TRUE
  /\ frag' = ParseRhs(rules[rule'], 0)
  /\ UNCHANGED <<rules, dfa, dfas, transitions>>

MakeRule ==
  /\ phase = "make"
  /\ phase' = "simplify"
  /\ dfa' = MakeDfas(frag)
  /\ UNCHANGED <<rules, rule, frag, dfas, transitions>>

Unify ==
  /\ phase = "simplify"
  /\ \E pair \in Mergeable(dfa) : dfa' = Merge(dfa, pair[1], pair[2])
  /\ UNCHANGED <<phase, rules, rule, frag, dfas, transitions>>

NoMoreChanges ==
  /\ phase = "simplify"
  /\ Mergeable(dfa) = {}
  /\ phase' = "parse"
  /\ dfas' = (rule :> Numbered(rule, dfa)) @@ dfas
  /\ frag' = None
  /\ dfa' = None
  /\ UNCHANGED <<rules, rule, transitions>>

-----------------------------------------------------------------------------
g == Connected(dfas)

Traversing == phase = "parse" /\ Uncompiled = {}

\* ValueError("left recursion for rule %r")
RejectLeftRecursion ==
  /\ Traversing
  /\ LeftRecursive(g)
  /\ phase' = "left recursion"
  /\ UNCHANGED <<rules, rule, frag, dfa, dfas, transitions>>

\* ValueError("Rule %s is ambiguous; ...")
RejectAmbiguity ==
  /\ Traversing
  /\ ~LeftRecursive(g)
  /\ Ambiguous(g)
  /\ phase' = "ambiguous"
  /\ UNCHANGED <<rules, rule, frag, dfa, dfas, transitions>>

Traverse ==
  /\ Traversing
  /\ ~LeftRecursive(g)
  /\ ~Ambiguous(g)
  /\ phase' = "generated"
  /\ transitions' = TransitionTable(g)
  /\ UNCHANGED <<rules, rule, frag, dfa, dfas>>

Next ==
  \/ ParseRule \/ MakeRule \/ Unify \/ NoMoreChanges
  \/ RejectLeftRecursion \/ RejectAmbiguity \/ Traverse

Spec == Init /\ [][Next]_vars

-----------------------------------------------------------------------------
SameLanguage(d, e) ==
  \A w \in Words(LabelsOf(rules[rule]), MaxWord) : Accepts(d, w) <=> Accepts(e, w)

\* A compiled rule accepts exactly the words its right-hand side describes,
\* from the powerset construction on and after every unification, as long as
\* no group that can be left out begins or ends with a repeated item: for
\* those _parse_item's shortcut past the body joins a state inside a loop, and
\* the DFA accepts more than the docstring of generate_grammar promises.
CompiledLanguage ==
  (phase = "simplify" /\ ~SkipsRepeat(rules[rule])) =>
    \A w \in Words(LabelsOf(rules[rule]), MaxWord) : Accepts(dfa, w) <=> MatchRhs(rules[rule], w)

\* A DFA has one arc per state and label (the assertion of DFAState.add_arc),
\* leads nowhere but to its own states, and wastes no state: each is reached
\* from the first and can still reach a final one, so that the parser reports
\* an error at the first token no continuation could repair.
UsefulStates ==
  phase = "simplify" =>
    /\ \A b, c \in dfa.arcs : (b[1] = c[1] /\ b[2] = c[2]) => b = c
    /\ \A b \in dfa.arcs : b[1] \in dfa.states /\ b[3] \in dfa.states
    /\ ReachedFrom(dfa.arcs, {dfa.init}) = dfa.states
    /\ ReachedFrom({<<b[3], b[2], b[1]>> : b \in dfa.arcs}, dfa.final) = dfa.states

\* Unifying two states never changes the language, whatever the right-hand
\* side and whichever pair the loops of _simplify_dfas meet first.
UnifyKeepsLanguage ==
  [][(phase = "simplify" /\ phase' = "simplify") => SameLanguage(dfa, dfa')]_vars

\* Whenever the rules are not nullable, a state of a generated grammar has a
\* plan for a token exactly when the token can begin one of the labels the
\* state has an arc for, and no token can begin two of them: the parser never
\* has to look further ahead than one token.
OneTokenDecides ==
  (phase = "generated" /\ NoNullableRule(rules)) =>
    \A s \in g.states :
      LET arcs == ArcsAt(g, s)
      IN /\ DOMAIN transitions[s] = UNION {FirstTokens(rules, arc[2]) : arc \in arcs}
         /\ \A b, c \in arcs :
              b # c => FirstTokens(rules, b[2]) \cap FirstTokens(rules, c[2]) = {}

\* A plan is a leftmost derivation: the node on the stack takes the arc of a
\* nonterminal, each node pushed stands where its own rule has taken the arc of
\* the next one, and the last one has taken the arc of the token itself.
PlansAreDerivations ==
  phase = "generated" =>
    \A s \in g.states : \A t \in DOMAIN transitions[s] :
      LET plan == transitions[s][t]
          chain == <<plan.next>> \o plan.pushes
          from(i) == IF i = 1 THEN s ELSE FirstState(RuleOf(chain[i]))
          label(i) == IF i = Len(chain) THEN t ELSE RuleOf(chain[i + 1])
      IN \A i \in DOMAIN chain : <<from(i), label(i), chain[i]>> \in g.arcs

\* A rule that can begin with itself, directly or through other rules, refuses a
\* grammar: the dummy first plan catches every cycle, so that the recursion over
\* the rules ends.  And a grammar is refused only for the reason given, that or
\* a token that can begin two labels that are alternatives somewhere.
RefusedForAReason ==
  /\ phase = "generated" =>
       \A A \in DOMAIN rules : A \notin LeftReach(rules, LeftLabels(rules[A]))
  /\ phase = "left recursion" =>
       \E A \in DOMAIN rules : A \in LeftReach(rules, LeftLabels(rules[A]))
  /\ phase = "ambiguous" =>
       \E s \in g.states : \E b, c \in ArcsAt(g, s) :
         b # c /\ FirstTokens(rules, b[2]) \cap FirstTokens(rules, c[2]) # {}
=============================================================================
