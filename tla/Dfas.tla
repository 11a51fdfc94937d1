-------------------------------- MODULE Dfas --------------------------------
(***************************************************************************)
(* The parser generator, one rule at a time (pgen2/grammar_parser.py and    *)
(* the first half of pgen2/generator.py): the right-hand side of a rule     *)
(* becomes a fragment of an NFA, the fragment a DFA, the DFA a smaller one. *)
(*                                                                         *)
(* The text of a rule is abstracted to the tree its brackets describe:      *)
(*   rhs   == a non-empty sequence of alternatives                         *)
(*   alternative == a non-empty sequence of items                          *)
(*   item  == [mul |-> m, sym |-> label] or [mul |-> m, rhs |-> rhs]       *)
(* with m one of "one", "plus" (+), "star" (asterisk) and "opt" (square    *)
(* brackets, which always hold a rhs).                                     *)
(***************************************************************************)
EXTENDS Naturals, Sequences, FiniteSets, SequencesExt

Eps == "epsilon"                       \* the label None of an NFA arc

IsGroup(item) == "rhs" \in DOMAIN item

-----------------------------------------------------------------------------
(* GrammarParser: NFA fragments.  A fragment goes from state a to state z,  *)
(* n is the first state number not in use.                                 *)

RECURSIVE ParseRhs(_, _)

ParseAtom(item, n) ==
  IF IsGroup(item)
  THEN ParseRhs(item.rhs, n)
  ELSE [a |-> n, z |-> n + 1, arcs |-> {<<n, item.sym, n + 1>>}, n |-> n + 2]

\* [..] adds a way past the group; + and * add the way back, and * makes the
\* start of the body its end as well.
ParseItem(item, n) ==
  LET f == ParseAtom(item, n)
      skip == <<f.a, Eps, f.z>>
      back == <<f.z, Eps, f.a>>
  IN CASE item.mul = "one"  -> f
       [] item.mul = "opt"  -> [f EXCEPT !.arcs = @ \cup {skip}]
       [] item.mul = "plus" -> [f EXCEPT !.arcs = @ \cup {back}]
       [] item.mul = "star" -> [f EXCEPT !.arcs = @ \cup {back}, !.z = f.a]

ParseItems(items, n) ==
  LET Follow(f, item) ==
        LET g == ParseItem(item, f.n)
        IN [a |-> f.a, z |-> g.z, n |-> g.n,
            arcs |-> f.arcs \cup g.arcs \cup {<<f.z, Eps, g.a>>}]
  IN FoldLeft(Follow, ParseItem(Head(items), n), Tail(items))

ParseRhs(rhs, n) ==
  LET Alternative(f, items) ==
        LET g == ParseItems(items, f.n)
        IN [f EXCEPT !.arcs = @ \cup g.arcs \cup {<<f.a, Eps, g.a>>, <<g.z, Eps, f.z>>},
                     !.n = g.n]
  IN IF Len(rhs) = 1
     THEN ParseItems(rhs[1], n)
     ELSE FoldLeft(Alternative, [a |-> n, z |-> n + 1, arcs |-> {}, n |-> n + 2], rhs)

-----------------------------------------------------------------------------
(* _make_dfas: the powerset construction.  A DFA state is the set of NFA    *)
(* states it stands for.                                                   *)

RECURSIVE AddClosure(_, _)
AddClosure(arcs, S) ==
  LET more == S \cup {arc[3] : arc \in {b \in arcs : b[1] \in S /\ b[2] = Eps}}
  IN IF more = S THEN S ELSE AddClosure(arcs, more)

\* Mistake: the targets of the arcs without their closure.
StepUnclosed(frag, S, label) ==
  {arc[3] : arc \in {b \in frag.arcs : b[1] \in S /\ b[2] = label}}

Step(frag, S, label) ==
  AddClosure(frag.arcs, {arc[3] : arc \in {b \in frag.arcs : b[1] \in S /\ b[2] = label}})

LabelsFrom(frag, S) ==
  {arc[2] : arc \in {b \in frag.arcs : b[1] \in S}} \ {Eps}

ArcsFrom(frag, S) == {<<S, l, Step(frag, S, l)>> : l \in LabelsFrom(frag, S)}

RECURSIVE Explore(_, _)
Explore(frag, states) ==
  LET more == states \cup {arc[3] : arc \in UNION {ArcsFrom(frag, S) : S \in states}}
  IN IF more = states THEN states ELSE Explore(frag, more)

MakeDfas(frag) ==
  LET init == AddClosure(frag.arcs, {frag.a})
      states == Explore(frag, {init})
  IN [init   |-> init,
      states |-> states,
      arcs   |-> UNION {ArcsFrom(frag, S) : S \in states},
      final  |-> {S \in states : frag.z \in S}]

-----------------------------------------------------------------------------
(* _simplify_dfas: unify states that are equal, until none are.             *)

OutArcs(dfa, S) == {<<arc[2], arc[3]>> : arc \in {b \in dfa.arcs : b[1] = S}}

\* Mistake: equality of the arcs alone.
EqualArcs(dfa, S, T) == OutArcs(dfa, S) = OutArcs(dfa, T)

\* DFAState.__eq__: the same finality and the same arcs to the same states.
EqualStates(dfa, S, T) ==
  /\ S \in dfa.final <=> T \in dfa.final
  /\ OutArcs(dfa, S) = OutArcs(dfa, T)

\* The later state of the list is the one deleted, so never the first one.
Mergeable(dfa) ==
  {<<keep, drop>> \in dfa.states \X (dfa.states \ {dfa.init}) :
     keep # drop /\ EqualStates(dfa, keep, drop)}

\* Mistake: no unifystate.
MergeDangling(dfa, keep, drop) ==
  [dfa EXCEPT
     !.states = @ \ {drop},
     !.final  = @ \ {drop},
     !.arcs   = {arc \in @ : arc[1] # drop}]

\* del dfas[j] and unifystate on every state left
Merge(dfa, keep, drop) ==
  [dfa EXCEPT
     !.states = @ \ {drop},
     !.final  = @ \ {drop},
     !.arcs   = {<<arc[1], arc[2], IF arc[3] = drop THEN keep ELSE arc[3]>> :
                   arc \in {b \in @ : b[1] # drop}}]

RECURSIVE SimplifyDfas(_)
SimplifyDfas(dfa) ==
  IF Mergeable(dfa) = {}
  THEN dfa
  ELSE LET pair == CHOOSE p \in Mergeable(dfa) : TRUE
       IN SimplifyDfas(Merge(dfa, pair[1], pair[2]))

CompileRule(rhs) == SimplifyDfas(MakeDfas(ParseRhs(rhs, 0)))
=============================================================================
