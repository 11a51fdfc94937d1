--------------------------- MODULE GrammarMeaning ---------------------------
(***************************************************************************)
(* What a grammar means, read from its right-hand sides without any         *)
(* automaton: the words a right-hand side describes, what it can begin      *)
(* with, and the words a DFA accepts.                                       *)
(***************************************************************************)
EXTENDS Dfas

(* The words a right-hand side describes.                                   *)

RECURSIVE MatchRhs(_, _), MatchItems(_, _), MatchMany(_, _)

MatchAtom(item, w) == IF IsGroup(item) THEN MatchRhs(item.rhs, w) ELSE w = <<item.sym>>

MatchMany(item, w) ==
  \/ MatchAtom(item, w)
  \/ \E k \in 1 .. Len(w) - 1 :
       MatchAtom(item, SubSeq(w, 1, k)) /\ MatchMany(item, SubSeq(w, k + 1, Len(w)))

MatchItem(item, w) ==
  \/ item.mul \in {"opt", "star"} /\ w = <<>>
  \/ item.mul \in {"one", "opt"} /\ MatchAtom(item, w)
  \/ item.mul \in {"plus", "star"} /\ MatchMany(item, w)

MatchItems(items, w) ==
  IF items = <<>>
  THEN w = <<>>
  ELSE \E k \in 0 .. Len(w) :
         /\ MatchItem(Head(items), SubSeq(w, 1, k))
         /\ MatchItems(Tail(items), SubSeq(w, k + 1, Len(w)))

MatchRhs(rhs, w) == \E i \in DOMAIN rhs : MatchItems(rhs[i], w)

RECURSIVE LabelsOf(_)
LabelsOf(rhs) ==
  UNION {UNION {IF IsGroup(rhs[i][j]) THEN LabelsOf(rhs[i][j].rhs) ELSE {rhs[i][j].sym} :
                  j \in DOMAIN rhs[i]} : i \in DOMAIN rhs}

Words(labels, max) == UNION {[1 .. n -> labels] : n \in 0 .. max}

\* One alternative whose first (last) item repeats: the NFA comes back to the
\* state it starts in (goes on from the state it ends in).
RECURSIVE StartsWithRepeat(_), EndsWithRepeat(_)
StartsWithRepeat(rhs) ==
  /\ Len(rhs) = 1
  /\ LET first == Head(rhs[1])
     IN \/ first.mul \in {"plus", "star"}
        \/ IsGroup(first) /\ StartsWithRepeat(first.rhs)

EndsWithRepeat(rhs) ==
  /\ Len(rhs) = 1
  /\ LET last == Last(rhs[1])
     IN \/ last.mul \in {"plus", "star"}
        \/ IsGroup(last) /\ EndsWithRepeat(last.rhs)

\* Some group can be left out although its first or last item repeats.
RECURSIVE SkipsRepeat(_)
SkipsRepeat(rhs) ==
  \E i \in DOMAIN rhs : \E j \in DOMAIN rhs[i] :
    LET item == rhs[i][j]
    IN /\ IsGroup(item)
       /\ \/ item.mul \in {"star", "opt"} /\ StartsWithRepeat(item.rhs)
          \/ item.mul = "opt" /\ EndsWithRepeat(item.rhs)
          \/ SkipsRepeat(item.rhs)

-----------------------------------------------------------------------------
(* The words a DFA accepts.                                                 *)

\* The states a word leads to: one at most, if the arcs are deterministic.
After(d, w) ==
  FoldLeft(LAMBDA S, l : {arc[3] : arc \in {b \in d.arcs : b[1] \in S /\ b[2] = l}},
           {d.init}, w)

Accepts(d, w) == After(d, w) \cap d.final # {}

RECURSIVE ReachedFrom(_, _)
ReachedFrom(arcs, S) ==
  LET more == S \cup {b[3] : b \in {c \in arcs : c[1] \in S}}
  IN IF more = S THEN S ELSE ReachedFrom(arcs, more)

-----------------------------------------------------------------------------
(* What a right-hand side, and a label of a grammar, can begin with.        *)

RECURSIVE NullableRhs(_)
NullableItem(item) ==
  \/ item.mul \in {"opt", "star"}
  \/ IsGroup(item) /\ NullableRhs(item.rhs)
NullableRhs(rhs) == \E i \in DOMAIN rhs : \A j \in DOMAIN rhs[i] : NullableItem(rhs[i][j])

\* The labels a word of a right-hand side can begin with.
RECURSIVE LeftLabels(_)
LeftLabels(rhs) ==
  UNION {LET items == rhs[i]
             reach == {j \in DOMAIN items : \A k \in 1 .. j - 1 : NullableItem(items[k])}
         IN UNION {IF IsGroup(items[j]) THEN LeftLabels(items[j].rhs) ELSE {items[j].sym} :
                     j \in reach} : i \in DOMAIN rhs}

\* The labels reached by beginning with a label of S again and again.
RECURSIVE LeftReach(_, _)
LeftReach(rules, S) ==
  LET more == S \cup UNION {LeftLabels(rules[A]) : A \in S \cap DOMAIN rules}
  IN IF more = S THEN S ELSE LeftReach(rules, more)

FirstTokens(rules, label) == LeftReach(rules, {label}) \ DOMAIN rules

NoNullableRule(rules) == \A A \in DOMAIN rules : ~NullableRhs(rules[A])
=============================================================================
