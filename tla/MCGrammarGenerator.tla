------------------------- MODULE MCGrammarGenerator -------------------------
(* Grammars of one rule over the tokens x and y with two levels of brackets, *)
(* and grammars of the two rules S and A: direct and indirect left           *)
(* recursion, ambiguities and plans two pushes deep.                         *)
EXTENDS GrammarGenerator

Sym(m, s) == [mul |-> m, sym |-> s]
Group(m, r) == [mul |-> m, rhs |-> r]
One(s) == Sym("one", s)

FlatItems == {Sym(m, s) : m \in {"one", "plus", "star"}, s \in {"x", "y"}}

FlatAlternatives == UNION {[1 .. n -> FlatItems] : n \in 1 .. 2}

FlatBodies ==
  {<<alt>> : alt \in FlatAlternatives}
    \cup {<< <<i>>, alt >> : i \in FlatItems, alt \in {<<One("x"), Sym("star", "y")>>, <<One("y")>>}}

Groups == {Group(m, r) : m \in {"one", "plus", "star", "opt"}, r \in FlatBodies}

Bodies ==
  FlatBodies \cup {<< <<h>> >> : h \in Groups}
    \cup {<< <<h, One("x")>> >> : h \in Groups}
    \cup {<< <<One("y"), h>>, <<Sym("plus", "x")>> >> : h \in Groups}

Symbols == {"S", "A", "x", "y"}

SmallBodies ==
  {<< <<One(s)>> >> : s \in Symbols}
    \cup {<< <<Sym(m, s), One(t)>> >> : m \in {"one", "star"}, s \in Symbols, t \in Symbols}
    \cup {<< <<One(s)>>, <<One(t), One("y")>> >> : s \in Symbols, t \in {"A", "x", "y"}}

MCGrammars == [{"S"} -> Bodies] \cup [{"S", "A"} -> SmallBodies]
=============================================================================
