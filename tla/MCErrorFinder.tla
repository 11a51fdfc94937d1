---------------------------- MODULE MCErrorFinder ----------------------------
(* The inputs of the error finder for TLC.                                   *)
EXTENDS StatementRules

CONSTANTS
  MaxHead,             \* bound: the characters before the first statement
  MaxParts             \* bound: the parameters, arguments and clauses

UpTo(n, S) == UNION {[1 .. k -> S] : k \in 1 .. n}

MCHeads == {<<>>} \cup {t \in UpTo(MaxHead, {"lf", "cr", "ff", "hash", "bs", "sp", "ch"}) : IsPrefixText(t)}
NoHeads == {<<>>}

\* What the grammar has as parameters: one star, **d at the end, and one slash
\* with a parameter and no star before it.
IsSignature(s) ==
  /\ \A j \in DOMAIN s : s[j][1] = "slash" =>
       /\ j > 1
       /\ \A i \in 1 .. j - 1 : s[i][1] \in {"plain", "default"}
  /\ \A i, j \in DOMAIN s : s[i][1] \in {"args", "bare"} /\ s[j][1] \in {"args", "bare"} => i = j
  /\ \A i \in 1 .. Len(s) - 1 : s[i][1] # "kwargs"

MCSignatures ==
  {s \in UpTo(MaxParts, ({"plain", "default"} \X {"a", "b"})
                          \cup {<<"args", "a">>, <<"bare", "">>, <<"slash", "">>, <<"kwargs", "b">>}) :
     IsSignature(s)}
Arguments == UpTo(MaxParts, {<<"keyword", "a">>, <<"keyword", "b">>, <<"positional", "">>,
                             <<"star", "">>, <<"starstar", "">>, <<"generator", "">>})
MCCalls == Arguments \cup {Append(s, <<"comma", "">>) : s \in Arguments}
MCClauses == UpTo(MaxParts, {"bare", "typed"})

\* Targets of these, one in the other.
Node(type, kids) == [type |-> type, kids |-> kids]
A == Node("name", <<>>)
Leaves == {A, Node("attribute", <<>>), Node("call", <<>>), Node("literal", <<>>)}
Star == Node("star", <<A>>)

Inner ==
  Leaves \cup {Node("star", <<l>>) : l \in Leaves}
    \cup {Node(type, <<l>>) : type \in Brackets, l \in {A, Star, Node("call", <<>>)}}
    \cup {Node(type, <<A, l>>) : type \in {"tuple", "list"}, l \in {A, Star}}
    \cup {Node("tuple", <<Star, Star>>), Node("tuple", <<>>), Node("list", <<>>),
          Node("star", <<Node("list", <<A, Star>>)>>)}

OuterTargets ==
  Inner \cup {Node(type, <<A, A, Star>>) : type \in {"list", "exprs"}}
        \cup {Node(type, <<n>>) : type \in Brackets \cup {"exprs"}, n \in Inner}
        \cup {Node(type, <<m, n>>) : type \in {"list", "exprs"}, m, n \in Inner}

\* After as and before := there is one expression.
MCTargets ==
  ({"assign", "aug", "ann", "del", "for", "comp"} \X OuterTargets)
    \cup ({"with", "named"} \X {n \in OuterTargets : n.type \notin {"exprs", "star"}})

None == {}
=============================================================================
