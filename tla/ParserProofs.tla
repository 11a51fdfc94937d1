---------------------------- MODULE ParserProofs ----------------------------
(* Theorems about Parser, for every grammar, token sequence and bound.      *)
EXTENDS Parser, TLAPS, SequenceTheorems, WellFoundedInduction

NodesUpTo(n) == [type : NodeTypes, leaves : SUBSET (1 .. n), last : Tokens]

StackNodes(N) == [dfa : States, nodes : Seq(N)]

\* The text below the first k stack nodes, and below all of them.
TextTo(s, k) == UNION {Leaves(s[i].nodes) : i \in 1 .. k}
TextOf(s) == TextTo(s, Len(s))

\* Whatever comes first on the stack, comes last somewhere.
LEMMA LastSuch ==
  ASSUME NEW n \in Nat, NEW S, S \subseteq 1 .. n, S # {}
  PROVE  \E i \in S : \A j \in i + 1 .. n : j \notin S
<1> DEFINE T == {k \in Nat : n - k \in S}
<1>1. T \subseteq Nat /\ T # {}
  <2>1. PICK j \in S : TRUE
    OBVIOUS
  <2>2. n - j \in Nat /\ n - (n - j) = j
    BY <2>1
  <2> QED
    BY <2>1, <2>2
<1>2. PICK k \in T : \A l \in T : ~(<<l, k>> \in OpToRel(<, Nat))
  BY <1>1, WFMin, NatLessThanWellFounded, Zenon
<1>3. \A l \in T : ~(l < k)
  BY <1>1, <1>2 DEF OpToRel
<1>4. \A j \in n - k + 1 .. n : j \notin S
  <2> SUFFICES ASSUME NEW j \in n - k + 1 .. n, j \in S PROVE FALSE
    OBVIOUS
  <2>1. n - j \in T /\ n - j < k
    BY <1>1
  <2> QED
    BY <2>1, <1>3
<1> QED
  BY <1>4

LEMMA LeavesAppend ==
  ASSUME NEW N, NEW nodes \in Seq(N), NEW node \in N
  PROVE  Leaves(Append(nodes, node)) = Leaves(nodes) \cup node.leaves
<1>1. DOMAIN Append(nodes, node) = DOMAIN nodes \cup {Len(nodes) + 1}
  OBVIOUS
<1>2. \A i \in DOMAIN nodes : Append(nodes, node)[i] = nodes[i]
  OBVIOUS
<1>3. Append(nodes, node)[Len(nodes) + 1] = node
  OBVIOUS
<1>4. ASSUME NEW x, x \in Leaves(Append(nodes, node))
      PROVE  x \in Leaves(nodes) \cup node.leaves
  BY <1>1, <1>2, <1>3, <1>4 DEF Leaves
<1>5. ASSUME NEW x, x \in Leaves(nodes) \cup node.leaves
      PROVE  x \in Leaves(Append(nodes, node))
  BY <1>1, <1>2, <1>3, <1>5 DEF Leaves
<1> QED
  BY <1>4, <1>5

LEMMA NodeAppended ==
  ASSUME NEW N, NEW r \in StackNodes(N), NEW node \in N
  PROVE  [r EXCEPT !.nodes = Append(@, node)] = [dfa |-> r.dfa, nodes |-> Append(r.nodes, node)]
BY DEF StackNodes

\* Every step but the change of a state cuts the stack and appends a node to
\* what is then on top.
IsCut(c, s, k, node, N) ==
  /\ c \in Seq(StackNodes(N))
  /\ Len(c) = k
  /\ c[k] = [dfa |-> s[k].dfa, nodes |-> Append(s[k].nodes, node)]
  /\ \A j \in 1 .. k - 1 : c[j] = s[j]
  /\ TextOf(c) = TextTo(s, k) \cup node.leaves

LEMMA CutAppend ==
  ASSUME NEW N, NEW s \in Seq(StackNodes(N)), NEW k \in DOMAIN s, NEW node \in N
  PROVE  IsCut(AppendTo(SubSeq(s, 1, k), k, node), s, k, node, N)
<1> DEFINE b == SubSeq(s, 1, k)
           c == AppendTo(b, k, node)
           top == [dfa |-> s[k].dfa, nodes |-> Append(s[k].nodes, node)]
<1>1. b \in Seq(StackNodes(N)) /\ Len(b) = k /\ \A j \in 1 .. k : b[j] = s[j]
  OBVIOUS
<1>2. s[k] \in StackNodes(N)
  OBVIOUS
<1>3. s[k].dfa \in States /\ s[k].nodes \in Seq(N)
  BY <1>2 DEF StackNodes
<1>4. top \in StackNodes(N)
  BY <1>3 DEF StackNodes
<1> HIDE DEF b
<1>5. c = [b EXCEPT ![k] = top]
  <2>1. [s[k] EXCEPT !.nodes = Append(@, node)] = top
    BY <1>2, NodeAppended
  <2>2. b[k] = s[k]
    BY <1>1
  <2>3. c = [b EXCEPT ![k] = [b[k] EXCEPT !.nodes = Append(@, node)]]
    BY SMT DEF AppendTo
  <2> QED
    BY <2>1, <2>2, <2>3
<1> HIDE DEF c, top
<1>6. /\ c \in Seq(StackNodes(N)) /\ Len(c) = k /\ c[k] = top
      /\ \A j \in 1 .. k - 1 : c[j] = s[j]
  BY <1>1, <1>4, <1>5
<1>7. TextOf(c) = TextTo(s, k) \cup node.leaves
  <2>1. 1 .. k = (1 .. k - 1) \cup {k}
    OBVIOUS
  <2>2. Leaves(c[k].nodes) = Leaves(s[k].nodes) \cup node.leaves
    BY <1>3, <1>6, LeavesAppend DEF top
  <2>3. TextOf(c) = (UNION {Leaves(s[j].nodes) : j \in 1 .. k - 1}) \cup Leaves(c[k].nodes)
    BY <2>1, <1>6 DEF TextOf, TextTo
  <2> QED
    BY <2>1, <2>2, <2>3 DEF TextTo
<1> QED
  BY <1>6, <1>7 DEF b, c, top, IsCut

\* The state on top changes, and nothing else.
LEMMA AdvanceFacts ==
  ASSUME NEW N, stack \in Seq(StackNodes(N)), stack # <<>>, NEW dfa \in States
  PROVE  /\ Advance(dfa) \in Seq(StackNodes(N))
         /\ Len(Advance(dfa)) = Len(stack)
         /\ Advance(dfa)[Len(stack)] = [dfa |-> dfa, nodes |-> Top.nodes]
         /\ \A j \in 1 .. Len(stack) - 1 : Advance(dfa)[j] = stack[j]
         /\ TextOf(Advance(dfa)) = TextOf(stack)
<1> DEFINE n == Len(stack)
           c == Advance(dfa)
           top == [dfa |-> dfa, nodes |-> Top.nodes]
<1>1. n \in Nat \ {0} /\ n \in DOMAIN stack
  OBVIOUS
<1>2. Top \in StackNodes(N)
  BY <1>1 DEF Top
<1>3. top \in StackNodes(N)
  BY <1>2 DEF StackNodes
<1>4. c = [stack EXCEPT ![n] = top]
  <2>1. [Top EXCEPT !.dfa = dfa] = top
    BY <1>2 DEF StackNodes
  <2>2. c = [stack EXCEPT ![n] = [stack[n] EXCEPT !.dfa = dfa]]
    BY SMT DEF Advance
  <2> QED
    BY <2>1, <2>2 DEF Top
<1> HIDE DEF c, top
<1>5. /\ c \in Seq(StackNodes(N)) /\ Len(c) = n /\ c[n] = top
      /\ \A j \in 1 .. n - 1 : c[j] = stack[j]
  BY <1>1, <1>3, <1>4
<1>6. \A j \in DOMAIN stack : c[j].nodes = stack[j].nodes
  BY <1>5 DEF top, Top
<1>7. TextOf(c) = TextOf(stack)
  BY <1>5, <1>6 DEF TextOf, TextTo
<1> QED
  BY <1>5, <1>7 DEF c, top

\* Only an INDENT and a DEDENT are dropped when a stack node becomes a tree node.
LEMMA FinishedNode ==
  ASSUME NEW n \in Nat, NEW sn \in StackNodes(NodesUpTo(n)),
         sn.nodes # <<>>,
         FromRule[sn.dfa] = "suite" =>
           \/ Len(sn.nodes) = 1
           \/ /\ Len(sn.nodes) >= 3
              /\ sn.nodes[2].leaves = {}
              /\ LastOf(sn.nodes).leaves = {}
  PROVE  Finished(sn) \in NodesUpTo(n) /\ Finished(sn).leaves = Leaves(sn.nodes)
<1> DEFINE nodes == sn.nodes
           rule == FromRule[sn.dfa]
           kept == <<nodes[1]>> \o SubSeq(nodes, 3, Len(nodes) - 1)
<1>1. sn.dfa \in States /\ nodes \in Seq(NodesUpTo(n)) /\ Len(nodes) \in Nat \ {0}
  BY DEF StackNodes
<1>2. rule \in NodeTypes
  BY <1>1, GrammarAssumption DEF NodeTypes
<1>3. ASSUME NEW c \in Seq(NodesUpTo(n)), c # <<>>
      PROVE  [type |-> rule, leaves |-> Leaves(c), last |-> LastOf(c).last] \in NodesUpTo(n)
  <2>1. \A i \in DOMAIN c : c[i] \in NodesUpTo(n)
    BY <1>3
  <2>2. Leaves(c) \subseteq 1 .. n
    BY <2>1 DEF Leaves, NodesUpTo
  <2>3. Len(c) \in DOMAIN c
    BY <1>3
  <2>4. LastOf(c).last \in Tokens
    BY <2>1, <2>3 DEF LastOf, NodesUpTo
  <2> QED
    BY <1>2, <2>2, <2>4 DEF NodesUpTo
<1>4. CASE Len(nodes) = 1
  <2>1. Finished(sn) = nodes[1]
    BY <1>4 DEF Finished
  <2>2. DOMAIN nodes = {1} /\ nodes[1] \in NodesUpTo(n)
    BY <1>1, <1>4
  <2>3. Leaves(nodes) = nodes[1].leaves
    BY <2>2 DEF Leaves
  <2> QED
    BY <2>1, <2>2, <2>3
<1>5. CASE Len(nodes) # 1 /\ rule # "suite"
  <2>1. Finished(sn) = [type |-> rule, leaves |-> Leaves(nodes), last |-> LastOf(nodes).last]
    BY <1>5 DEF Finished, ConvertNode
  <2> QED
    BY <1>1, <1>3, <2>1
<1>6. CASE Len(nodes) # 1 /\ rule = "suite"
  <2>1. Finished(sn) = [type |-> rule, leaves |-> Leaves(kept), last |-> LastOf(kept).last]
    BY <1>6 DEF Finished, ConvertNode
  <2>2. Len(nodes) >= 3 /\ nodes[2].leaves = {} /\ nodes[Len(nodes)].leaves = {}
    BY <1>6 DEF LastOf
  <2>3. /\ kept \in Seq(NodesUpTo(n)) /\ Len(kept) = Len(nodes) - 2 /\ kept[1] = nodes[1]
        /\ \A i \in 2 .. Len(nodes) - 2 : kept[i] = nodes[i + 1]
    BY <1>1, <2>2
  <2> HIDE DEF kept
  <2>4. ASSUME NEW x \in Leaves(nodes) PROVE x \in Leaves(kept)
    <3>1. PICK i \in DOMAIN nodes : x \in nodes[i].leaves
      BY DEF Leaves
    <3>2. i = 1 \/ i - 1 \in 2 .. Len(nodes) - 2
      BY <1>1, <2>2, <3>1
    <3>3. \E j \in DOMAIN kept : kept[j] = nodes[i]
      BY <1>1, <2>2, <2>3, <3>2
    <3> QED
      BY <3>1, <3>3 DEF Leaves
  <2>5. ASSUME NEW x \in Leaves(kept) PROVE x \in Leaves(nodes)
    <3>1. PICK i \in DOMAIN kept : x \in kept[i].leaves
      BY DEF Leaves
    <3>2. \E j \in DOMAIN nodes : kept[i] = nodes[j]
      BY <1>1, <2>2, <2>3, <3>1
    <3> QED
      BY <3>1, <3>2 DEF Leaves
  <2>6. Leaves(kept) = Leaves(nodes)
    BY <2>4, <2>5
  <2>7. kept # <<>>
    BY <1>1, <2>2, <2>3
  <2> QED
    BY <1>3, <2>1, <2>3, <2>6, <2>7
<1> QED
  BY <1>4, <1>5, <1>6

-----------------------------------------------------------------------------
(* The inductive invariant.                                                 *)

Suite(s, i) == FromRule[s[i].dfa] = "suite"

\* A suite of the stack waits for its INDENT, or for more statements of its
\* block, or for the one statement of its line, or is complete.
SuiteOK(s, i) ==
  LET d == s[i].dfa
      nodes == s[i].nodes
  IN Suite(s, i) =>
       \/ AwaitsIndent(d) /\ i = Len(s) /\ Len(nodes) = 1
       \/ d \in DOMAIN StmtArc /\ Len(nodes) >= 2 /\ nodes[2].leaves = {}
       \/ d \in Final /\ i < Len(s) /\ nodes = <<>>
       \/ d \in Final /\ i = Len(s) /\ Len(nodes) = 1
       \/ /\ d \in Final /\ i = Len(s)
          /\ Len(nodes) >= 3 /\ nodes[2].leaves = {} /\ LastOf(nodes).leaves = {}

SuitesOK(s) == \A i \in DOMAIN s : SuiteOK(s, i)

BottomOK(s) == FromRule[s[1].dfa] = "file_input"

TopOK(s) == Len(s) > 1 => s[Len(s)].nodes # <<>>

CallsOK ==
  /\ pc = "fixup" => pending > 0
  /\ pc \in {"add", "raised"} => count > 0

StackOK == BottomOK(stack) /\ TopOK(stack) /\ SuitesOK(stack)

TextOK == pc # "crashed" => TextOf(stack) \cup InHand = text

Inv == TypeOK /\ CallsOK /\ StackOK /\ TextOK

\* A block of the stack, or what an item was pushed on, takes another node.
LEMMA CutSuites ==
  ASSUME NEW N, NEW s \in Seq(StackNodes(N)), NEW k \in DOMAIN s, NEW node \in N,
         BottomOK(s), SuitesOK(s),
         (Suite(s, k) /\ k = Len(s)) =>
            /\ Len(s[k].nodes) # 1
            /\ s[k].dfa \notin Final
  PROVE  LET c == AppendTo(SubSeq(s, 1, k), k, node)
         IN BottomOK(c) /\ TopOK(c) /\ SuitesOK(c)
<1> DEFINE c == AppendTo(SubSeq(s, 1, k), k, node)
<1>0. IsCut(c, s, k, node, N)
  BY CutAppend
<1> HIDE DEF c
<1>1. /\ c \in Seq(StackNodes(N))
      /\ Len(c) = k
      /\ c[k] = [dfa |-> s[k].dfa, nodes |-> Append(s[k].nodes, node)]
      /\ \A j \in 1 .. k - 1 : c[j] = s[j]
  BY <1>0 DEF IsCut
<1>2. s[k] \in StackNodes(N) /\ k \in 1 .. Len(s) /\ k \in Nat /\ Len(s) \in Nat
  OBVIOUS
<1>3. s[k].nodes \in Seq(N)
  BY <1>2 DEF StackNodes
<1>4. c[k].dfa = s[k].dfa /\ c[k].nodes = Append(s[k].nodes, node)
  BY <1>1
<1>5. BottomOK(c)
  BY <1>1, <1>2, <1>4 DEF BottomOK
<1>6. TopOK(c)
  <2>1. Append(s[k].nodes, node) # <<>>
    BY <1>3
  <2> QED
    BY <1>1, <1>4, <2>1 DEF TopOK
<1>7. ASSUME NEW i \in 1 .. k - 1 PROVE SuiteOK(c, i)
  <2>1. c[i] = s[i] /\ i < k /\ i < Len(s) /\ i \in DOMAIN s
    BY <1>1, <1>2
  <2>2. SuiteOK(s, i)
    BY <2>1 DEF SuitesOK
  <2> QED
    BY <1>1, <1>2, <2>1, <2>2 DEF SuiteOK, Suite
<1>8. SuiteOK(c, k)
  <2> SUFFICES ASSUME Suite(c, k) PROVE SuiteOK(c, k)
    BY DEF SuiteOK
  <2>1. Suite(s, k) /\ SuiteOK(s, k)
    BY <1>4 DEF Suite, SuitesOK
  <2>2. \/ s[k].dfa \in DOMAIN StmtArc /\ Len(s[k].nodes) >= 2 /\ s[k].nodes[2].leaves = {}
        \/ s[k].dfa \in Final /\ s[k].nodes = <<>>
    BY <1>2, <2>1 DEF SuiteOK
  <2>3. CASE s[k].dfa \in DOMAIN StmtArc /\ Len(s[k].nodes) >= 2 /\ s[k].nodes[2].leaves = {}
    <3>1. Len(c[k].nodes) >= 2 /\ c[k].nodes[2] = s[k].nodes[2]
      BY <1>3, <1>4, <2>3
    <3> QED
      BY <1>4, <2>3, <3>1 DEF SuiteOK
  <2>4. CASE s[k].dfa \in Final /\ s[k].nodes = <<>>
    <3>1. Len(c[k].nodes) = 1
      BY <1>3, <1>4, <2>4
    <3> QED
      BY <1>1, <1>4, <2>4, <3>1 DEF SuiteOK
  <2> QED
    BY <2>2, <2>3, <2>4
<1>9. SuitesOK(c)
  <2>1. DOMAIN c = (1 .. k - 1) \cup {k}
    BY <1>1, <1>2
  <2> QED
    BY <2>1, <1>7, <1>8 DEF SuitesOK
<1> QED
  BY <1>5, <1>6, <1>9 DEF c

\* What a complete stack node becomes has all the text that was below it.
LEMMA TopFinished ==
  ASSUME NEW n \in Nat, stack \in Seq(StackNodes(NodesUpTo(n))), Len(stack) > 1,
         StackOK, Top.dfa \in Final
  PROVE  Finished(Top) \in NodesUpTo(n) /\ Finished(Top).leaves = Leaves(Top.nodes)
<1>1. Len(stack) \in DOMAIN stack
  OBVIOUS
<1>2. Top \in StackNodes(NodesUpTo(n))
  BY <1>1 DEF Top
<1>3. Top.nodes # <<>> /\ Top.dfa \in States
  BY <1>2 DEF StackOK, TopOK, Top, StackNodes
<1>4. FromRule[Top.dfa] = "suite" =>
           \/ Len(Top.nodes) = 1
           \/ /\ Len(Top.nodes) >= 3
              /\ Top.nodes[2].leaves = {}
              /\ LastOf(Top.nodes).leaves = {}
  <2> SUFFICES ASSUME FromRule[Top.dfa] = "suite"
               PROVE  \/ Len(Top.nodes) = 1
                      \/ /\ Len(Top.nodes) >= 3
                         /\ Top.nodes[2].leaves = {}
                         /\ LastOf(Top.nodes).leaves = {}
    OBVIOUS
  <2>1. ~AwaitsIndent(Top.dfa) /\ Top.dfa \notin DOMAIN StmtArc
    BY <1>3, SuiteAssumption DEF AwaitsIndent
  <2>2. SuiteOK(stack, Len(stack))
    BY <1>1 DEF StackOK, SuitesOK
  <2> QED
    BY <1>3, <2>1, <2>2 DEF SuiteOK, Suite, Top
<1> QED
  BY <1>2, <1>3, <1>4, FinishedNode

LEMMA PoppedFacts ==
  ASSUME NEW n \in Nat, stack \in Seq(StackNodes(NodesUpTo(n))), Len(stack) > 1,
         StackOK, Top.dfa \in Final
  PROVE  /\ Popped \in Seq(StackNodes(NodesUpTo(n)))
         /\ Len(Popped) = Len(stack) - 1
         /\ TextOf(Popped) = TextOf(stack)
         /\ BottomOK(Popped) /\ TopOK(Popped) /\ SuitesOK(Popped)
         /\ IsCut(Popped, stack, Len(stack) - 1, Finished(Top), NodesUpTo(n))
<1> DEFINE N == NodesUpTo(n)
           k == Len(stack) - 1
           node == Finished(Top)
<1>1. k \in DOMAIN stack /\ k + 1 = Len(stack)
  OBVIOUS
<1>5. node \in N /\ node.leaves = Leaves(Top.nodes)
  BY TopFinished
<1> DEFINE c == AppendTo(SubSeq(stack, 1, k), k, node)
<1> HIDE DEF node, N, k
<1>6. stack \in Seq(StackNodes(N)) /\ k \in DOMAIN stack /\ node \in N
  BY <1>1, <1>5 DEF N
<1>7. BottomOK(c) /\ TopOK(c) /\ SuitesOK(c)
  BY <1>1, <1>6, CutSuites DEF StackOK
<1>8. IsCut(c, stack, k, node, N)
  BY <1>6, CutAppend
<1> HIDE DEF c
<1>9. TextOf(c) = TextOf(stack)
  <2>1. k + 1 = Len(stack) /\ 1 .. k + 1 = (1 .. k) \cup {k + 1}
    BY <1>1
  <2>2. TextOf(stack) = TextTo(stack, k) \cup Leaves(stack[k + 1].nodes)
    BY <2>1 DEF TextOf, TextTo
  <2> QED
    BY <1>1, <1>5, <1>8, <2>2 DEF Top, IsCut
<1>10. c \in Seq(StackNodes(N)) /\ Len(c) = k
  BY <1>8 DEF IsCut
<1>11. c = Popped
  BY DEF N, c, k, node, Popped
<1> QED
  BY <1>7, <1>8, <1>9, <1>10, <1>11 DEF N, k, node

\* There is always a block to cut the stack down to.
LEMMA UntilFacts ==
  ASSUME NEW N, stack \in Seq(StackNodes(N)), stack # <<>>, BottomOK(stack)
  PROVE  /\ UntilIndex \in DOMAIN stack /\ IsBlock(stack[UntilIndex])
         /\ \A j \in UntilIndex + 1 .. Len(stack) : ~IsBlock(stack[j])
<1> DEFINE n == Len(stack)
           S == {i \in 1 .. n : IsBlock(stack[i])}
<1>1. n \in Nat /\ 1 \in DOMAIN stack /\ DOMAIN stack = 1 .. n
  OBVIOUS
<1>2. 1 \in S
  BY <1>1 DEF BottomOK, IsBlock
<1>3. PICK i \in S : \A j \in i + 1 .. n : j \notin S
  BY <1>1, <1>2, LastSuch
<1>4. \A j \in i + 1 .. n : ~IsBlock(stack[j])
  BY <1>1, <1>3
<1>5. \E k \in DOMAIN stack : /\ IsBlock(stack[k]) \/ k = 1
                              /\ \A j \in k + 1 .. Len(stack) : ~IsBlock(stack[j])
  BY <1>1, <1>3, <1>4
<1>6. /\ UntilIndex \in DOMAIN stack /\ (IsBlock(stack[UntilIndex]) \/ UntilIndex = 1)
      /\ \A j \in UntilIndex + 1 .. Len(stack) : ~IsBlock(stack[j])
  BY <1>5 DEF UntilIndex
<1> QED
  BY <1>2, <1>6

LEMMA LastRemovedType ==
  ASSUME NEW n \in Nat, stack \in Seq(StackNodes(NodesUpTo(n))),
         NEW k \in DOMAIN stack, NodesRemoved(k + 1)
  PROVE  LastRemoved(k + 1) \in Tokens
<1> DEFINE m == Len(stack)
           S == {i \in k + 1 .. m : stack[i].nodes # <<>>}
           Is(i) == /\ stack[i].nodes # <<>>
                    /\ \A j \in i + 1 .. m : stack[j].nodes = <<>>
<1>1. S \subseteq 1 .. m /\ S # {} /\ m \in Nat /\ k \in 1 .. m
  BY DEF NodesRemoved
<1>2. PICK i \in S : \A j \in i + 1 .. m : j \notin S
  BY <1>1, LastSuch
<1>3. i \in k + 1 .. m /\ Is(i)
  BY <1>1, <1>2
<1> DEFINE c == CHOOSE x \in k + 1 .. m : Is(x)
<1>4. c \in k + 1 .. m /\ Is(c)
  BY <1>3
<1>5. LastRemoved(k + 1) = LastOf(stack[c].nodes).last
  BY DEF LastRemoved
<1> HIDE DEF c
<1>6. c \in DOMAIN stack /\ stack[c].nodes # <<>>
  BY <1>1, <1>4
<1>7. stack[c] \in StackNodes(NodesUpTo(n))
  BY <1>6
<1>8. stack[c].nodes \in Seq(NodesUpTo(n))
  BY <1>7 DEF StackNodes
<1>9. LastOf(stack[c].nodes) \in NodesUpTo(n)
  BY <1>6, <1>8 DEF LastOf
<1> QED
  BY <1>5, <1>9 DEF NodesUpTo

-----------------------------------------------------------------------------
(* The steps.                                                               *)

LEMMA Typed ==
  ASSUME TypeOK
  PROVE  /\ stack \in Seq(StackNodes(NodesUpTo(count))) /\ stack # <<>>
         /\ count \in Nat /\ Len(stack) \in Nat \ {0}
         /\ Len(stack) \in DOMAIN stack /\ Top \in StackNodes(NodesUpTo(count))
<1>1. stack \in Seq(StackNodes(NodesUpTo(count))) /\ stack # <<>> /\ count \in Nat
  BY DEF TypeOK, StreamTypeOK, StackNode, Node, StackNodes, NodesUpTo, Positions
<1> QED
  BY <1>1 DEF Top

\* What is to be shown of a step that takes nothing from the tokenizer.
LEMMA SameTokens ==
  ASSUME TypeOK, UNCHANGED <<streamVars, tok, text>>,
         stack' \in Seq(StackNodes(NodesUpTo(count))), stack' # <<>>,
         pc' \in PC, pending' \in Nat, omit' \in Seq(Int), indentCounter' \in Int
  PROVE  TypeOK'
BY DEF TypeOK, StreamTypeOK, streamVars, StackNode, Node, StackNodes, NodesUpTo, Positions

LEMMA LeafFacts ==
  ASSUME TypeOK, count > 0, NEW type \in NodeTypes
  PROVE  Leaf(type) \in NodesUpTo(count) /\ Leaf(type).leaves = TokLeaves
BY DEF TypeOK, StreamTypeOK, Leaf, TokLeaves, NodesUpTo

\* The stack c after a shift on the stack s, of length m, with q nodes pushed:
\* they have no text, and the token goes on top.
IsShifted(c, s, plan, leaf, m, q, N) ==
  /\ plan.next \in States /\ plan.pushes \in Seq(States)
  /\ c \in Seq(StackNodes(N)) /\ Len(c) = m + q
  /\ \A i \in 1 .. m - 1 : c[i] = s[i]
  /\ c[m].dfa = plan.next
  /\ q = 0 => c[m].nodes = Append(s[m].nodes, leaf)
  /\ q > 0 => c[m].nodes = s[m].nodes
  /\ \A j \in 1 .. q : c[m + j].dfa = plan.pushes[j]
  /\ \A j \in 1 .. q - 1 : c[m + j].nodes = <<>>
  /\ q > 0 => c[m + q].nodes = <<leaf>>
  /\ TextOf(c) = TextOf(s) \cup leaf.leaves

LEMMA ShiftFacts ==
  ASSUME TypeOK, count > 0, Shift
  PROVE  LET plan == Transitions[Top.dfa][tok]
         IN IsShifted(stack', stack, plan, Leaf(tok), Len(stack), Len(plan.pushes), NodesUpTo(count))
<1> DEFINE plan == Transitions[Top.dfa][tok]
           m == Len(stack)
           q == Len(plan.pushes)
           N == NodesUpTo(count)
           a == Advance(plan.next)
           b == [i \in DOMAIN plan.pushes |-> [dfa |-> plan.pushes[i], nodes |-> <<>>]]
           pushed == a \o b
           c == AppendTo(SubSeq(pushed, 1, m + q), m + q, Leaf(tok))
<1>1. /\ stack \in Seq(StackNodes(N)) /\ stack # <<>> /\ m \in Nat \ {0}
      /\ Top \in StackNodes(N)
  BY Typed
<1>2. Top.dfa \in States /\ Top.nodes \in Seq(N)
  BY <1>1 DEF StackNodes
<1>3. plan \in [next : States, pushes : Seq(States)]
  BY <1>2, GrammarAssumption DEF Shift, HasPlan
<1>4. plan.next \in States /\ plan.pushes \in Seq(States) /\ q \in Nat
  BY <1>3
<1>5. Leaf(tok) \in N /\ Leaf(tok).leaves = TokLeaves
  BY LeafFacts DEF TypeOK, NodeTypes
<1>6. stack' = AppendTo(pushed, Len(pushed), Leaf(tok))
  BY DEF Shift
<1> HIDE DEF plan, N
<1>7. /\ a \in Seq(StackNodes(N)) /\ Len(a) = m
      /\ a[m] = [dfa |-> plan.next, nodes |-> Top.nodes]
      /\ \A j \in 1 .. m - 1 : a[j] = stack[j]
      /\ TextOf(a) = TextOf(stack)
  BY <1>1, <1>4, AdvanceFacts
<1>8. /\ b \in Seq(StackNodes(N)) /\ Len(b) = q
      /\ \A j \in 1 .. q : b[j] = [dfa |-> plan.pushes[j], nodes |-> <<>>]
  <2>1. \A j \in 1 .. q : [dfa |-> plan.pushes[j], nodes |-> <<>>] \in StackNodes(N)
    BY <1>4 DEF StackNodes
  <2>2. DOMAIN plan.pushes = 1 .. q
    BY <1>4
  <2> QED
    BY <1>4, <2>1, <2>2
<1> HIDE DEF a, b, m, q
<1>9. /\ pushed \in Seq(StackNodes(N)) /\ Len(pushed) = m + q
      /\ \A j \in 1 .. m : pushed[j] = a[j]
      /\ \A j \in 1 .. q : pushed[m + j] = b[j]
  <2>1. /\ pushed \in Seq(StackNodes(N)) /\ Len(pushed) = m + q
        /\ \A i \in 1 .. m + q : pushed[i] = IF i <= m THEN a[i] ELSE b[i - m]
    BY <1>7, <1>8, ConcatProperties
  <2> HIDE DEF pushed
  <2>2. \A j \in 1 .. q : m + j \in 1 .. m + q /\ ~(m + j <= m) /\ (m + j) - m = j
    BY <1>1, <1>4
  <2> QED
    BY <1>1, <1>4, <2>1, <2>2
<1> HIDE DEF pushed
<1>10. TextOf(pushed) = TextOf(stack)
  <2>1. ASSUME NEW x \in TextOf(pushed) PROVE x \in TextOf(a)
    <3>1. PICK i \in 1 .. m + q : x \in Leaves(pushed[i].nodes)
      BY <1>9, <2>1 DEF TextOf, TextTo
    <3>2. CASE i \in 1 .. m
      BY <1>7, <1>9, <3>1, <3>2 DEF TextOf, TextTo
    <3>3. CASE i \notin 1 .. m
      <4>1. i - m \in 1 .. q /\ m + (i - m) = i
        BY <1>1, <1>4, <3>3
      <4>2. pushed[i].nodes = <<>>
        BY <1>8, <1>9, <4>1
      <4> QED
        BY <3>1, <4>2 DEF Leaves
    <3> QED
      BY <3>2, <3>3
  <2>2. ASSUME NEW x \in TextOf(a) PROVE x \in TextOf(pushed)
    <3>1. PICK i \in 1 .. m : x \in Leaves(a[i].nodes)
      BY <1>7, <2>2 DEF TextOf, TextTo
    <3>2. i \in 1 .. m + q /\ pushed[i] = a[i]
      BY <1>1, <1>4, <1>9
    <3> QED
      BY <1>9, <3>1, <3>2 DEF TextOf, TextTo
  <2> QED
    BY <1>7, <2>1, <2>2
<1>11. m + q \in DOMAIN pushed /\ SubSeq(pushed, 1, m + q) = pushed
  BY <1>1, <1>4, <1>9, SubSeqFull
<1>12. stack' = c
  BY <1>6, <1>9, <1>11
<1>13. IsCut(c, pushed, m + q, Leaf(tok), N)
  BY <1>5, <1>9, <1>11, CutAppend
<1> DEFINE leaf == Leaf(tok)
           k == m + q
<1> HIDE DEF c
<1>14. IsCut(c, pushed, k, leaf, N)
  BY <1>13
<1>15. k \in Nat /\ k = m + q /\ leaf \in N /\ leaf.leaves = TokLeaves
  BY <1>1, <1>4, <1>5
<1> HIDE DEF k, leaf
<1>16. /\ c \in Seq(StackNodes(N)) /\ Len(c) = k
       /\ c[k] = [dfa |-> pushed[k].dfa, nodes |-> Append(pushed[k].nodes, leaf)]
       /\ \A j \in 1 .. k - 1 : c[j] = pushed[j]
       /\ TextOf(c) = TextTo(pushed, k) \cup leaf.leaves
  BY <1>14 DEF IsCut
<1>17. TextOf(c) = TextOf(stack) \cup TokLeaves
  BY <1>9, <1>10, <1>15, <1>16 DEF TextOf
<1>18. \A i \in 1 .. m - 1 : c[i] = stack[i]
  BY <1>1, <1>4, <1>7, <1>9, <1>15, <1>16
<1>19. q = 0 => c[m].dfa = plan.next /\ c[m].nodes = Append(Top.nodes, leaf)
  BY <1>1, <1>7, <1>9, <1>15, <1>16
<1>20. q > 0 => c[m].dfa = plan.next /\ c[m].nodes = Top.nodes
  BY <1>1, <1>4, <1>7, <1>9, <1>15, <1>16
<1>21. \A j \in 1 .. q - 1 : c[m + j].dfa = plan.pushes[j] /\ c[m + j].nodes = <<>>
  <2> TAKE j \in 1 .. q - 1
  <2>1. m + j \in 1 .. k - 1 /\ j \in 1 .. q
    BY <1>1, <1>4, <1>15
  <2>2. c[m + j] = b[j]
    BY <1>9, <1>16, <2>1
  <2> QED
    BY <1>8, <2>1, <2>2
<1>22. q > 0 => c[m + q].dfa = plan.pushes[q] /\ c[m + q].nodes = <<leaf>>
  <2> SUFFICES ASSUME q > 0 PROVE c[m + q].dfa = plan.pushes[q] /\ c[m + q].nodes = <<leaf>>
    OBVIOUS
  <2>1. pushed[m + q] = [dfa |-> plan.pushes[q], nodes |-> <<>>]
    BY <1>4, <1>8, <1>9
  <2> QED
    BY <1>15, <1>16, <2>1
<1>23. \A j \in 1 .. q : c[m + j].dfa = plan.pushes[j]
  BY <1>4, <1>21, <1>22
<1>24. q = 0 \/ q > 0
  BY <1>4
<1>25. Top = stack[m]
  BY DEF Top, m
<1>26. IsShifted(c, stack, plan, leaf, m, q, N)
  BY <1>4, <1>15, <1>16, <1>17, <1>18, <1>19, <1>20, <1>21, <1>22, <1>23, <1>24, <1>25
     DEF IsShifted
<1> QED
  BY <1>12, <1>26 DEF plan, m, q, N, leaf

\* The suites a shift begins, opens and closes are what SuiteOK says.
LEMMA ShiftSuites ==
  ASSUME Inv, Shift
  PROVE  BottomOK(stack') /\ TopOK(stack') /\ SuitesOK(stack')
<1> DEFINE s == stack
           c == stack'
           t == tok
           leaf == Leaf(t)
           m == Len(s)
           plan == Transitions[s[m].dfa][t]
           q == Len(plan.pushes)
           N == NodesUpTo(count)
<1>a. TypeOK /\ count > 0 /\ BottomOK(s) /\ SuitesOK(s)
  BY DEF Inv, CallsOK, StackOK, Shift
<1>b. /\ s \in Seq(StackNodes(N)) /\ m \in Nat \ {0} /\ m = Len(s)
      /\ Top = s[m] /\ t \in DOMAIN Transitions[s[m].dfa]
  BY <1>a, Typed DEF Top, Shift, HasPlan
<1>c. plan = Transitions[s[m].dfa][t] /\ q = Len(plan.pushes)
  OBVIOUS
<1>d. IsShifted(c, s, plan, leaf, m, q, N)
  BY <1>a, <1>b, ShiftFacts
<1>e. t \in {"INDENT", "DEDENT"} => leaf.leaves = {}
  BY DEF Leaf, TokLeaves, VirtualTokens
<1> HIDE DEF s, c, t, leaf, m, plan, N
<1>f. q \in Nat
  BY <1>d DEF IsShifted
<1> HIDE DEF q
<1> USE <1>a, <1>b, <1>c, <1>d, <1>e, <1>f
<1>1. /\ plan.next \in States /\ plan.pushes \in Seq(States)
      /\ c \in Seq(StackNodes(N)) /\ Len(c) = m + q
      /\ \A i \in 1 .. m - 1 : c[i] = s[i]
      /\ c[m].dfa = plan.next
  BY DEF IsShifted
<1>2. /\ q = 0 => c[m].nodes = Append(s[m].nodes, leaf)
      /\ q > 0 => c[m].nodes = s[m].nodes /\ c[m + q].nodes = <<leaf>>
      /\ \A j \in 1 .. q : c[m + j].dfa = plan.pushes[j]
      /\ \A j \in 1 .. q - 1 : c[m + j].nodes = <<>>
  BY DEF IsShifted
<1>3. s[m] \in StackNodes(N)
  OBVIOUS
<1>4. s[m].dfa \in States /\ s[m].nodes \in Seq(N)
  BY <1>3 DEF StackNodes
<1>5. FromRule[plan.next] = FromRule[s[m].dfa]
  BY <1>4, SuiteAssumption
<1>6. BottomOK(c)
  <2>1. CASE m = 1
    BY <1>1, <1>5, <2>1 DEF BottomOK
  <2>2. CASE m > 1
    BY <1>1, <2>2 DEF BottomOK
  <2> QED
    BY <2>1, <2>2
<1>7. TopOK(c)
  <2>1. CASE q = 0
    <3>1. Append(s[m].nodes, leaf) # <<>>
      BY <1>4
    <3> QED
      BY <1>1, <1>2, <2>1, <3>1 DEF TopOK
  <2>2. CASE q > 0
    <3>1. c[Len(c)].nodes = <<leaf>>
      BY <1>1, <1>2, <2>2
    <3>2. <<leaf>> # <<>>
      OBVIOUS
    <3> QED
      BY <3>1, <3>2 DEF TopOK
  <2> QED
    BY <2>1, <2>2
<1>8. ASSUME NEW i \in 1 .. m - 1 PROVE SuiteOK(c, i)
  <2>1. c[i] = s[i] /\ i < Len(s) /\ i < Len(c) /\ i \in DOMAIN s
    BY <1>1
  <2>2. SuiteOK(s, i)
    BY <2>1 DEF SuitesOK
  <2> QED
    BY <2>1, <2>2 DEF SuiteOK, Suite
<1>9. SuiteOK(c, m)
  <2> SUFFICES ASSUME Suite(c, m) PROVE SuiteOK(c, m)
    BY DEF SuiteOK
  <2>1. Suite(s, m) /\ FromRule[s[m].dfa] = "suite"
    BY <1>1, <1>5 DEF Suite
  <2>2. SuiteOK(s, m)
    BY DEF SuitesOK
  <2>3. s[m].dfa \notin Final
    BY <1>4, <2>1, SuiteAssumption
  <2>4. \/ AwaitsIndent(s[m].dfa) /\ Len(s[m].nodes) = 1
        \/ /\ s[m].dfa \in DOMAIN StmtArc
           /\ Len(s[m].nodes) >= 2 /\ s[m].nodes[2].leaves = {}
    BY <2>1, <2>2, <2>3 DEF SuiteOK
  <2>5. CASE AwaitsIndent(s[m].dfa) /\ Len(s[m].nodes) = 1
    <3>1. t = "INDENT" /\ plan.pushes = <<>> /\ plan.next \in DOMAIN StmtArc
      BY <1>4, <2>1, <2>5, SuiteAssumption
    <3>2. c[m].nodes = Append(s[m].nodes, leaf) /\ leaf.leaves = {}
      BY <1>2, <3>1
    <3>3. Len(c[m].nodes) = 2 /\ c[m].nodes[2] = leaf
      BY <1>4, <2>5, <3>2
    <3> QED
      BY <1>1, <3>1, <3>2, <3>3 DEF SuiteOK
  <2>6. CASE /\ s[m].dfa \in DOMAIN StmtArc
             /\ Len(s[m].nodes) >= 2 /\ s[m].nodes[2].leaves = {}
    <3>1. IF t = "DEDENT" THEN plan.pushes = <<>> /\ plan.next \in Final
                          ELSE plan.pushes # <<>> /\ plan.next \in DOMAIN StmtArc
      BY <1>4, <2>1, <2>6, SuiteAssumption
    <3>2. CASE t = "DEDENT"
      <4>1. q = 0 /\ plan.next \in Final /\ leaf.leaves = {}
        BY <3>1, <3>2
      <4>2. c[m].nodes = Append(s[m].nodes, leaf)
        BY <1>2, <4>1
      <4>3. /\ Len(c[m].nodes) >= 3 /\ c[m].nodes[2] = s[m].nodes[2]
            /\ LastOf(c[m].nodes) = leaf
        BY <1>4, <2>6, <4>2 DEF LastOf
      <4> QED
        BY <1>1, <2>6, <4>1, <4>3 DEF SuiteOK
    <3>3. CASE t # "DEDENT"
      <4>1. q > 0 /\ plan.next \in DOMAIN StmtArc
        BY <1>1, <3>1, <3>3
      <4> QED
        BY <1>1, <1>2, <2>6, <4>1 DEF SuiteOK
    <3> QED
      BY <3>2, <3>3
  <2> QED
    BY <2>4, <2>5, <2>6
<1>10. ASSUME NEW j \in 1 .. q PROVE SuiteOK(c, m + j)
  <2> SUFFICES ASSUME Suite(c, m + j) PROVE SuiteOK(c, m + j)
    BY DEF SuiteOK
  <2>0. c[m + j].dfa = plan.pushes[j]
    BY <1>2
  <2>1. c[m + j].dfa = plan.pushes[j] /\ j \in DOMAIN plan.pushes
    BY <1>1, <2>0
  <2>2. FromRule[plan.pushes[j]] = "suite"
    BY <2>1 DEF Suite
  <2>3. IF j < q THEN plan.pushes[j] \in Final ELSE AwaitsIndent(plan.pushes[j])
    BY <1>4, <2>1, <2>2, SuiteAssumption
  <2>4. CASE j < q
    <3>1. j \in 1 .. q - 1 /\ m + j < m + q
      BY <2>4
    <3>2. c[m + j].nodes = <<>>
      BY <1>2, <3>1
    <3> QED
      BY <1>1, <2>1, <2>3, <2>4, <3>1, <3>2 DEF SuiteOK
  <2>5. CASE j = q
    <3>0. q > 0
      BY <2>5
    <3>1. c[m + j].nodes = <<leaf>>
      <4>1. c[m + q].nodes = <<leaf>>
        BY <1>2, <3>0
      <4> QED
        BY <2>5, <4>1
    <3>2. Len(<<leaf>>) = 1
      OBVIOUS
    <3> QED
      BY <1>1, <2>1, <2>3, <2>5, <3>1, <3>2 DEF SuiteOK
  <2> QED
    BY <2>4, <2>5
<1>11. SuitesOK(c)
  <2> SUFFICES ASSUME NEW i \in 1 .. m + q PROVE SuiteOK(c, i)
    BY <1>1 DEF SuitesOK
  <2>1. i \in 1 .. m - 1 \/ i = m \/ (i - m \in 1 .. q /\ m + (i - m) = i)
    OBVIOUS
  <2> QED
    BY <1>8, <1>9, <1>10, <2>1
<1> QED
  BY <1>6, <1>7, <1>11 DEF c

LEMMA InitInv == Init => Inv
<1> SUFFICES ASSUME Init PROVE Inv
  OBVIOUS
<1> DEFINE bottom == [dfa |-> StartState, nodes |-> <<>>]
<1>1. bottom \in StackNode
  BY GrammarAssumption DEF StackNode
<1>2. stack = <<bottom>> /\ pc = "pull"
  BY DEF Init
<1>3. bottom.dfa = StartState /\ bottom.nodes = <<>>
  OBVIOUS
<1> HIDE DEF bottom
<1>4. /\ stack \in Seq(StackNode) /\ stack # <<>> /\ Len(stack) = 1 /\ DOMAIN stack = {1}
      /\ stack[1].dfa = StartState /\ stack[1].nodes = <<>>
  BY <1>1, <1>2, <1>3
<1>5. TypeOK
  BY <1>4 DEF Init, StreamInit, TypeOK, StreamTypeOK, Tokens, PC
<1>6. StackOK
  <2>1. BottomOK(stack) /\ TopOK(stack)
    BY <1>4, GrammarAssumption DEF BottomOK, TopOK
  <2>2. SuitesOK(stack)
    BY <1>4, GrammarAssumption DEF SuitesOK, SuiteOK, Suite
  <2> QED
    BY <2>1, <2>2 DEF StackOK
<1>7. TextOf(stack) = {}
  BY <1>4 DEF TextOf, TextTo, Leaves
<1>8. TextOK /\ CallsOK
  BY <1>2, <1>7 DEF Init, TextOK, CallsOK, InHand
<1> QED
  BY <1>5, <1>6, <1>8 DEF Inv

LEMMA StreamFacts ==
  ASSUME StreamTypeOK, NEW t \in Tokens, Yield(t)
  PROVE  StreamTypeOK' /\ count' = count + 1 /\ count \in Nat
BY DEF StreamTypeOK, Yield, Promised, YieldIndent, YieldDedent, YieldErrorDedent, YieldText,
       YieldEndmarker, Tokens, VirtualTokens

\* One token more leaves the types of the stack as they are.
LEMMA StackGrows ==
  ASSUME NEW n \in Nat, NEW s \in Seq(StackNodes(NodesUpTo(n)))
  PROVE  s \in Seq(StackNodes(NodesUpTo(n + 1)))
<1>1. NodesUpTo(n) \subseteq NodesUpTo(n + 1)
  BY DEF NodesUpTo
<1>2. Seq(NodesUpTo(n)) \subseteq Seq(NodesUpTo(n + 1))
  BY <1>1, SeqMonotonic
<1>3. StackNodes(NodesUpTo(n)) \subseteq StackNodes(NodesUpTo(n + 1))
  BY <1>2 DEF StackNodes
<1> QED
  BY <1>3, SeqMonotonic

LEMMA OmitStep ==
  ASSUME Inv, OmitDedent
  PROVE  Inv'
<1>1. TypeOK /\ StreamTypeOK /\ Len(omit) \in Nat \ {0}
  BY DEF Inv, TypeOK, OmitDedent, OmitsDedent
<1>2. StreamTypeOK' /\ count' = count + 1 /\ count \in Nat
  BY <1>1, StreamFacts DEF OmitDedent, Tokens, VirtualTokens
<1>3. stack' = stack /\ stack' \in Seq(StackNodes(NodesUpTo(count'))) /\ stack' # <<>>
  BY <1>1, <1>2, Typed, StackGrows DEF OmitDedent
<1>4. omit' \in Seq(Int) /\ indentCounter' \in Int
  BY <1>1 DEF TypeOK, OmitDedent
<1>5. TypeOK'
  BY <1>1, <1>2, <1>3, <1>4
     DEF TypeOK, OmitDedent, StackNode, Node, StackNodes, NodesUpTo, Positions
<1>6. StackOK'
  BY <1>3 DEF Inv, StackOK
<1>7. TextOK' /\ CallsOK'
  BY <1>3 DEF Inv, TextOK, CallsOK, InHand, OmitDedent
<1> QED
  BY <1>5, <1>6, <1>7 DEF Inv

LEMMA PullStep ==
  ASSUME Inv, NEW t \in Tokens, PullToken(t)
  PROVE  Inv'
<1>1. TypeOK /\ StreamTypeOK
  BY DEF Inv, TypeOK
<1>2. StreamTypeOK' /\ count' = count + 1 /\ count \in Nat
  BY <1>1, StreamFacts DEF PullToken
<1>3. stack' = stack /\ stack' \in Seq(StackNodes(NodesUpTo(count'))) /\ stack' # <<>>
  BY <1>1, <1>2, Typed, StackGrows DEF PullToken
<1>4. omit' \in Seq(Int) /\ indentCounter' \in Int
  BY <1>1 DEF TypeOK, PullToken, IndentChange
<1>5. text' \subseteq 1 .. count'
  BY <1>1, <1>2 DEF TypeOK, PullToken, Positions
<1>6. TypeOK'
  BY <1>1, <1>2, <1>3, <1>4, <1>5
     DEF TypeOK, PullToken, PC, StackNode, Node, StackNodes, NodesUpTo, Positions
<1>7. StackOK'
  BY <1>3 DEF Inv, StackOK
<1>8. InHand = {} /\ InHand' = IF t \in VirtualTokens THEN {} ELSE {count + 1}
  BY <1>2 DEF PullToken, InHand, TokLeaves
<1>9. TextOK'
  BY <1>3, <1>8 DEF Inv, TextOK, PullToken
<1>10. CallsOK'
  BY <1>2 DEF CallsOK, PullToken
<1> QED
  BY <1>6, <1>7, <1>9, <1>10 DEF Inv

LEMMA ShiftStep ==
  ASSUME Inv, Shift
  PROVE  Inv'
<1> DEFINE plan == Transitions[Top.dfa][tok]
           m == Len(stack)
           q == Len(plan.pushes)
           N == NodesUpTo(count)
<1>1. TypeOK /\ count > 0 /\ pc = "add"
  BY DEF Inv, CallsOK, Shift
<1>2. IsShifted(stack', stack, plan, Leaf(tok), m, q, N)
  BY <1>1, ShiftFacts
<1>3. m \in Nat \ {0}
  BY <1>1, Typed
<1>4. Leaf(tok).leaves = TokLeaves
  BY DEF Leaf
<1> HIDE DEF plan, m, N
<1>5. q \in Nat
  BY <1>2 DEF IsShifted
<1> HIDE DEF q
<1>6. BottomOK(stack') /\ TopOK(stack') /\ SuitesOK(stack')
  BY ShiftSuites
<1>7. /\ stack' \in Seq(StackNodes(N)) /\ Len(stack') = m + q
       /\ TextOf(stack') = TextOf(stack) \cup TokLeaves
  BY <1>2, <1>4 DEF IsShifted
<1>8. stack' # <<>>
  BY <1>3, <1>5, <1>7
<1>9. /\ UNCHANGED <<streamVars, tok, pending, omit, indentCounter, text>>
       /\ pc' = IF pending > 0 THEN "fixup" ELSE "pull"
  BY DEF Shift, Return
<1>10. TypeOK'
  <2>1. pc' \in PC /\ pending' \in Nat /\ omit' \in Seq(Int) /\ indentCounter' \in Int
    BY <1>1, <1>9 DEF TypeOK, PC
  <2> QED
    BY <1>1, <1>7, <1>8, <1>9, <2>1, SameTokens DEF N
<1>11. TextOK'
  <2>1. InHand = TokLeaves /\ InHand' = {}
    BY <1>1, <1>9 DEF InHand
  <2> QED
    BY <1>1, <1>7, <1>9, <2>1 DEF Inv, TextOK
<1>12. CallsOK'
  BY <1>9 DEF CallsOK
<1> QED
  BY <1>6, <1>10, <1>11, <1>12 DEF Inv, StackOK

\* A complete stack node is added to the one below it.
LEMMA PopStep ==
  ASSUME Inv, stack' = Popped, Len(stack) > 1, Top.dfa \in Final,
         UNCHANGED <<streamVars, tok, pc, pending, omit, indentCounter, text>>
  PROVE  Inv'
<1> DEFINE N == NodesUpTo(count)
<1>1. TypeOK /\ StackOK /\ CallsOK /\ TextOK
  BY DEF Inv
<1>2. stack \in Seq(StackNodes(N)) /\ count \in Nat /\ Len(stack) \in Nat
  BY <1>1, Typed
<1>3. /\ Popped \in Seq(StackNodes(N)) /\ Len(Popped) = Len(stack) - 1
      /\ TextOf(Popped) = TextOf(stack)
      /\ BottomOK(Popped) /\ TopOK(Popped) /\ SuitesOK(Popped)
  BY <1>1, <1>2, PoppedFacts
<1> HIDE DEF N
<1>4. Popped # <<>>
  BY <1>2, <1>3
<1>5. TypeOK'
  <2>1. pc' \in PC /\ pending' \in Nat /\ omit' \in Seq(Int) /\ indentCounter' \in Int
    BY <1>1 DEF TypeOK
  <2> QED
    BY <1>1, <1>3, <1>4, <2>1, SameTokens DEF N
<1>6. StackOK'
  BY <1>3 DEF StackOK
<1>7. TextOK' /\ CallsOK'
  BY <1>1, <1>3 DEF TextOK, CallsOK, InHand, TokLeaves, streamVars
<1> QED
  BY <1>5, <1>6, <1>7 DEF Inv

\* The state on top changes: to a final one that is no suite's, or to StmtArc.
LEMMA AdvanceStep ==
  ASSUME Inv, NEW dfa \in States, stack' = Advance(dfa),
         FromRule[dfa] = FromRule[Top.dfa],
         FromRule[dfa] = "suite" => Top.dfa \in DOMAIN StmtArc /\ dfa \in DOMAIN StmtArc,
         UNCHANGED <<streamVars, tok, omit, indentCounter, text>>,
         pc' \in PC, pending' \in Nat, InHand' = InHand, CallsOK', pc # "crashed"
  PROVE  Inv'
<1> DEFINE N == NodesUpTo(count)
           m == Len(stack)
<1>1. TypeOK /\ StackOK /\ TextOK
  BY DEF Inv
<1>2. stack \in Seq(StackNodes(N)) /\ stack # <<>> /\ m \in Nat \ {0} /\ Top = stack[m]
  BY <1>1, Typed DEF Top
<1>3. /\ stack' \in Seq(StackNodes(N)) /\ Len(stack') = m
      /\ stack'[m] = [dfa |-> dfa, nodes |-> stack[m].nodes]
      /\ \A j \in 1 .. m - 1 : stack'[j] = stack[j]
      /\ TextOf(stack') = TextOf(stack)
  BY <1>2, AdvanceFacts
<1> HIDE DEF N, m
<1>4. stack'[m].dfa = dfa /\ stack'[m].nodes = stack[m].nodes
  BY <1>3
<1>5. BottomOK(stack')
  <2>1. FromRule[stack[1].dfa] = "file_input"
    BY <1>1 DEF StackOK, BottomOK
  <2>2. CASE m = 1
    BY <1>2, <1>4, <2>1, <2>2 DEF BottomOK
  <2>3. CASE m > 1
    BY <1>2, <1>3, <2>1, <2>3 DEF BottomOK
  <2> QED
    BY <1>2, <2>2, <2>3
<1>6. TopOK(stack')
  BY <1>1, <1>3, <1>4 DEF StackOK, TopOK, m
<1>7. SuitesOK(stack')
  <2> SUFFICES ASSUME NEW i \in 1 .. m PROVE SuiteOK(stack', i)
    BY <1>3 DEF SuitesOK
  <2>1. SuiteOK(stack, i) /\ Len(stack) = m
    BY <1>1, <1>2 DEF StackOK, SuitesOK, m
  <2>2. CASE i < m
    <3>1. stack'[i] = stack[i]
      BY <1>2, <1>3, <2>2
    <3> QED
      BY <1>3, <2>1, <3>1 DEF SuiteOK, Suite
  <2>3. CASE i = m
    <3> SUFFICES ASSUME Suite(stack', m) PROVE SuiteOK(stack', m)
      BY <2>3 DEF SuiteOK
    <3>1. FromRule[stack[m].dfa] = "suite" /\ stack[m].dfa \in DOMAIN StmtArc /\ dfa \in DOMAIN StmtArc
      BY <1>2, <1>4 DEF Suite
    <3>2. stack[m].dfa \in States
      BY <3>1, GrammarAssumption
    <3>3. ~AwaitsIndent(stack[m].dfa) /\ stack[m].dfa \notin Final
      BY <3>1, <3>2, SuiteAssumption
    <3>4. Len(stack[m].nodes) >= 2 /\ stack[m].nodes[2].leaves = {}
      BY <2>1, <2>3, <3>1, <3>3 DEF SuiteOK, Suite
    <3> QED
      BY <1>4, <3>1, <3>4 DEF SuiteOK
  <2> QED
    BY <1>2, <2>2, <2>3
<1>8. TypeOK'
  <2>1. omit' \in Seq(Int) /\ indentCounter' \in Int /\ stack' # <<>>
    BY <1>1, <1>2, <1>3 DEF TypeOK
  <2> QED
    BY <1>1, <1>3, <2>1, SameTokens DEF N
<1>9. TextOK'
  BY <1>1, <1>3 DEF TextOK
<1> QED
  BY <1>5, <1>6, <1>7, <1>8, <1>9 DEF Inv, StackOK

LEMMA LongStack ==
  ASSUME TypeOK, Len(stack) # 1
  PROVE  Len(stack) > 1
BY Typed

LEMMA PopFinalStep ==
  ASSUME Inv, PopFinal
  PROVE  Inv'
<1>1. TypeOK /\ StackOK /\ CallsOK
  BY DEF Inv
<1>2. CASE Len(stack) = 1
  <2>1. UNCHANGED <<streamVars, stack, tok, pending, omit, indentCounter, text>> /\ pc' = "crashed"
    BY <1>2 DEF PopFinal
  <2>2. TypeOK'
    BY <1>1, <2>1 DEF TypeOK, StreamTypeOK, streamVars, PC, StackNode, Node, Positions
  <2> QED
    BY <1>1, <2>1, <2>2 DEF Inv, StackOK, CallsOK, TextOK
<1>3. CASE Len(stack) # 1
  <2>1. /\ stack' = Popped /\ Top.dfa \in Final
        /\ UNCHANGED <<streamVars, tok, pc, pending, omit, indentCounter, text>>
    BY <1>3 DEF PopFinal
  <2>2. Len(stack) > 1
    BY <1>1, <1>3, LongStack
  <2> QED
    BY <2>1, <2>2, PopStep
<1> QED
  BY <1>2, <1>3

LEMMA FinishStep ==
  ASSUME Inv, Finish
  PROVE  Inv'
<1>1. TypeOK /\ StackOK /\ CallsOK /\ TextOK /\ Len(stack) \in Nat \ {0}
  BY Typed DEF Inv
<1>2. CASE Top.dfa \in Final /\ Len(stack) > 1
  <2>1. /\ stack' = Popped
        /\ UNCHANGED <<streamVars, tok, pc, pending, omit, indentCounter, text>>
    BY <1>2 DEF Finish
  <2> QED
    BY <1>2, <2>1, PopStep
<1>3. CASE ~(Top.dfa \in Final /\ Len(stack) > 1)
  <2>1. /\ UNCHANGED <<streamVars, stack, tok, pending, omit, indentCounter, text>>
        /\ pc = "finish" /\ pc' \in {"crashed", "done"}
    BY <1>3 DEF Finish
  <2>2. TypeOK'
    BY <1>1, <2>1 DEF TypeOK, StreamTypeOK, streamVars, PC, StackNode, Node, Positions
  <2>3. TextOK'
    BY <1>1, <2>1 DEF TextOK, InHand
  <2> QED
    BY <1>1, <2>1, <2>2, <2>3 DEF Inv, StackOK, CallsOK
<1> QED
  BY <1>2, <1>3

\* The steps that only move on.
LEMMA MoveStep ==
  ASSUME Inv, TokensExhausted \/ RaiseSyntaxError
  PROVE  Inv'
<1>1. TypeOK /\ StackOK /\ CallsOK /\ TextOK
  BY DEF Inv
<1>2. /\ UNCHANGED <<streamVars, stack, tok, pending, omit, indentCounter, text>>
      /\ \/ pc = "pull" /\ pc' = "finish"
         \/ pc = "add" /\ pc' = "raised"
  BY DEF TokensExhausted, RaiseSyntaxError, Unrecovered, InError
<1>3. TypeOK'
  BY <1>1, <1>2 DEF TypeOK, StreamTypeOK, streamVars, PC, StackNode, Node, Positions
<1>4. TextOK' /\ CallsOK'
  BY <1>1, <1>2 DEF TextOK, CallsOK, InHand, TokLeaves, streamVars
<1> QED
  BY <1>1, <1>2, <1>3, <1>4 DEF Inv, StackOK

LEMMA AssumeNewlineStep ==
  ASSUME Inv, AssumeNewline
  PROVE  Inv'
<1>1. TypeOK /\ StackOK /\ CallsOK /\ TextOK /\ pc = "add"
  BY DEF Inv, AssumeNewline, InError
<1>2. CASE NoLastLeaf
  <2>1. UNCHANGED <<streamVars, stack, tok, pending, omit, indentCounter, text>> /\ pc' = "crashed"
    BY <1>2 DEF AssumeNewline
  <2>2. TypeOK'
    BY <1>1, <2>1 DEF TypeOK, StreamTypeOK, streamVars, PC, StackNode, Node, Positions
  <2> QED
    BY <1>1, <2>1, <2>2 DEF Inv, StackOK, CallsOK, TextOK
<1>3. CASE ~NoLastLeaf
  <2> DEFINE dfa == Transitions[Top.dfa]["NEWLINE"].next
  <2>1. /\ stack' = Advance(dfa) /\ FromRule[Top.dfa] = "simple_stmt"
        /\ "NEWLINE" \in DOMAIN Transitions[Top.dfa]
        /\ UNCHANGED <<streamVars, tok, pc, pending, omit, indentCounter, text>>
    BY <1>3 DEF AssumeNewline, LacksNewline, TopRule
  <2>2. Top \in StackNodes(NodesUpTo(count))
    BY <1>1, Typed
  <2>3. Top.dfa \in States
    BY <2>2 DEF StackNodes
  <2>4. Transitions[Top.dfa]["NEWLINE"] \in [next : States, pushes : Seq(States)]
    BY <2>1, <2>3, GrammarAssumption
  <2>5. dfa \in States /\ FromRule[dfa] = FromRule[Top.dfa]
    BY <2>1, <2>3, <2>4, SuiteAssumption
  <2> HIDE DEF dfa
  <2>6. /\ pc' \in PC /\ pending' \in Nat /\ InHand' = InHand /\ CallsOK' /\ pc # "crashed"
    BY <1>1, <2>1 DEF TypeOK, InHand, TokLeaves, CallsOK, streamVars
  <2> QED
    BY <2>1, <2>5, <2>6, AdvanceStep
<1> QED
  BY <1>2, <1>3

LEMMA FinishRecoveryStep ==
  ASSUME Inv, FinishRecovery
  PROVE  Inv'
<1>1. TypeOK /\ StackOK /\ CallsOK /\ TextOK /\ pc = "fixup" /\ pending \in Nat \ {0}
  BY DEF Inv, FinishRecovery, CallsOK, TypeOK
<1>2. /\ UNCHANGED <<streamVars, tok, omit, indentCounter, text>>
      /\ pending' = pending - 1 /\ pc' = IF pending > 1 THEN "fixup" ELSE "pull"
  BY DEF FinishRecovery
<1>3. pc' \in PC /\ pending' \in Nat /\ InHand' = InHand /\ CallsOK' /\ pc # "crashed"
  BY <1>1, <1>2 DEF PC, InHand, CallsOK
<1>4. CASE TopRule = "suite" /\ Top.dfa \in DOMAIN StmtArc
  <2>1. stack' = Advance(StmtArc[Top.dfa])
    BY <1>4 DEF FinishRecovery
  <2>2. Top.dfa \in States /\ StmtArc[Top.dfa] \in States
    BY <1>4, GrammarAssumption
  <2>3. /\ FromRule[Top.dfa] = "suite" /\ FromRule[StmtArc[Top.dfa]] = "suite"
        /\ StmtArc[Top.dfa] \in DOMAIN StmtArc
    BY <1>4, <2>2, SuiteAssumption DEF TopRule
  <2> QED
    BY <1>2, <1>3, <1>4, <2>1, <2>2, <2>3, AdvanceStep
<1>5. CASE ~(TopRule = "suite" /\ Top.dfa \in DOMAIN StmtArc)
  <2>1. stack' = stack
    BY <1>5 DEF FinishRecovery
  <2>2. TypeOK'
    BY <1>1, <1>2, <1>3, <2>1 DEF TypeOK, StreamTypeOK, streamVars, StackNode, Node, Positions
  <2>3. TextOK'
    BY <1>1, <1>2, <1>3, <2>1 DEF TextOK
  <2> QED
    BY <1>1, <1>3, <2>1, <2>2, <2>3 DEF Inv, StackOK
<1> QED
  BY <1>4, <1>5

\* What error_recovery removes from the stack, and what it keeps.
LEMMA RemovedText ==
  ASSUME NEW N, stack \in Seq(StackNodes(N)), NEW u \in DOMAIN stack
  PROVE  /\ TextTo(stack, u) \cup RemovedLeaves(u + 1) = TextOf(stack)
         /\ ~NodesRemoved(u + 1) => TextTo(stack, u) = TextOf(stack)
         /\ NodesRemoved(u + 1) => u < Len(stack)
<1> DEFINE m == Len(stack)
<1>1. u \in Nat /\ m \in Nat /\ u \in 1 .. m
  OBVIOUS
<1>2. 1 .. m = (1 .. u) \cup (u + 1 .. m)
  BY <1>1
<1>3. TextTo(stack, u) \cup RemovedLeaves(u + 1) = TextOf(stack)
  BY <1>2 DEF TextOf, TextTo, RemovedLeaves
<1>4. ASSUME ~NodesRemoved(u + 1) PROVE RemovedLeaves(u + 1) = {}
  <2>1. \A i \in u + 1 .. m : stack[i].nodes = <<>>
    BY <1>4 DEF NodesRemoved
  <2> QED
    BY <2>1 DEF RemovedLeaves, Leaves
<1>5. ASSUME NodesRemoved(u + 1) PROVE u < m
  BY <1>1, <1>5 DEF NodesRemoved
<1> QED
  BY <1>3, <1>4, <1>5

\* The stack is cut down to the innermost block, which takes one node.
LEMMA CutStep ==
  ASSUME Inv, InError, NEW node \in NodesUpTo(count),
         stack' = AppendTo(SubSeq(stack, 1, UntilIndex), UntilIndex, node),
         UNCHANGED <<streamVars, tok, text>>,
         pc' \in {"add", "fixup"}, pending' = pending + 1,
         omit' \in Seq(Int), indentCounter' \in Int,
         TextTo(stack, UntilIndex) \cup node.leaves \cup InHand' = text
  PROVE  Inv'
<1> DEFINE N == NodesUpTo(count)
           u == UntilIndex
<1>1. TypeOK /\ StackOK /\ CallsOK /\ pc = "add" /\ Top.dfa \notin Final
  BY DEF Inv, InError
<1>2. stack \in Seq(StackNodes(N)) /\ stack # <<>> /\ BottomOK(stack) /\ SuitesOK(stack)
  BY <1>1, Typed DEF StackOK
<1>3. u \in DOMAIN stack /\ IsBlock(stack[u])
  BY <1>2, UntilFacts
<1> HIDE DEF N, u
<1>4. node \in N /\ stack' = AppendTo(SubSeq(stack, 1, u), u, node)
  BY DEF N, u
<1>5. (Suite(stack, u) /\ u = Len(stack)) => Len(stack[u].nodes) # 1 /\ stack[u].dfa \notin Final
  BY <1>1, <1>3 DEF Suite, IsBlock, Top
<1>6. BottomOK(stack') /\ TopOK(stack') /\ SuitesOK(stack')
  BY <1>2, <1>3, <1>4, <1>5, CutSuites
<1>7. IsCut(stack', stack, u, node, N)
  BY <1>2, <1>3, <1>4, CutAppend
<1>8. stack' \in Seq(StackNodes(N)) /\ Len(stack') = u /\ TextOf(stack') = TextTo(stack, u) \cup node.leaves
  BY <1>7 DEF IsCut
<1>9. stack' # <<>>
  BY <1>2, <1>3, <1>8
<1>10. TypeOK'
  <2>1. pc' \in PC /\ pending' \in Nat
    BY <1>1 DEF TypeOK, PC
  <2> QED
    BY <1>1, <1>8, <1>9, <2>1, SameTokens DEF N
<1>11. TextOK'
  BY <1>8 DEF TextOK, u
<1>12. CallsOK'
  BY <1>1 DEF CallsOK, TypeOK, streamVars
<1> QED
  BY <1>6, <1>10, <1>11, <1>12 DEF Inv, StackOK

LEMMA RemoveStackStep ==
  ASSUME Inv, RemoveStack
  PROVE  Inv' /\ Len(stack') < Len(stack)
<1> DEFINE u == UntilIndex
           node == [type |-> "error_node", leaves |-> RemovedLeaves(u + 1),
                    last |-> LastRemoved(u + 1)]
<1>1. TypeOK /\ StackOK /\ TextOK /\ InError /\ pc = "add" /\ NodesRemoved(u + 1)
  BY DEF Inv, RemoveStack, Unrecovered, InError
<1>2. /\ stack \in Seq(StackNodes(NodesUpTo(count))) /\ stack # <<>> /\ count \in Nat
      /\ BottomOK(stack)
  BY <1>1, Typed DEF StackOK
<1>3. u \in DOMAIN stack
  BY <1>2, UntilFacts
<1>4. /\ stack' = AppendTo(SubSeq(stack, 1, u), u, node)
      /\ pending' = pending + 1
      /\ UNCHANGED <<streamVars, tok, pc, omit, indentCounter, text>>
  BY DEF RemoveStack
<1> HIDE DEF u
<1>5. /\ TextTo(stack, u) \cup RemovedLeaves(u + 1) = TextOf(stack)
      /\ u < Len(stack)
  BY <1>1, <1>2, <1>3, RemovedText
<1>6. TextOf(stack) \cup InHand = text
  BY <1>1 DEF TextOK
<1>7. LastRemoved(u + 1) \in Tokens
  BY <1>1, <1>2, <1>3, LastRemovedType
<1>8. RemovedLeaves(u + 1) \subseteq 1 .. count
  BY <1>1, <1>5, <1>6 DEF TypeOK, Positions
<1>9. node \in NodesUpTo(count) /\ node.leaves = RemovedLeaves(u + 1)
  BY <1>7, <1>8 DEF NodesUpTo, NodeTypes
<1> HIDE DEF node
<1>10. IsCut(stack', stack, u, node, NodesUpTo(count))
  BY <1>2, <1>3, <1>4, <1>9, CutAppend
<1>11. Len(stack') < Len(stack)
  BY <1>5, <1>10 DEF IsCut
<1>12. InHand' = InHand
  BY <1>4 DEF InHand, TokLeaves, streamVars
<1>13. TextTo(stack, u) \cup node.leaves \cup InHand' = text
  BY <1>5, <1>6, <1>9, <1>12
<1>14. /\ pc' \in {"add", "fixup"} /\ omit' \in Seq(Int) /\ indentCounter' \in Int
  BY <1>1, <1>4 DEF TypeOK
<1>15. Inv'
  BY <1>1, <1>4, <1>9, <1>13, <1>14, CutStep DEF u
<1> QED
  BY <1>11, <1>15

LEMMA AddErrorLeafStep ==
  ASSUME Inv, AddErrorLeaf
  PROVE  Inv'
<1> DEFINE u == UntilIndex
           node == Leaf("error_leaf")
<1>1. /\ TypeOK /\ StackOK /\ TextOK /\ InError /\ pc = "add" /\ count > 0
      /\ ~NodesRemoved(u + 1)
  BY DEF Inv, AddErrorLeaf, Unrecovered, InError, CallsOK
<1>2. /\ stack \in Seq(StackNodes(NodesUpTo(count))) /\ stack # <<>>
      /\ BottomOK(stack)
  BY <1>1, Typed DEF StackOK
<1>3. u \in DOMAIN stack
  BY <1>2, UntilFacts
<1>4. /\ stack' = AppendTo(SubSeq(stack, 1, u), u, node)
      /\ pending' = pending + 1 /\ pc' = "fixup"
      /\ omit' = IF tok = "INDENT" THEN Append(omit, indentCounter) ELSE omit
      /\ UNCHANGED <<streamVars, tok, indentCounter, text>>
  BY DEF AddErrorLeaf
<1> HIDE DEF u
<1>5. TextTo(stack, u) = TextOf(stack)
  BY <1>1, <1>2, <1>3, RemovedText
<1>6. node \in NodesUpTo(count) /\ node.leaves = TokLeaves
  BY <1>1, LeafFacts DEF NodeTypes
<1> HIDE DEF node
<1>7. TextOf(stack) \cup TokLeaves = text /\ InHand' = {}
  BY <1>1, <1>4 DEF TextOK, InHand
<1>8. TextTo(stack, u) \cup node.leaves \cup InHand' = text
  BY <1>5, <1>6, <1>7
<1>9. /\ pc' \in {"add", "fixup"} /\ omit' \in Seq(Int) /\ indentCounter' \in Int
  BY <1>1, <1>4 DEF TypeOK
<1> QED
  BY <1>1, <1>4, <1>6, <1>8, <1>9, CutStep DEF u

-----------------------------------------------------------------------------
LEMMA StutterStep ==
  ASSUME Inv, UNCHANGED vars
  PROVE  Inv'
<1>1. TypeOK'
  BY DEF Inv, vars, parserVars, streamVars, TypeOK, StreamTypeOK, StackNode, Node, Positions
<1>2. StackOK' /\ TextOK' /\ CallsOK'
  BY DEF Inv, vars, parserVars, streamVars, StackOK, TextOK, CallsOK, InHand, TokLeaves
<1> QED
  BY <1>1, <1>2 DEF Inv

LEMMA NextInv ==
  ASSUME Inv, [Next]_vars
  PROVE  Inv'
<1>1. CASE OmitDedent
  BY <1>1, OmitStep
<1>2. ASSUME NEW t \in Tokens, PullToken(t) PROVE Inv'
  BY <1>2, PullStep
<1>3. CASE TokensExhausted \/ RaiseSyntaxError
  BY <1>3, MoveStep
<1>4. CASE Shift
  BY <1>4, ShiftStep
<1>5. CASE PopFinal
  BY <1>5, PopFinalStep
<1>6. CASE AssumeNewline
  BY <1>6, AssumeNewlineStep
<1>7. CASE RemoveStack
  BY <1>7, RemoveStackStep
<1>8. CASE AddErrorLeaf
  BY <1>8, AddErrorLeafStep
<1>9. CASE FinishRecovery
  BY <1>9, FinishRecoveryStep
<1>10. CASE Finish
  BY <1>10, FinishStep
<1>11. CASE UNCHANGED vars
  BY <1>11, StutterStep
<1> QED
  BY <1>1, <1>2, <1>3, <1>4, <1>5, <1>6, <1>7, <1>8, <1>9, <1>10, <1>11
     DEF Next, AddToken, Recover

\* The invariant that the theorems below rest on: the types, the shape of the
\* suites on the stack, and that the text of the tokens is in the tree.
THEOREM ParserInvariant == Spec => []Inv
<1>1. Init => Inv
  BY InitInv
<1>2. Inv /\ [Next]_vars => Inv'
  BY NextInv
<1> QED
  BY <1>1, <1>2, PTL DEF Spec

\* Type correctness, for every grammar with Python's suite.
THEOREM TypeCorrect == Spec => []TypeOK
<1>1. Inv => TypeOK
  BY DEF Inv
<1> QED
  BY <1>1, ParserInvariant, PTL

\* The round trip: whatever tokens come in whatever order, everything that has
\* text is in the tree the parser builds, or in its hand.
THEOREM NothingIsLost == Spec => []NothingLost
<1>1. Inv => NothingLost
  <2> SUFFICES ASSUME Inv PROVE NothingLost
    OBVIOUS
  <2>1. stack \in Seq(StackNodes(NodesUpTo(count)))
    BY Typed DEF Inv
  <2>2. DOMAIN stack = 1 .. Len(stack)
    BY <2>1
  <2>3. TextInTree = TextOf(stack)
    BY <2>2 DEF TextInTree, TextOf, TextTo
  <2> QED
    BY <2>3 DEF Inv, TextOK, NothingLost
<1> QED
  BY <1>1, ParserInvariant, PTL

\* Trying a token again, in _add_token or by error_recovery, has always a
\* smaller stack, or a final state on top that was not: it cannot go on forever.
THEOREM RetriesTerminate == Spec => RetriesShrink
<1> DEFINE Shrinks == (pc = "add" /\ pc' = "add") =>
                        \/ Len(stack') < Len(stack)
                        \/ Len(stack') = Len(stack) /\ Top.dfa \notin Final /\ Top'.dfa \in Final
<1>1. ASSUME Inv, Next PROVE Shrinks
  <2> SUFFICES ASSUME pc = "add", pc' = "add"
               PROVE  \/ Len(stack') < Len(stack)
                      \/ Len(stack') = Len(stack) /\ Top.dfa \notin Final /\ Top'.dfa \in Final
    OBVIOUS
  <2>1. TypeOK /\ StackOK
    BY <1>1 DEF Inv
  <2>2. /\ stack \in Seq(StackNodes(NodesUpTo(count))) /\ stack # <<>> /\ count \in Nat
        /\ Len(stack) \in Nat \ {0} /\ Top \in StackNodes(NodesUpTo(count))
    BY <2>1, Typed
  <2>3. PopFinal \/ AssumeNewline \/ RemoveStack
    BY <1>1 DEF Next, AddToken, Recover, OmitDedent, PullToken, TokensExhausted, Shift, Return,
                RaiseSyntaxError, AddErrorLeaf, FinishRecovery, Finish
  <2>4. CASE PopFinal
    <3>1. stack' = Popped /\ Len(stack) # 1 /\ Top.dfa \in Final
      BY <2>4 DEF PopFinal
    <3>2. Len(stack) > 1
      BY <2>1, <3>1, LongStack
    <3>3. Len(Popped) = Len(stack) - 1
      BY <2>1, <2>2, <3>1, <3>2, PoppedFacts
    <3> QED
      BY <2>2, <3>1, <3>3
  <2>5. CASE AssumeNewline
    <3> DEFINE dfa == Transitions[Top.dfa]["NEWLINE"].next
    <3>1. stack' = Advance(dfa) /\ dfa \in Final /\ Top.dfa \notin Final
      BY <2>5 DEF AssumeNewline, LacksNewline, InError
    <3>2. dfa \in States
      BY <3>1, GrammarAssumption
    <3> HIDE DEF dfa
    <3>3. /\ Len(Advance(dfa)) = Len(stack)
          /\ Advance(dfa)[Len(stack)] = [dfa |-> dfa, nodes |-> Top.nodes]
      BY <2>2, <3>2, AdvanceFacts
    <3>4. Top'.dfa = dfa
      BY <3>1, <3>3 DEF Top
    <3> QED
      BY <3>1, <3>3, <3>4
  <2>6. CASE RemoveStack
    BY <1>1, <2>6, RemoveStackStep
  <2> QED
    BY <2>3, <2>4, <2>5, <2>6
<1> QED
  BY <1>1, ParserInvariant, PTL DEF Spec, RetriesShrink
=============================================================================
