-------------------------- MODULE ParserOrderProofs --------------------------
(***************************************************************************)
(* Theorems about Parser, for every grammar, token sequence and bound: the  *)
(* text is in the tree in the order of the source, and no block loses what  *)
(* it has got.                                                              *)
(***************************************************************************)
EXTENDS ParserProofs

AllBefore(S, T) == \A i \in S, j \in T : i < j

NodesInOrder(nodes) == \A j, k \in DOMAIN nodes : j < k => Before(nodes[j], nodes[k])

StackInOrder(s) ==
  /\ \A i \in DOMAIN s : NodesInOrder(s[i].nodes)
  /\ \A i, j \in DOMAIN s : i < j => AllBefore(Leaves(s[i].nodes), Leaves(s[j].nodes))

\* The inductive invariant: what is on the stack is in order, and before the
\* token in hand.
OrderInv ==
  /\ Inv
  /\ StackInOrder(stack)
  /\ pc = "add" => AllBefore(TextOf(stack), {count})

-----------------------------------------------------------------------------
(* What appending and cutting do to the order.                              *)

LEMMA AppendInOrder ==
  ASSUME NEW N, NEW nodes \in Seq(N), NEW node \in N,
         NodesInOrder(nodes), AllBefore(Leaves(nodes), node.leaves)
  PROVE  NodesInOrder(Append(nodes, node))
<1> DEFINE n == Append(nodes, node)
           m == Len(nodes)
<1>1. /\ m \in Nat /\ DOMAIN nodes = 1 .. m /\ DOMAIN n = 1 .. m + 1
      /\ n[m + 1] = node /\ \A i \in 1 .. m : n[i] = nodes[i]
  OBVIOUS
<1>2. \A i \in 1 .. m : nodes[i].leaves \subseteq Leaves(nodes)
  BY <1>1 DEF Leaves
<1> HIDE DEF n, m
<1> SUFFICES ASSUME NEW j \in 1 .. m + 1, NEW k \in 1 .. m + 1, j < k
             PROVE  Before(n[j], n[k])
  BY <1>1 DEF NodesInOrder, n
<1>3. j \in 1 .. m
  BY <1>1
<1>4. CASE k \in 1 .. m
  BY <1>1, <1>3, <1>4 DEF NodesInOrder
<1>5. CASE k = m + 1
  <2>1. n[j] = nodes[j] /\ n[k] = node
    BY <1>1, <1>3, <1>5
  <2> QED
    BY <1>2, <1>3, <2>1 DEF Before, AllBefore
<1> QED
  BY <1>1, <1>4, <1>5

\* A stack is in order if its nodes with text are.
LEMMA CutInOrder ==
  ASSUME NEW N, NEW s \in Seq(StackNodes(N)), NEW c, NEW k \in DOMAIN s, NEW node \in N,
         IsCut(c, s, k, node, N), StackInOrder(s),
         AllBefore(TextTo(s, k), node.leaves)
  PROVE  StackInOrder(c)
<1>1. /\ c \in Seq(StackNodes(N)) /\ Len(c) = k /\ k \in Nat \ {0} /\ k \in DOMAIN c
      /\ c[k] = [dfa |-> s[k].dfa, nodes |-> Append(s[k].nodes, node)]
      /\ \A j \in 1 .. k - 1 : c[j] = s[j]
      /\ DOMAIN c = 1 .. k
  BY DEF IsCut
<1>2. s[k] \in StackNodes(N) /\ \A j \in 1 .. k : j \in DOMAIN s
  OBVIOUS
<1>3. s[k].nodes \in Seq(N)
  BY <1>2 DEF StackNodes
<1>4. \A j \in 1 .. k : Leaves(s[j].nodes) \subseteq TextTo(s, k)
  BY DEF TextTo
<1>5. c[k].nodes = Append(s[k].nodes, node)
  BY <1>1
<1>6. NodesInOrder(c[k].nodes)
  <2>1. NodesInOrder(s[k].nodes) /\ AllBefore(Leaves(s[k].nodes), node.leaves)
    BY <1>1, <1>4 DEF StackInOrder, AllBefore
  <2> QED
    BY <1>3, <1>5, <2>1, AppendInOrder
<1>7. Leaves(c[k].nodes) = Leaves(s[k].nodes) \cup node.leaves
  BY <1>3, <1>5, LeavesAppend
<1>8. ASSUME NEW i \in 1 .. k PROVE NodesInOrder(c[i].nodes)
  <2>1. CASE i = k
    BY <1>6, <2>1
  <2>2. CASE i # k
    <3>1. c[i] = s[i] /\ i \in DOMAIN s
      BY <1>1, <1>2, <2>2
    <3> QED
      BY <3>1 DEF StackInOrder
  <2> QED
    BY <2>1, <2>2
<1>9. ASSUME NEW i \in 1 .. k, NEW j \in 1 .. k, i < j
      PROVE  AllBefore(Leaves(c[i].nodes), Leaves(c[j].nodes))
  <2>1. c[i] = s[i] /\ i \in DOMAIN s /\ j \in DOMAIN s
    BY <1>1, <1>2, <1>9
  <2>2. AllBefore(Leaves(s[i].nodes), Leaves(s[j].nodes))
    BY <1>9, <2>1 DEF StackInOrder
  <2>3. CASE j # k
    <3>1. c[j] = s[j]
      BY <1>1, <2>3
    <3> QED
      BY <2>1, <2>2, <3>1
  <2>4. CASE j = k
    BY <1>4, <1>7, <2>1, <2>2, <2>4 DEF AllBefore
  <2> QED
    BY <2>3, <2>4
<1> QED
  BY <1>1, <1>8, <1>9 DEF StackInOrder

\* The text of the stack nodes up to k is before that of the ones above.
LEMMA SplitInOrder ==
  ASSUME NEW s, NEW k \in Nat, NEW j \in DOMAIN s, k < j, DOMAIN s = 1 .. Len(s), Len(s) \in Nat,
         StackInOrder(s)
  PROVE  AllBefore(TextTo(s, k), Leaves(s[j].nodes))
<1> SUFFICES ASSUME NEW x \in TextTo(s, k), NEW y \in Leaves(s[j].nodes) PROVE x < y
  BY DEF AllBefore
<1>1. PICK i \in 1 .. k : x \in Leaves(s[i].nodes)
  BY DEF TextTo
<1>2. i \in DOMAIN s /\ i < j
  BY <1>1
<1>3. AllBefore(Leaves(s[i].nodes), Leaves(s[j].nodes))
  BY <1>2 DEF StackInOrder
<1> QED
  BY <1>1, <1>3 DEF AllBefore

-----------------------------------------------------------------------------
(* The steps.                                                               *)

LEMMA ShiftInOrder ==
  ASSUME OrderInv, Shift
  PROVE  StackInOrder(stack')
<1> DEFINE s == stack
           c == stack'
           leaf == Leaf(tok)
           m == Len(s)
           plan == Transitions[Top.dfa][tok]
           q == Len(plan.pushes)
           N == NodesUpTo(count)
<1>1. TypeOK /\ count > 0 /\ pc = "add" /\ StackInOrder(s) /\ AllBefore(TextOf(s), {count})
  BY DEF OrderInv, Inv, CallsOK, Shift
<1>2. s \in Seq(StackNodes(N)) /\ m \in Nat \ {0} /\ DOMAIN s = 1 .. m /\ m = Len(s)
  BY <1>1, Typed
<1>3. IsShifted(c, s, plan, leaf, m, q, N)
  BY <1>1, ShiftFacts
<1>4. leaf \in N /\ leaf.leaves \subseteq {count}
  <2>1. tok \in NodeTypes
    BY <1>1 DEF TypeOK, NodeTypes
  <2> QED
    BY <1>1, <2>1, LeafFacts DEF TokLeaves
<1> HIDE DEF s, c, leaf, m, plan, N
<1>5. q \in Nat
  BY <1>3 DEF IsShifted
<1> HIDE DEF q
<1>6. /\ c \in Seq(StackNodes(N)) /\ Len(c) = m + q
      /\ \A i \in 1 .. m - 1 : c[i] = s[i]
      /\ q = 0 => c[m].nodes = Append(s[m].nodes, leaf)
      /\ q > 0 => c[m].nodes = s[m].nodes
      /\ \A j \in 1 .. q - 1 : c[m + j].nodes = <<>>
      /\ q > 0 => c[m + q].nodes = <<leaf>>
  BY <1>3 DEF IsShifted
<1>7. DOMAIN c = 1 .. m + q
  BY <1>6
<1>8. s[m] \in StackNodes(N)
  BY <1>2
<1>9. s[m].nodes \in Seq(N) /\ <<leaf>> \in Seq(N) /\ Append(<<>>, leaf) = <<leaf>>
  BY <1>4, <1>8 DEF StackNodes
<1>10. Leaves(<<>>) = {} /\ NodesInOrder(<<>>) /\ Leaves(<<leaf>>) = leaf.leaves /\ NodesInOrder(<<leaf>>)
  BY DEF Leaves, NodesInOrder
<1>11. \A i \in 1 .. m : Leaves(s[i].nodes) \subseteq TextOf(s)
  BY <1>2 DEF TextOf, TextTo
\* A stack node of c has the text of the one of s, or no text, or is the top one
\* and may have the token in addition.
<1> DEFINE below(i) == Leaves(s[i].nodes)
           Kept(i) == i \in 1 .. m /\ Leaves(c[i].nodes) = below(i)
           Empty(i) == Leaves(c[i].nodes) = {}
           Added(i) == i = m /\ q = 0 /\ Leaves(c[i].nodes) = below(i) \cup leaf.leaves
           Alone(i) == i = m + q /\ Leaves(c[i].nodes) = leaf.leaves
<1>12. ASSUME NEW i \in 1 .. m + q
       PROVE  NodesInOrder(c[i].nodes) /\ (Kept(i) \/ Empty(i) \/ Added(i) \/ Alone(i))
  <2>0. \A j \in 1 .. m : NodesInOrder(s[j].nodes)
    BY <1>1, <1>2 DEF StackInOrder
  <2>1. CASE i < m
    <3>1. i \in 1 .. m - 1 /\ i \in 1 .. m
      BY <1>2, <2>1
    <3> QED
      BY <1>6, <2>0, <2>1, <3>1
  <2>2. CASE i = m /\ q = 0
    <3>1. AllBefore(Leaves(s[m].nodes), leaf.leaves)
      BY <1>1, <1>2, <1>4, <1>11 DEF AllBefore
    <3>2. m \in 1 .. m
      BY <1>2
    <3>3. NodesInOrder(s[m].nodes) /\ c[m].nodes = Append(s[m].nodes, leaf)
      BY <1>6, <2>0, <2>2, <3>2
    <3>4. NodesInOrder(c[m].nodes)
      BY <1>4, <1>9, <3>1, <3>3, AppendInOrder
    <3>5. Leaves(c[m].nodes) = Leaves(s[m].nodes) \cup leaf.leaves
      BY <1>4, <1>9, <3>3, LeavesAppend
    <3> QED
      BY <2>2, <3>4, <3>5
  <2>3. CASE i = m /\ q > 0
    BY <1>2, <1>6, <2>0, <2>3
  <2>4. CASE i = m + q /\ q > 0
    BY <1>6, <1>10, <2>4
  <2>5. CASE i > m /\ i < m + q
    <3>1. i - m \in 1 .. q - 1 /\ m + (i - m) = i
      BY <1>2, <1>5, <2>5
    <3>2. c[i].nodes = <<>>
      BY <1>6, <3>1
    <3> QED
      BY <1>10, <2>5, <3>2
  <2>6. m \in Nat /\ q \in Nat /\ i \in Nat /\ i <= m + q
    BY <1>2, <1>5
  <2>7. \/ i < m \/ (i = m /\ q = 0) \/ (i = m /\ q > 0)
        \/ (i = m + q /\ q > 0) \/ (i > m /\ i < m + q)
    BY <2>6
  <2> HIDE DEF Kept, Empty, Added, Alone
  <2> QED
    BY <2>1, <2>2, <2>3, <2>4, <2>5, <2>7
<1>13. ASSUME NEW i \in 1 .. m + q, NEW j \in 1 .. m + q, i < j
       PROVE  AllBefore(Leaves(c[i].nodes), Leaves(c[j].nodes))
  <2>1. (Kept(i) \/ Empty(i) \/ Added(i) \/ Alone(i)) /\ (Kept(j) \/ Empty(j) \/ Added(j) \/ Alone(j))
    BY <1>12
  <2>2. ~Added(i) /\ ~Alone(i)
    <3>1. m \in Nat /\ q \in Nat /\ i < m + q
      BY <1>2, <1>5, <1>13
    <3>2. ~(i = m /\ q = 0) /\ i # m + q
      BY <3>1
    <3> QED
      BY <3>2
  <2>3. CASE Empty(i) \/ Empty(j)
    BY <2>3 DEF AllBefore
  <2>4. CASE Kept(i) /\ (Kept(j) \/ Added(j) \/ Alone(j))
    <3>1. AllBefore(below(i), leaf.leaves)
      BY <1>1, <1>4, <1>11, <2>4 DEF AllBefore
    <3>2. j \in 1 .. m => AllBefore(below(i), below(j))
      BY <1>1, <1>2, <1>13, <2>4 DEF StackInOrder
    <3>3. Leaves(c[i].nodes) = below(i)
      BY <2>4
    <3>4. CASE Kept(j)
      BY <3>2, <3>3, <3>4
    <3>5. CASE Added(j)
      <4>1. j \in 1 .. m
        BY <1>2, <3>5
      <4> QED
        BY <3>1, <3>2, <3>3, <3>5, <4>1 DEF AllBefore
    <3>6. CASE Alone(j)
      BY <3>1, <3>3, <3>6
    <3> QED
      BY <2>4, <3>4, <3>5, <3>6
  <2> HIDE DEF Kept, Empty, Added, Alone
  <2> QED
    BY <2>1, <2>2, <2>3, <2>4
<1>14. StackInOrder(c)
  BY <1>7, <1>12, <1>13 DEF StackInOrder
<1> QED
  BY <1>14 DEF c

LEMMA PoppedInOrder ==
  ASSUME OrderInv, Len(stack) > 1, Top.dfa \in Final
  PROVE  StackInOrder(Popped) /\ TextOf(Popped) = TextOf(stack)
<1> DEFINE N == NodesUpTo(count)
           k == Len(stack) - 1
<1>1. TypeOK /\ StackOK /\ StackInOrder(stack)
  BY DEF OrderInv, Inv
<1>2. /\ stack \in Seq(StackNodes(N)) /\ count \in Nat /\ Len(stack) \in Nat \ {0}
      /\ Len(stack) \in DOMAIN stack /\ DOMAIN stack = 1 .. Len(stack)
  BY <1>1, Typed
<1>3. Finished(Top) \in N /\ Finished(Top).leaves = Leaves(Top.nodes)
  BY <1>1, <1>2, TopFinished
<1>4. IsCut(Popped, stack, k, Finished(Top), N) /\ TextOf(Popped) = TextOf(stack)
  BY <1>1, <1>2, PoppedFacts
<1>5. k \in DOMAIN stack /\ k \in Nat /\ k < Len(stack)
  BY <1>2
<1> HIDE DEF N, k
<1>6. AllBefore(TextTo(stack, k), Finished(Top).leaves)
  BY <1>1, <1>2, <1>3, <1>5, SplitInOrder DEF Top
<1> QED
  BY <1>1, <1>2, <1>3, <1>4, <1>5, <1>6, CutInOrder

\* Recovery: the error node has what was above the block, the error leaf the token.
LEMMA CutStackInOrder ==
  ASSUME OrderInv, InError, NEW node \in NodesUpTo(count),
         node.leaves \subseteq RemovedLeaves(UntilIndex + 1) \cup {count},
         stack' = AppendTo(SubSeq(stack, 1, UntilIndex), UntilIndex, node)
  PROVE  /\ StackInOrder(stack')
         /\ TextOf(stack') = TextTo(stack, UntilIndex) \cup node.leaves
<1> DEFINE N == NodesUpTo(count)
           u == UntilIndex
<1>1. /\ TypeOK /\ StackOK /\ pc = "add" /\ StackInOrder(stack)
      /\ AllBefore(TextOf(stack), {count})
  BY DEF OrderInv, Inv, InError
<1>2. /\ stack \in Seq(StackNodes(N)) /\ stack # <<>> /\ Len(stack) \in Nat \ {0}
      /\ DOMAIN stack = 1 .. Len(stack) /\ BottomOK(stack)
  BY <1>1, Typed DEF StackOK
<1>3. u \in DOMAIN stack /\ u \in Nat
  BY <1>2, UntilFacts
<1> HIDE DEF N, u
<1>4. node \in N /\ stack' = AppendTo(SubSeq(stack, 1, u), u, node)
  BY DEF N, u
<1>5. IsCut(stack', stack, u, node, N)
  BY <1>2, <1>3, <1>4, CutAppend
<1>6. AllBefore(TextTo(stack, u), RemovedLeaves(u + 1))
  <2> SUFFICES ASSUME NEW j \in u + 1 .. Len(stack)
               PROVE  AllBefore(TextTo(stack, u), Leaves(stack[j].nodes))
    BY DEF RemovedLeaves, AllBefore
  <2>1. j \in DOMAIN stack /\ u < j
    BY <1>2, <1>3
  <2> QED
    BY <1>1, <1>2, <1>3, <2>1, SplitInOrder
<1>7. TextTo(stack, u) \subseteq TextOf(stack)
  BY <1>2, <1>3 DEF TextOf, TextTo
<1>8. node.leaves \subseteq RemovedLeaves(u + 1) \cup {count}
  BY DEF u
<1>9. AllBefore(TextTo(stack, u), node.leaves)
  BY <1>1, <1>6, <1>7, <1>8 DEF AllBefore
<1>10. StackInOrder(stack')
  BY <1>1, <1>2, <1>3, <1>4, <1>5, <1>9, CutInOrder
<1> QED
  BY <1>5, <1>10 DEF IsCut, u

\* A change of the state on top leaves every node where it is.
LEMMA AdvanceInOrder ==
  ASSUME OrderInv, NEW dfa \in States
  PROVE  StackInOrder(Advance(dfa)) /\ TextOf(Advance(dfa)) = TextOf(stack)
<1> DEFINE N == NodesUpTo(count)
           c == Advance(dfa)
<1>1. /\ stack \in Seq(StackNodes(N)) /\ stack # <<>> /\ Len(stack) \in Nat \ {0}
      /\ DOMAIN stack = 1 .. Len(stack) /\ StackInOrder(stack)
  BY Typed DEF OrderInv, Inv
<1>2. /\ c \in Seq(StackNodes(N)) /\ Len(c) = Len(stack)
      /\ c[Len(stack)] = [dfa |-> dfa, nodes |-> Top.nodes]
      /\ \A j \in 1 .. Len(stack) - 1 : c[j] = stack[j]
      /\ TextOf(c) = TextOf(stack)
  BY <1>1, AdvanceFacts
<1> HIDE DEF c
<1>3. \A j \in DOMAIN stack : c[j].nodes = stack[j].nodes
  BY <1>1, <1>2 DEF Top
<1>4. DOMAIN c = DOMAIN stack
  BY <1>1, <1>2
<1>5. StackInOrder(c)
  BY <1>1, <1>3, <1>4 DEF StackInOrder
<1> QED
  BY <1>2, <1>5 DEF c
LEMMA InitOrder == Init => OrderInv
<1> SUFFICES ASSUME Init PROVE OrderInv
  OBVIOUS
<1>1. Inv
  BY InitInv
<1>2. stack = <<[dfa |-> StartState, nodes |-> <<>>]>> /\ pc = "pull"
  BY DEF Init
<1>3. DOMAIN stack = {1} /\ stack[1].nodes = <<>>
  BY <1>2
<1>4. StackInOrder(stack)
  BY <1>3 DEF StackInOrder, NodesInOrder
<1> QED
  BY <1>1, <1>2, <1>4 DEF OrderInv

LEMMA NextOrder ==
  ASSUME OrderInv, [Next]_vars
  PROVE  OrderInv'
<1>1. /\ Inv /\ TypeOK /\ StackOK /\ CallsOK /\ TextOK /\ StackInOrder(stack)
      /\ pc = "add" => AllBefore(TextOf(stack), {count})
      /\ Inv'
  BY NextInv DEF OrderInv, Inv
<1>2. count \in Nat /\ (pc = "pull" => TextOf(stack) \subseteq 1 .. count)
  BY <1>1, Typed DEF TextOK, TypeOK, Positions
\* The stack may change, but its text and the token do not.
<1>3. ASSUME StackInOrder(stack'), TextOf(stack') = TextOf(stack),
             pc' = "add" => pc = "add", count' = count
      PROVE  OrderInv'
  BY <1>1, <1>3 DEF OrderInv
<1>4. CASE OmitDedent
  BY <1>1, <1>4 DEF OmitDedent, OrderInv
<1>5. ASSUME NEW t \in Tokens, PullToken(t) PROVE OrderInv'
  <2>1. stack' = stack /\ pc = "pull" /\ count' = count + 1
    BY <1>5 DEF PullToken, Yield, Promised
  <2>2. AllBefore(TextOf(stack), {count'})
    BY <1>2, <2>1 DEF AllBefore
  <2> QED
    BY <1>1, <2>1, <2>2 DEF OrderInv
<1>6. CASE TokensExhausted \/ RaiseSyntaxError
  BY <1>3, <1>6, <1>1 DEF TokensExhausted, RaiseSyntaxError, streamVars
<1>7. CASE Shift
  <2>1. StackInOrder(stack') /\ pc' # "add"
    BY <1>7, ShiftInOrder DEF Shift, Return
  <2> QED
    BY <1>1, <2>1 DEF OrderInv
<1>8. CASE PopFinal
  <2>1. UNCHANGED <<count, pending>> /\ pc = "add" /\ Top.dfa \in Final
    BY <1>8 DEF PopFinal, streamVars
  <2>2. CASE Len(stack) = 1
    BY <1>1, <1>3, <1>8, <2>1, <2>2 DEF PopFinal
  <2>3. CASE Len(stack) # 1
    <3>1. stack' = Popped /\ Len(stack) > 1
      BY <1>1, <1>8, <2>3, LongStack DEF PopFinal
    <3> QED
      BY <1>3, <2>1, <3>1, PoppedInOrder
  <2> QED
    BY <2>2, <2>3
<1>9. CASE Finish
  <2>1. UNCHANGED <<count, pending>> /\ pc = "finish"
    BY <1>9 DEF Finish, streamVars
  <2>2. CASE stack' = stack
    BY <1>1, <1>3, <1>9, <2>1, <2>2 DEF Finish
  <2>3. CASE stack' # stack
    <3>1. stack' = Popped /\ Len(stack) > 1 /\ Top.dfa \in Final /\ pc' = pc
      BY <1>9, <2>3 DEF Finish
    <3> QED
      BY <1>3, <2>1, <3>1, PoppedInOrder
  <2> QED
    BY <2>2, <2>3
<1>10. CASE AssumeNewline
  <2>1. UNCHANGED <<count, pending>> /\ pc = "add"
    BY <1>10 DEF AssumeNewline, InError, streamVars
  <2>2. CASE stack' = stack
    BY <1>1, <1>3, <2>1, <2>2
  <2>3. CASE stack' # stack
    <3> DEFINE dfa == Transitions[Top.dfa]["NEWLINE"].next
    <3>1. stack' = Advance(dfa) /\ dfa \in Final
      BY <1>10, <2>3 DEF AssumeNewline, LacksNewline
    <3>2. dfa \in States
      BY <3>1, GrammarAssumption
    <3> HIDE DEF dfa
    <3> QED
      BY <1>3, <2>1, <3>1, <3>2, AdvanceInOrder
  <2> QED
    BY <2>2, <2>3
<1>11. CASE RemoveStack
  <2> DEFINE u == UntilIndex
             node == [type |-> "error_node", leaves |-> RemovedLeaves(u + 1),
                      last |-> LastRemoved(u + 1)]
  <2>1. /\ stack' = AppendTo(SubSeq(stack, 1, u), u, node)
        /\ UNCHANGED <<count, pc>> /\ InError /\ NodesRemoved(u + 1)
    BY <1>11 DEF RemoveStack, Unrecovered, streamVars
  <2>2. /\ stack \in Seq(StackNodes(NodesUpTo(count))) /\ stack # <<>> /\ BottomOK(stack)
    BY <1>1, Typed DEF StackOK
  <2>3. u \in DOMAIN stack
    BY <2>2, UntilFacts
  <2>4. TextTo(stack, u) \cup RemovedLeaves(u + 1) = TextOf(stack)
    BY <2>2, <2>3, RemovedText
  <2>5. LastRemoved(u + 1) \in Tokens
    BY <1>2, <2>1, <2>2, <2>3, LastRemovedType
  <2>6. RemovedLeaves(u + 1) \subseteq 1 .. count
    BY <1>1, <2>1, <2>4 DEF InError, TextOK, TypeOK, Positions
  <2>7. node \in NodesUpTo(count) /\ node.leaves = RemovedLeaves(u + 1)
    BY <2>5, <2>6 DEF NodesUpTo, NodeTypes
  <2> HIDE DEF node, u
  <2>8. /\ node.leaves \subseteq RemovedLeaves(UntilIndex + 1) \cup {count}
        /\ stack' = AppendTo(SubSeq(stack, 1, UntilIndex), UntilIndex, node)
    BY <2>1, <2>7 DEF u
  <2>9. /\ StackInOrder(stack')
        /\ TextOf(stack') = TextTo(stack, u) \cup node.leaves
    BY <2>1, <2>7, <2>8, CutStackInOrder DEF u
  <2>10. TextOf(stack') = TextOf(stack)
    BY <2>4, <2>7, <2>9
  <2> QED
    BY <1>3, <2>1, <2>9, <2>10
<1>12. CASE AddErrorLeaf
  <2>1. /\ stack' = AppendTo(SubSeq(stack, 1, UntilIndex), UntilIndex, Leaf("error_leaf"))
        /\ pc' # "add" /\ InError
    BY <1>12 DEF AddErrorLeaf, Unrecovered
  <2>2. count > 0
    BY <1>1, <2>1 DEF CallsOK, InError
  <2>3. /\ Leaf("error_leaf") \in NodesUpTo(count)
        /\ Leaf("error_leaf").leaves \subseteq {count}
    BY <1>1, <2>2, LeafFacts DEF NodeTypes, TokLeaves
  <2>4. StackInOrder(stack')
    BY <2>1, <2>3, CutStackInOrder
  <2> QED
    BY <1>1, <2>1, <2>4 DEF OrderInv
<1>13. CASE FinishRecovery
  <2>1. pc' # "add"
    BY <1>13 DEF FinishRecovery
  <2>2. StackInOrder(stack')
    <3>1. CASE TopRule = "suite" /\ Top.dfa \in DOMAIN StmtArc
      <4>1. stack' = Advance(StmtArc[Top.dfa]) /\ StmtArc[Top.dfa] \in States
        BY <1>13, <3>1, GrammarAssumption DEF FinishRecovery
      <4> QED
        BY <4>1, AdvanceInOrder
    <3>2. CASE ~(TopRule = "suite" /\ Top.dfa \in DOMAIN StmtArc)
      BY <1>1, <1>13, <3>2 DEF FinishRecovery
    <3> QED
      BY <3>1, <3>2
  <2> QED
    BY <1>1, <2>1, <2>2 DEF OrderInv
<1>14. CASE UNCHANGED vars
  BY <1>1, <1>3, <1>14 DEF vars, parserVars, streamVars
<1> QED
  BY <1>4, <1>5, <1>6, <1>7, <1>8, <1>9, <1>10, <1>11, <1>12, <1>13, <1>14
     DEF Next, AddToken, Recover

\* The order of the source: what a tree node covers is before what its right
\* sibling covers, at every level of the unfinished tree.
THEOREM TextKeepsOrder == Spec => []InOrder
<1>1. Init => OrderInv
  BY InitOrder
<1>2. OrderInv /\ [Next]_vars => OrderInv'
  BY NextOrder
<1>3. OrderInv => InOrder
  <2> SUFFICES ASSUME OrderInv PROVE InOrder
    OBVIOUS
  <2>1. TypeOK /\ StackInOrder(stack) /\ (pc = "add" => AllBefore(TextOf(stack), {count}))
    BY DEF OrderInv, Inv
  <2>2. DOMAIN stack = 1 .. Len(stack)
    BY <2>1, Typed
  <2>3. TextInTree = TextOf(stack)
    BY <2>2 DEF TextInTree, TextOf, TextTo
  <2>4. ASSUME NEW i \in DOMAIN stack, NEW j \in DOMAIN stack, i < j,
               NEW k \in DOMAIN stack[i].nodes, NEW l \in DOMAIN stack[j].nodes
        PROVE  Before(stack[i].nodes[k], stack[j].nodes[l])
    <3>1. AllBefore(Leaves(stack[i].nodes), Leaves(stack[j].nodes))
      BY <2>1, <2>4 DEF StackInOrder
    <3> QED
      BY <3>1 DEF AllBefore, Before, Leaves
  <2>5. pc = "add" => \A i \in TextInTree : i < count
    BY <2>1, <2>3 DEF AllBefore
  <2> QED
    BY <2>1, <2>4, <2>5 DEF InOrder, StackInOrder, NodesInOrder
<1> QED
  BY <1>1, <1>2, <1>3, PTL DEF Spec

-----------------------------------------------------------------------------
(* What a stack node has got, it keeps.                                     *)

Keeps(s, c, i) ==
  /\ i \in DOMAIN c
  /\ \A j \in DOMAIN s[i].nodes : c[i].nodes[j] = s[i].nodes[j]

LEMMA CutKeeps ==
  ASSUME NEW N, NEW s \in Seq(StackNodes(N)), NEW k \in DOMAIN s, NEW c, NEW node \in N,
         IsCut(c, s, k, node, N), NEW i \in 1 .. k
  PROVE  Keeps(s, c, i)
<1>0. /\ c \in Seq(StackNodes(N)) /\ Len(c) = k
      /\ c[k] = [dfa |-> s[k].dfa, nodes |-> Append(s[k].nodes, node)]
      /\ \A j \in 1 .. k - 1 : c[j] = s[j]
  BY DEF IsCut
<1>1. /\ c \in Seq(StackNodes(N)) /\ Len(c) = k /\ k \in Nat
      /\ c[k].nodes = Append(s[k].nodes, node)
      /\ \A j \in 1 .. k - 1 : c[j] = s[j]
  BY <1>0
<1>2. s[k] \in StackNodes(N)
  OBVIOUS
<1>3. s[k].nodes \in Seq(N)
  BY <1>2 DEF StackNodes
<1>4. \A j \in DOMAIN s[k].nodes : c[k].nodes[j] = s[k].nodes[j]
  <2>1. \A j \in DOMAIN s[k].nodes : Append(s[k].nodes, node)[j] = s[k].nodes[j]
    BY <1>3
  <2> QED
    BY <1>1, <2>1
<1>5. CASE i = k
  BY <1>1, <1>4, <1>5 DEF Keeps
<1>6. CASE i # k
  <2>1. c[i] = s[i] /\ i \in DOMAIN c
    BY <1>1, <1>6
  <2> QED
    BY <2>1 DEF Keeps
<1> QED
  BY <1>5, <1>6

LEMMA ShiftKeeps ==
  ASSUME Inv, Shift, NEW i \in DOMAIN stack
  PROVE  Keeps(stack, stack', i)
<1> DEFINE m == Len(stack)
           plan == Transitions[Top.dfa][tok]
           q == Len(plan.pushes)
           N == NodesUpTo(count)
           leaf == Leaf(tok)
<1>1. /\ stack \in Seq(StackNodes(N)) /\ m \in Nat \ {0} /\ i \in 1 .. m
  BY Typed DEF Inv
<1>2. IsShifted(stack', stack, plan, leaf, m, q, N)
  BY ShiftFacts DEF Inv, CallsOK, Shift
<1>3. stack[m] \in StackNodes(N)
  BY <1>1
<1> HIDE DEF m, plan, N, leaf
<1>4. q \in Nat
  BY <1>2 DEF IsShifted
<1> HIDE DEF q
<1>5. /\ stack' \in Seq(StackNodes(N)) /\ Len(stack') = m + q
      /\ \A j \in 1 .. m - 1 : stack'[j] = stack[j]
      /\ q = 0 => stack'[m].nodes = Append(stack[m].nodes, leaf)
      /\ q > 0 => stack'[m].nodes = stack[m].nodes
  BY <1>2 DEF IsShifted
<1>6. i \in DOMAIN stack' /\ stack[m].nodes \in Seq(N)
  BY <1>1, <1>3, <1>4, <1>5 DEF StackNodes
<1>7. \A j \in DOMAIN stack[m].nodes : Append(stack[m].nodes, leaf)[j] = stack[m].nodes[j]
  BY <1>6
<1>8. CASE i = m
  BY <1>4, <1>5, <1>6, <1>7, <1>8 DEF Keeps
<1>9. CASE i # m
  <2>1. stack'[i] = stack[i]
    BY <1>1, <1>5, <1>9
  <2> QED
    BY <1>6, <2>1 DEF Keeps
<1> QED
  BY <1>8, <1>9

LEMMA AdvanceKeeps ==
  ASSUME Inv, NEW dfa \in States, stack' = Advance(dfa), NEW i \in DOMAIN stack
  PROVE  Keeps(stack, stack', i)
<1> DEFINE N == NodesUpTo(count)
<1>1. /\ stack \in Seq(StackNodes(N)) /\ stack # <<>> /\ Len(stack) \in Nat \ {0}
  BY Typed DEF Inv
<1> HIDE DEF N
<1>2. /\ stack' \in Seq(StackNodes(N)) /\ Len(stack') = Len(stack)
      /\ stack'[Len(stack)] = [dfa |-> dfa, nodes |-> Top.nodes]
      /\ \A j \in 1 .. Len(stack) - 1 : stack'[j] = stack[j]
  BY <1>1, AdvanceFacts
<1>3. stack'[Len(stack)].nodes = stack[Len(stack)].nodes
  BY <1>2 DEF Top
<1>4. stack'[i].nodes = stack[i].nodes /\ i \in DOMAIN stack'
  BY <1>1, <1>2, <1>3
<1> QED
  BY <1>4 DEF Keeps

\* Every way to go on keeps the stack nodes, but the complete one that leaves
\* the stack and those that recovery makes an error node of, which are no blocks.
LEMMA StepKeeps ==
  ASSUME Inv, Next, NEW i \in DOMAIN stack, IsBlock(stack[i])
  PROVE  (i = Len(stack) /\ stack[i].dfa \in Final) \/ Keeps(stack, stack', i)
<1> DEFINE N == NodesUpTo(count)
           m == Len(stack)
<1>1. /\ TypeOK /\ StackOK
      /\ stack \in Seq(StackNodes(N)) /\ stack # <<>> /\ m \in Nat \ {0} /\ count \in Nat
      /\ i \in 1 .. m /\ Top = stack[m]
  BY Typed DEF Inv, Top
<1>2. CASE stack' = stack
  BY <1>2 DEF Keeps
<1>3. CASE Shift
  BY <1>3, ShiftKeeps
<1>4. CASE PopFinal \/ Finish
  <2>1. CASE stack' = Popped /\ Top.dfa \in Final /\ m > 1
    <3>1. /\ IsCut(Popped, stack, m - 1, Finished(Top), N)
          /\ Finished(Top) \in N
      BY <1>1, <2>1, PoppedFacts, TopFinished
    <3>2. m - 1 \in DOMAIN stack /\ (i = m \/ i \in 1 .. m - 1)
      BY <1>1, <2>1
    <3> HIDE DEF N, m
    <3>3. i \in 1 .. m - 1 => Keeps(stack, stack', i)
      BY <1>1, <2>1, <3>1, <3>2, CutKeeps
    <3> QED
      BY <1>1, <2>1, <3>2, <3>3 DEF m
  <2> QED
    BY <1>1, <1>2, <1>4, <2>1, LongStack DEF PopFinal, Finish
<1>5. CASE AssumeNewline \/ FinishRecovery
  <2>1. CASE stack' # stack
    <3>1. \E dfa \in States : stack' = Advance(dfa)
      BY <1>5, <2>1, GrammarAssumption DEF AssumeNewline, FinishRecovery, LacksNewline
    <3> QED
      BY <3>1, AdvanceKeeps
  <2> QED
    BY <1>2, <2>1
<1>6. CASE RemoveStack \/ AddErrorLeaf
  <2>1. PICK node \in N : stack' = AppendTo(SubSeq(stack, 1, UntilIndex), UntilIndex, node)
    <3>1. CASE RemoveStack
      <4> DEFINE u == UntilIndex
                 node == [type |-> "error_node", leaves |-> RemovedLeaves(u + 1),
                          last |-> LastRemoved(u + 1)]
      <4>1. u \in DOMAIN stack
        BY <1>1, UntilFacts DEF StackOK
      <4>2. TextOf(stack) \subseteq 1 .. count /\ NodesRemoved(u + 1)
        BY <3>1, <1>1 DEF Inv, TextOK, TypeOK, Positions, RemoveStack, Unrecovered, InError
      <4>3. RemovedLeaves(u + 1) \subseteq 1 .. count
        BY <1>1, <4>1, <4>2, RemovedText
      <4>4. LastRemoved(u + 1) \in Tokens
        BY <1>1, <4>1, <4>2, LastRemovedType
      <4>5. node \in N
        BY <4>3, <4>4 DEF NodesUpTo, NodeTypes
      <4> QED
        BY <3>1, <4>5 DEF RemoveStack
    <3>2. CASE AddErrorLeaf
      <4>1. count > 0
        BY <3>2 DEF AddErrorLeaf, Unrecovered, InError, Inv, CallsOK
      <4> QED
        BY <1>1, <3>2, <4>1, LeafFacts DEF AddErrorLeaf, NodeTypes
    <3> QED
      BY <1>6, <3>1, <3>2
  <2>2. /\ UntilIndex \in DOMAIN stack
        /\ \A j \in UntilIndex + 1 .. m : ~IsBlock(stack[j])
    BY <1>1, UntilFacts DEF StackOK
  <2>3. i \in 1 .. UntilIndex
    BY <1>1, <2>2
  <2>4. IsCut(stack', stack, UntilIndex, node, N)
    BY <1>1, <2>1, <2>2, CutAppend
  <2> QED
    BY <1>1, <2>2, <2>3, <2>4, CutKeeps
<1>7. Shift \/ PopFinal \/ Finish \/ AssumeNewline \/ FinishRecovery \/ RemoveStack
      \/ AddErrorLeaf \/ stack' = stack
  BY DEF Next, AddToken, Recover, OmitDedent, PullToken, TokensExhausted, RaiseSyntaxError
<1> QED
  BY <1>2, <1>3, <1>4, <1>5, <1>6, <1>7

\* Recovery never takes anything from a block, however deep the error is; only
\* a block that is complete leaves the stack.
THEOREM BlocksAreKept == Spec => BlocksKept
<1> DEFINE Kept == \A i \in DOMAIN stack :
                     IsBlock(stack[i]) =>
                       \/ i = Len(stack) /\ stack[i].dfa \in Final
                       \/ /\ i \in DOMAIN stack'
                          /\ \A j \in DOMAIN stack[i].nodes :
                               stack'[i].nodes[j] = stack[i].nodes[j]
<1>1. ASSUME Inv, Next PROVE Kept
  BY <1>1, StepKeeps DEF Keeps
<1> QED
  BY <1>1, ParserInvariant, PTL DEF Spec, BlocksKept
=============================================================================
