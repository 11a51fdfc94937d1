-------------------------- MODULE ParserBlockProofs --------------------------
(***************************************************************************)
(* Theorems about Parser, for every grammar, token sequence and bound: the  *)
(* blocks on the stack follow the indentation, error recovery nests no      *)
(* deeper than three calls, and the parser does not crash.                  *)
(***************************************************************************)
EXTENDS ParserProofs, FiniteSetTheorems

\* The suites of s that have their INDENT and wait for their DEDENT.
Open(s) == {i \in DOMAIN s : Suite(s, i) /\ s[i].dfa \in DOMAIN StmtArc}

\* A block begins with the NEWLINE and the INDENT, and only one with a statement
\* below it, or above it on the stack, can see its DEDENT.
BlockShape(s, i) ==
  LET d == s[i].dfa
      nodes == s[i].nodes
  IN Suite(s, i) =>
       \/ AwaitsIndent(d)
       \/ /\ d \in DOMAIN StmtArc
          /\ Len(nodes) >= 2 /\ nodes[2].type = "INDENT"
          /\ Dedents(d) => i < Len(s) \/ Len(nodes) >= 3
          /\ ~Dedents(d) => i = Len(s)
       \/ d \in Final /\ Len(nodes) <= 1
       \/ /\ d \in Final /\ Len(nodes) >= 4
          /\ nodes[2].type = "INDENT" /\ LastOf(nodes).type = "DEDENT"

Shapes(s) == \A i \in DOMAIN s : BlockShape(s, i)

\* A block that has its INDENT and nothing else yet.
Fresh(s) == Len(s) \in Open(s) /\ ~Dedents(s[Len(s)].dfa)

\* A token with text follows the INDENT, which makes a statement or an error leaf.
FreshOK ==
  Fresh(stack) => \/ pc = "pull" /\ last = "INDENT"
                  \/ pc = "add" /\ tok \in TextTokens
                  \/ pc = "fixup" /\ Len(Top.nodes) >= 3
                  \/ pc = "raised"

InFlight == IF pc = "add" THEN IndentChange(tok) ELSE 0

\* The deepest level that an INDENT added to the tree, or left out, has opened.
OmitTop == IF pc = "add" /\ tok = "INDENT" THEN depth - 1 ELSE depth

\* Every level is an open suite or an omitted INDENT, or it is in flight; the
\* n-th one that is omitted is level n or deeper.
LevelsOK ==
  pc # "raised" =>
    /\ Cardinality(Open(stack)) + Len(omit) + InFlight = depth
    /\ \A i \in DOMAIN omit : i <= omit[i] /\ omit[i] <= OmitTop
    /\ \A i, j \in DOMAIN omit : i < j => omit[i] < omit[j]
    /\ IF ErrorRecovery THEN indentCounter = depth ELSE omit = <<>>

AllBegun(s) == \A i \in DOMAIN s : i > 1 => Begun(FromRule[s[i].dfa])

\* The ENDMARKER, and nothing else, completes file_input, which is then alone.
EndOK ==
  /\ stack[1].dfa \in Final => last = "ENDMARKER" /\ pc # "add"
  /\ last = "ENDMARKER" /\ pc \notin {"add", "raised"} =>
       Len(stack) = 1 /\ stack[1].dfa \in Final
  /\ pc \in {"finish", "done"} => last = "ENDMARKER"
  /\ pc = "add" => tok = last
  /\ last = "ENDMARKER" => depth = 0
  /\ pc # "crashed"

OneLineRules ==
  CHOOSE S \in SUBSET (Nonterminals \ {"suite"}) : Closed(S) /\ HasOneLineRules(S)

\* A suite whose simple_stmt is above it.
IsOneLine(s, i) == Suite(s, i) /\ s[i].dfa \in Final /\ s[i].nodes = <<>>

OneLineOK(s) ==
  \A i, j \in DOMAIN s : i < j /\ IsOneLine(s, i) => FromRule[s[j].dfa] \in OneLineRules

NoOneLine(s) == \A i \in DOMAIN s : ~IsOneLine(s, i)

\* Recovery has nothing more to remove.
Settled(s) == FromRule[s[Len(s)].dfa] = "file_input" \/ Len(s) \in Open(s)

\* Of two removals the first was that of a suite of one line.
RecoveryOK ==
  /\ pc = "add" =>
       /\ pending <= 2
       /\ pending = 2 => Settled(stack)
       /\ pending = 1 => Settled(stack) \/ NoOneLine(stack)
       /\ pending > 0 => ~AwaitsIndent(Top.dfa)
  /\ pc = "fixup" => pending <= 3
  /\ pc \notin {"add", "fixup"} => pending = 0
  /\ ~ErrorRecovery => pending = 0

BlockInv ==
  /\ Inv
  /\ Shapes(stack) /\ AllBegun(stack) /\ OneLineOK(stack)
  /\ FreshOK
  /\ LevelsOK
  /\ EndOK
  /\ RecoveryOK

-----------------------------------------------------------------------------
(* Facts about the grammar and the stack.                                   *)

LEMMA OneLineFacts ==
  /\ OneLineRules \subseteq Nonterminals \ {"suite"}
  /\ Closed(OneLineRules) /\ HasOneLineRules(OneLineRules)
BY OneLineAssumption DEF OneLineRules

\* A suite waits for its INDENT, or for statements, or is complete.
LEMMA SuiteStates ==
  ASSUME NEW d \in States, FromRule[d] = "suite"
  PROVE  /\ ~(AwaitsIndent(d) /\ d \in DOMAIN StmtArc)
         /\ ~(AwaitsIndent(d) /\ d \in Final)
         /\ ~(d \in DOMAIN StmtArc /\ d \in Final)
<1>1. ASSUME AwaitsIndent(d), d \in DOMAIN StmtArc PROVE FALSE
  <2>1. "INDENT" \in DOMAIN Transitions[d] /\ Transitions[d]["INDENT"].pushes = <<>>
    BY <1>1, SuiteAssumption
  <2>2. Transitions[d]["INDENT"].pushes # <<>>
    BY <1>1, <2>1, SuiteAssumption
  <2> QED
    BY <2>1, <2>2
<1>2. ASSUME AwaitsIndent(d), d \in Final PROVE FALSE
  BY <1>2, SuiteAssumption
<1>3. ASSUME d \in DOMAIN StmtArc, d \in Final PROVE FALSE
  BY <1>3, SuiteAssumption
<1> QED
  BY <1>1, <1>2, <1>3

LEMMA OpenFinite ==
  ASSUME NEW N, NEW s \in Seq(StackNodes(N))
  PROVE  IsFiniteSet(Open(s)) /\ Cardinality(Open(s)) \in Nat
<1>1. DOMAIN s = 1 .. Len(s) /\ Len(s) \in Int
  OBVIOUS
<1>2. IsFiniteSet(1 .. Len(s))
  BY <1>1, FS_Interval
<1>3. Open(s) \subseteq 1 .. Len(s)
  BY <1>1 DEF Open
<1> QED
  BY <1>2, <1>3, FS_Subset, FS_CardinalityType

\* OpenSuites of the model, by what the nodes of a suite are, is Open.
LEMMA OpenSuitesFacts ==
  ASSUME TypeOK, SuitesOK(stack)
  PROVE  OpenSuites = Open(stack)
<1>1. ASSUME NEW i \in DOMAIN stack, Suite(stack, i)
      PROVE  (stack[i].dfa \notin Final /\ Len(stack[i].nodes) >= 2) <=> stack[i].dfa \in DOMAIN StmtArc
  <2>1. SuiteOK(stack, i)
    BY DEF SuitesOK
  <2>2. stack[i] \in StackNodes(NodesUpTo(count))
    BY Typed
  <2>3. stack[i].dfa \in States /\ FromRule[stack[i].dfa] = "suite"
    BY <1>1, <2>2 DEF StackNodes, Suite
  <2>4. /\ ~(AwaitsIndent(stack[i].dfa) /\ stack[i].dfa \in DOMAIN StmtArc)
        /\ ~(stack[i].dfa \in DOMAIN StmtArc /\ stack[i].dfa \in Final)
    BY <2>3, SuiteStates
  <2> DEFINE d == stack[i].dfa
             n == Len(stack[i].nodes)
  <2>5. \/ AwaitsIndent(d) /\ n = 1
        \/ d \in DOMAIN StmtArc /\ n >= 2
        \/ d \in Final
    BY <1>1, <2>1 DEF SuiteOK
  <2> HIDE DEF d, n
  <2>6. (d \notin Final /\ n >= 2) <=> d \in DOMAIN StmtArc
    BY <2>4, <2>5 DEF d
  <2> QED
    BY <2>6 DEF d, n
<1> QED
  BY <1>1 DEF OpenSuites, Open, Suite

\* file_input is at the bottom only.
LEMMA BottomOnly ==
  ASSUME NEW s, DOMAIN s = 1 .. Len(s), Len(s) \in Nat, AllBegun(s), NEW i \in DOMAIN s,
         FromRule[s[i].dfa] = "file_input" \/ ("ENDMARKER" \in DOMAIN Transitions[s[i].dfa] /\ s[i].dfa \in States)
  PROVE  i = 1
BY EndAssumption DEF AllBegun

\* Without an open suite a DEDENT would be for an INDENT that was omitted.
LEMMA DedentHasBlock ==
  ASSUME BlockInv, pc = "add", tok = "DEDENT"
  PROVE  Open(stack) # {}
<1>1. TypeOK /\ omit \in Seq(Int) /\ depth \in Nat /\ Len(omit) \in Nat /\ DOMAIN omit = 1 .. Len(omit)
  BY DEF BlockInv, Inv, TypeOK, StreamTypeOK
<1>a. InFlight = -1 /\ OmitTop = depth
  BY DEF InFlight, IndentChange, OmitTop
<1>b. LevelsOK /\ pc # "raised"
  BY DEF BlockInv
<1>2. /\ Cardinality(Open(stack)) + Len(omit) + (-1) = depth
      /\ \A i \in DOMAIN omit : i <= omit[i] /\ omit[i] <= depth
  BY <1>a, <1>b DEF LevelsOK
<1> SUFFICES ASSUME Open(stack) = {} PROVE FALSE
  OBVIOUS
<1>3. Cardinality(Open(stack)) = 0
  BY FS_EmptySet
<1>4. Len(omit) = depth + 1 /\ Len(omit) \in DOMAIN omit
  <2>1. 0 + Len(omit) + (-1) = depth
    BY <1>2, <1>3
  <2>2. Len(omit) \in Nat /\ depth \in Nat /\ DOMAIN omit = 1 .. Len(omit)
    BY <1>1
  <2> QED
    BY <2>1, <2>2
<1>5. omit[Len(omit)] \in Int
  BY <1>1, <1>4
<1> QED
  BY <1>1, <1>2, <1>4, <1>5

\* All levels are closed when the end comes.
LEMMA EndHasNoBlock ==
  ASSUME BlockInv, pc = "add", tok = "ENDMARKER"
  PROVE  Open(stack) = {}
<1>1. TypeOK /\ Len(omit) \in Nat
  BY DEF BlockInv, Inv, TypeOK
<1>2. Cardinality(Open(stack)) + Len(omit) + 0 = 0
  BY DEF BlockInv, LevelsOK, InFlight, IndentChange, EndOK
<1>3. IsFiniteSet(Open(stack)) /\ Cardinality(Open(stack)) \in Nat
  BY <1>1, Typed, OpenFinite
<1>4. Cardinality(Open(stack)) = 0
  BY <1>1, <1>2, <1>3
<1> QED
  BY <1>3, <1>4, FS_EmptySet

-----------------------------------------------------------------------------
(* What the ways to change the stack do to the blocks.                      *)

\* What is to be shown of a new stack c, given the one before, s.
BlocksOK(c) == Shapes(c) /\ AllBegun(c) /\ OneLineOK(c)

LEMMA CutBlocks ==
  ASSUME NEW N, NEW s \in Seq(StackNodes(N)), NEW k \in DOMAIN s, NEW c, NEW node \in N,
         IsCut(c, s, k, node, N), SuitesOK(s), BlocksOK(s),
         k = Len(s) => s[k].dfa \notin Final
  PROVE  /\ BlocksOK(c)
         /\ Len(c) = k /\ DOMAIN c = 1 .. k
         /\ \A i \in 1 .. k : c[i].dfa = s[i].dfa
         /\ Open(c) = {i \in Open(s) : i <= k}
         /\ \A i \in 1 .. k : IsOneLine(c, i) => IsOneLine(s, i) /\ i < k
         /\ c[k].nodes = Append(s[k].nodes, node)
<1>0. /\ c \in Seq(StackNodes(N)) /\ Len(c) = k
      /\ c[k] = [dfa |-> s[k].dfa, nodes |-> Append(s[k].nodes, node)]
      /\ \A j \in 1 .. k - 1 : c[j] = s[j]
  BY DEF IsCut
<1>1. /\ k \in Nat \ {0} /\ DOMAIN c = 1 .. k /\ 1 .. k \subseteq DOMAIN s /\ k <= Len(s)
      /\ c[k].dfa = s[k].dfa /\ c[k].nodes = Append(s[k].nodes, node)
  BY <1>0
<1>2. s[k] \in StackNodes(N)
  OBVIOUS
<1>3. s[k].dfa \in States /\ s[k].nodes \in Seq(N)
  BY <1>2 DEF StackNodes
<1>4. \A i \in 1 .. k : c[i].dfa = s[i].dfa /\ Suite(c, i) = Suite(s, i)
  BY <1>0, <1>1 DEF Suite
<1>5. ASSUME NEW i \in 1 .. k - 1 PROVE BlockShape(c, i)
  <2>1. i \in DOMAIN s /\ c[i] = s[i] /\ i < Len(s) /\ i < Len(c) /\ i # Len(s)
    BY <1>0, <1>1
  <2>2. BlockShape(s, i)
    BY <2>1 DEF BlocksOK, Shapes
  <2> QED
    BY <2>1, <2>2 DEF BlockShape, Suite
<1>6. BlockShape(c, k)
  <2> SUFFICES ASSUME Suite(c, k), ~AwaitsIndent(c[k].dfa) PROVE BlockShape(c, k)
    BY DEF BlockShape
  <2>1. Suite(s, k) /\ ~AwaitsIndent(s[k].dfa) /\ BlockShape(s, k) /\ SuiteOK(s, k)
    BY <1>1, <1>4 DEF BlocksOK, Shapes, SuitesOK
  <2>2. CASE s[k].dfa \in DOMAIN StmtArc
    <3>1. ~(s[k].dfa \in Final)
      BY <1>3, <2>1, <2>2, SuiteStates DEF Suite
    <3>2. Len(s[k].nodes) >= 2 /\ s[k].nodes[2].type = "INDENT"
      BY <2>1, <2>2, <3>1 DEF BlockShape
    <3>3. Len(c[k].nodes) >= 3 /\ c[k].nodes[2] = s[k].nodes[2]
      BY <1>1, <1>3, <3>2
    <3> QED
      BY <1>0, <1>1, <2>2, <3>2, <3>3 DEF BlockShape
  <2>3. CASE s[k].dfa \notin DOMAIN StmtArc
    <3>1. s[k].dfa \in Final /\ s[k].nodes = <<>>
      BY <1>1, <2>1, <2>3 DEF SuiteOK
    <3>2. Len(c[k].nodes) = 1
      BY <1>1, <1>3, <3>1
    <3> QED
      BY <1>1, <3>1, <3>2 DEF BlockShape
  <2> QED
    BY <2>2, <2>3
<1>7. Shapes(c)
  <2>1. \A i \in DOMAIN c : i \in 1 .. k - 1 \/ i = k
    BY <1>1
  <2> QED
    BY <1>5, <1>6, <2>1 DEF Shapes
<1>8. AllBegun(c)
  BY <1>1, <1>4 DEF AllBegun, BlocksOK
<1>9. \A i \in 1 .. k : IsOneLine(c, i) => IsOneLine(s, i) /\ i < k
  <2> SUFFICES ASSUME NEW i \in 1 .. k, IsOneLine(c, i) PROVE IsOneLine(s, i) /\ i < k
    OBVIOUS
  <2>1. c[k].nodes # <<>>
    BY <1>1, <1>3
  <2>2. i \in 1 .. k - 1
    BY <1>1, <2>1 DEF IsOneLine
  <2> QED
    BY <1>0, <1>4, <2>2 DEF IsOneLine
<1>10. OneLineOK(c)
  BY <1>1, <1>4, <1>9 DEF OneLineOK, BlocksOK
<1>11. Open(c) = {i \in Open(s) : i <= k}
  BY <1>1, <1>4 DEF Open
<1> QED
  BY <1>0, <1>1, <1>4, <1>7, <1>8, <1>9, <1>10, <1>11 DEF BlocksOK

\* Of the suites only one that is open has its state changed without a token.
LEMMA AdvanceBlocks ==
  ASSUME NEW N, stack \in Seq(StackNodes(N)), stack # <<>>, NEW dfa \in States,
         BlocksOK(stack), FromRule[dfa] = FromRule[Top.dfa],
         Suite(stack, Len(stack)) => /\ Len(stack) \in Open(stack) /\ dfa \in DOMAIN StmtArc
                                     /\ Dedents(dfa) /\ Len(Top.nodes) >= 3
                                     /\ Top.nodes[2].type = "INDENT"
  PROVE  LET c == Advance(dfa)
         IN /\ BlocksOK(c) /\ Len(c) = Len(stack) /\ Open(c) = Open(stack)
            /\ DOMAIN c = DOMAIN stack
            /\ \A i \in DOMAIN stack : c[i].nodes = stack[i].nodes
            /\ \A i \in DOMAIN stack : i # Len(stack) => c[i] = stack[i]
            /\ c[Len(stack)].dfa = dfa
            /\ NoOneLine(stack) => NoOneLine(c)
<1> DEFINE c == Advance(dfa)
           m == Len(stack)
<1>1. /\ c \in Seq(StackNodes(N)) /\ Len(c) = m
      /\ c[m] = [dfa |-> dfa, nodes |-> Top.nodes]
      /\ \A j \in 1 .. m - 1 : c[j] = stack[j]
  BY AdvanceFacts
<1>2. Top = stack[m] /\ m \in Nat \ {0} /\ DOMAIN stack = 1 .. m /\ m = Len(stack)
  BY DEF Top
<1>3. stack[m] \in StackNodes(N)
  BY <1>2
<1> HIDE DEF c, m
<1>4. DOMAIN c = DOMAIN stack /\ c[m].dfa = dfa /\ c[m].nodes = stack[m].nodes
  BY <1>1, <1>2
<1>5. \A i \in DOMAIN stack : i # m => c[i] = stack[i] /\ i < m
  BY <1>1, <1>2
<1>6. \A i \in DOMAIN stack : /\ c[i].nodes = stack[i].nodes
                              /\ FromRule[c[i].dfa] = FromRule[stack[i].dfa]
                              /\ Suite(c, i) = Suite(stack, i)
  BY <1>2, <1>4, <1>5 DEF Suite
<1>7. Suite(stack, m) => m \in Open(stack) /\ dfa \in DOMAIN StmtArc /\ Dedents(dfa)
                         /\ Len(stack[m].nodes) >= 3 /\ stack[m].nodes[2].type = "INDENT"
  BY <1>2
<1>8. \A i \in DOMAIN stack : Suite(stack, i) =>
        (c[i].dfa \in DOMAIN StmtArc <=> stack[i].dfa \in DOMAIN StmtArc)
  BY <1>4, <1>5, <1>7 DEF Open
<1>9. Open(c) = Open(stack)
  BY <1>4, <1>6, <1>8 DEF Open
<1>10. Shapes(c)
  <2> SUFFICES ASSUME NEW i \in DOMAIN stack PROVE BlockShape(c, i)
    BY <1>4 DEF Shapes
  <2>1. CASE i = m
    BY <1>4, <1>6, <1>7, <2>1 DEF BlockShape
  <2>2. CASE i # m
    <3>1. c[i] = stack[i] /\ BlockShape(stack, i)
      BY <1>5, <2>2 DEF BlocksOK, Shapes
    <3> QED
      BY <1>1, <1>2, <3>1 DEF BlockShape, Suite
  <2> QED
    BY <2>1, <2>2
<1>11. AllBegun(c)
  BY <1>4, <1>6 DEF AllBegun, BlocksOK
\* An open suite has no final state, so that dfa is none, either.
<1>12. \A i \in DOMAIN stack : IsOneLine(c, i) => IsOneLine(stack, i)
  <2> SUFFICES ASSUME NEW i \in DOMAIN stack, IsOneLine(c, i) PROVE IsOneLine(stack, i)
    OBVIOUS
  <2>1. i # m
    <3> SUFFICES ASSUME i = m PROVE FALSE
      OBVIOUS
    <3>1. Suite(stack, m) /\ dfa \in Final /\ FromRule[dfa] = "suite"
      BY <1>2, <1>4, <1>6 DEF IsOneLine, Suite
    <3> QED
      BY <1>7, <3>1, SuiteStates
  <2> QED
    BY <1>5, <1>6, <2>1 DEF IsOneLine
<1>13. OneLineOK(c)
  BY <1>4, <1>6, <1>12 DEF OneLineOK, BlocksOK
<1>14. NoOneLine(stack) => NoOneLine(c)
  BY <1>4, <1>12 DEF NoOneLine
<1> QED
  BY <1>1, <1>4, <1>5, <1>6, <1>9, <1>10, <1>11, <1>13, <1>14 DEF BlocksOK, c, m

\* What a shift leaves on top of a suite that takes the token itself.
LEMMA ShiftBlocks ==
  ASSUME Inv, BlocksOK(stack), Shift
  PROVE  LET m == Len(stack)
             plan == Transitions[Top.dfa][tok]
         IN /\ BlocksOK(stack')
            /\ DOMAIN stack' = 1 .. Len(stack')
            /\ Open(stack') = IF tok = "INDENT" THEN Open(stack) \cup {m}
                              ELSE IF tok = "DEDENT" THEN Open(stack) \ {m} ELSE Open(stack)
            /\ tok = "INDENT" => AwaitsIndent(Top.dfa) /\ m \notin Open(stack)
            /\ tok = "DEDENT" => m \in Open(stack)
            /\ Fresh(stack') => tok = "INDENT"
            /\ \A i \in 1 .. m - 1 : stack'[i] = stack[i]
            /\ stack'[m].dfa = plan.next /\ FromRule[plan.next] = FromRule[Top.dfa]
            /\ Len(stack') = m + Len(plan.pushes)
<1> DEFINE s == stack
           c == stack'
           t == tok
           leaf == Leaf(t)
           m == Len(s)
           plan == Transitions[s[m].dfa][t]
           q == Len(plan.pushes)
           N == NodesUpTo(count)
<1>a. TypeOK /\ count > 0 /\ BottomOK(s) /\ SuitesOK(s) /\ BlocksOK(s)
  BY DEF Inv, CallsOK, StackOK, Shift
<1>b. /\ s \in Seq(StackNodes(N)) /\ m \in Nat \ {0} /\ m = Len(s)
      /\ Top = s[m] /\ t \in DOMAIN Transitions[s[m].dfa]
  BY <1>a, Typed DEF Top, Shift, HasPlan
<1>c. plan = Transitions[s[m].dfa][t] /\ q = Len(plan.pushes)
  OBVIOUS
<1>d. IsShifted(c, s, plan, leaf, m, q, N)
  BY <1>a, <1>b, ShiftFacts
<1>e. leaf.type = t
  BY DEF Leaf
<1> HIDE DEF s, c, t, leaf, m, plan, N
<1>f. q \in Nat
  BY <1>d DEF IsShifted
<1> HIDE DEF q
<1>1. /\ plan.next \in States /\ plan.pushes \in Seq(States)
      /\ c \in Seq(StackNodes(N)) /\ Len(c) = m + q
      /\ \A i \in 1 .. m - 1 : c[i] = s[i]
      /\ c[m].dfa = plan.next
  BY <1>d DEF IsShifted
<1>2. /\ q = 0 => c[m].nodes = Append(s[m].nodes, leaf)
      /\ q > 0 => c[m].nodes = s[m].nodes /\ c[m + q].nodes = <<leaf>>
      /\ \A j \in 1 .. q : c[m + j].dfa = plan.pushes[j]
      /\ \A j \in 1 .. q - 1 : c[m + j].nodes = <<>>
  BY <1>d DEF IsShifted
<1>3. s[m] \in StackNodes(N) /\ m \in DOMAIN s /\ DOMAIN s = 1 .. m /\ DOMAIN c = 1 .. m + q
  BY <1>b, <1>f, <1>1
<1>4. s[m].dfa \in States /\ s[m].nodes \in Seq(N) /\ m \in Nat \ {0}
  BY <1>3, <1>b DEF StackNodes
<1>5. FromRule[plan.next] = FromRule[s[m].dfa] /\ DOMAIN plan.pushes = 1 .. q
  BY <1>1, <1>4, <1>b, <1>c, SuiteAssumption
\* Where the node is that i stands for.
<1>6. ASSUME NEW i \in 1 .. m + q
      PROVE  i \in 1 .. m - 1 \/ i = m \/ (i - m \in 1 .. q /\ m + (i - m) = i)
  BY <1>4, <1>f
\* A suite that begins is of one line, or awaits its INDENT.
<1>7. ASSUME NEW j \in 1 .. q, FromRule[plan.pushes[j]] = "suite"
      PROVE  IF j < q THEN plan.pushes[j] \in Final ELSE AwaitsIndent(plan.pushes[j])
  BY <1>4, <1>5, <1>7, <1>b, <1>c, SuiteAssumption
<1>8. ASSUME NEW j \in 1 .. q
      PROVE  /\ c[m + j].dfa = plan.pushes[j] /\ plan.pushes[j] \in States
             /\ Suite(c, m + j) => plan.pushes[j] \notin DOMAIN StmtArc
  <2>1. c[m + j].dfa = plan.pushes[j]
    BY <1>2
  <2>2. plan.pushes[j] \in States
    <3> DEFINE pushes == plan.pushes
    <3>1. pushes \in Seq(States) /\ j \in DOMAIN pushes
      BY <1>1, <1>5
    <3> HIDE DEF pushes
    <3>2. pushes[j] \in States
      BY <3>1
    <3> QED
      BY <3>2 DEF pushes
  <2>3. ASSUME Suite(c, m + j) PROVE plan.pushes[j] \notin DOMAIN StmtArc
    <3>1. FromRule[plan.pushes[j]] = "suite"
      BY <2>1, <2>3 DEF Suite
    <3>2. plan.pushes[j] \in Final \/ AwaitsIndent(plan.pushes[j])
      BY <1>7, <3>1
    <3> QED
      BY <2>2, <3>1, <3>2, SuiteStates
  <2> QED
    BY <2>1, <2>2, <2>3
\* The suite on top, if the token belongs to it.
<1>9. t \in {"INDENT", "DEDENT"} => Suite(s, m)
  BY <1>4, <1>b, BlockAssumption DEF Suite
<1>10. ASSUME Suite(s, m)
       PROVE  \/ /\ AwaitsIndent(s[m].dfa) /\ t = "INDENT" /\ q = 0
                 /\ Len(s[m].nodes) = 1
                 /\ plan.next \in DOMAIN StmtArc /\ ~Dedents(plan.next)
              \/ /\ s[m].dfa \in DOMAIN StmtArc /\ t = "DEDENT" /\ q = 0
                 /\ Len(s[m].nodes) >= 3 /\ s[m].nodes[2].type = "INDENT"
                 /\ plan.next \in Final
              \/ /\ s[m].dfa \in DOMAIN StmtArc /\ t \notin {"INDENT", "DEDENT"} /\ q > 0
                 /\ Len(s[m].nodes) >= 2 /\ s[m].nodes[2].type = "INDENT"
                 /\ plan.next \in DOMAIN StmtArc /\ Dedents(plan.next)
  <2>0. FromRule[s[m].dfa] = "suite" /\ SuiteOK(s, m) /\ BlockShape(s, m)
    BY <1>10, <1>3, <1>a DEF Suite, SuitesOK, BlocksOK, Shapes
  <2>1. s[m].dfa \notin Final
    BY <1>4, <1>b, <2>0, SuiteAssumption
  <2>2. CASE AwaitsIndent(s[m].dfa)
    <3>1. t = "INDENT" /\ plan.pushes = <<>> /\ plan.next \in DOMAIN StmtArc
      BY <1>4, <1>b, <1>c, <2>0, <2>2, SuiteAssumption
    <3>2. q = 0 /\ ~Dedents(plan.next)
      BY <1>4, <1>c, <2>2, <3>1, BlockAssumption
    <3>3. Len(s[m].nodes) = 1
      <4>1. s[m].dfa \notin DOMAIN StmtArc
        BY <1>4, <2>0, <2>2, SuiteStates
      <4> QED
        BY <1>10, <2>0, <2>1, <4>1 DEF SuiteOK
    <3> QED
      BY <2>2, <3>1, <3>2, <3>3
  <2>3. CASE ~AwaitsIndent(s[m].dfa)
    <3>1. s[m].dfa \in DOMAIN StmtArc /\ t # "INDENT"
      BY <1>10, <1>b, <2>0, <2>1, <2>3 DEF SuiteOK, AwaitsIndent
    <3>2. IF t = "DEDENT" THEN plan.pushes = <<>> /\ plan.next \in Final
                          ELSE plan.pushes # <<>> /\ plan.next \in DOMAIN StmtArc
      BY <1>4, <1>b, <1>c, <2>0, <3>1, SuiteAssumption
    <3>3. t # "DEDENT" => Dedents(plan.next)
      BY <1>4, <1>b, <1>c, <2>0, <3>1, BlockAssumption
    <3>4. /\ Len(s[m].nodes) >= 2 /\ s[m].nodes[2].type = "INDENT"
          /\ Dedents(s[m].dfa) => Len(s[m].nodes) >= 3
      BY <1>10, <1>b, <1>4, <2>0, <2>1, <2>3 DEF BlockShape
    <3>5. t = "DEDENT" => Dedents(s[m].dfa)
      BY <1>b DEF Dedents
    <3>6. IF t = "DEDENT" THEN q = 0 ELSE q > 0
      BY <1>1, <1>c, <1>f, <3>2
    <3> QED
      BY <3>1, <3>2, <3>3, <3>4, <3>5, <3>6
  <2> QED
    BY <2>2, <2>3
<1>11. Suite(c, m) = Suite(s, m)
  BY <1>1, <1>5 DEF Suite
<1>12. ASSUME NEW i \in 1 .. m + q PROVE BlockShape(c, i)
  <2>1. CASE i \in 1 .. m - 1
    <3>1. c[i] = s[i] /\ i \in DOMAIN s /\ i < Len(s) /\ i < Len(c) /\ i # Len(s)
      BY <1>1, <1>3, <1>4, <1>b, <1>f, <2>1
    <3>2. BlockShape(s, i)
      BY <1>a, <3>1 DEF BlocksOK, Shapes
    <3> QED
      BY <3>1, <3>2 DEF BlockShape, Suite
  <2>2. CASE i = m /\ Suite(s, m)
    <3>1. CASE t = "INDENT"
      <4>0. q = 0 /\ Len(s[m].nodes) = 1
        BY <1>10, <2>2, <3>1
      <4>1. c[m].nodes = Append(s[m].nodes, leaf) /\ Len(c) = m
        BY <1>1, <1>2, <1>4, <4>0
      <4> DEFINE nodes == s[m].nodes
      <4>2. nodes \in Seq(N) /\ Len(nodes) = 1
        BY <1>4, <4>0
      <4> HIDE DEF nodes
      <4>3. Len(Append(nodes, leaf)) = 2 /\ Append(nodes, leaf)[Len(nodes) + 1] = leaf
        BY <4>2
      <4>4. Len(Append(s[m].nodes, leaf)) = 2 /\ Append(s[m].nodes, leaf)[2] = leaf
        BY <4>2, <4>3 DEF nodes
      <4>5. Len(c[m].nodes) = 2 /\ c[m].nodes[2] = leaf /\ Len(c) = m
        BY <4>1, <4>4
      <4> QED
        BY <1>1, <1>10, <1>e, <2>2, <3>1, <4>5 DEF BlockShape
    <3>2. CASE t = "DEDENT"
      <4>1. /\ Len(c[m].nodes) >= 4 /\ c[m].nodes[2] = s[m].nodes[2] /\ LastOf(c[m].nodes) = leaf
        BY <1>2, <1>4, <1>10, <2>2, <3>2 DEF LastOf
      <4> QED
        BY <1>1, <1>10, <1>e, <2>2, <3>2, <4>1 DEF BlockShape
    <3>3. CASE t \notin {"INDENT", "DEDENT"}
      <4>1. c[m].nodes = s[m].nodes /\ m < Len(c)
        BY <1>1, <1>2, <1>4, <1>f, <1>10, <2>2, <3>3
      <4> QED
        BY <1>1, <1>10, <2>2, <3>3, <4>1 DEF BlockShape
    <3> QED
      BY <3>1, <3>2, <3>3
  <2>3. CASE i = m /\ ~Suite(s, m)
    BY <1>11, <2>3 DEF BlockShape
  <2>4. CASE i - m \in 1 .. q /\ m + (i - m) = i
    <3> DEFINE j == i - m
    <3> SUFFICES ASSUME Suite(c, i) PROVE BlockShape(c, i)
      BY DEF BlockShape
    <3>1. c[i].dfa = plan.pushes[j] /\ FromRule[plan.pushes[j]] = "suite" /\ j \in 1 .. q
      BY <1>8, <2>4 DEF Suite
    <3>2. CASE j < q
      <4>1. c[i].nodes = <<>> /\ Len(<<>>) <= 1
        BY <1>2, <1>f, <2>4, <3>1, <3>2
      <4> QED
        BY <1>7, <3>1, <3>2, <4>1 DEF BlockShape
    <3>3. CASE ~(j < q)
      BY <1>7, <3>1, <3>3 DEF BlockShape
    <3> QED
      BY <3>2, <3>3
  <2> QED
    BY <1>6, <2>1, <2>2, <2>3, <2>4
<1>13. Shapes(c)
  BY <1>3, <1>12 DEF Shapes
<1>14. AllBegun(c)
  <2> SUFFICES ASSUME NEW i \in 1 .. m + q, i > 1 PROVE Begun(FromRule[c[i].dfa])
    BY <1>3 DEF AllBegun
  <2>1. CASE i \in 1 .. m
    <3>1. FromRule[c[i].dfa] = FromRule[s[i].dfa]
      BY <1>1, <1>4, <1>5, <2>1
    <3> QED
      BY <1>3, <1>a, <2>1, <3>1 DEF BlocksOK, AllBegun
  <2>2. CASE i - m \in 1 .. q /\ m + (i - m) = i
    <3>1. c[i].dfa = plan.pushes[i - m] /\ i - m \in DOMAIN plan.pushes
      BY <1>5, <1>8, <2>2
    <3> QED
      BY <1>4, <1>b, <1>c, <3>1 DEF Begun
  <2> QED
    BY <1>4, <1>6, <2>1, <2>2
\* A suite of one line is pushed with its simple_stmt, or was there before.
<1>15. OneLineOK(c)
  <2> SUFFICES ASSUME NEW i \in 1 .. m + q, NEW j \in 1 .. m + q, i < j, IsOneLine(c, i)
               PROVE  FromRule[c[j].dfa] \in OneLineRules
    BY <1>3 DEF OneLineOK
  <2>1. CASE i \in 1 .. m - 1
    <3>1. IsOneLine(s, i) /\ i \in DOMAIN s /\ m \in DOMAIN s /\ i < m
      BY <1>1, <1>3, <1>4, <2>1 DEF IsOneLine, Suite
    <3>2. FromRule[s[m].dfa] \in OneLineRules
      BY <1>a, <3>1 DEF BlocksOK, OneLineOK
    <3>3. CASE j \in 1 .. m - 1
      BY <1>1, <1>3, <1>4, <1>a, <3>1, <3>3 DEF BlocksOK, OneLineOK
    <3>4. CASE j = m
      BY <1>1, <1>5, <3>2, <3>4
    <3>5. CASE j - m \in 1 .. q /\ m + (j - m) = j
      <4>1. c[j].dfa = plan.pushes[j - m] /\ j - m \in DOMAIN plan.pushes
        BY <1>5, <1>8, <3>5
      <4> QED
        BY <1>4, <1>b, <1>c, <3>2, <4>1, OneLineFacts DEF Closed
    <3> QED
      BY <1>6, <3>3, <3>4, <3>5
  <2>2. CASE i = m
    <3>1. Suite(s, m) /\ plan.next \in Final /\ c[m].nodes = <<>> /\ q > 0
      BY <1>1, <1>11, <1>f, <1>4, <2>2 DEF IsOneLine
    <3>2. c[m].nodes = s[m].nodes /\ Len(s[m].nodes) >= 2
      BY <1>2, <1>10, <3>1
    <3> QED
      BY <3>1, <3>2
  <2>3. CASE i - m \in 1 .. q /\ m + (i - m) = i
    <3>1. j - m \in 1 .. q /\ m + (j - m) = j /\ i - m < j - m
      BY <1>4, <1>f, <2>3
    <3>2. /\ c[i].dfa = plan.pushes[i - m] /\ c[j].dfa = plan.pushes[j - m]
          /\ i - m \in DOMAIN plan.pushes /\ j - m \in DOMAIN plan.pushes
      BY <1>5, <1>8, <2>3, <3>1
    <3>3. FromRule[plan.pushes[i - m]] = "suite"
      BY <3>2 DEF IsOneLine, Suite
    <3> QED
      BY <1>4, <1>b, <1>c, <3>1, <3>2, <3>3, OneLineFacts DEF HasOneLineRules
  <2> QED
    BY <1>6, <2>1, <2>2, <2>3
<1>16. /\ \A i \in 1 .. m - 1 : i \in Open(c) <=> i \in Open(s)
       /\ \A i \in Open(c) : i \in 1 .. m
       /\ \A i \in Open(s) : i \in 1 .. m
  <2>1. \A i \in 1 .. m - 1 : i \in Open(c) <=> i \in Open(s)
    BY <1>1, <1>3, <1>4, <1>f DEF Open, Suite
  <2>2. ASSUME NEW i \in Open(c) PROVE i \in 1 .. m
    <3>1. i \in 1 .. m + q /\ Suite(c, i) /\ c[i].dfa \in DOMAIN StmtArc
      BY <1>3 DEF Open
    <3>2. ~(i - m \in 1 .. q /\ m + (i - m) = i)
      BY <1>8, <3>1
    <3> QED
      BY <1>4, <1>6, <3>1, <3>2
  <2> QED
    BY <1>3, <2>1, <2>2 DEF Open
<1>17. m \in Open(c) <=> Suite(s, m) /\ plan.next \in DOMAIN StmtArc
  BY <1>1, <1>3, <1>4, <1>f, <1>11 DEF Open
<1>18. m \in Open(s) <=> Suite(s, m) /\ s[m].dfa \in DOMAIN StmtArc
  BY <1>3 DEF Open
<1>19. Suite(s, m) => /\ ~(AwaitsIndent(s[m].dfa) /\ s[m].dfa \in DOMAIN StmtArc)
                      /\ ~(plan.next \in DOMAIN StmtArc /\ plan.next \in Final)
  BY <1>1, <1>4, <1>5, SuiteStates DEF Suite
<1>z. \A i : i \in 1 .. m => i \in 1 .. m - 1 \/ i = m
  BY <1>4
<1>20. ASSUME m \in Open(c) PROVE Open(c) = (Open(s) \ {m}) \cup {m}
  BY <1>16, <1>20, <1>z
<1>21. ASSUME m \notin Open(c) PROVE Open(c) = Open(s) \ {m}
  BY <1>16, <1>21, <1>z
<1>22. /\ t = "INDENT" => m \in Open(c) /\ m \notin Open(s) /\ AwaitsIndent(s[m].dfa)
       /\ t = "DEDENT" => m \notin Open(c) /\ m \in Open(s)
       /\ t \notin {"INDENT", "DEDENT"} => (m \in Open(c) <=> m \in Open(s))
  BY <1>9, <1>10, <1>17, <1>18, <1>19
<1>23. /\ Open(c) = IF t = "INDENT" THEN Open(s) \cup {m}
                    ELSE IF t = "DEDENT" THEN Open(s) \ {m} ELSE Open(s)
       /\ t = "INDENT" => AwaitsIndent(s[m].dfa) /\ m \notin Open(s)
       /\ t = "DEDENT" => m \in Open(s)
  BY <1>20, <1>21, <1>22
<1>24. ASSUME Fresh(c) PROVE t = "INDENT"
  <2>1. m + q \in Open(c) /\ ~Dedents(c[m + q].dfa)
    BY <1>1, <1>24 DEF Fresh
  <2>2. q = 0 /\ Suite(s, m) /\ plan.next \in DOMAIN StmtArc /\ ~Dedents(plan.next)
    BY <1>1, <1>4, <1>f, <1>16, <1>17, <2>1
  <2> QED
    BY <1>10, <1>19, <2>2
<1>25. BlocksOK(c)
  BY <1>13, <1>14, <1>15 DEF BlocksOK
<1>26. DOMAIN c = 1 .. Len(c)
  BY <1>1, <1>3
<1>27. /\ \A i \in 1 .. m - 1 : c[i] = s[i]
       /\ c[m].dfa = plan.next /\ FromRule[plan.next] = FromRule[s[m].dfa]
       /\ Len(c) = m + q
  BY <1>1, <1>5
<1> QED
  BY <1>b, <1>23, <1>24, <1>25, <1>26, <1>27 DEF s, c, t, m, plan, q

-----------------------------------------------------------------------------
(* The steps.                                                               *)

LEMMA BlockTyped ==
  ASSUME BlockInv
  PROVE  /\ TypeOK /\ StackOK /\ CallsOK /\ BottomOK(stack) /\ TopOK(stack) /\ SuitesOK(stack)
         /\ BlocksOK(stack) /\ FreshOK /\ LevelsOK /\ EndOK /\ RecoveryOK
         /\ stack \in Seq(StackNodes(NodesUpTo(count))) /\ stack # <<>>
         /\ Len(stack) \in Nat \ {0} /\ DOMAIN stack = 1 .. Len(stack) /\ Len(stack) \in DOMAIN stack
         /\ Top = stack[Len(stack)] /\ Top \in StackNodes(NodesUpTo(count)) /\ Top.dfa \in States
         /\ count \in Nat /\ depth \in Nat /\ pending \in Nat
         /\ omit \in Seq(Int) /\ Len(omit) \in Nat /\ DOMAIN omit = 1 .. Len(omit)
         /\ IsFiniteSet(Open(stack)) /\ Cardinality(Open(stack)) \in Nat
<1>1. /\ TypeOK /\ StackOK /\ CallsOK /\ BottomOK(stack) /\ TopOK(stack) /\ SuitesOK(stack)
      /\ BlocksOK(stack) /\ FreshOK /\ LevelsOK /\ EndOK /\ RecoveryOK
  BY DEF BlockInv, Inv, StackOK, BlocksOK
<1>2. /\ stack \in Seq(StackNodes(NodesUpTo(count))) /\ stack # <<>>
      /\ Len(stack) \in Nat \ {0} /\ Len(stack) \in DOMAIN stack
      /\ Top \in StackNodes(NodesUpTo(count)) /\ count \in Nat
  BY <1>1, Typed
<1>3. Top.dfa \in States
  BY <1>2 DEF StackNodes
<1>4. IsFiniteSet(Open(stack)) /\ Cardinality(Open(stack)) \in Nat
  BY <1>2, OpenFinite
<1>5. /\ depth \in Nat /\ pending \in Nat
      /\ omit \in Seq(Int) /\ Len(omit) \in Nat /\ DOMAIN omit = 1 .. Len(omit)
  BY <1>1 DEF TypeOK, StreamTypeOK
<1>6. DOMAIN stack = 1 .. Len(stack)
  BY <1>2
<1> QED
  BY <1>1, <1>2, <1>3, <1>4, <1>5, <1>6 DEF Top

\* A block on the stack is open, or file_input, or of one line.
LEMMA BlockKinds ==
  ASSUME BlockInv, NEW i \in DOMAIN stack, IsBlock(stack[i])
  PROVE  \/ FromRule[stack[i].dfa] = "file_input" /\ i = 1
         \/ i \in Open(stack)
         \/ IsOneLine(stack, i) /\ i < Len(stack)
         \/ i = Len(stack) /\ Top.dfa \in Final
<1>1. /\ DOMAIN stack = 1 .. Len(stack) /\ Len(stack) \in Nat \ {0} /\ AllBegun(stack)
      /\ SuiteOK(stack, i) /\ Top = stack[Len(stack)]
  BY BlockTyped DEF SuitesOK, BlocksOK
<1>2. CASE FromRule[stack[i].dfa] = "file_input"
  <2>1. i = 1
    BY <1>1, <1>2, BottomOnly
  <2> QED
    BY <1>2, <2>1
<1>3. CASE Suite(stack, i) /\ Len(stack[i].nodes) # 1
  BY <1>1, <1>3 DEF SuiteOK, Open, IsOneLine
<1> QED
  BY <1>2, <1>3 DEF IsBlock, Suite

\* Recovery has something to remove, or the block is on top; then the token is
\* none that only a block takes.
LEMMA ErrorLeafFacts ==
  ASSUME BlockInv, Unrecovered, ~NodesRemoved(UntilIndex + 1)
  PROVE  /\ UntilIndex = Len(stack) /\ Settled(stack)
         /\ tok \notin {"DEDENT", "ENDMARKER"}
<1> DEFINE u == UntilIndex
           m == Len(stack)
<1>1. /\ pc = "add" /\ ~HasPlan /\ Top.dfa \notin Final
  BY DEF Unrecovered, InError
<1>2. /\ stack # <<>> /\ BottomOK(stack) /\ TopOK(stack) /\ m \in Nat \ {0}
      /\ DOMAIN stack = 1 .. m /\ m \in DOMAIN stack /\ Top = stack[m] /\ Top.dfa \in States
      /\ stack \in Seq(StackNodes(NodesUpTo(count)))
      /\ FreshOK
  BY BlockTyped
<1>3. u \in DOMAIN stack /\ IsBlock(stack[u])
  BY <1>2, UntilFacts
<1>4. u = m
  <2> SUFFICES ASSUME u # m PROVE FALSE
    OBVIOUS
  <2>1. u < m /\ m > 1
    BY <1>2, <1>3
  <2>2. stack[m].nodes # <<>> /\ m \in u + 1 .. m
    BY <1>2, <1>3, <2>1 DEF TopOK
  <2> QED
    BY <2>2 DEF NodesRemoved
<1> HIDE DEF u, m
<1>5. (FromRule[Top.dfa] = "file_input" /\ m = 1) \/ m \in Open(stack)
  BY <1>1, <1>2, <1>3, <1>4, BlockKinds DEF m
<1>6. Settled(stack)
  BY <1>2, <1>5 DEF Settled, m
<1>7. m = 1 /\ FromRule[Top.dfa] = "file_input" => Open(stack) = {}
  BY <1>2 DEF Open, Suite
<1>8. ASSUME tok = "DEDENT" PROVE FALSE
  <2>1. Open(stack) # {}
    BY <1>1, <1>8, DedentHasBlock
  <2>2. m \in Open(stack)
    BY <1>5, <1>7, <2>1
  <2>3. ~Dedents(Top.dfa)
    BY <1>1, <1>8 DEF HasPlan, Dedents
  <2>4. Fresh(stack)
    BY <1>2, <2>2, <2>3 DEF Fresh, m
  <2>5. tok \in TextTokens
    BY <1>1, <1>2, <2>4 DEF FreshOK
  <2> QED
    BY <1>8, <2>5, TokenAssumption DEF VirtualTokens
<1>9. ASSUME tok = "ENDMARKER" PROVE FALSE
  <2>1. Open(stack) = {}
    BY <1>1, <1>9, EndHasNoBlock
  <2>2. FromRule[Top.dfa] = "file_input"
    BY <1>5, <2>1
  <2>3. "ENDMARKER" \in DOMAIN Transitions[Top.dfa]
    BY <1>1, <1>2, <2>2, EndAssumption
  <2> QED
    BY <1>1, <1>9, <2>3 DEF HasPlan
<1> QED
  BY <1>4, <1>6, <1>8, <1>9 DEF u, m

\* The tokens of the stream, and what they do to its depth.
LEMMA YieldFacts ==
  ASSUME StreamTypeOK, NEW t \in Tokens, Yield(t)
  PROVE  /\ last # "ENDMARKER" /\ last' = t
         /\ depth' = depth + IndentChange(t)
         /\ t = "DEDENT" => depth > 0
         /\ t = "ENDMARKER" => depth = 0
         /\ last = "INDENT" => t \in TextTokens
<1>1. depth \in Nat
  BY DEF StreamTypeOK
<1>2. t \in TextTokens => t \notin {"INDENT", "DEDENT", "ERROR_DEDENT", "ENDMARKER"}
  BY TokenAssumption DEF VirtualTokens
<1>3. last # "ENDMARKER"
  BY DEF Yield, Promised
<1>4. \/ t = "INDENT" /\ YieldIndent
      \/ t = "DEDENT" /\ YieldDedent
      \/ t = "ERROR_DEDENT" /\ YieldErrorDedent
      \/ t \in TextTokens /\ YieldText(t)
      \/ t = "ENDMARKER" /\ YieldEndmarker
  BY DEF Yield, Promised
<1>5. CASE t = "INDENT" /\ YieldIndent
  BY <1>1, <1>3, <1>5 DEF YieldIndent, IndentChange
<1>6. CASE t = "DEDENT" /\ YieldDedent
  BY <1>1, <1>3, <1>6 DEF YieldDedent, IndentChange
<1>7. CASE t = "ERROR_DEDENT" /\ YieldErrorDedent
  BY <1>1, <1>3, <1>7 DEF YieldErrorDedent, IndentChange
<1>8. CASE t \in TextTokens /\ YieldText(t)
  BY <1>1, <1>2, <1>3, <1>8 DEF YieldText, IndentChange
<1>9. CASE t = "ENDMARKER" /\ YieldEndmarker
  BY <1>1, <1>3, <1>9 DEF YieldEndmarker, IndentChange
<1> QED
  BY <1>4, <1>5, <1>6, <1>7, <1>8, <1>9

LEMMA PullBlocks ==
  ASSUME BlockInv, Inv', NEW t \in Tokens, PullToken(t)
  PROVE  BlockInv'
<1>1. /\ pc = "pull" /\ pc' = "add" /\ tok' = t
      /\ UNCHANGED <<stack, pending, omit>>
      /\ indentCounter' = IF ErrorRecovery THEN indentCounter + IndentChange(t) ELSE indentCounter
      /\ t = "DEDENT" => ~(ErrorRecovery /\ OmitsDedent)
  BY DEF PullToken
<1>2. /\ BlocksOK(stack) /\ FreshOK /\ LevelsOK /\ EndOK /\ RecoveryOK /\ StreamTypeOK
      /\ depth \in Nat /\ pending \in Nat /\ stack # <<>>
      /\ omit \in Seq(Int) /\ Len(omit) \in Nat /\ DOMAIN omit = 1 .. Len(omit)
      /\ Cardinality(Open(stack)) \in Nat
  BY BlockTyped DEF TypeOK
<1>3. /\ last # "ENDMARKER" /\ last' = t /\ depth' = depth + IndentChange(t)
      /\ t = "DEDENT" => depth > 0
      /\ t = "ENDMARKER" => depth = 0
      /\ last = "INDENT" => t \in TextTokens
  BY <1>2, YieldFacts DEF PullToken
<1>4. IndentChange(t) \in Int /\ (t = "ENDMARKER" => IndentChange(t) = 0)
  BY DEF IndentChange
<1>5. FreshOK'
  BY <1>1, <1>2, <1>3 DEF FreshOK
<1>6. EndOK'
  BY <1>1, <1>2, <1>3, <1>4 DEF EndOK
<1>7. RecoveryOK'
  BY <1>1, <1>2 DEF RecoveryOK
<1>8. LevelsOK'
  <2>1. /\ Cardinality(Open(stack)) + Len(omit) + 0 = depth
        /\ \A i \in DOMAIN omit : i <= omit[i] /\ omit[i] <= depth
        /\ \A i, j \in DOMAIN omit : i < j => omit[i] < omit[j]
        /\ IF ErrorRecovery THEN indentCounter = depth ELSE omit = <<>>
    BY <1>1, <1>2 DEF LevelsOK, InFlight, OmitTop
  <2>2. InFlight' = IndentChange(t)
    BY <1>1 DEF InFlight
  <2>3. Cardinality(Open(stack)) + Len(omit) + IndentChange(t) = depth + IndentChange(t)
    BY <1>2, <1>4, <2>1
  <2>4. ASSUME NEW i \in DOMAIN omit PROVE i <= omit[i] /\ omit[i] <= OmitTop'
    <3>1. omit[i] \in Int /\ i <= omit[i] /\ omit[i] <= depth
      BY <1>2, <2>1
    <3>2. CASE t = "INDENT"
      BY <1>1, <1>2, <1>3, <3>1, <3>2 DEF OmitTop, IndentChange
    \* The innermost omitted level is not the one the DEDENT closes.
    <3>3. CASE t = "DEDENT"
      <4>1. OmitTop' = depth - 1 /\ ErrorRecovery
        BY <1>1, <1>2, <1>3, <2>1, <3>3 DEF OmitTop, IndentChange
      <4>2. Len(omit) \in DOMAIN omit /\ omit # <<>>
        BY <1>2
      <4>3. omit[Len(omit)] # depth /\ omit[Len(omit)] <= depth /\ omit[Len(omit)] \in Int
        BY <1>1, <1>2, <2>1, <3>3, <4>1, <4>2 DEF OmitsDedent
      <4>4. i = Len(omit) \/ omit[i] < omit[Len(omit)]
        BY <1>2, <2>1, <4>2
      <4> QED
        BY <1>2, <3>1, <4>1, <4>3, <4>4
    <3>4. CASE t \notin {"INDENT", "DEDENT"}
      BY <1>1, <1>2, <1>3, <3>1, <3>4 DEF OmitTop, IndentChange
    <3> QED
      BY <3>2, <3>3, <3>4
  <2>5. IF ErrorRecovery THEN indentCounter' = depth' ELSE omit' = <<>>
    BY <1>1, <1>3, <2>1
  <2> QED
    BY <1>1, <1>3, <2>1, <2>2, <2>3, <2>4, <2>5 DEF LevelsOK
<1> QED
  BY <1>1, <1>2, <1>5, <1>6, <1>7, <1>8 DEF BlockInv, BlocksOK

LEMMA OmitBlocks ==
  ASSUME BlockInv, Inv', OmitDedent
  PROVE  BlockInv'
<1> DEFINE n == Len(omit)
<1>1. /\ pc = "pull" /\ ErrorRecovery /\ omit # <<>> /\ omit[n] = indentCounter
      /\ omit' = SubSeq(omit, 1, n - 1) /\ indentCounter' = indentCounter - 1
      /\ UNCHANGED <<stack, tok, pc, pending, text>>
  BY DEF OmitDedent, OmitsDedent
<1>2. /\ BlocksOK(stack) /\ FreshOK /\ LevelsOK /\ EndOK /\ RecoveryOK /\ StreamTypeOK
      /\ depth \in Nat /\ stack # <<>>
      /\ omit \in Seq(Int) /\ n \in Nat /\ DOMAIN omit = 1 .. n
      /\ Cardinality(Open(stack)) \in Nat
  BY BlockTyped DEF TypeOK
<1>3. /\ last # "ENDMARKER" /\ last' = "DEDENT" /\ depth' = depth - 1 /\ depth > 0
      /\ last # "INDENT"
  <2>1. "DEDENT" \in Tokens /\ "DEDENT" \notin TextTokens
    BY TokenAssumption DEF Tokens, VirtualTokens
  <2>2. IndentChange("DEDENT") = -1
    BY DEF IndentChange
  <2>3. /\ last # "ENDMARKER" /\ last' = "DEDENT" /\ depth' = depth + (-1) /\ depth > 0
        /\ last # "INDENT"
    BY <1>2, <2>1, <2>2, YieldFacts DEF OmitDedent
  <2> QED
    BY <1>2, <2>3
<1>4. /\ Cardinality(Open(stack)) + n + 0 = depth
      /\ \A i \in DOMAIN omit : i <= omit[i] /\ omit[i] <= depth
      /\ \A i, j \in DOMAIN omit : i < j => omit[i] < omit[j]
      /\ indentCounter = depth
  BY <1>1, <1>2 DEF LevelsOK, InFlight, OmitTop
<1>5. /\ n \in DOMAIN omit /\ n > 0
      /\ Len(omit') = n - 1 /\ DOMAIN omit' = 1 .. n - 1
      /\ \A i \in 1 .. n - 1 : omit'[i] = omit[i]
  BY <1>1, <1>2
<1> HIDE DEF n
<1>6. ASSUME NEW i \in 1 .. n - 1
      PROVE  i <= omit'[i] /\ omit'[i] <= depth - 1
  <2>1. i \in DOMAIN omit /\ i < n
    BY <1>2, <1>5
  <2>2. omit[i] \in Int /\ omit[n] \in Int /\ omit[i] < omit[n] /\ omit[n] <= depth /\ i <= omit[i]
    BY <1>2, <1>4, <1>5, <2>1
  <2> QED
    BY <1>2, <1>5, <2>2
<1>7. LevelsOK'
  <2>1. InFlight' = 0 /\ OmitTop' = depth - 1
    BY <1>1, <1>3 DEF InFlight, OmitTop
  <2>2. Cardinality(Open(stack)) + (n - 1) + 0 = depth - 1
    BY <1>2, <1>4
  <2>3. \A i, j \in 1 .. n - 1 : i < j => omit'[i] < omit'[j]
    BY <1>2, <1>4, <1>5
  <2> QED
    BY <1>1, <1>3, <1>4, <1>5, <1>6, <2>1, <2>2, <2>3 DEF LevelsOK
<1>8. FreshOK'
  BY <1>1, <1>2, <1>3 DEF FreshOK
<1>9. EndOK'
  BY <1>1, <1>2, <1>3 DEF EndOK
<1>10. RecoveryOK'
  BY <1>1, <1>2 DEF RecoveryOK
<1> QED
  BY <1>1, <1>2, <1>7, <1>8, <1>9, <1>10 DEF BlockInv, BlocksOK

\* The steps that leave the stack alone and only move on.
LEMMA MoveBlocks ==
  ASSUME BlockInv, Inv', TokensExhausted \/ RaiseSyntaxError
  PROVE  BlockInv'
<1>1. /\ UNCHANGED <<streamVars, stack, tok, pending, omit, indentCounter, text>>
      /\ \/ pc = "pull" /\ pc' = "finish" /\ last = "ENDMARKER"
         \/ pc = "add" /\ pc' = "raised" /\ ~ErrorRecovery
  BY DEF TokensExhausted, RaiseSyntaxError, Unrecovered, InError
<1>2. /\ BlocksOK(stack) /\ FreshOK /\ LevelsOK /\ EndOK /\ RecoveryOK
      /\ BottomOK(stack) /\ DOMAIN stack = 1 .. Len(stack)
  BY BlockTyped
<1>3. pc' = "finish" => ~Fresh(stack)
  BY <1>1, <1>2 DEF EndOK, Fresh, Open, Suite, BottomOK
<1>4. FreshOK'
  BY <1>1, <1>3 DEF FreshOK
<1>5. LevelsOK'
  BY <1>1, <1>2 DEF LevelsOK, InFlight, OmitTop, streamVars
<1>6. EndOK'
  BY <1>1, <1>2 DEF EndOK, streamVars
<1>7. RecoveryOK'
  BY <1>1, <1>2 DEF RecoveryOK
<1> QED
  BY <1>1, <1>2, <1>4, <1>5, <1>6, <1>7 DEF BlockInv, BlocksOK

LEMMA ShiftStepBlocks ==
  ASSUME BlockInv, Inv', Shift
  PROVE  BlockInv'
<1> DEFINE m == Len(stack)
           plan == Transitions[Top.dfa][tok]
           q == Len(plan.pushes)
<1>1. /\ pc = "add" /\ tok \in DOMAIN Transitions[Top.dfa]
      /\ pc' = IF pending > 0 THEN "fixup" ELSE "pull"
      /\ UNCHANGED <<streamVars, tok, pending, omit, indentCounter, text>>
  BY DEF Shift, HasPlan, Return
<1>2. /\ BlocksOK(stack) /\ FreshOK /\ LevelsOK /\ EndOK /\ RecoveryOK
      /\ m \in Nat \ {0} /\ DOMAIN stack = 1 .. m /\ m \in DOMAIN stack
      /\ Top = stack[m] /\ Top.dfa \in States /\ BottomOK(stack)
      /\ depth \in Nat /\ pending \in Nat
      /\ omit \in Seq(Int) /\ Len(omit) \in Nat /\ DOMAIN omit = 1 .. Len(omit)
      /\ IsFiniteSet(Open(stack)) /\ Cardinality(Open(stack)) \in Nat
  BY BlockTyped
<1>3. /\ BlocksOK(stack')
      /\ DOMAIN stack' = 1 .. Len(stack')
      /\ Open(stack') = IF tok = "INDENT" THEN Open(stack) \cup {m}
                        ELSE IF tok = "DEDENT" THEN Open(stack) \ {m} ELSE Open(stack)
      /\ tok = "INDENT" => AwaitsIndent(Top.dfa) /\ m \notin Open(stack)
      /\ tok = "DEDENT" => m \in Open(stack)
      /\ Fresh(stack') => tok = "INDENT"
      /\ \A i \in 1 .. m - 1 : stack'[i] = stack[i]
      /\ stack'[m].dfa = plan.next /\ FromRule[plan.next] = FromRule[Top.dfa]
      /\ Len(stack') = m + q
  BY <1>2, ShiftBlocks DEF BlockInv
<1>4. plan \in [next : States, pushes : Seq(States)]
  BY <1>1, <1>2, GrammarAssumption
<1> HIDE DEF m
<1>5. FreshOK'
  <2> SUFFICES ASSUME Fresh(stack') PROVE pc' = "pull" /\ last' = "INDENT"
    BY DEF FreshOK
  <2>1. tok = "INDENT" /\ pending = 0
    BY <1>1, <1>2, <1>3 DEF RecoveryOK
  <2> QED
    BY <1>1, <1>2, <2>1 DEF EndOK, streamVars
<1>6. LevelsOK'
  <2>1. Cardinality(Open(stack')) = Cardinality(Open(stack)) + IndentChange(tok)
    <3> DEFINE open == Open(stack)
    <3>1. IsFiniteSet(open) /\ Cardinality(open) \in Nat
      BY <1>2
    <3>2. CASE tok = "INDENT"
      <4>1. Open(stack') = open \cup {m} /\ m \notin open /\ IndentChange(tok) = 1
        BY <1>3, <3>2 DEF IndentChange
      <4> HIDE DEF open
      <4>2. Cardinality(open \cup {m}) = Cardinality(open) + 1
        BY <3>1, <4>1, FS_AddElement
      <4> QED
        BY <4>1, <4>2 DEF open
    <3>3. CASE tok = "DEDENT"
      <4>1. Open(stack') = open \ {m} /\ m \in open /\ IndentChange(tok) = -1
        BY <1>3, <3>3 DEF IndentChange
      <4> HIDE DEF open
      <4>2. Cardinality(open \ {m}) = Cardinality(open) - 1
        BY <3>1, <4>1, FS_RemoveElement
      <4>3. Cardinality(open) - 1 = Cardinality(open) + (-1)
        BY <3>1
      <4> QED
        BY <4>1, <4>2, <4>3 DEF open
    <3>4. CASE tok \notin {"INDENT", "DEDENT"}
      <4>1. Open(stack') = open /\ IndentChange(tok) = 0
        BY <1>3, <3>4 DEF IndentChange
      <4> QED
        BY <3>1, <4>1
    <3> QED
      BY <3>2, <3>3, <3>4
  <2>2. InFlight = IndentChange(tok) /\ InFlight' = 0 /\ OmitTop' = depth
    BY <1>1 DEF InFlight, OmitTop, streamVars
  <2>3. Cardinality(Open(stack)) + Len(omit) + IndentChange(tok) = depth
    BY <1>1, <1>2, <2>2 DEF LevelsOK
  <2>4. IndentChange(tok) \in Int
    BY DEF IndentChange
  <2>5. Cardinality(Open(stack')) + Len(omit) + 0 = depth
    BY <1>2, <2>1, <2>3, <2>4
  <2>6. ASSUME NEW i \in DOMAIN omit PROVE i <= omit[i] /\ omit[i] <= depth
    <3>1. omit[i] \in Int /\ i <= omit[i] /\ omit[i] <= OmitTop
      BY <1>1, <1>2 DEF LevelsOK
    <3> QED
      BY <1>2, <3>1 DEF OmitTop
  <2> QED
    BY <1>1, <1>2, <2>2, <2>5, <2>6 DEF LevelsOK, streamVars
<1>7. EndOK'
  <2>1. stack[1].dfa \notin Final /\ tok = last /\ pc' \notin {"add", "finish", "done", "crashed"}
    BY <1>1, <1>2 DEF EndOK
  <2>2. m > 1 => stack'[1].dfa \notin Final
    BY <1>2, <1>3, <2>1
  <2>3. m = 1 => (stack'[1].dfa \in Final <=> tok = "ENDMARKER")
    <3> SUFFICES ASSUME m = 1 PROVE plan.next \in Final <=> tok = "ENDMARKER"
      BY <1>3
    <3>1. FromRule[Top.dfa] = "file_input"
      BY <1>2 DEF BottomOK
    <3> QED
      BY <1>1, <1>2, <3>1, EndAssumption
  <2>4. tok = "ENDMARKER" => m = 1 /\ q = 0
    <3> SUFFICES ASSUME tok = "ENDMARKER" PROVE m = 1 /\ q = 0
      OBVIOUS
    <3>1. AllBegun(stack) /\ m = Len(stack)
      BY <1>2 DEF BlocksOK, m
    <3>2. m = 1
      BY <1>1, <1>2, <3>1, BottomOnly
    <3>3. FromRule[Top.dfa] = "file_input" /\ Top.dfa \notin Final
      BY <1>2, <2>1, <3>2 DEF BottomOK
    <3>4. plan.pushes = <<>>
      BY <1>2, <3>3, EndAssumption
    <3> QED
      BY <3>2, <3>4
  <2> HIDE DEF q, plan
  <2>5. /\ stack'[1].dfa \in Final => tok = "ENDMARKER"
        /\ tok = "ENDMARKER" => Len(stack') = 1 /\ stack'[1].dfa \in Final
    BY <1>2, <1>3, <2>2, <2>3, <2>4
  <2>6. last' = last /\ depth' = depth
    BY <1>1 DEF streamVars
  <2> QED
    BY <1>2, <2>1, <2>5, <2>6 DEF EndOK
<1>8. RecoveryOK'
  BY <1>1, <1>2 DEF RecoveryOK
<1> QED
  BY <1>3, <1>5, <1>6, <1>7, <1>8 DEF BlockInv, BlocksOK

\* A stack node that is complete leaves the stack.
LEMMA PopBlocks ==
  ASSUME BlockInv, Inv', pc = "add", PopFinal
  PROVE  BlockInv'
<1> DEFINE m == Len(stack)
           N == NodesUpTo(count)
           k == m - 1
           node == Finished(Top)
<1>1. /\ Top.dfa \in Final
      /\ IF m = 1 THEN pc' = "crashed" /\ UNCHANGED stack ELSE stack' = Popped /\ UNCHANGED pc
      /\ UNCHANGED <<streamVars, tok, pending, omit, indentCounter, text>>
  BY DEF PopFinal
<1>2. /\ BlocksOK(stack) /\ LevelsOK /\ EndOK /\ RecoveryOK /\ StackOK /\ SuitesOK(stack)
      /\ m \in Nat \ {0} /\ DOMAIN stack = 1 .. m /\ m \in DOMAIN stack
      /\ stack \in Seq(StackNodes(N)) /\ count \in Nat
      /\ Top = stack[m] /\ Top.dfa \in States
  BY BlockTyped
<1>3. m > 1 /\ stack' = Popped /\ pc' = pc
  BY <1>1, <1>2 DEF EndOK
<1>4. k \in DOMAIN stack /\ k \in Nat \ {0} /\ k < m
  BY <1>2, <1>3
<1>5. IsCut(stack', stack, k, node, N) /\ node \in N
  BY <1>1, <1>2, <1>3, PoppedFacts, TopFinished
<1> HIDE DEF m, N, k, node
<1>6. /\ BlocksOK(stack')
      /\ Len(stack') = k /\ DOMAIN stack' = 1 .. k
      /\ \A i \in 1 .. k : stack'[i].dfa = stack[i].dfa
      /\ Open(stack') = {i \in Open(stack) : i <= k}
      /\ \A i \in 1 .. k : IsOneLine(stack', i) => IsOneLine(stack, i) /\ i < k
  BY <1>2, <1>4, <1>5, CutBlocks DEF m
<1>7. m \notin Open(stack)
  BY <1>1, <1>2, SuiteStates DEF Open, Suite
<1>8. Open(stack') = Open(stack)
  <2>1. \A i \in Open(stack) : i \in 1 .. m /\ i # m
    BY <1>2, <1>7 DEF Open
  <2>2. \A i \in Open(stack) : i <= k
    BY <1>2, <2>1 DEF k
  <2> QED
    BY <1>6, <2>2
\* A block that has nothing but its INDENT is on top.
<1>9. ~Fresh(stack')
  <2> SUFFICES ASSUME Fresh(stack') PROVE FALSE
    OBVIOUS
  <2>1. k \in Open(stack) /\ ~Dedents(stack[k].dfa)
    BY <1>4, <1>6, <1>8 DEF Fresh
  <2>2. BlockShape(stack, k) /\ Suite(stack, k) /\ stack[k].dfa \in DOMAIN StmtArc
    BY <1>2, <1>4, <2>1 DEF BlocksOK, Shapes, Open
  <2>3. stack[k] \in StackNodes(N)
    BY <1>2, <1>4
  <2>4. stack[k].dfa \in States
    BY <2>3 DEF StackNodes
  <2> QED
    BY <1>4, <2>1, <2>2, <2>4, SuiteStates DEF BlockShape, Suite, m
<1>10. FreshOK'
  BY <1>9 DEF FreshOK
<1>11. LevelsOK'
  <2>1. InFlight' = InFlight /\ OmitTop' = OmitTop
    BY <1>1, <1>3 DEF InFlight, OmitTop, streamVars
  <2> QED
    BY <1>1, <1>2, <1>3, <1>8, <2>1 DEF LevelsOK, streamVars
<1>12. EndOK'
  <2>1. stack'[1].dfa = stack[1].dfa /\ stack[1].dfa \notin Final
    BY <1>2, <1>4, <1>6 DEF EndOK
  <2> QED
    BY <1>1, <1>2, <1>3, <2>1 DEF EndOK, streamVars
<1>13. RecoveryOK'
  <2>1. ~Settled(stack)
    <3>1. FromRule[Top.dfa] # "file_input"
      BY <1>2, <1>3, BottomOnly DEF BlocksOK, m
    <3> QED
      BY <1>2, <1>7, <3>1 DEF Settled, m
  <2>2. NoOneLine(stack) => NoOneLine(stack')
    BY <1>2, <1>4, <1>6 DEF NoOneLine
  <2>3. ~AwaitsIndent(Top'.dfa)
    <3> SUFFICES ASSUME AwaitsIndent(stack[k].dfa) PROVE FALSE
      BY <1>4, <1>6 DEF Top
    <3>1. SuiteOK(stack, k) /\ Suite(stack, k)
      BY <1>2, <1>4 DEF SuitesOK, AwaitsIndent, Suite
    <3>2. stack[k] \in StackNodes(N)
      BY <1>2, <1>4
    <3>3. stack[k].dfa \in States
      BY <3>2 DEF StackNodes
    <3> QED
      BY <1>4, <3>1, <3>3, SuiteStates DEF SuiteOK, AwaitsIndent, m
  <2> QED
    BY <1>1, <1>2, <1>3, <2>1, <2>2, <2>3 DEF RecoveryOK
<1> QED
  BY <1>6, <1>10, <1>11, <1>12, <1>13 DEF BlockInv, BlocksOK

\* A simple_stmt gets its missing newline; it is no suite.
LEMMA AssumeNewlineBlocks ==
  ASSUME BlockInv, Inv', AssumeNewline
  PROVE  BlockInv'
<1> DEFINE m == Len(stack)
           N == NodesUpTo(count)
           dfa == Transitions[Top.dfa]["NEWLINE"].next
<1>1. /\ BlocksOK(stack) /\ LevelsOK /\ EndOK /\ RecoveryOK /\ BottomOK(stack) /\ TopOK(stack)
      /\ m \in Nat \ {0} /\ DOMAIN stack = 1 .. m /\ m \in DOMAIN stack
      /\ stack \in Seq(StackNodes(N)) /\ stack # <<>>
      /\ Top = stack[m] /\ Top.dfa \in States
  BY BlockTyped
<1>2. /\ pc = "add"
      /\ UNCHANGED <<streamVars, tok, pending, omit, indentCounter, text>>
      /\ IF NoLastLeaf THEN pc' = "crashed" ELSE stack' = Advance(dfa) /\ UNCHANGED pc /\ LacksNewline
  BY DEF AssumeNewline, InError
<1>3. m = 1 => ~Suite(stack, m)
  BY <1>1 DEF BottomOK, Suite
\* A node that has no children is alone, and no DEDENT comes without a block.
<1>4. ASSUME NoLastLeaf PROVE FALSE
  <2>1. tok = "DEDENT" /\ m = 1
    BY <1>1, <1>4 DEF NoLastLeaf, TopOK
  <2>2. Open(stack) = {}
    BY <1>1, <1>3, <2>1 DEF Open
  <2> QED
    BY <1>2, <2>1, <2>2, DedentHasBlock
<1>5. stack' = Advance(dfa) /\ pc' = pc /\ LacksNewline
  BY <1>2, <1>4
<1>6. FromRule[Top.dfa] = "simple_stmt" /\ "NEWLINE" \in DOMAIN Transitions[Top.dfa]
  BY <1>5 DEF LacksNewline, TopRule
<1>7. Transitions[Top.dfa]["NEWLINE"] \in [next : States, pushes : Seq(States)]
  BY <1>1, <1>6, GrammarAssumption
<1>8. dfa \in States /\ FromRule[dfa] = "simple_stmt"
  BY <1>1, <1>6, <1>7, SuiteAssumption
<1>9. m > 1 /\ ~Suite(stack, m)
  BY <1>1, <1>6 DEF BottomOK, Suite
<1> HIDE DEF dfa
<1>10. /\ BlocksOK(stack') /\ Len(stack') = m /\ Open(stack') = Open(stack)
       /\ \A i \in DOMAIN stack : i # m => stack'[i] = stack[i]
       /\ stack'[m].dfa = dfa
       /\ NoOneLine(stack) => NoOneLine(stack')
  BY <1>1, <1>5, <1>6, <1>8, <1>9, AdvanceBlocks
<1> HIDE DEF m
<1>11. m \notin Open(stack) /\ ~Fresh(stack')
  BY <1>9, <1>10 DEF Open, Fresh
<1>12. FreshOK'
  BY <1>11 DEF FreshOK
<1>13. LevelsOK'
  <2>1. InFlight' = InFlight /\ OmitTop' = OmitTop
    BY <1>2, <1>5 DEF InFlight, OmitTop, streamVars
  <2> QED
    BY <1>1, <1>2, <1>5, <1>10, <2>1 DEF LevelsOK, streamVars
<1>14. EndOK'
  <2>1. stack'[1] = stack[1] /\ stack[1].dfa \notin Final
    BY <1>1, <1>2, <1>9, <1>10 DEF EndOK
  <2> QED
    BY <1>1, <1>2, <1>5, <2>1 DEF EndOK, streamVars
<1>15. RecoveryOK'
  <2>1. ~Settled(stack)
    BY <1>1, <1>6, <1>11 DEF Settled, m
  <2>2. ~AwaitsIndent(Top'.dfa)
    BY <1>8, <1>10 DEF Top, AwaitsIndent
  <2> QED
    BY <1>1, <1>2, <1>5, <1>10, <2>1, <2>2 DEF RecoveryOK
<1> QED
  BY <1>10, <1>12, <1>13, <1>14, <1>15 DEF BlockInv, BlocksOK

\* The two ways to recover append a node to the innermost block.
LEMMA RecoveryCut ==
  ASSUME Inv, RemoveStack \/ AddErrorLeaf
  PROVE  \E node \in NodesUpTo(count) :
           IsCut(stack', stack, UntilIndex, node, NodesUpTo(count))
<1> DEFINE u == UntilIndex
           N == NodesUpTo(count)
<1>1. TypeOK /\ stack \in Seq(StackNodes(N)) /\ stack # <<>> /\ BottomOK(stack)
  BY Typed DEF Inv, StackOK
<1>2. u \in DOMAIN stack
  BY <1>1, UntilFacts
<1>3. CASE RemoveStack
  <2> DEFINE node == [type |-> "error_node", leaves |-> RemovedLeaves(u + 1),
                      last |-> LastRemoved(u + 1)]
  <2>1. /\ NodesRemoved(u + 1) /\ pc = "add"
        /\ stack' = AppendTo(SubSeq(stack, 1, u), u, node)
    BY <1>3 DEF RemoveStack, Unrecovered, InError
  <2> HIDE DEF u
  <2>2. LastRemoved(u + 1) \in Tokens
    BY <1>1, <1>2, <2>1, LastRemovedType DEF TypeOK, StreamTypeOK
  <2>3. RemovedLeaves(u + 1) \subseteq TextOf(stack)
    BY <1>1, <1>2, RemovedText
  <2>4. TextOf(stack) \subseteq 1 .. count
    BY <1>1, <2>1 DEF Inv, TextOK, TypeOK, Positions
  <2>5. node \in N
    BY <2>2, <2>3, <2>4 DEF NodesUpTo, NodeTypes
  <2> HIDE DEF node, N
  <2>6. IsCut(stack', stack, u, node, N)
    BY <1>1, <1>2, <2>1, <2>5, CutAppend
  <2> QED
    BY <2>5, <2>6 DEF u, N
<1>4. CASE AddErrorLeaf
  <2> DEFINE node == Leaf("error_leaf")
  <2>1. stack' = AppendTo(SubSeq(stack, 1, u), u, node) /\ count > 0
    BY <1>4 DEF AddErrorLeaf, Unrecovered, InError, Inv, CallsOK
  <2>2. node \in N
    BY <1>1, <2>1, LeafFacts DEF NodeTypes
  <2> HIDE DEF node, N, u
  <2>3. IsCut(stack', stack, u, node, N)
    BY <1>1, <1>2, <2>1, <2>2, CutAppend
  <2> QED
    BY <2>2, <2>3 DEF u, N
<1> QED
  BY <1>3, <1>4

\* What is removed is above the block: it goes into one node of the block.
LEMMA RemoveBlocks ==
  ASSUME BlockInv, Inv', RemoveStack
  PROVE  BlockInv'
<1> DEFINE m == Len(stack)
           u == UntilIndex
           N == NodesUpTo(count)
<1>1. /\ BlocksOK(stack) /\ LevelsOK /\ EndOK /\ RecoveryOK /\ BottomOK(stack) /\ SuitesOK(stack)
      /\ m \in Nat \ {0} /\ DOMAIN stack = 1 .. m /\ m \in DOMAIN stack
      /\ stack \in Seq(StackNodes(N)) /\ stack # <<>>
      /\ Top = stack[m] /\ pending \in Nat
  BY BlockTyped
<1>2. /\ pc = "add" /\ ErrorRecovery /\ NodesRemoved(u + 1)
      /\ pending' = pending + 1
      /\ UNCHANGED <<streamVars, tok, pc, omit, indentCounter, text>>
  BY DEF RemoveStack, Unrecovered, InError
<1>3. /\ u \in DOMAIN stack /\ IsBlock(stack[u])
      /\ \A j \in u + 1 .. m : ~IsBlock(stack[j])
  BY <1>1, UntilFacts
<1>4. PICK node \in N : IsCut(stack', stack, u, node, N)
  BY RecoveryCut DEF BlockInv
<1> HIDE DEF u, N
<1>5. u < m
  BY <1>1, <1>2, <1>3, RemovedText
<1>6. u \in 1 .. m /\ u \in Nat /\ u # m
  BY <1>1, <1>3, <1>5
<1>7. /\ BlocksOK(stack')
      /\ Len(stack') = u /\ DOMAIN stack' = 1 .. u
      /\ \A i \in 1 .. u : stack'[i].dfa = stack[i].dfa
      /\ Open(stack') = {i \in Open(stack) : i <= u}
      /\ \A i \in 1 .. u : IsOneLine(stack', i) => IsOneLine(stack, i) /\ i < u
  BY <1>1, <1>3, <1>4, <1>6, CutBlocks
<1> HIDE DEF m
<1>8. \A i \in 1 .. m : stack[i] \in StackNodes(N) /\ stack[i].dfa \in States
  <2> SUFFICES ASSUME NEW i \in 1 .. m PROVE stack[i] \in StackNodes(N) /\ stack[i].dfa \in States
    OBVIOUS
  <2>1. stack[i] \in StackNodes(N)
    BY <1>1
  <2> QED
    BY <2>1 DEF StackNodes
\* An open suite is a block, and so is file_input.
<1>9. ASSUME NEW i \in Open(stack) PROVE i \in 1 .. m /\ i <= u
  <2>1. i \in 1 .. m /\ Suite(stack, i) /\ stack[i].dfa \in DOMAIN StmtArc /\ SuiteOK(stack, i)
    BY <1>1 DEF Open, SuitesOK
  <2>2. /\ ~AwaitsIndent(stack[i].dfa) /\ stack[i].dfa \notin Final
    BY <1>8, <2>1, SuiteStates DEF Suite
  <2>3. Len(stack[i].nodes) >= 2
    BY <2>1, <2>2 DEF SuiteOK
  <2>4. Len(stack[i].nodes) # 1
    <3> DEFINE n == Len(stack[i].nodes)
    <3>1. stack[i].nodes \in Seq(N)
      BY <1>8, <2>1 DEF StackNodes
    <3>2. n \in Nat /\ n >= 2
      BY <2>3, <3>1
    <3> HIDE DEF n
    <3>3. n # 1
      BY <3>2
    <3> QED
      BY <3>3 DEF n
  <2>5. IsBlock(stack[i])
    BY <2>1, <2>4 DEF IsBlock, Suite
  <2> QED
    BY <1>3, <1>6, <1>1, <2>1, <2>5
<1>10. Open(stack') = Open(stack)
  BY <1>7, <1>9
<1>11. ~Fresh(stack')
  <2> SUFFICES ASSUME Fresh(stack') PROVE FALSE
    OBVIOUS
  <2>1. u \in Open(stack) /\ ~Dedents(stack[u].dfa)
    BY <1>6, <1>7, <1>10 DEF Fresh
  <2>2. BlockShape(stack, u) /\ Suite(stack, u) /\ stack[u].dfa \in DOMAIN StmtArc
    BY <1>1, <1>3, <2>1 DEF BlocksOK, Shapes, Open
  <2>3. ~AwaitsIndent(stack[u].dfa) /\ stack[u].dfa \notin Final
    BY <1>6, <1>8, <2>2, SuiteStates DEF Suite
  <2> QED
    BY <1>6, <2>1, <2>2, <2>3 DEF BlockShape, m
<1>12. FreshOK'
  BY <1>11 DEF FreshOK
<1>13. LevelsOK'
  <2>1. InFlight' = InFlight /\ OmitTop' = OmitTop
    BY <1>2 DEF InFlight, OmitTop, streamVars
  <2> QED
    BY <1>1, <1>2, <1>10, <2>1 DEF LevelsOK, streamVars
<1>14. EndOK'
  <2>1. stack'[1].dfa = stack[1].dfa /\ stack[1].dfa \notin Final
    BY <1>1, <1>2, <1>6, <1>7 DEF EndOK
  <2> QED
    BY <1>1, <1>2, <2>1 DEF EndOK, streamVars
<1>15. ~Settled(stack)
  <2>1. ~IsBlock(stack[m])
    BY <1>1, <1>3, <1>5, <1>6
  <2>2. m \notin Open(stack)
    BY <1>5, <1>6, <1>9
  <2> QED
    BY <2>1, <2>2 DEF Settled, IsBlock, m
<1>16. pending = 0 \/ (pending = 1 /\ NoOneLine(stack))
  BY <1>1, <1>2, <1>15 DEF RecoveryOK
<1>17. Settled(stack') \/ (IsOneLine(stack, u) /\ NoOneLine(stack'))
  <2>1. FromRule[stack[u].dfa] = "file_input" \/ u \in Open(stack) \/ IsOneLine(stack, u)
    BY <1>3, <1>6, BlockKinds DEF m
  <2>2. CASE FromRule[stack[u].dfa] = "file_input" \/ u \in Open(stack)
    BY <1>6, <1>7, <1>10, <2>2 DEF Settled
  \* Below it there is no other one, or it would not be part of that one.
  <2>3. CASE IsOneLine(stack, u)
    <3> SUFFICES ASSUME NEW i \in 1 .. u, IsOneLine(stack', i) PROVE FALSE
      BY <1>7, <2>3 DEF NoOneLine
    <3>1. IsOneLine(stack, i) /\ i < u /\ i \in DOMAIN stack
      BY <1>1, <1>6, <1>7
    <3>2. FromRule[stack[u].dfa] \in OneLineRules
      BY <1>1, <1>3, <3>1 DEF BlocksOK, OneLineOK
    <3> QED
      BY <2>3, <3>2, OneLineFacts DEF IsOneLine, Suite
  <2> QED
    BY <2>1, <2>2, <2>3
<1>18. ~AwaitsIndent(Top'.dfa)
  <2> SUFFICES ASSUME AwaitsIndent(stack[u].dfa) PROVE FALSE
    BY <1>6, <1>7 DEF Top
  <2>1. SuiteOK(stack, u) /\ Suite(stack, u)
    BY <1>1, <1>3 DEF SuitesOK, AwaitsIndent, Suite
  <2> QED
    BY <1>6, <1>8, <2>1, SuiteStates DEF SuiteOK, AwaitsIndent, m
<1>19. RecoveryOK'
  <2>1. pending = 1 => Settled(stack')
    BY <1>3, <1>16, <1>17 DEF NoOneLine
  <2> QED
    BY <1>2, <1>16, <1>17, <1>18, <2>1 DEF RecoveryOK
<1> QED
  BY <1>7, <1>12, <1>13, <1>14, <1>19 DEF BlockInv, BlocksOK

\* The token becomes part of the block on top.  Of an INDENT the block that it
\* would have opened is omitted.
LEMMA ErrorLeafBlocks ==
  ASSUME BlockInv, Inv', AddErrorLeaf
  PROVE  BlockInv'
<1> DEFINE m == Len(stack)
           N == NodesUpTo(count)
           n == Len(omit)
           open == Cardinality(Open(stack))
<1>1. /\ BlocksOK(stack) /\ LevelsOK /\ EndOK /\ RecoveryOK /\ SuitesOK(stack)
      /\ m \in Nat \ {0} /\ DOMAIN stack = 1 .. m /\ m \in DOMAIN stack
      /\ stack \in Seq(StackNodes(N))
      /\ Top = stack[m] /\ Top \in StackNodes(N) /\ pending \in Nat /\ depth \in Nat
      /\ omit \in Seq(Int) /\ n \in Nat /\ DOMAIN omit = 1 .. n /\ open \in Nat
  BY BlockTyped
<1>2. /\ pc = "add" /\ pc' = "fixup" /\ ErrorRecovery /\ ~NodesRemoved(UntilIndex + 1)
      /\ Top.dfa \notin Final /\ Unrecovered
      /\ pending' = pending + 1
      /\ omit' = IF tok = "INDENT" THEN Append(omit, indentCounter) ELSE omit
      /\ UNCHANGED <<streamVars, tok, indentCounter, text>>
  BY DEF AddErrorLeaf, Unrecovered, InError
<1>3. UntilIndex = m /\ tok \notin {"DEDENT", "ENDMARKER"}
  BY <1>2, ErrorLeafFacts
<1>4. PICK node \in N : IsCut(stack', stack, m, node, N)
  BY <1>3, RecoveryCut DEF BlockInv
<1> HIDE DEF N, m
<1>5. /\ BlocksOK(stack')
      /\ Len(stack') = m /\ DOMAIN stack' = 1 .. m
      /\ \A i \in 1 .. m : stack'[i].dfa = stack[i].dfa
      /\ Open(stack') = {i \in Open(stack) : i <= m}
      /\ stack'[m].nodes = Append(stack[m].nodes, node)
  BY <1>1, <1>2, <1>4, CutBlocks DEF m
<1>6. Open(stack') = Open(stack)
  BY <1>1, <1>5 DEF Open
<1>7. FreshOK'
  <2> SUFFICES ASSUME Fresh(stack') PROVE Len(Top'.nodes) >= 3
    BY <1>2 DEF FreshOK
  <2>1. m \in Open(stack)
    BY <1>5, <1>6 DEF Fresh
  <2>2. Suite(stack, m) /\ stack[m].dfa \in DOMAIN StmtArc /\ BlockShape(stack, m)
    BY <1>1, <2>1 DEF Open, BlocksOK, Shapes
  <2>3. stack[m].dfa \in States /\ stack[m].nodes \in Seq(N)
    BY <1>1 DEF StackNodes
  <2>4. Len(stack[m].nodes) >= 2
    BY <1>1, <1>2, <2>2, <2>3, SuiteStates DEF BlockShape, Suite
  <2>5. Len(Append(stack[m].nodes, node)) >= 3
    BY <2>3, <2>4
  <2> QED
    BY <1>5, <2>5 DEF Top
<1>8. LevelsOK'
  <2>1. InFlight = IndentChange(tok) /\ InFlight' = 0 /\ OmitTop' = depth
    BY <1>2 DEF InFlight, OmitTop, streamVars
  <2>2. /\ open + n + IndentChange(tok) = depth
        /\ \A i \in DOMAIN omit : i <= omit[i] /\ omit[i] <= OmitTop
        /\ \A i, j \in DOMAIN omit : i < j => omit[i] < omit[j]
        /\ indentCounter = depth
    BY <1>1, <1>2, <2>1 DEF LevelsOK
  <2> HIDE DEF open, n
  <2>3. CASE tok = "INDENT"
    <3>1. OmitTop = depth - 1 /\ IndentChange(tok) = 1
      BY <1>2, <2>3 DEF OmitTop, IndentChange
    <3>2. open + (n + 1) + 0 = depth /\ n + 1 <= depth
      BY <1>1, <2>2, <3>1
    <3>3. /\ Len(omit') = n + 1 /\ DOMAIN omit' = 1 .. n + 1
          /\ omit'[n + 1] = depth
          /\ \A i \in 1 .. n : omit'[i] = omit[i]
      BY <1>1, <1>2, <2>2, <2>3 DEF n
    <3>4. ASSUME NEW i \in 1 .. n
          PROVE  i <= omit'[i] /\ omit'[i] <= depth /\ omit'[i] < depth
      <4>1. omit[i] \in Int /\ i <= omit[i] /\ omit[i] <= depth - 1 /\ omit'[i] = omit[i]
        BY <1>1, <2>2, <3>1, <3>3
      <4> QED
        BY <1>1, <4>1
    <3>5. \A i \in 1 .. n + 1 : i \in 1 .. n \/ i = n + 1
      BY <1>1
    <3>6. \A i \in DOMAIN omit' : i <= omit'[i] /\ omit'[i] <= depth
      BY <1>1, <3>2, <3>3, <3>4, <3>5
    <3>7. \A i, j \in DOMAIN omit' : i < j => omit'[i] < omit'[j]
      <4> SUFFICES ASSUME NEW i \in 1 .. n + 1, NEW j \in 1 .. n + 1, i < j
                   PROVE  omit'[i] < omit'[j]
        BY <3>3
      <4>1. i \in 1 .. n
        BY <1>1
      <4>2. CASE j \in 1 .. n
        BY <1>1, <2>2, <3>3, <4>1, <4>2
      <4>3. CASE j = n + 1
        BY <3>3, <3>4, <4>1, <4>3
      <4> QED
        BY <3>5, <4>2, <4>3
    <3> QED
      BY <1>2, <1>6, <2>1, <2>2, <3>2, <3>3, <3>6, <3>7 DEF LevelsOK, streamVars, open
  <2>4. CASE tok # "INDENT"
    <3>1. OmitTop = depth /\ IndentChange(tok) = 0 /\ omit' = omit
      BY <1>2, <1>3, <2>4 DEF OmitTop, IndentChange
    <3> QED
      BY <1>2, <1>6, <2>1, <2>2, <3>1 DEF LevelsOK, streamVars, open, n
  <2> QED
    BY <2>3, <2>4
<1>9. EndOK'
  <2>1. stack'[1].dfa = stack[1].dfa /\ stack[1].dfa \notin Final /\ tok = last
    BY <1>1, <1>2, <1>5 DEF EndOK
  <2> QED
    BY <1>1, <1>2, <1>3, <2>1 DEF EndOK, streamVars
<1>10. RecoveryOK'
  <2>1. pending <= 2
    BY <1>1, <1>2 DEF RecoveryOK
  <2> QED
    BY <1>1, <1>2, <2>1 DEF RecoveryOK
<1> QED
  BY <1>5, <1>7, <1>8, <1>9, <1>10 DEF BlockInv, BlocksOK

\* The suite on top of the stack has a statement, or what counts as one.
LEMMA FinishRecoveryBlocks ==
  ASSUME BlockInv, Inv', FinishRecovery
  PROVE  BlockInv'
<1> DEFINE m == Len(stack)
           N == NodesUpTo(count)
           dfa == StmtArc[Top.dfa]
<1>1. /\ BlocksOK(stack) /\ FreshOK /\ LevelsOK /\ EndOK /\ RecoveryOK /\ CallsOK /\ BottomOK(stack)
      /\ m \in Nat \ {0} /\ DOMAIN stack = 1 .. m /\ m \in DOMAIN stack
      /\ stack \in Seq(StackNodes(N)) /\ stack # <<>>
      /\ Top = stack[m] /\ Top \in StackNodes(N) /\ Top.dfa \in States /\ pending \in Nat
  BY BlockTyped
<1>2. /\ pc = "fixup" /\ pc' = IF pending > 1 THEN "fixup" ELSE "pull"
      /\ pending' = pending - 1
      /\ stack' = IF Suite(stack, m) /\ Top.dfa \in DOMAIN StmtArc THEN Advance(dfa) ELSE stack
      /\ UNCHANGED <<streamVars, tok, omit, indentCounter, text>>
  BY <1>1 DEF FinishRecovery, TopRule, Suite
<1>3. pending \in 1 .. 3
  BY <1>1, <1>2 DEF CallsOK, RecoveryOK
<1>4. /\ BlocksOK(stack') /\ Len(stack') = m /\ Open(stack') = Open(stack)
      /\ \A i \in DOMAIN stack : i # m => stack'[i] = stack[i]
      /\ m = 1 => stack' = stack
      /\ ~Fresh(stack')
  <2>1. CASE Suite(stack, m) /\ Top.dfa \in DOMAIN StmtArc
    <3>1. m \in Open(stack) /\ FromRule[Top.dfa] = "suite" /\ stack' = Advance(dfa) /\ m # 1
      BY <1>1, <1>2, <2>1 DEF Open, Suite, BottomOK
    <3>2. dfa \in DOMAIN StmtArc /\ FromRule[dfa] = "suite" /\ dfa \in States
      BY <1>1, <2>1, <3>1, SuiteAssumption, GrammarAssumption
    <3>3. Dedents(dfa)
      BY <1>1, <2>1, <3>1, BlockAssumption
    <3>4. /\ Top.nodes[2].type = "INDENT"
          /\ Dedents(Top.dfa) => Len(Top.nodes) >= 3
      <4>1. BlockShape(stack, m) /\ ~AwaitsIndent(Top.dfa) /\ Top.dfa \notin Final
        BY <1>1, <2>1, <3>1, SuiteStates DEF BlocksOK, Shapes
      <4> QED
        BY <1>1, <2>1, <4>1 DEF BlockShape
    <3>5. ~Dedents(Top.dfa) => Len(Top.nodes) >= 3
      BY <1>1, <1>2, <3>1 DEF FreshOK, Fresh
    <3> HIDE DEF dfa
    <3>6. LET c == Advance(dfa)
          IN /\ BlocksOK(c) /\ Len(c) = m /\ Open(c) = Open(stack)
             /\ \A i \in DOMAIN stack : i # m => c[i] = stack[i]
             /\ c[m].dfa = dfa
      BY <1>1, <2>1, <3>1, <3>2, <3>3, <3>4, <3>5, AdvanceBlocks
    <3> QED
      BY <3>1, <3>3, <3>6 DEF Fresh
  <2>2. CASE ~(Suite(stack, m) /\ Top.dfa \in DOMAIN StmtArc)
    <3>1. stack' = stack
      BY <1>2, <2>2
    <3>2. m \notin Open(stack)
      BY <1>1, <2>2 DEF Open
    <3> QED
      BY <1>1, <3>1, <3>2 DEF Fresh
  <2> QED
    BY <2>1, <2>2
<1> HIDE DEF m
<1>5. FreshOK'
  BY <1>4 DEF FreshOK
<1>6. LevelsOK'
  <2>1. InFlight' = InFlight /\ OmitTop' = OmitTop
    BY <1>2 DEF InFlight, OmitTop, streamVars
  <2> QED
    BY <1>1, <1>2, <1>4, <2>1 DEF LevelsOK, streamVars
<1>7. EndOK'
  <2>1. stack'[1] = stack[1]
    BY <1>1, <1>4
  <2>2. pc' \in {"fixup", "pull"} /\ last' = last /\ depth' = depth
    BY <1>2 DEF streamVars
  <2> QED
    BY <1>1, <1>2, <1>4, <2>1, <2>2 DEF EndOK, m
<1>8. RecoveryOK'
  BY <1>1, <1>2, <1>3 DEF RecoveryOK
<1> QED
  BY <1>4, <1>5, <1>6, <1>7, <1>8 DEF BlockInv, BlocksOK

\* Nothing but file_input is left when the tokens are exhausted.
LEMMA FinishBlocks ==
  ASSUME BlockInv, Inv', Finish
  PROVE  BlockInv'
<1>1. /\ BlocksOK(stack) /\ LevelsOK /\ EndOK /\ RecoveryOK /\ BottomOK(stack)
      /\ DOMAIN stack = 1 .. Len(stack) /\ Top = stack[Len(stack)]
  BY BlockTyped
<1>2. pc = "finish" /\ UNCHANGED <<streamVars, tok, pending, omit, indentCounter, text>>
  BY DEF Finish
<1>3. Len(stack) = 1 /\ Top.dfa \in Final /\ last = "ENDMARKER"
  BY <1>1, <1>2 DEF EndOK
<1>4. pc' = "done" /\ stack' = stack
  BY <1>3 DEF Finish
<1>5. FreshOK'
  BY <1>1, <1>3, <1>4 DEF FreshOK, Fresh, Open, Suite, BottomOK
<1>6. LevelsOK'
  BY <1>1, <1>2, <1>4 DEF LevelsOK, InFlight, OmitTop, streamVars
<1>7. EndOK'
  BY <1>1, <1>2, <1>4 DEF EndOK, streamVars
<1>8. RecoveryOK'
  BY <1>1, <1>2, <1>4 DEF RecoveryOK
<1> QED
  BY <1>1, <1>4, <1>5, <1>6, <1>7, <1>8 DEF BlockInv, BlocksOK

LEMMA StutterBlocks ==
  ASSUME BlockInv, Inv', UNCHANGED vars
  PROVE  BlockInv'
<1>1. UNCHANGED <<last, depth, count, stack, tok, pc, pending, omit, indentCounter, text>>
  BY DEF vars, streamVars, parserVars
<1>2. BlocksOK(stack) /\ FreshOK /\ LevelsOK /\ EndOK /\ RecoveryOK
  BY BlockTyped
<1>3. FreshOK'
  BY <1>1, <1>2 DEF FreshOK, Top
<1>4. LevelsOK'
  BY <1>1, <1>2 DEF LevelsOK, InFlight, OmitTop
<1>5. EndOK'
  BY <1>1, <1>2 DEF EndOK
<1>6. RecoveryOK'
  BY <1>1, <1>2 DEF RecoveryOK, Top
<1> QED
  BY <1>1, <1>2, <1>3, <1>4, <1>5, <1>6 DEF BlockInv, BlocksOK

LEMMA InitBlocks ==
  ASSUME Init
  PROVE  BlockInv
<1>1. Inv
  BY InitInv
<1>2. /\ DOMAIN stack = {1} /\ Len(stack) = 1
      /\ stack[1].dfa = StartState /\ stack[1].nodes = <<>>
  BY DEF Init
<1>3. /\ pc = "pull" /\ pending = 0 /\ omit = <<>> /\ indentCounter = 0
      /\ last = "start" /\ depth = 0
  BY DEF Init, StreamInit
<1>4. ~Suite(stack, 1)
  BY <1>2, GrammarAssumption DEF Suite
<1>5. Shapes(stack) /\ AllBegun(stack) /\ OneLineOK(stack)
  BY <1>2, <1>4 DEF Shapes, BlockShape, AllBegun, OneLineOK, IsOneLine
<1>6. Open(stack) = {}
  BY <1>2, <1>4 DEF Open
<1>7. FreshOK
  BY <1>6 DEF FreshOK, Fresh
<1>8. LevelsOK
  <2>1. Cardinality(Open(stack)) = 0
    BY <1>6, FS_EmptySet
  <2>2. Len(omit) = 0 /\ DOMAIN omit = {} /\ InFlight = 0
    BY <1>3 DEF InFlight
  <2> QED
    BY <1>3, <2>1, <2>2 DEF LevelsOK
<1>9. EndOK
  BY <1>2, <1>3, EndAssumption DEF EndOK
<1>10. RecoveryOK
  BY <1>3 DEF RecoveryOK
<1> QED
  BY <1>1, <1>5, <1>7, <1>8, <1>9, <1>10 DEF BlockInv

LEMMA NextBlocks ==
  ASSUME BlockInv, [Next]_vars
  PROVE  BlockInv'
<1>0. Inv /\ Inv'
  BY NextInv DEF BlockInv
<1>1. CASE OmitDedent
  BY <1>0, <1>1, OmitBlocks
<1>2. ASSUME NEW t \in Tokens, PullToken(t) PROVE BlockInv'
  BY <1>0, <1>2, PullBlocks
<1>3. CASE TokensExhausted \/ RaiseSyntaxError
  BY <1>0, <1>3, MoveBlocks
<1>4. CASE Shift
  BY <1>0, <1>4, ShiftStepBlocks
<1>5. CASE PopFinal
  <2>1. pc = "add"
    BY <1>5 DEF PopFinal
  <2> QED
    BY <1>0, <1>5, <2>1, PopBlocks
<1>6. CASE AssumeNewline
  BY <1>0, <1>6, AssumeNewlineBlocks
<1>7. CASE RemoveStack
  BY <1>0, <1>7, RemoveBlocks
<1>8. CASE AddErrorLeaf
  BY <1>0, <1>8, ErrorLeafBlocks
<1>9. CASE FinishRecovery
  BY <1>0, <1>9, FinishRecoveryBlocks
<1>10. CASE Finish
  BY <1>0, <1>10, FinishBlocks
<1>11. CASE UNCHANGED vars
  BY <1>0, <1>11, StutterBlocks
<1> QED
  BY <1>1, <1>2, <1>3, <1>4, <1>5, <1>6, <1>7, <1>8, <1>9, <1>10, <1>11
     DEF Next, AddToken, Recover

-----------------------------------------------------------------------------
(* The theorems.                                                            *)

\* The blocks on the stack, the omitted INDENTs and the token in hand account
\* for the indentation in every state, and recovery for its own calls.
THEOREM BlockInvariant == Spec => []BlockInv
<1>1. Init => BlockInv
  BY InitBlocks
<1>2. BlockInv /\ [Next]_vars => BlockInv'
  BY NextBlocks
<1> QED
  BY <1>1, <1>2, PTL DEF Spec

\* What a comment of parse() and error_recovery take for granted: file_input is
\* never popped, no DEDENT meets a node without children, and nothing but a
\* complete file_input is on the stack at the end.
THEOREM ParserNeverCrashes == Spec => []NeverCrashes
<1>1. BlockInv => NeverCrashes
  BY DEF BlockInv, EndOK, NeverCrashes
<1> QED
  BY <1>1, BlockInvariant, PTL

\* _recovery_tokenize: between two tokens every INDENT is in an open suite, or in
\* the list of those whose DEDENT is to be left out.
THEOREM EveryIndentAccounted == Spec => []IndentsAccounted
<1>1. ASSUME BlockInv PROVE IndentsAccounted
  <2> SUFFICES ASSUME pc = "pull", ErrorRecovery
               PROVE  /\ indentCounter = depth
                      /\ Cardinality(OpenSuites) + Len(omit) = indentCounter
                      /\ \A i \in DOMAIN omit : omit[i] \in 1 .. indentCounter
                      /\ \A i, j \in DOMAIN omit : i < j => omit[i] < omit[j]
    BY DEF IndentsAccounted
  <2>1. /\ TypeOK /\ SuitesOK(stack) /\ LevelsOK /\ depth \in Nat
        /\ omit \in Seq(Int) /\ Len(omit) \in Nat /\ DOMAIN omit = 1 .. Len(omit)
        /\ Cardinality(Open(stack)) \in Nat
    BY <1>1, BlockTyped
  <2>2. OpenSuites = Open(stack)
    BY <2>1, OpenSuitesFacts
  <2>3. /\ Cardinality(OpenSuites) + Len(omit) + 0 = depth
        /\ \A i \in DOMAIN omit : i <= omit[i] /\ omit[i] <= depth
        /\ \A i, j \in DOMAIN omit : i < j => omit[i] < omit[j]
        /\ indentCounter = depth
    BY <2>1, <2>2 DEF LevelsOK, InFlight, OmitTop
  <2>4. ASSUME NEW i \in DOMAIN omit PROVE omit[i] \in 1 .. indentCounter
    <3>1. omit[i] \in Int /\ i \in Nat \ {0} /\ i <= omit[i] /\ omit[i] <= depth
      BY <2>1, <2>3
    <3> QED
      BY <2>1, <2>3, <3>1
  <2> QED
    BY <2>1, <2>2, <2>3, <2>4
<1> QED
  BY <1>1, BlockInvariant, PTL

\* However deep the blocks are nested, error_recovery and _add_token call each
\* other at most three deep.
THEOREM RecoveryIsShallow == Spec => []RecoveryDepth
<1>1. ASSUME BlockInv PROVE RecoveryDepth
  <2>1. RecoveryOK /\ pending \in Nat
    BY <1>1, BlockTyped
  <2>2. pending = 0 \/ pending <= 2 \/ pending <= 3
    BY <2>1 DEF RecoveryOK
  <2> QED
    BY <2>1, <2>2 DEF RecoveryDepth
<1> QED
  BY <1>1, BlockInvariant, PTL

\* convert_node drops the second and the last child of a suite: they are its
\* INDENT and its DEDENT, and there is a statement between them.
THEOREM SuiteLosesIndentsOnly == Spec => SuiteStripsIndents
<1> DEFINE Strips == (Len(stack') < Len(stack) /\ TopRule = "suite" /\ Len(Top.nodes) # 1
                        /\ pending' = pending) =>
                       /\ Top.nodes[2].type = "INDENT"
                       /\ LastOf(Top.nodes).type = "DEDENT"
                       /\ Len(Top.nodes) >= 4
           m == Len(stack)
           N == NodesUpTo(count)
<1>1. ASSUME BlockInv, [Next]_vars PROVE Strips
  <2> SUFFICES ASSUME Len(stack') < m, TopRule = "suite", Len(Top.nodes) # 1, pending' = pending
               PROVE  /\ Top.nodes[2].type = "INDENT"
                      /\ LastOf(Top.nodes).type = "DEDENT"
                      /\ Len(Top.nodes) >= 4
    OBVIOUS
  <2>1. /\ BlocksOK(stack) /\ TopOK(stack) /\ BottomOK(stack) /\ TypeOK /\ EndOK
        /\ m \in Nat \ {0} /\ m \in DOMAIN stack
        /\ stack \in Seq(StackNodes(N)) /\ stack # <<>>
        /\ Top = stack[m] /\ Top \in StackNodes(N) /\ Top.dfa \in States /\ pending \in Nat
    BY <1>1, BlockTyped
  <2>2. m # 1 /\ Suite(stack, m)
    BY <2>1 DEF TopRule, BottomOK, Suite
  <2>3. ~Finish
    BY <2>1, <2>2 DEF Finish, EndOK
  <2>4. ~Shift
    <3> SUFFICES ASSUME Shift PROVE FALSE
      OBVIOUS
    <3> DEFINE plan == Transitions[Top.dfa][tok]
               q == Len(plan.pushes)
    <3>1. plan \in [next : States, pushes : Seq(States)]
      BY <2>1, GrammarAssumption DEF Shift, HasPlan
    <3>2. Len(stack') = m + q
      BY <1>1, ShiftBlocks DEF BlockInv, BlocksOK
    <3>3. q \in Nat
      BY <3>1
    <3> HIDE DEF q, m
    <3> QED
      BY <2>1, <3>2, <3>3
  <2>5. ~RemoveStack /\ ~AddErrorLeaf
    BY <2>1 DEF RemoveStack, AddErrorLeaf
  <2>6. ~FinishRecovery
    BY <2>1 DEF FinishRecovery
  <2>7. ~AssumeNewline
    BY <2>2 DEF AssumeNewline, LacksNewline, TopRule
  <2>8. stack' # stack
    BY <2>1
  <2>9. PopFinal
    BY <1>1, <2>3, <2>4, <2>5, <2>6, <2>7, <2>8
       DEF Next, AddToken, Recover, OmitDedent, PullToken, TokensExhausted, RaiseSyntaxError,
           vars, parserVars
  <2>10. Top.dfa \in Final /\ BlockShape(stack, m)
    BY <2>1, <2>9 DEF PopFinal, BlocksOK, Shapes
  <2>11. ~AwaitsIndent(Top.dfa) /\ Top.dfa \notin DOMAIN StmtArc
    BY <2>1, <2>2, <2>10, SuiteStates DEF Suite
  <2>12. ~(Len(Top.nodes) <= 1)
    <3> DEFINE nodes == Top.nodes
    <3>0. m > 1
      BY <2>1, <2>2, LongStack
    <3>1. nodes \in Seq(N) /\ nodes # <<>>
      BY <2>1, <3>0 DEF StackNodes, TopOK
    <3> HIDE DEF nodes
    <3>2. Len(nodes) \in Nat \ {0}
      BY <3>1
    <3>3. Len(nodes) # 1
      BY DEF nodes
    <3> DEFINE n == Len(nodes)
    <3> HIDE DEF n
    <3>4. n \in Nat \ {0} /\ n # 1
      BY <3>2, <3>3 DEF n
    <3>5. ~(n <= 1)
      BY <3>4
    <3> QED
      BY <3>5 DEF n, nodes
  <2> QED
    BY <2>1, <2>2, <2>10, <2>11, <2>12 DEF BlockShape
<1> QED
  BY <1>1, BlockInvariant, PTL DEF Spec, SuiteStripsIndents
=============================================================================
