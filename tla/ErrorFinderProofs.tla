-------------------------- MODULE ErrorFinderProofs --------------------------
(***************************************************************************)
(* That the error finder says of places and names what ErrorFinder wants,   *)
(* for programs of any length, any limits and any rules.                    *)
(***************************************************************************)
EXTENDS ErrorFinder, WellFoundedInduction, SequenceTheorems, FiniteSetTheorems, TLAPS

-----------------------------------------------------------------------------
(* Types.                                                                    *)

Compound == Blocks \cup Scopes \cup {"else"}
Kinds == NameStatements \cup Jumps \cup Compound \cup RuledKinds \cup {"indented"}
Statements == [kind : Kinds, detail : {<<>>} \cup {s[2] : s \in Ruled}, level : Nat]

Used == [what : Occurrences \cup {"param"}, at : Nat]
ContextRecords ==
  [node : Nat, blocks : Seq(Blocks), params : BOOLEAN, used : SUBSET Used,
   globals : SUBSET Nat, nonlocals : SUBSET Nat, subscopes : SUBSET Nat]

\* The messages of the walk, which the provers do not know to be strings, and those
\* of the rules.
Texts ==
  {"indentation", "blocks", "misplaced", "at module level", "name", "unexpected indent"} \cup STRING

TypeOK ==
  /\ head \in Heads
  /\ program \in Seq(Statements)
  /\ contexts \in Seq(ContextRecords)
  /\ open \in Seq(Nat)
  /\ indentation \in Nat
  /\ DOMAIN errors \subseteq Nat /\ errors \in [DOMAIN errors -> Texts]
  /\ finished \in BOOLEAN

-----------------------------------------------------------------------------
(* The inductive invariant.                                                  *)

\* What is before the first statement is followed by one that is indented, and
\* by no other.
Indented ==
  head # <<>> =>
    /\ open = <<>> /\ contexts = <<NewContext(0)>>
    /\ \A i \in DOMAIN program : program[i].kind = "indented" /\ Len(program) = 1

\* The statements that the walk is in are those the next line may be in, one a
\* level, and all lines after a header are below it.
OpenInv ==
  /\ \A l \in DOMAIN open :
       /\ open[l] \in DOMAIN program
       /\ program[open[l]].kind \in Compound /\ program[open[l]].level = l - 1
       /\ \A k \in open[l] + 1 .. Len(program) : program[k].level >= l
  /\ indentation =
       IF open # <<>> /\ Last(open) = Len(program) THEN Len(open) - 1 ELSE Len(open)
  /\ finished => open = <<>>

OpenScopes == {open[l] : l \in {m \in DOMAIN open : program[open[m]].kind \in Scopes}}

\* The contexts are those of the module and of the scopes that are open, the
\* innermost one last.
NodesInv ==
  /\ contexts # <<>> /\ contexts[1].node = 0
  /\ {contexts[c].node : c \in 2 .. Len(contexts)} = OpenScopes
  /\ \A c, d \in DOMAIN contexts : c < d => contexts[c].node < contexts[d].node

\* How many statements around the first one in a scope are open.
Base(s) == IF s = 0 THEN 0 ELSE program[s].level + 1
IsClauseOf(i, kind) == program[i].kind = kind \/ (program[i].kind = "else" /\ kind = "while")

\* The blocks of a context are the open statements from its scope to the next.
BlocksInv ==
  \A c \in DOMAIN contexts :
    LET base == Base(contexts[c].node)
        blocks == contexts[c].blocks
    IN /\ base + Len(blocks) =
            IF c = Len(contexts) THEN Len(open) ELSE Base(contexts[c + 1].node) - 1
       /\ \A b \in DOMAIN blocks :
            base + b \in DOMAIN open /\ IsClauseOf(open[base + b], blocks[b])

\* What is said of a place is said when the statement is visited, and stays.
PlacesInv ==
  \A i \in DOMAIN program :
    program[i].kind \in Jumps \cup Blocks /\ ~InElse(i) =>
      IF PlaceErrors(i) = <<>> THEN i \notin DOMAIN errors
      ELSE i \in DOMAIN errors /\ errors[i] = Head(PlaceErrors(i))

-----------------------------------------------------------------------------
(* What a scope is left with, in terms of the program.                       *)

WithParameter == {"def f(x)"}

Uses(s) ==
  {[what |-> program[i].kind, at |-> i] : i \in Lines(s, Occurrences)}
    \cup {[what |-> "param", at |-> i] : i \in Lines(s, WithParameter)}

\* A nonlocal name of an inner scope does not get out of this one.
Stops(s) ==
  \/ Lines(s, WithParameter) # {} \/ Lines(s, {"global"}) # {}
  \/ IsFunction(s) /\ Uses(s) # {}

\* The nonlocal names that come to scope s from scopes in it.
Arriving(s) ==
  {i \in DOMAIN program :
     /\ program[i].kind = "nonlocal" /\ ScopeOf(i) # s
     /\ s \in {0} \cup ScopesAround(i)
     /\ \A g \in Outside(i) : g > s => ~Stops(g)}

\* The context of scope s when all that is in it is closed.
ContextOf(s) ==
  [node |-> s, blocks |-> <<>>, params |-> Lines(s, WithParameter) # {}, used |-> Uses(s),
   globals |-> Lines(s, {"global"}), nonlocals |-> Lines(s, {"nonlocal"}),
   subscopes |-> Arriving(s)]

\* Those of them that are not in an open scope in it.
Arrived(s) == {i \in Arriving(s) : \A g \in ScopesAround(i) : g > s => g \notin OpenScopes}

\* A context has all names of its scope so far, and those that inner scopes
\* that are closed have left.
NamesInv ==
  \A c \in DOMAIN contexts : \A s \in {contexts[c].node} :
    /\ contexts[c].params = ContextOf(s).params /\ contexts[c].used = Uses(s)
    /\ contexts[c].globals = ContextOf(s).globals
    /\ contexts[c].nonlocals = ContextOf(s).nonlocals
    /\ contexts[c].subscopes = Arrived(s)

\* The scopes that have been left.
Closed ==
  {s \in DOMAIN program : program[s].kind \in Scopes /\ s \notin OpenScopes}
    \cup (IF finished THEN {0} ELSE {})

\* Names with an error: those at the level of the module, and those that are left
\* with the scopes.
NameErrors ==
  {i \in DOMAIN program : program[i].kind = "nonlocal" /\ ScopeOf(i) = 0}
    \cup UNION {FinalizeIssues(ContextOf(s)) : s \in Closed}

\* The lines with errors are those of names, statements that are out of place, and
\* the one that a rule looks into.
ErrorsInv ==
  head = <<>> =>
    /\ NameErrors \subseteq DOMAIN errors
    /\ \A i \in DOMAIN errors :
         \/ i \in NameErrors
         \/ i \in DOMAIN program /\ (PlaceErrors(i) # <<>> \/ Alone)

IInv ==
  /\ TypeOK /\ Indented
  /\ OpenInv /\ NodesInv /\ BlocksInv /\ PlacesInv
  /\ NamesInv /\ ErrorsInv

-----------------------------------------------------------------------------
(* The greatest of some numbers, and sequences that are used as stacks.      *)

\* MaxOf is the number that it describes.
LEMMA MaxIs ==
  ASSUME NEW S \in SUBSET Nat, NEW m \in S, \A k \in S : k <= m
  PROVE  MaxOf(S) = m
<1>1. MaxOf(S) \in S /\ \A k \in S : k <= MaxOf(S)
  <2>1. \E n \in S : \A k \in S : k <= n
    OBVIOUS
  <2> QED
    BY <2>1, Zenon DEF MaxOf
<1>2. \A n \in S : (\A k \in S : k <= n) => n = m
  OBVIOUS
<1> QED
  BY <1>1, <1>2

\* There is one in every set of numbers with a bound.
LEMMA MaxExists ==
  ASSUME NEW n \in Nat, NEW S \in SUBSET (0 .. n), S # {}
  PROVE  MaxOf(S) \in S /\ \A k \in S : k <= MaxOf(S)
<1> DEFINE T == {j \in Nat : \E k \in S : k = n - j}
<1>1. T \subseteq Nat /\ T # {}
  <2>1. PICK k \in S : TRUE
    OBVIOUS
  <2>2. n - k \in T
    OBVIOUS
  <2> QED
    BY <2>2
<1>2. PICK j \in T : \A l \in T : ~(<<l, j>> \in OpToRel(<, Nat))
  BY <1>1, WFMin, NatLessThanWellFounded, Zenon
<1>3. \A l \in T : ~(l < j)
  BY <1>1, <1>2 DEF OpToRel
<1>4. n - j \in S
  OBVIOUS
<1>5. \A k \in S : k <= n - j
  <2> SUFFICES ASSUME NEW k \in S PROVE k <= n - j
    OBVIOUS
  <2>1. n - k \in T
    OBVIOUS
  <2> QED
    BY <2>1, <1>3
<1> QED
  BY <1>4, <1>5, MaxIs

\* What Append, Front and Last do to a stack.
LEMMA Pushed ==
  ASSUME NEW S, NEW s \in Seq(S), NEW e \in S
  PROVE  /\ Append(s, e) \in Seq(S) /\ Len(Append(s, e)) = Len(s) + 1
         /\ DOMAIN Append(s, e) = 1 .. Len(s) + 1
         /\ \A i \in 1 .. Len(s) : Append(s, e)[i] = s[i]
         /\ Append(s, e)[Len(s) + 1] = e
         /\ Append(s, e) # <<>> /\ Last(Append(s, e)) = e
BY DEF Last

\* What is left of a stack without its last element.
LEMMA Popped ==
  ASSUME NEW S, NEW s \in Seq(S), s # <<>>
  PROVE  /\ Len(s) \in Nat \ {0} /\ DOMAIN s = 1 .. Len(s)
         /\ Front(s) \in Seq(S) /\ Len(Front(s)) = Len(s) - 1
         /\ DOMAIN Front(s) = 1 .. Len(s) - 1
         /\ \A i \in 1 .. Len(s) - 1 : Front(s)[i] = s[i]
         /\ Last(s) = s[Len(s)] /\ Last(s) \in S
<1>1. Len(s) \in Nat \ {0} /\ DOMAIN s = 1 .. Len(s) /\ s[Len(s)] \in S
  BY EmptySeq
<1>2. \A i \in 1 .. Len(s) - 1 : s[i] \in S
  BY <1>1
<1> QED
  BY <1>1, <1>2, SubSeqProperties, LenProperties DEF Front, Last

\* The last entry is replaced.
LEMMA Replaced ==
  ASSUME NEW S, NEW s \in Seq(S), s # <<>>, NEW e \in S
  PROVE  /\ Append(Front(s), e) \in Seq(S) /\ Len(Append(Front(s), e)) = Len(s)
         /\ DOMAIN Append(Front(s), e) = 1 .. Len(s)
         /\ \A i \in 1 .. Len(s) - 1 : Append(Front(s), e)[i] = s[i]
         /\ Append(Front(s), e)[Len(s)] = e
         /\ Append(Front(s), e) # <<>> /\ Last(Append(Front(s), e)) = e
<1>1. /\ Front(s) \in Seq(S) /\ Len(Front(s)) = Len(s) - 1 /\ Len(s) \in Nat \ {0}
      /\ \A i \in 1 .. Len(s) - 1 : Front(s)[i] = s[i]
  BY Popped
<1> DEFINE f == Front(s)
<1>2. /\ Append(f, e) \in Seq(S) /\ Len(Append(f, e)) = Len(f) + 1
      /\ DOMAIN Append(f, e) = 1 .. Len(f) + 1
      /\ \A i \in 1 .. Len(f) : Append(f, e)[i] = f[i]
      /\ Append(f, e)[Len(f) + 1] = e
      /\ Append(f, e) # <<>> /\ Last(Append(f, e)) = e
  <2> HIDE DEF f
  <2> QED
    BY <1>1, Pushed DEF f
<1> HIDE DEF f
<1> QED
  BY <1>1, <1>2 DEF f

-----------------------------------------------------------------------------
(* Headers.                                                                  *)

\* Every line is a statement of one of the kinds, at a level.
LEMMA StatementTypes ==
  ASSUME program \in Seq(Statements)
  PROVE  /\ Len(program) \in Nat /\ DOMAIN program = 1 .. Len(program)
         /\ \A k \in DOMAIN program : /\ program[k] \in Statements /\ program[k].level \in Nat
                                      /\ program[k].kind \in Kinds
<1>1. Len(program) \in Nat /\ DOMAIN program = 1 .. Len(program)
  OBVIOUS
<1>2. \A k \in 1 .. Len(program) : program[k] \in Statements
  BY ElementOfSeq
<1> QED
  BY <1>1, <1>2 DEF Statements

\* The statements around one of those around a line are the ones before it.
LEMMA HeadersOfHeader ==
  ASSUME program \in Seq(Statements), NEW i \in DOMAIN program, NEW j \in Headers(i)
  PROVE  /\ j \in DOMAIN program /\ j < i
         /\ Headers(j) = {h \in Headers(i) : h < j}
<1>1. \A k \in DOMAIN program : program[k].level \in Nat
  BY StatementTypes
<1>2. i \in Nat /\ DOMAIN program = 1 .. Len(program) /\ Len(program) \in Nat
  OBVIOUS
<1>3. j \in 1 .. i - 1 /\ program[j].level < program[i].level
       /\ \A k \in j + 1 .. i - 1 : program[k].level > program[j].level
  BY DEF Headers
<1>4. ASSUME NEW h \in Headers(j) PROVE h \in Headers(i) /\ h < j
  <2>1. /\ h \in 1 .. j - 1 /\ program[h].level < program[j].level
        /\ \A k \in h + 1 .. j - 1 : program[k].level > program[h].level
    BY <1>4 DEF Headers
  <2>2. ASSUME NEW k \in h + 1 .. i - 1 PROVE program[k].level > program[h].level
    <3>1. k \in h + 1 .. j - 1 \/ k = j \/ k \in j + 1 .. i - 1
      BY <1>2, <1>3, <2>1
    <3>2. k \in DOMAIN program /\ h \in DOMAIN program /\ j \in DOMAIN program
      BY <1>2, <1>3, <2>1
    <3> QED
      BY <1>1, <1>3, <2>1, <3>1, <3>2
  <2>3. h \in DOMAIN program /\ j \in DOMAIN program
    BY <1>2, <1>3, <2>1
  <2>4. program[h].level < program[i].level
    BY <1>1, <1>3, <2>1, <2>3
  <2> QED
    BY <1>2, <1>3, <2>1, <2>2, <2>4 DEF Headers
<1>5. ASSUME NEW h \in Headers(i), h < j PROVE h \in Headers(j)
  <2>1. /\ h \in 1 .. i - 1
        /\ \A k \in h + 1 .. i - 1 : program[k].level > program[h].level
    BY DEF Headers
  <2>2. j \in h + 1 .. i - 1 /\ h \in 1 .. j - 1 /\ \A k \in h + 1 .. j - 1 : k \in h + 1 .. i - 1
    BY <1>2, <1>3, <1>5, <2>1
  <2>3. program[h].level < program[j].level
    <3>1. h \in DOMAIN program /\ j \in DOMAIN program
      BY <1>2, <1>3, <2>1
    <3> QED
      BY <1>1, <2>1, <2>2, <3>1
  <2> QED
    BY <2>1, <2>2, <2>3 DEF Headers
<1>6. Headers(j) = {h \in Headers(i) : h < j}
  BY <1>4, <1>5
<1>7. j \in DOMAIN program /\ j < i
  BY <1>2, <1>3
<1> QED
  BY <1>6, <1>7

\* So it is for scopes; and the scope of a statement is the last one around it.
LEMMA ScopeIsAround ==
  ASSUME program \in Seq(Statements), NEW i \in DOMAIN program
  PROVE  /\ ScopeOf(i) \in {0} \cup ScopesAround(i)
         /\ \A g \in ScopesAround(i) : g \in DOMAIN program /\ g < i /\ g <= ScopeOf(i)
         /\ ScopeOf(i) = 0 => ScopesAround(i) = {}
<1>1. /\ DOMAIN program = 1 .. Len(program) /\ Len(program) \in Nat /\ i \in Nat
      /\ ScopesAround(i) \subseteq 1 .. i - 1
  BY DEF ScopesAround, Headers
<1>2. {0} \cup ScopesAround(i) \subseteq 0 .. Len(program)
  BY <1>1
<1>3. /\ MaxOf({0} \cup ScopesAround(i)) \in {0} \cup ScopesAround(i)
      /\ \A k \in {0} \cup ScopesAround(i) : k <= MaxOf({0} \cup ScopesAround(i))
  <2> DEFINE S == {0} \cup ScopesAround(i)
  <2>1. S \in SUBSET (0 .. Len(program)) /\ S # {}
    BY <1>2
  <2> HIDE DEF S
  <2>2. MaxOf(S) \in S /\ \A k \in S : k <= MaxOf(S)
    BY <1>1, <2>1, MaxExists
  <2> QED
    BY <2>2 DEF S
<1>4. \A g \in ScopesAround(i) : g \in DOMAIN program /\ g < i /\ g # 0
  BY <1>1
<1>5. /\ ScopeOf(i) \in {0} \cup ScopesAround(i)
      /\ \A k \in {0} \cup ScopesAround(i) : k <= ScopeOf(i)
  BY <1>3, Zenon DEF ScopeOf
<1>6. ASSUME ScopeOf(i) = 0, NEW g \in ScopesAround(i) PROVE FALSE
  <2>1. g <= 0 /\ g \in 1 .. i - 1
    BY <1>1, <1>5, <1>6
  <2> QED
    BY <1>1, <2>1
<1> QED
  BY <1>4, <1>5, <1>6

\* The scopes around a scope are those further out around anything in it.
LEMMA ScopesOfScope ==
  ASSUME program \in Seq(Statements), NEW i \in DOMAIN program, NEW s \in ScopesAround(i)
  PROVE  /\ s \in DOMAIN program /\ s < i
         /\ ScopesAround(s) = {g \in ScopesAround(i) : g < s}
<1>1. s \in Headers(i) /\ program[s].kind \in Scopes
  BY DEF ScopesAround
<1>2. s \in DOMAIN program /\ s < i /\ Headers(s) = {h \in Headers(i) : h < s}
  BY <1>1, HeadersOfHeader
<1> QED
  BY <1>1, <1>2 DEF ScopesAround

-----------------------------------------------------------------------------
(* What a new line leaves as it is.                                          *)

\* Another line leaves the ones before it as they are.
LEMMA NewLine ==
  ASSUME program \in Seq(Statements), NEW x \in Statements, program' = Append(program, x)
  PROVE  /\ Len(program) \in Nat /\ DOMAIN program = 1 .. Len(program)
         /\ program' \in Seq(Statements)
         /\ Len(program') = Len(program) + 1 /\ DOMAIN program' = 1 .. Len(program) + 1
         /\ \A i \in DOMAIN program : i \in DOMAIN program' /\ program'[i] = program[i]
         /\ program'[This] = x
         /\ \A i \in DOMAIN program' : i \in DOMAIN program \/ i = This
<1>1. Len(program) \in Nat /\ DOMAIN program = 1 .. Len(program)
  OBVIOUS
<1>2. /\ program' \in Seq(Statements)
      /\ Len(program') = Len(program) + 1 /\ DOMAIN program' = 1 .. Len(program) + 1
      /\ \A i \in 1 .. Len(program) : program'[i] = program[i]
      /\ program'[Len(program) + 1] = x
  BY Pushed
<1> QED
  BY <1>1, <1>2 DEF This

\* What is around a line that is there does not change.
LEMMA HeadersStay ==
  ASSUME program \in Seq(Statements), NEW x \in Statements, program' = Append(program, x),
         NEW i \in DOMAIN program
  PROVE  /\ Headers(i)' = Headers(i) /\ ScopesAround(i)' = ScopesAround(i)
         /\ ScopeOf(i)' = ScopeOf(i) /\ BlocksAround(i)' = BlocksAround(i)
         /\ Outside(i)' = Outside(i)
<1>1. /\ i \in Nat /\ \A j \in 1 .. i : program'[j] = program[j]
      /\ Len(program) \in Nat /\ DOMAIN program = 1 .. Len(program)
  BY NewLine
<1>2. Headers(i)' = Headers(i)
  <2>1. ASSUME NEW j \in 1 .. i - 1
        PROVE  (/\ program'[j].level < program'[i].level
                /\ \A k \in j + 1 .. i - 1 : program'[k].level > program'[j].level)
               <=> (/\ program[j].level < program[i].level
                    /\ \A k \in j + 1 .. i - 1 : program[k].level > program[j].level)
    <3>1. program'[j] = program[j] /\ program'[i] = program[i]
      BY <1>1
    <3>2. \A k \in j + 1 .. i - 1 : program'[k] = program[k]
      BY <1>1
    <3> QED
      BY <3>1, <3>2
  <2> QED
    BY <2>1 DEF Headers
<1>3. ScopesAround(i)' = ScopesAround(i)
  <2>1. \A j \in Headers(i) : program'[j] = program[j]
    BY <1>1 DEF Headers
  <2> QED
    BY <1>2, <2>1 DEF ScopesAround
<1>4. ScopeOf(i)' = ScopeOf(i)
  BY <1>3 DEF ScopeOf
<1> QED
  BY <1>2, <1>3, <1>4 DEF BlocksAround, Outside

\* Nor does it change what is wrong with the places of these.
LEMMA PlacesStay ==
  ASSUME program \in Seq(Statements), NEW x \in Statements, program' = Append(program, x),
         NEW i \in DOMAIN program
  PROVE  PlaceErrors(i)' = PlaceErrors(i) /\ InElse(i)' = InElse(i)
<1>1. /\ Headers(i)' = Headers(i) /\ ScopeOf(i)' = ScopeOf(i)
      /\ BlocksAround(i)' = BlocksAround(i)
  BY HeadersStay
<1>2. \A j \in BlocksAround(i) \cup ScopesAround(i) \cup {i} : program'[j] = program[j]
  <2>1. \A j \in Headers(i) : j \in DOMAIN program
    BY HeadersOfHeader
  <2>2. \A j \in BlocksAround(i) \cup ScopesAround(i) : j \in Headers(i)
    BY DEF BlocksAround, ScopesAround
  <2>3. \A j \in BlocksAround(i) \cup ScopesAround(i) \cup {i} : j \in DOMAIN program
    BY <2>1, <2>2
  <2> QED
    BY <2>3, NewLine
<1>3. TooDeep(i)' = TooDeep(i)
  BY <1>1 DEF TooDeep
<1>4. TooManyBlocks(i)' = TooManyBlocks(i)
  BY <1>1, <1>2 DEF TooManyBlocks
<1>5. Misplaced(i)' = Misplaced(i)
  <2>1. ScopeOf(i) = 0 \/ program'[ScopeOf(i)] = program[ScopeOf(i)]
    BY <1>2, ScopeIsAround
  <2>2. \A j \in BlocksAround(i) : program'[j] = program[j]
    BY <1>2
  <2>3. program'[i] = program[i]
    BY <1>2
  <2> QED
    BY <1>1, <2>1, <2>2, <2>3 DEF Misplaced, IsFunction
<1>6. InElse(i)' = InElse(i)
  BY <1>1, <1>2 DEF InElse
<1> QED
  BY <1>3, <1>4, <1>5, <1>6 DEF PlaceErrors

\* The lines of a scope stay, and the new one belongs to its own.
LEMMA LinesStay ==
  ASSUME program \in Seq(Statements), NEW x \in Statements, program' = Append(program, x),
         NEW n, n = This, NEW s, NEW kinds
  PROVE  /\ \A i \in DOMAIN program : i \in Lines(s, kinds)' <=> i \in Lines(s, kinds)
         /\ n \in Lines(s, kinds)' <=> x.kind \in kinds /\ ScopeOf(n)' = s
         /\ \A i \in Lines(s, kinds)' : i \in Lines(s, kinds) \/ i = n
         /\ n \notin Lines(s, kinds) /\ Lines(s, kinds) \subseteq DOMAIN program
<1>1. \A i \in DOMAIN program : program'[i] = program[i] /\ ScopeOf(i)' = ScopeOf(i)
  BY NewLine, HeadersStay
<1>2. /\ \A i \in DOMAIN program : i \in DOMAIN program'
      /\ \A i \in DOMAIN program' : i \in DOMAIN program \/ i = n
      /\ n \in DOMAIN program' /\ n \notin DOMAIN program /\ program'[n] = x
  BY NewLine DEF This
<1>3. \A i : i \in Lines(s, kinds) <=>
             i \in DOMAIN program /\ program[i].kind \in kinds /\ ScopeOf(i) = s
  BY DEF Lines
<1>4. \A i : i \in Lines(s, kinds)' <=>
             i \in DOMAIN program' /\ program'[i].kind \in kinds /\ ScopeOf(i)' = s
  BY DEF Lines
<1> QED
  BY <1>1, <1>2, <1>3, <1>4

-----------------------------------------------------------------------------
(* What is around the next line.                                             *)

\* The open statements are in the order of their lines.
LEMMA OpenOrder ==
  ASSUME program \in Seq(Statements), open \in Seq(Nat), OpenInv
  PROVE  /\ Len(open) \in Nat /\ DOMAIN open = 1 .. Len(open)
         /\ \A l \in DOMAIN open : open[l] \in DOMAIN program /\ open[l] \in Nat \ {0}
         /\ \A l, m \in DOMAIN open : l < m => open[l] < open[m]
<1>1. /\ Len(open) \in Nat /\ DOMAIN open = 1 .. Len(open)
      /\ Len(program) \in Nat /\ DOMAIN program = 1 .. Len(program)
  OBVIOUS
<1>2. \A l \in DOMAIN open : open[l] \in DOMAIN program /\ open[l] \in Nat \ {0}
  <2>1. \A l \in DOMAIN open : open[l] \in DOMAIN program
    BY DEF OpenInv
  <2>2. \A i \in DOMAIN program : i \in Nat \ {0}
    BY <1>1
  <2> QED
    BY <2>1, <2>2
<1>3. ASSUME NEW l \in DOMAIN open, NEW m \in DOMAIN open, l < m, ~(open[l] < open[m])
      PROVE  FALSE
  <2>1. l \in Nat /\ m \in Nat
    BY <1>1
  <2>2. program[open[l]].level = l - 1 /\ program[open[m]].level = m - 1
    BY DEF OpenInv
  <2>3. open[l] = open[m] \/ open[l] \in open[m] + 1 .. Len(program)
    BY <1>1, <1>2, <1>3
  <2>4. open[l] = open[m] \/ program[open[l]].level >= m
    BY <2>3 DEF OpenInv
  <2> QED
    BY <1>3, <2>1, <2>2, <2>4
<1> QED
  BY <1>1, <1>2, <1>3

\* A line that is m statements deep is in the first m that are open.
LEMMA NextHeaders ==
  ASSUME program \in Seq(Statements), open \in Seq(Nat), OpenInv,
         NEW x \in Statements, program' = Append(program, x),
         NEW n, n = This, x.level \in 0 .. Len(open)
  PROVE  Headers(n)' = {open[l] : l \in 1 .. x.level}
<1> DEFINE m == x.level
<1>1. /\ Len(open) \in Nat /\ DOMAIN open = 1 .. Len(open)
      /\ Len(program) \in Nat /\ DOMAIN program = 1 .. Len(program)
      /\ \A l \in DOMAIN open : open[l] \in DOMAIN program /\ open[l] \in Nat
      /\ n = Len(program) + 1 /\ m \in 0 .. Len(open)
  BY OpenOrder DEF This
<1>2. program'[n].level = m /\ \A j \in 1 .. n - 1 : program'[j] = program[j]
  BY <1>1, NewLine
<1>3. \A j \in DOMAIN program : program[j].level \in Nat
  BY StatementTypes
<1>4. \A j : j \in Headers(n)' <=>
               /\ j \in 1 .. n - 1 /\ program'[j].level < program'[n].level
               /\ \A k \in j + 1 .. n - 1 : program'[k].level > program'[j].level
  BY DEF Headers
<1>5. \A j : j \in Headers(n)' <=>
               /\ j \in DOMAIN program /\ program[j].level < m
               /\ \A k \in j + 1 .. Len(program) : program[k].level > program[j].level
  <2> SUFFICES ASSUME NEW j \in 1 .. n - 1
               PROVE  j \in Headers(n)' <=>
                        /\ program[j].level < m
                        /\ \A k \in j + 1 .. Len(program) : program[k].level > program[j].level
    BY <1>1, <1>4
  <2>1. \A k \in j + 1 .. n - 1 : program'[k] = program[k]
    BY <1>1, <1>2
  <2>2. program'[j] = program[j] /\ n - 1 = Len(program)
    BY <1>1, <1>2
  <2> QED
    BY <1>2, <1>4, <2>1, <2>2
<1>6. ASSUME NEW l \in 1 .. m PROVE open[l] \in Headers(n)'
  <2>1. l \in DOMAIN open /\ l \in Nat
    BY <1>1
  <2>2. /\ program[open[l]].level = l - 1
        /\ \A k \in open[l] + 1 .. Len(program) : program[k].level >= l
    BY <2>1 DEF OpenInv
  <2>3. \A k \in open[l] + 1 .. Len(program) : k \in DOMAIN program
    BY <1>1, <2>1
  <2>4. \A k \in open[l] + 1 .. Len(program) : program[k].level > program[open[l]].level
    BY <1>3, <2>1, <2>2, <2>3
  <2>5. program[open[l]].level < m /\ open[l] \in DOMAIN program
    BY <1>1, <2>1, <2>2
  <2> QED
    BY <1>5, <2>4, <2>5
<1>7. ASSUME NEW j \in Headers(n)' PROVE \E l \in 1 .. m : j = open[l]
  <2>1. /\ j \in DOMAIN program /\ program[j].level < m /\ program[j].level \in Nat
        /\ \A k \in j + 1 .. Len(program) : program[k].level > program[j].level
    BY <1>3, <1>5
  <2> DEFINE l == program[j].level + 1
  <2>2. l \in 1 .. m /\ l \in DOMAIN open /\ l \in Nat
    BY <1>1, <2>1
  <2>3. /\ program[open[l]].level = l - 1 /\ open[l] \in DOMAIN program
        /\ \A k \in open[l] + 1 .. Len(program) : program[k].level >= l
    BY <2>2 DEF OpenInv
  <2>4. ~(j < open[l])
    <3> SUFFICES ASSUME j < open[l] PROVE FALSE
      OBVIOUS
    <3>1. open[l] \in j + 1 .. Len(program)
      BY <1>1, <2>1, <2>3
    <3>2. program[open[l]].level > program[j].level
      BY <2>1, <3>1
    <3> QED
      BY <2>1, <2>3, <3>2
  <2>5. ~(j > open[l])
    <3> SUFFICES ASSUME j > open[l] PROVE FALSE
      OBVIOUS
    <3>1. j \in open[l] + 1 .. Len(program)
      BY <1>1, <2>1, <2>3
    <3>2. program[j].level >= l
      BY <2>3, <3>1
    <3> QED
      BY <2>1, <3>2
  <2>6. j = open[l]
    <3>1. j \in Nat /\ open[l] \in Nat
      BY <1>1, <2>1, <2>3
    <3> QED
      BY <3>1, <2>4, <2>5
  <2> QED
    BY <2>2, <2>6
<1> QED
  BY <1>6, <1>7

\* The scopes that are open are around one another.
LEMMA OpenHeaders ==
  ASSUME program \in Seq(Statements), open \in Seq(Nat), OpenInv, NEW l \in DOMAIN open
  PROVE  Headers(open[l]) = {open[k] : k \in 1 .. l - 1}
<1>1. /\ Len(open) \in Nat /\ DOMAIN open = 1 .. Len(open) /\ l \in Nat
      /\ Len(program) \in Nat /\ DOMAIN program = 1 .. Len(program)
      /\ \A k \in DOMAIN open : open[k] \in DOMAIN program /\ open[k] \in Nat
      /\ \A k, m \in DOMAIN open : k < m => open[k] < open[m]
  BY OpenOrder
<1>2. \A k \in DOMAIN open :
        /\ program[open[k]].level = k - 1
        /\ \A j \in open[k] + 1 .. Len(program) : program[j].level >= k
  BY DEF OpenInv
<1>3. \A j \in DOMAIN program : program[j].level \in Nat
  BY StatementTypes
<1>4. ASSUME NEW k \in 1 .. l - 1 PROVE open[k] \in Headers(open[l])
  <2>1. k \in DOMAIN open /\ k \in Nat /\ open[k] < open[l]
    BY <1>1
  <2>2. open[k] \in 1 .. open[l] - 1 /\ program[open[k]].level < program[open[l]].level
    BY <1>1, <1>2, <2>1
  <2>3. ASSUME NEW j \in open[k] + 1 .. open[l] - 1
        PROVE  program[j].level > program[open[k]].level
    <3>1. j \in open[k] + 1 .. Len(program) /\ j \in DOMAIN program
      BY <1>1, <2>1
    <3>2. program[j].level >= k /\ program[open[k]].level = k - 1 /\ program[j].level \in Nat
      BY <1>2, <1>3, <2>1, <3>1
    <3> QED
      BY <2>1, <3>2
  <2> QED
    BY <2>2, <2>3 DEF Headers
<1>5. ASSUME NEW j \in Headers(open[l]) PROVE \E k \in 1 .. l - 1 : j = open[k]
  <2>1. /\ j \in 1 .. open[l] - 1 /\ program[j].level < program[open[l]].level
        /\ \A k \in j + 1 .. open[l] - 1 : program[k].level > program[j].level
    BY DEF Headers
  <2>2. j \in DOMAIN program /\ program[j].level \in Nat /\ program[j].level < l - 1
    <3>1. j \in DOMAIN program
      BY <1>1, <2>1
    <3> QED
      BY <1>2, <1>3, <2>1, <3>1
  <2> DEFINE k == program[j].level + 1
  <2>3. k \in 1 .. l - 1 /\ k \in DOMAIN open /\ k \in Nat /\ open[k] < open[l]
    BY <1>1, <2>2
  <2>4. /\ program[open[k]].level = k - 1
        /\ \A i \in open[k] + 1 .. Len(program) : program[i].level >= k
    BY <1>2, <2>3
  <2>5. ~(j < open[k])
    <3> SUFFICES ASSUME j < open[k] PROVE FALSE
      OBVIOUS
    <3>1. open[k] \in j + 1 .. open[l] - 1
      BY <1>1, <2>1, <2>3
    <3>2. program[open[k]].level > program[j].level
      BY <2>1, <3>1
    <3> QED
      BY <2>2, <2>4, <3>2
  <2>6. ~(j > open[k])
    <3> SUFFICES ASSUME j > open[k] PROVE FALSE
      OBVIOUS
    <3>1. j \in open[k] + 1 .. Len(program)
      BY <1>1, <2>1, <2>2, <2>3
    <3>2. program[j].level >= k
      BY <2>4, <3>1
    <3> QED
      BY <2>2, <3>2
  <2>7. j \in Nat /\ open[k] \in Nat
    BY <1>1, <2>1, <2>3
  <2>8. j = open[k]
    BY <2>5, <2>6, <2>7
  <2> QED
    BY <2>3, <2>8
<1> QED
  BY <1>4, <1>5

\* The scopes around an open one are the open ones before it, and none is open
\* in one that is not.
LEMMA OpenScopesNest ==
  ASSUME program \in Seq(Statements), open \in Seq(Nat), OpenInv
  PROVE  /\ OpenScopes \subseteq DOMAIN program
         /\ \A s \in OpenScopes : /\ program[s].kind \in Scopes
                                  /\ ScopesAround(s) = {g \in OpenScopes : g < s}
<1>1. /\ Len(open) \in Nat /\ DOMAIN open = 1 .. Len(open)
      /\ \A l \in DOMAIN open : open[l] \in DOMAIN program /\ open[l] \in Nat
      /\ \A l, m \in DOMAIN open : l < m => open[l] < open[m]
  BY OpenOrder
<1>2. \A s : s \in OpenScopes <=>
               \E l \in DOMAIN open : s = open[l] /\ program[open[l]].kind \in Scopes
  BY DEF OpenScopes
<1>3. ASSUME NEW s \in OpenScopes
      PROVE  program[s].kind \in Scopes /\ ScopesAround(s) = {g \in OpenScopes : g < s}
  <2>1. PICK l \in DOMAIN open : s = open[l] /\ program[s].kind \in Scopes
    BY <1>2
  <2>2. Headers(s) = {open[k] : k \in 1 .. l - 1}
    BY <2>1, OpenHeaders
  <2>3. ASSUME NEW g PROVE g \in ScopesAround(s) <=> g \in OpenScopes /\ g < s
    <3>1. g \in ScopesAround(s) <=> g \in Headers(s) /\ program[g].kind \in Scopes
      BY DEF ScopesAround
    <3>2. ASSUME g \in ScopesAround(s) PROVE g \in OpenScopes /\ g < s
      <4>1. PICK k \in 1 .. l - 1 : g = open[k]
        BY <2>2, <3>1, <3>2
      <4>2. k \in DOMAIN open /\ k < l
        BY <1>1, <2>1
      <4> QED
        BY <1>1, <1>2, <2>1, <3>1, <3>2, <4>1, <4>2
    <3>3. ASSUME g \in OpenScopes, g < s PROVE g \in ScopesAround(s)
      <4>1. PICK k \in DOMAIN open : g = open[k] /\ program[g].kind \in Scopes
        BY <1>2, <3>3
      <4>2. k < l
        <5>1. ~(l < k) /\ k # l
          BY <1>1, <2>1, <3>3, <4>1
        <5> QED
          BY <1>1, <2>1, <4>1, <5>1
      <4>3. k \in 1 .. l - 1
        BY <1>1, <2>1, <4>1, <4>2
      <4> QED
        BY <2>2, <3>1, <4>1, <4>3
    <3> QED
      BY <3>2, <3>3
  <2> QED
    BY <2>1, <2>3
<1> QED
  BY <1>1, <1>2, <1>3

-----------------------------------------------------------------------------
(* The errors of a line.                                                     *)

\* Statements are known by their lines if nothing is before them.
LEMMA LineOfStatement ==
  ASSUME TypeOK, head = <<>>, NEW i \in Nat
  PROVE  Line(i) = i
BY HeadsAssumption DEF TypeOK, Line

-----------------------------------------------------------------------------
(* What all visits have in common: x is the statement, ms are its messages.  *)

Begins == open # <<>> /\ Last(open) = Len(program)
Messages(ms) == (IF Begins /\ indentation + 1 = MaxIndents THEN <<"indentation">> ELSE <<>>) \o ms

Visiting(x, ms) ==
  /\ ~finished /\ ~Alone /\ head = <<>> /\ head' = head /\ finished' = finished
  /\ x.level = Len(open) /\ program' = Append(program, x)
  /\ open' = IF x.kind \in Blocks \cup Scopes THEN Append(open, This) ELSE open
  /\ indentation' = indentation + IF Begins THEN 1 ELSE 0
  /\ errors' = IF Messages(ms) = <<>> THEN errors ELSE AddIssues({This}, Head(Messages(ms)))

NameVisit(x, ms) ==
  /\ x.kind \in NameStatements /\ x.detail = <<>>
  /\ contexts' = InContext(AddName(x.kind)) /\ ms = NonlocalModuleLevelRule(x.kind)
JumpVisit(x, ms) ==
  /\ x.kind \in Jumps /\ x.detail = <<>>
  /\ contexts' = contexts /\ ms = IF InItsPlace(x.kind) THEN <<>> ELSE <<"misplaced">>
BlockVisit(x, ms) ==
  /\ x.kind \in Blocks /\ x.detail = <<>>
  /\ contexts' = InContext([Context EXCEPT !.blocks = Append(@, x.kind)])
  /\ ms = IF Len(Context.blocks) + 1 = MaxBlocks THEN <<"blocks">> ELSE <<>>
Around(kind) ==
  IF kind \in WithParameter
  THEN [Context EXCEPT !.params = TRUE, !.used = @ \cup {[what |-> "param", at |-> This]}]
  ELSE Context
ScopeVisit(x, ms) ==
  /\ x.kind \in Scopes /\ x.detail = <<>>
  /\ contexts' = Append(InContext(Around(x.kind)), NewContext(This)) /\ ms = <<>>
RuledVisit(x, ms) ==
  /\ x.kind \in RuledKinds /\ x.detail # <<>> /\ program = <<>>
  /\ contexts' = contexts /\ ms = RuleMessages(x.kind, x.detail)

VisitOf(x, ms) ==
  NameVisit(x, ms) \/ JumpVisit(x, ms) \/ BlockVisit(x, ms) \/ ScopeVisit(x, ms) \/ RuledVisit(x, ms)

\* Sequences of one message.
LEMMA OneMessage ==
  /\ <<>> \in Seq(Texts)
  /\ \A m \in Texts : <<m>> \in Seq(Texts) /\ <<m>> # <<>> /\ Len(<<m>>) = 1 /\ Head(<<m>>) = m
OBVIOUS

\* The actions that visit a statement are visits of some statement and messages.
LEMMA Visits ==
  ASSUME TypeOK,
         NameStatement \/ Jump \/ BlockStatement \/ ScopeStatement \/ RuledStatement
  PROVE  \E x \in Statements, ms \in Seq(Texts) : Visiting(x, ms) /\ VisitOf(x, ms)
<1>1. Len(open) \in Nat
  BY DEF TypeOK
<1>2. CASE NameStatement
  <2>1. PICK kind \in NameStatements :
          Visit(kind, <<>>, InContext(AddName(kind)), NonlocalModuleLevelRule(kind))
    BY <1>2 DEF NameStatement
  <2> DEFINE x == [kind |-> kind, detail |-> <<>>, level |-> Len(open)]
             ms == NonlocalModuleLevelRule(kind)
  <2>2. x \in Statements
    BY <1>1 DEF Statements, Kinds
  <2>4. ms \in Seq(Texts)
    BY OneMessage DEF NonlocalModuleLevelRule, Texts
  <2>3. Visiting(x, ms) /\ NameVisit(x, ms)
    BY <1>2, <2>1 DEF NameStatement, Visit, Visiting, NameVisit, Begins, Messages
  <2> QED
    BY <2>2, <2>3, <2>4 DEF VisitOf
<1>3. CASE Jump
  <2>1. PICK kind \in Jumps :
          Visit(kind, <<>>, contexts, IF InItsPlace(kind) THEN <<>> ELSE <<"misplaced">>)
    BY <1>3 DEF Jump
  <2> DEFINE x == [kind |-> kind, detail |-> <<>>, level |-> Len(open)]
             ms == IF InItsPlace(kind) THEN <<>> ELSE <<"misplaced">>
  <2>2. x \in Statements
    BY <1>1 DEF Statements, Kinds
  <2>4. ms \in Seq(Texts)
    BY OneMessage DEF Texts
  <2>3. Visiting(x, ms) /\ JumpVisit(x, ms)
    BY <1>3, <2>1 DEF Jump, Visit, Visiting, JumpVisit, Begins, Messages
  <2> QED
    BY <2>2, <2>3, <2>4 DEF VisitOf
<1>4. CASE BlockStatement
  <2>1. PICK kind \in Blocks :
          Visit(kind, <<>>, InContext([Context EXCEPT !.blocks = Append(@, kind)]),
                IF Len(Context.blocks) + 1 = MaxBlocks THEN <<"blocks">> ELSE <<>>)
    BY <1>4 DEF BlockStatement
  <2> DEFINE x == [kind |-> kind, detail |-> <<>>, level |-> Len(open)]
             ms == IF Len(Context.blocks) + 1 = MaxBlocks THEN <<"blocks">> ELSE <<>>
  <2>2. x \in Statements
    BY <1>1 DEF Statements, Kinds, Compound
  <2>4. ms \in Seq(Texts)
    BY OneMessage DEF Texts
  <2>3. Visiting(x, ms) /\ BlockVisit(x, ms)
    BY <1>4, <2>1 DEF BlockStatement, Visit, Visiting, BlockVisit, Begins, Messages
  <2> QED
    BY <2>2, <2>3, <2>4 DEF VisitOf
<1>5. CASE ScopeStatement
  <2>1. PICK kind \in Scopes :
          Visit(kind, <<>>, Append(InContext(Around(kind)), NewContext(This)), <<>>)
    BY <1>5 DEF ScopeStatement, Around, WithParameter
  <2> DEFINE x == [kind |-> kind, detail |-> <<>>, level |-> Len(open)]
  <2>2. x \in Statements /\ <<>> \in Seq(Texts)
    BY <1>1, OneMessage DEF Statements, Kinds, Compound
  <2>3. Visiting(x, <<>>) /\ ScopeVisit(x, <<>>)
    BY <1>5, <2>1 DEF ScopeStatement, Visit, Visiting, ScopeVisit, Begins, Messages
  <2> QED
    BY <2>2, <2>3 DEF VisitOf
<1>6. CASE RuledStatement
  <2>1. PICK s \in Ruled : Visit(s[1], s[2], contexts, RuleMessages(s[1], s[2]))
    BY <1>6 DEF RuledStatement
  <2> DEFINE x == [kind |-> s[1], detail |-> s[2], level |-> Len(open)]
             ms == RuleMessages(s[1], s[2])
  <2>2. /\ s[1] \in RuledKinds /\ s[2] # <<>> /\ ms \in Seq(Texts)
        /\ s[2] \in {t[2] : t \in Ruled}
    <3>1. s[1] \in RuledKinds /\ s[2] # <<>> /\ ms \in Seq(STRING)
      BY RuledAssumption
    <3>2. ms \in Seq(Texts)
      <4> HIDE DEF ms
      <4>1. STRING \subseteq Texts
        BY DEF Texts
      <4> QED
        BY <3>1, <4>1, SeqMonotonic
    <3> QED
      BY <3>1, <3>2
  <2>3. x \in Statements
    BY <1>1, <2>2 DEF Statements, Kinds
  <2>4. Visiting(x, ms) /\ RuledVisit(x, ms)
    BY <1>6, <2>1, <2>2 DEF RuledStatement, Visit, Visiting, RuledVisit, Begins, Messages
  <2> QED
    BY <2>2, <2>3, <2>4 DEF VisitOf
<1> QED
  BY <1>2, <1>3, <1>4, <1>5, <1>6

\* The first message of a statement is the error of its line.
LEMMA MessagesTyped ==
  ASSUME NEW ms \in Seq(Texts)
  PROVE  /\ Messages(ms) \in Seq(Texts)
         /\ Messages(ms) = <<>> <=> ~(Begins /\ indentation + 1 = MaxIndents) /\ ms = <<>>
         /\ Messages(ms) # <<>> =>
              Head(Messages(ms)) = IF Begins /\ indentation + 1 = MaxIndents THEN "indentation" ELSE Head(ms)
<1>1. CASE Begins /\ indentation + 1 = MaxIndents
  <2>1. Messages(ms) = <<"indentation">> \o ms
    BY <1>1 DEF Messages
  <2> DEFINE first == <<"indentation">>
             all == first \o ms
  <2>2. first \in Seq(Texts) /\ Len(first) = 1 /\ first[1] = "indentation"
    BY OneMessage DEF Texts
  <2> HIDE DEF first
  <2>3. /\ all \in Seq(Texts) /\ Len(all) = Len(first) + Len(ms)
        /\ \A i \in 1 .. Len(first) + Len(ms) : all[i] = IF i <= Len(first) THEN first[i] ELSE ms[i - Len(first)]
    BY <2>2, ConcatProperties
  <2>4. Len(ms) \in Nat
    OBVIOUS
  <2> HIDE DEF all
  <2>5. Len(all) \in Nat \ {0} /\ all[1] = "indentation"
    BY <2>2, <2>3, <2>4
  <2>6. all # <<>> /\ Head(all) = all[1]
    BY <2>3, <2>5
  <2> QED
    BY <1>1, <2>1, <2>3, <2>5, <2>6 DEF all, first
<1>2. CASE ~(Begins /\ indentation + 1 = MaxIndents)
  <2>1. Messages(ms) = ms
    BY <1>2, ConcatEmptySeq DEF Messages
  <2> QED
    BY <1>2, <2>1
<1> QED
  BY <1>1, <1>2

-----------------------------------------------------------------------------
(* The errors of a scope are in its lines and those of the scopes in it.     *)

\* _analyze_names finds lines of the program.
LEMMA AnalyzedBounded ==
  ASSUME NEW n \in Nat, NEW context, NEW d \in 1 .. n, \A u \in context.used : u.at \in 1 .. n
  PROVE  Analyzed(context, d) \subseteq 1 .. n
<1> DEFINE found == \E u \in context.used : u.at > d
           wrong == {u \in context.used : u.what # "param" /\ (found => u.what = "annotate")}
           S == {u.at : u \in wrong}
<1>1. S \in SUBSET (0 .. n) /\ S \subseteq 1 .. n
  OBVIOUS
<1>2. ASSUME wrong # {} PROVE MaxOf(S) \in 1 .. n
  <2>1. S # {}
    BY <1>2
  <2> HIDE DEF S
  <2>2. MaxOf(S) \in S
    BY <1>1, <2>1, MaxExists
  <2> QED
    BY <1>1, <2>2
<1>3. Analyzed(context, d) \subseteq {IF found /\ wrong # {} THEN MaxOf(S) ELSE d}
  <2> DEFINE at == IF found /\ wrong # {} THEN MaxOf(S) ELSE d
  <2>1. Analyzed(context, d) = IF wrong = {} /\ ~HasParameter(context.node) THEN {} ELSE {at}
    BY Zenon DEF Analyzed
  <2> HIDE DEF at, wrong, found
  <2>2. Analyzed(context, d) \subseteq {at}
    BY <2>1
  <2> QED
    BY <2>2 DEF at
<1> QED
  BY <1>2, <1>3

\* So does finalize.
LEMMA FinalizeBounded ==
  ASSUME NEW n \in Nat, NEW context,
         \A u \in context.used : u.at \in 1 .. n,
         context.globals \subseteq 1 .. n, context.nonlocals \subseteq 1 .. n,
         context.subscopes \subseteq 1 .. n
  PROVE  FinalizeIssues(context) \subseteq 1 .. n
<1>1. \A d \in context.globals \cup context.nonlocals : Analyzed(context, d) \subseteq 1 .. n
  BY AnalyzedBounded
<1>2. Both(context) \subseteq 1 .. n
  <2>1. CASE context.globals = {}
    BY <2>1 DEF Both
  <2>2. CASE context.globals # {}
    <3> DEFINE S == context.globals
               g == MaxOf(S)
    <3>1. S \in SUBSET (0 .. n) /\ S # {} /\ S \subseteq 1 .. n
      BY <2>2
    <3>2. g \in 1 .. n
      <4> HIDE DEF S
      <4> QED
        BY <3>1, MaxExists
    <3> HIDE DEF g
    <3>3. Both(context) = {IF g < m THEN g ELSE m : m \in context.nonlocals}
      BY <2>2 DEF Both, g
    <3> QED
      BY <3>2, <3>3
  <2> QED
    BY <2>1, <2>2
<1>3. (UNION {Analyzed(context, d) : d \in context.globals \cup context.nonlocals}) \subseteq 1 .. n
  BY <1>1, Zenon
<1> DEFINE names == UNION {Analyzed(context, d) : d \in context.globals \cup context.nonlocals}
           unbound == IF HasNoBinding(context) THEN context.subscopes ELSE {}
<1>4. unbound \subseteq 1 .. n
  OBVIOUS
<1>5. FinalizeIssues(context) = names \cup Both(context) \cup unbound
  BY Zenon DEF FinalizeIssues
<1> HIDE DEF names, unbound
<1>6. names \subseteq 1 .. n
  BY <1>3 DEF names
<1> QED
  BY <1>2, <1>4, <1>5, <1>6

\* What finalize finds does not depend on the blocks.
LEMMA SameFinalize ==
  ASSUME NEW a, NEW b, a.node = b.node, a.params = b.params, a.used = b.used,
         a.globals = b.globals, a.nonlocals = b.nonlocals, a.subscopes = b.subscopes
  PROVE  FinalizeIssues(a) = FinalizeIssues(b) /\ NotHandled(a) = NotHandled(b)
<1>1. \A d : Analyzed(a, d) = Analyzed(b, d)
  BY DEF Analyzed
<1>2. Both(a) = Both(b) /\ HasNoBinding(a) = HasNoBinding(b) /\ IsHandled(a) = IsHandled(b)
  BY DEF Both, HasNoBinding, IsHandled
<1> QED
  BY <1>1, <1>2 DEF FinalizeIssues, NotHandled

\* The lists of a context, and what finalize makes of them, are lines of the program.
LEMMA ContextBounded ==
  ASSUME TypeOK, NamesInv, NEW c \in DOMAIN contexts
  PROVE  /\ \A u \in contexts[c].used : u.at \in DOMAIN program
         /\ contexts[c].globals \subseteq DOMAIN program
         /\ contexts[c].nonlocals \subseteq DOMAIN program
         /\ contexts[c].subscopes \subseteq DOMAIN program
         /\ FinalizeIssues(contexts[c]) \subseteq DOMAIN program
         /\ NotHandled(contexts[c]) \subseteq DOMAIN program
<1>1. \A s, kinds : Lines(s, kinds) \subseteq DOMAIN program
  BY DEF Lines
<1>2. \A s : Arriving(s) \subseteq DOMAIN program
  BY DEF Arriving
<1> DEFINE s == contexts[c].node
<1>3. /\ contexts[c].used = Uses(s) /\ contexts[c].globals = Lines(s, {"global"})
      /\ contexts[c].nonlocals = Lines(s, {"nonlocal"})
      /\ contexts[c].subscopes \subseteq Arriving(s)
  BY DEF NamesInv, ContextOf, Arrived
<1>4. \A u \in Uses(s) : u.at \in DOMAIN program
  <2> SUFFICES ASSUME NEW u \in Uses(s) PROVE u.at \in DOMAIN program
    OBVIOUS
  <2>1. \/ \E i \in Lines(s, Occurrences) : u = [what |-> program[i].kind, at |-> i]
        \/ \E i \in Lines(s, WithParameter) : u = [what |-> "param", at |-> i]
    BY DEF Uses
  <2>2. ASSUME NEW i \in Lines(s, Occurrences), u = [what |-> program[i].kind, at |-> i]
        PROVE  u.at \in DOMAIN program
    BY <1>1, <2>2
  <2>3. ASSUME NEW i \in Lines(s, WithParameter), u = [what |-> "param", at |-> i]
        PROVE  u.at \in DOMAIN program
    BY <1>1, <2>3
  <2> QED
    BY <2>1, <2>2, <2>3
<1>5. /\ \A u \in contexts[c].used : u.at \in DOMAIN program
      /\ contexts[c].globals \subseteq DOMAIN program
      /\ contexts[c].nonlocals \subseteq DOMAIN program
      /\ contexts[c].subscopes \subseteq DOMAIN program
  BY <1>1, <1>2, <1>3, <1>4
<1>6. Len(program) \in Nat /\ DOMAIN program = 1 .. Len(program)
  BY DEF TypeOK
<1>7. FinalizeIssues(contexts[c]) \subseteq DOMAIN program
  BY <1>5, <1>6, FinalizeBounded
<1> QED
  BY <1>5, <1>7 DEF NotHandled

-----------------------------------------------------------------------------
(* Types.                                                                    *)

\* add_issue keeps the types of the errors.
LEMMA IssuesTyped ==
  ASSUME TypeOK, NEW S, S \subseteq Nat, NEW message \in Texts
  PROVE  LET e == AddIssues(S, message)
         IN DOMAIN e \subseteq Nat /\ e \in [DOMAIN e -> Texts]
<1>1. HeadLines(head) \in Nat \ {0}
  BY HeadsAssumption DEF TypeOK
<1>2. {Line(i) : i \in S} \subseteq Nat
  BY <1>1 DEF Line
<1>3. DOMAIN errors \subseteq Nat /\ \A l \in DOMAIN errors : errors[l] \in Texts
  BY DEF TypeOK
<1> QED
  BY <1>2, <1>3 DEF AddIssues

\* There is always a context, and the present one is the last.
LEMMA ContextTyped ==
  ASSUME TypeOK, NodesInv
  PROVE  /\ Context \in ContextRecords /\ Len(contexts) \in Nat \ {0}
         /\ DOMAIN contexts = 1 .. Len(contexts)
         /\ Context = contexts[Len(contexts)]
         /\ \A c \in DOMAIN contexts : contexts[c] \in ContextRecords
<1>1. contexts \in Seq(ContextRecords) /\ contexts # <<>>
  BY DEF TypeOK, NodesInv
<1>2. \A c \in 1 .. Len(contexts) : contexts[c] \in ContextRecords
  BY <1>1, ElementOfSeq
<1> QED
  BY <1>1, <1>2, Popped DEF Context

\* Types, at first and after every action.
LEMMA TypeInit == Init => TypeOK
<1> SUFFICES ASSUME Init PROVE TypeOK
  OBVIOUS
<1>1. NewContext(0) \in ContextRecords
  BY EmptySeq DEF NewContext, ContextRecords
<1>2. contexts \in Seq(ContextRecords)
  BY <1>1 DEF Init
<1>3. errors = <<>> /\ DOMAIN errors = {} /\ errors \in [DOMAIN errors -> Texts]
  BY DEF Init
<1>4. program \in Seq(Statements) /\ open \in Seq(Nat)
  BY EmptySeq DEF Init
<1>5. head \in Heads /\ indentation \in Nat /\ finished \in BOOLEAN
  BY DEF Init
<1> QED
  BY <1>2, <1>3, <1>4, <1>5 DEF TypeOK

\* The context that a visit leaves.
LEMMA VisitedContextTyped ==
  ASSUME TypeOK, NodesInv
  PROVE  /\ \A kind \in NameStatements : AddName(kind) \in ContextRecords
         /\ \A kind \in Blocks : [Context EXCEPT !.blocks = Append(@, kind)] \in ContextRecords
         /\ \A kind : Around(kind) \in ContextRecords
         /\ NewContext(This) \in ContextRecords /\ This \in Nat
<1>1. Context \in ContextRecords
  BY ContextTyped
<1>2. This \in Nat
  BY DEF TypeOK, This
<1>3. ASSUME NEW kind \in NameStatements PROVE AddName(kind) \in ContextRecords
  <2>1. CASE kind \in {"global", "nonlocal"}
    BY <1>1, <1>2, <2>1 DEF AddName, ContextRecords
  <2>2. CASE kind \in Occurrences
    <3>1. [what |-> kind, at |-> This] \in Used
      BY <1>2, <2>2 DEF Used
    <3>2. AddName(kind) = [Context EXCEPT !.used = @ \cup {[what |-> kind, at |-> This]}]
      BY <2>2 DEF AddName, Occurrences
    <3> QED
      BY <1>1, <3>1, <3>2 DEF ContextRecords
  <2> QED
    BY <2>1, <2>2 DEF NameStatements, Occurrences
<1>4. ASSUME NEW kind \in Blocks
      PROVE  [Context EXCEPT !.blocks = Append(@, kind)] \in ContextRecords
  <2>1. Append(Context.blocks, kind) \in Seq(Blocks)
    BY <1>1 DEF ContextRecords
  <2> QED
    BY <1>1, <2>1 DEF ContextRecords
<1>5. ASSUME NEW kind PROVE Around(kind) \in ContextRecords
  <2>1. [what |-> "param", at |-> This] \in Used
    BY <1>2 DEF Used
  <2> QED
    BY <1>1, <2>1 DEF Around, ContextRecords
<1>6. NewContext(This) \in ContextRecords
  BY <1>2, EmptySeq DEF NewContext, ContextRecords
<1> QED
  BY <1>2, <1>3, <1>4, <1>5, <1>6

LEMMA VisitTyped ==
  ASSUME TypeOK, NodesInv, NEW x \in Statements, NEW ms \in Seq(Texts),
         Visiting(x, ms), VisitOf(x, ms)
  PROVE  TypeOK'
<1>1. program' \in Seq(Statements)
  BY NewLine DEF TypeOK, Visiting
<1>2. contexts' \in Seq(ContextRecords)
  <2>1. contexts \in Seq(ContextRecords) /\ contexts # <<>>
    BY DEF TypeOK, NodesInv
  <2>2. \A r \in ContextRecords : InContext(r) \in Seq(ContextRecords)
    BY <2>1, Replaced DEF InContext
  <2>3. CASE NameVisit(x, ms)
    BY <2>2, <2>3, VisitedContextTyped DEF NameVisit
  <2>4. CASE JumpVisit(x, ms) \/ RuledVisit(x, ms)
    BY <2>1, <2>4 DEF JumpVisit, RuledVisit
  <2>5. CASE BlockVisit(x, ms)
    BY <2>2, <2>5, VisitedContextTyped DEF BlockVisit
  <2>6. CASE ScopeVisit(x, ms)
    <3>1. Around(x.kind) \in ContextRecords /\ NewContext(This) \in ContextRecords
      BY VisitedContextTyped
    <3> QED
      BY <2>2, <2>6, <3>1, Pushed DEF ScopeVisit
  <2> QED
    BY <2>3, <2>4, <2>5, <2>6 DEF VisitOf
<1>3. open' \in Seq(Nat)
  <2>1. open \in Seq(Nat) /\ This \in Nat
    BY DEF TypeOK, This
  <2> QED
    BY <2>1, Pushed DEF Visiting
<1>4. indentation' \in Nat
  BY DEF TypeOK, Visiting
<1>5. DOMAIN errors' \subseteq Nat /\ errors' \in [DOMAIN errors' -> Texts]
  <2>1. CASE Messages(ms) = <<>>
    BY <2>1 DEF Visiting, TypeOK
  <2>2. CASE Messages(ms) # <<>>
    <3>1. Head(Messages(ms)) \in Texts
      BY <2>2, MessagesTyped, HeadTailProperties
    <3>2. {This} \subseteq Nat
      BY DEF TypeOK, This
    <3>3. errors' = AddIssues({This}, Head(Messages(ms)))
      BY <2>2 DEF Visiting
    <3> QED
      BY <3>1, <3>2, <3>3, IssuesTyped
  <2> QED
    BY <2>1, <2>2
<1>6. head' \in Heads /\ finished' \in BOOLEAN
  BY DEF TypeOK, Visiting
<1> QED
  BY <1>1, <1>2, <1>3, <1>4, <1>5, <1>6 DEF TypeOK

LEMMA ElseTyped == TypeOK /\ OpenInv /\ ElseClause => TypeOK'
<1> SUFFICES ASSUME TypeOK, OpenInv, ElseClause PROVE TypeOK'
  OBVIOUS
<1>1. open # <<>> /\ open \in Seq(Nat) /\ Len(open) \in Nat \ {0} /\ This \in Nat
  BY EmptySeq DEF TypeOK, ElseClause, This
<1>2. open' \in Seq(Nat)
  BY <1>1, Replaced DEF ElseClause
<1>3. program' \in Seq(Statements)
  <2>1. [kind |-> "else", detail |-> <<>>, level |-> Len(open) - 1] \in Statements
    BY <1>1 DEF Statements, Kinds, Compound
  <2> QED
    BY <2>1, NewLine DEF TypeOK, ElseClause
<1>4. indentation' \in Nat
  <2>1. indentation = Len(open)
    BY <1>1 DEF OpenInv, ElseClause
  <2> QED
    BY <1>1, <2>1 DEF ElseClause
<1> QED
  BY <1>2, <1>3, <1>4 DEF TypeOK, ElseClause

LEMMA LeaveTyped ==
  ASSUME TypeOK, OpenInv, NodesInv, NamesInv, LeaveStatement,
         program[Last(open)].kind \in Scopes => Len(contexts) > 1
  PROVE  TypeOK'
<1>1. open # <<>> /\ open \in Seq(Nat) /\ Len(open) \in Nat \ {0}
  BY EmptySeq DEF TypeOK, LeaveStatement
<1>2. open' \in Seq(Nat)
  BY <1>1, Popped DEF LeaveStatement
<1>3. indentation' \in Nat
  <2>1. Last(open) < Len(program)
    BY DEF LeaveStatement
  <2>2. Last(open) \in Nat /\ Len(program) \in Nat
    <3>1. Last(open) \in Nat
      BY <1>1, Popped
    <3> QED
      BY <3>1 DEF TypeOK
  <2>3. indentation = Len(open)
    BY <1>1, <2>1, <2>2 DEF OpenInv
  <2> QED
    BY <1>1, <2>3 DEF LeaveStatement
<1>4. contexts \in Seq(ContextRecords) /\ contexts # <<>>
  BY DEF TypeOK, NodesInv
<1>5. CASE program[Last(open)].kind \in Scopes
  <2> DEFINE outer == Front(contexts)
             r == [Last(outer) EXCEPT !.subscopes = @ \cup NotHandled(Context)]
  <2>1. outer \in Seq(ContextRecords) /\ Len(outer) = Len(contexts) - 1
    BY <1>4, Popped
  <2>2. outer # <<>>
    <3>1. Len(outer) > 0
      BY <1>4, <1>5, <2>1
    <3> QED
      BY <3>1
  <2> HIDE DEF outer
  <2>3. Last(outer) \in ContextRecords
    BY <2>1, <2>2, Popped
  <2>4. NotHandled(Context) \subseteq Nat /\ FinalizeIssues(Context) \subseteq Nat
    BY ContextTyped, ContextBounded, StatementTypes DEF TypeOK
  <2>5. r \in ContextRecords
    BY <2>3, <2>4 DEF ContextRecords
  <2>6. contexts' = Append(Front(outer), r)
    BY <1>5 DEF LeaveStatement, outer
  <2>7. contexts' \in Seq(ContextRecords)
    <3> HIDE DEF r
    <3> QED
      BY <2>1, <2>2, <2>5, <2>6, Replaced
  <2>8. errors' = AddIssues(FinalizeIssues(Context), "name") /\ "name" \in Texts
    BY <1>5 DEF LeaveStatement, Texts
  <2>9. DOMAIN errors' \subseteq Nat /\ errors' \in [DOMAIN errors' -> Texts]
    BY <2>4, <2>8, IssuesTyped
  <2> QED
    BY <1>2, <1>3, <2>7, <2>9 DEF TypeOK, LeaveStatement
<1>6. CASE program[Last(open)].kind \notin Scopes
  <2>1. Context \in ContextRecords
    BY ContextTyped
  <2> DEFINE blocks == Front(Context.blocks)
  <2>2. blocks \in Seq(Blocks)
    <3>1. Context.blocks \in Seq(Blocks)
      BY <2>1 DEF ContextRecords
    <3>2. CASE Context.blocks # <<>>
      BY <3>1, <3>2, Popped
    <3>3. CASE Context.blocks = <<>>
      <4>1. Front(<<>>) = <<>>
        BY SubSeqEmpty DEF Front
      <4> QED
        BY <3>3, <4>1, EmptySeq
    <3> QED
      BY <3>2, <3>3
  <2>3. [Context EXCEPT !.blocks = blocks] \in ContextRecords
    <3> HIDE DEF blocks
    <3> QED
      BY <2>1, <2>2 DEF ContextRecords
  <2>4. contexts' \in Seq(ContextRecords)
    <3>1. contexts' = InContext([Context EXCEPT !.blocks = blocks])
      BY <1>6 DEF LeaveStatement
    <3> HIDE DEF blocks
    <3> QED
      BY <1>4, <2>3, <3>1, Replaced DEF InContext
  <2>5. errors' = errors
    BY <1>6 DEF LeaveStatement
  <2> QED
    BY <1>2, <1>3, <2>4, <2>5 DEF TypeOK, LeaveStatement
<1> QED
  BY <1>5, <1>6

LEMMA IndentTyped == TypeOK /\ UnexpectedIndent => TypeOK'
<1> SUFFICES ASSUME TypeOK, UnexpectedIndent PROVE TypeOK'
  OBVIOUS
<1>1. program' \in Seq(Statements)
  <2>1. [kind |-> "indented", detail |-> <<>>, level |-> 0] \in Statements
    BY DEF Statements, Kinds
  <2> DEFINE x == [kind |-> "indented", detail |-> <<>>, level |-> 0]
  <2>2. program' = <<x>>
    BY DEF UnexpectedIndent
  <2> HIDE DEF x
  <2> QED
    BY <2>1, <2>2 DEF x
<1>2. DOMAIN errors' \subseteq Nat /\ errors' \in [DOMAIN errors' -> Texts]
  <2>1. SpacingLine(head) \in Nat /\ "unexpected indent" \in Texts
    BY HeadsAssumption DEF TypeOK, Texts
  <2>2. errors' = [line \in {SpacingLine(head)} |-> "unexpected indent"]
    BY DEF UnexpectedIndent
  <2>3. DOMAIN errors' = {SpacingLine(head)} /\ \A l \in DOMAIN errors' : errors'[l] \in Texts
    BY <2>1, <2>2
  <2> QED
    BY <2>1, <2>2, <2>3
<1> QED
  BY <1>1, <1>2 DEF TypeOK, UnexpectedIndent

LEMMA FinishTyped == TypeOK /\ NodesInv /\ NamesInv /\ Finish => TypeOK'
<1> SUFFICES ASSUME TypeOK, NodesInv, NamesInv, Finish PROVE TypeOK'
  OBVIOUS
<1>1. FinalizeIssues(Context) \subseteq Nat /\ "name" \in Texts
  <2>1. FinalizeIssues(Context) \subseteq DOMAIN program
    BY ContextTyped, ContextBounded
  <2>2. DOMAIN program \subseteq Nat
    BY DEF TypeOK
  <2> QED
    BY <2>1, <2>2 DEF Texts
<1>2. DOMAIN errors' \subseteq Nat /\ errors' \in [DOMAIN errors' -> Texts]
  BY <1>1, IssuesTyped DEF Finish
<1> QED
  BY <1>2 DEF TypeOK, Finish

-----------------------------------------------------------------------------
(* The statements that are open.                                             *)

\* The innermost statement that is open.
LEMMA OpenTop ==
  ASSUME TypeOK, OpenInv, open # <<>>
  PROVE  /\ open \in Seq(Nat) /\ program \in Seq(Statements)
         /\ Len(open) \in Nat \ {0} /\ DOMAIN open = 1 .. Len(open) /\ Len(open) \in DOMAIN open
         /\ Len(program) \in Nat /\ DOMAIN program = 1 .. Len(program)
         /\ Last(open) = open[Len(open)] /\ Last(open) \in DOMAIN program /\ Last(open) \in Nat \ {0}
         /\ indentation = IF Last(open) = Len(program) THEN Len(open) - 1 ELSE Len(open)
<1>1. open \in Seq(Nat) /\ program \in Seq(Statements) /\ open # <<>>
  BY DEF TypeOK
<1>2. Len(open) \in Nat \ {0} /\ DOMAIN open = 1 .. Len(open) /\ Last(open) = open[Len(open)]
  BY <1>1, Popped
<1>3. Len(open) \in DOMAIN open
  BY <1>2
<1>4. open[Len(open)] \in DOMAIN program /\ open[Len(open)] \in Nat \ {0}
  BY <1>1, <1>3, OpenOrder
<1>5. Len(program) \in Nat /\ DOMAIN program = 1 .. Len(program)
  BY <1>1
<1> QED
  BY <1>1, <1>2, <1>3, <1>4, <1>5 DEF OpenInv

\* What is left of the open statements when the innermost one is closed, or has
\* another header.
LEMMA OpenBelow ==
  ASSUME open \in Seq(Nat), open # <<>>
  PROVE  /\ Front(open) \in Seq(Nat) /\ Len(Front(open)) = Len(open) - 1
         /\ DOMAIN Front(open) = 1 .. Len(open) - 1
         /\ \A l \in 1 .. Len(open) - 1 : Front(open)[l] = open[l]
BY Popped

\* The innermost open statement is replaced by its else.
LEMMA OpenReplaced ==
  ASSUME open \in Seq(Nat), open # <<>>, NEW n \in Nat
  PROVE  /\ Append(Front(open), n) \in Seq(Nat) /\ Len(Append(Front(open), n)) = Len(open)
         /\ DOMAIN Append(Front(open), n) = 1 .. Len(open)
         /\ \A l \in 1 .. Len(open) - 1 : Append(Front(open), n)[l] = open[l]
         /\ Append(Front(open), n)[Len(open)] = n
         /\ Append(Front(open), n) # <<>> /\ Last(Append(Front(open), n)) = n
BY Replaced

\* A line that is deep enough is below the headers before it.
LEMMA HeadersKept ==
  ASSUME program \in Seq(Statements), open \in Seq(Nat), OpenInv,
         NEW x \in Statements, program' = Append(program, x),
         NEW l \in DOMAIN open, l <= x.level
  PROVE  /\ open[l] \in DOMAIN program' /\ open[l] \in DOMAIN program
         /\ program'[open[l]] = program[open[l]]
         /\ program[open[l]].kind \in Compound /\ program[open[l]].level = l - 1
         /\ \A k \in open[l] + 1 .. Len(program') : program'[k].level >= l
<1>1. /\ open[l] \in DOMAIN program /\ program[open[l]].kind \in Compound
      /\ program[open[l]].level = l - 1
      /\ \A k \in open[l] + 1 .. Len(program) : program[k].level >= l
  BY DEF OpenInv
<1>2. /\ Len(program) \in Nat /\ DOMAIN program = 1 .. Len(program)
      /\ Len(program') = Len(program) + 1
      /\ \A i \in DOMAIN program : i \in DOMAIN program' /\ program'[i] = program[i]
      /\ program'[Len(program) + 1] = x
  BY NewLine DEF This
<1>3. ASSUME NEW k \in open[l] + 1 .. Len(program') PROVE program'[k].level >= l
  <2>1. k = Len(program) + 1 \/ (k \in open[l] + 1 .. Len(program) /\ k \in DOMAIN program)
    BY <1>1, <1>2
  <2>2. CASE k = Len(program) + 1
    BY <1>2, <2>2
  <2>3. CASE k \in open[l] + 1 .. Len(program) /\ k \in DOMAIN program
    BY <1>1, <1>2, <2>3
  <2> QED
    BY <2>1, <2>2, <2>3
<1> QED
  BY <1>1, <1>2, <1>3

\* A visited statement is the innermost open one, if it opens any.
LEMMA VisitOpen ==
  ASSUME TypeOK, OpenInv, NEW x \in Statements, NEW ms \in Seq(Texts), Visiting(x, ms)
  PROVE  OpenInv'
<1>1. /\ program \in Seq(Statements) /\ open \in Seq(Nat) /\ program' = Append(program, x)
      /\ Len(open) \in Nat /\ DOMAIN open = 1 .. Len(open) /\ x.level = Len(open)
      /\ finished' = FALSE /\ This \in Nat
  BY DEF TypeOK, Visiting, This
<1>2. /\ Len(program) \in Nat /\ DOMAIN program = 1 .. Len(program)
      /\ Len(program') = Len(program) + 1 /\ DOMAIN program' = 1 .. Len(program) + 1
      /\ program'[Len(program) + 1] = x
  BY <1>1, NewLine DEF This
<1>3. \A l \in DOMAIN open :
         /\ open[l] \in DOMAIN program' /\ open[l] \in DOMAIN program
         /\ program'[open[l]].kind \in Compound /\ program'[open[l]].level = l - 1
         /\ \A k \in open[l] + 1 .. Len(program') : program'[k].level >= l
  <2> SUFFICES ASSUME NEW l \in DOMAIN open
               PROVE  /\ open[l] \in DOMAIN program' /\ open[l] \in DOMAIN program
                      /\ program'[open[l]].kind \in Compound /\ program'[open[l]].level = l - 1
                      /\ \A k \in open[l] + 1 .. Len(program') : program'[k].level >= l
    OBVIOUS
  <2>1. l <= x.level
    BY <1>1
  <2> QED
    BY <1>1, <2>1, HeadersKept
<1>4. indentation' = Len(open)
  BY <1>1 DEF Visiting, OpenInv, Begins
<1>5. CASE x.kind \in Blocks \cup Scopes
  <2>1. /\ DOMAIN open' = 1 .. Len(open) + 1 /\ Len(open') = Len(open) + 1
        /\ \A l \in DOMAIN open : open'[l] = open[l]
        /\ open'[Len(open) + 1] = This /\ open' # <<>> /\ Last(open') = This
    BY <1>1, <1>5, Pushed DEF Visiting
  <2>2. ASSUME NEW l \in DOMAIN open'
        PROVE  /\ open'[l] \in DOMAIN program'
               /\ program'[open'[l]].kind \in Compound /\ program'[open'[l]].level = l - 1
               /\ \A k \in open'[l] + 1 .. Len(program') : program'[k].level >= l
    <3>1. CASE l \in DOMAIN open
      BY <1>3, <2>1, <3>1
    <3>2. CASE l = Len(open) + 1
      <4>1. open'[l] = Len(program) + 1
        BY <2>1, <3>2 DEF This
      <4>2. program'[open'[l]] = x /\ open'[l] \in DOMAIN program'
        BY <1>2, <4>1
      <4>3. x.kind \in Compound /\ x.level = l - 1
        BY <1>1, <1>5, <3>2 DEF Compound
      <4>4. \A k \in open'[l] + 1 .. Len(program') : FALSE
        BY <1>2, <4>1
      <4> QED
        BY <4>2, <4>3, <4>4
    <3> QED
      BY <1>1, <2>1, <3>1, <3>2
  <2>3. Last(open') = Len(program')
    BY <1>2, <2>1 DEF This
  <2>4. indentation' = Len(open') - 1
    BY <1>1, <1>4, <2>1
  <2> QED
    BY <1>1, <2>1, <2>2, <2>3, <2>4 DEF OpenInv
<1>6. CASE x.kind \notin Blocks \cup Scopes
  <2>1. open' = open
    BY <1>6 DEF Visiting
  <2>2. open = <<>> \/ Last(open) # Len(program')
    <3> SUFFICES ASSUME open # <<>> PROVE Last(open) # Len(program')
      OBVIOUS
    <3>1. Last(open) \in DOMAIN program
      BY OpenTop
    <3> QED
      BY <1>2, <3>1
  <2> QED
    BY <1>1, <1>3, <1>4, <2>1, <2>2 DEF OpenInv
<1> QED
  BY <1>5, <1>6

\* An else takes the place of its loop.
LEMMA ElseOpen ==
  ASSUME TypeOK, OpenInv, ElseClause
  PROVE  OpenInv'
<1> DEFINE x == [kind |-> "else", detail |-> <<>>, level |-> Len(open) - 1]
<1>1. /\ program \in Seq(Statements) /\ open \in Seq(Nat) /\ program' = Append(program, x)
      /\ open # <<>> /\ Last(open) < Len(program) /\ finished' = FALSE /\ This \in Nat
      /\ Len(program) \in Nat /\ indentation' = indentation - 1
      /\ open' = Append(Front(open), This)
  BY DEF TypeOK, ElseClause, This
<1>2. /\ Len(open) \in Nat \ {0} /\ DOMAIN open = 1 .. Len(open)
      /\ DOMAIN open' = 1 .. Len(open) /\ Len(open') = Len(open)
      /\ \A l \in 1 .. Len(open) - 1 : open'[l] = open[l]
      /\ open'[Len(open)] = This /\ open' # <<>> /\ Last(open') = This
      /\ Last(open) \in Nat
  BY <1>1, OpenTop, OpenReplaced
<1>3. x \in Statements /\ x.level = Len(open) - 1 /\ x.kind \in Compound
  BY <1>2 DEF Statements, Kinds, Compound
<1> HIDE DEF x
<1>4. /\ Len(program') = Len(program) + 1 /\ DOMAIN program' = 1 .. Len(program) + 1
      /\ program'[Len(program) + 1] = x
  BY <1>1, <1>3, NewLine DEF This
<1>5. \A l \in 1 .. Len(open) - 1 :
         /\ open[l] \in DOMAIN program'
         /\ program'[open[l]].kind \in Compound /\ program'[open[l]].level = l - 1
         /\ \A k \in open[l] + 1 .. Len(program') : program'[k].level >= l
  <2> SUFFICES ASSUME NEW l \in 1 .. Len(open) - 1
               PROVE  /\ open[l] \in DOMAIN program'
                      /\ program'[open[l]].kind \in Compound /\ program'[open[l]].level = l - 1
                      /\ \A k \in open[l] + 1 .. Len(program') : program'[k].level >= l
    OBVIOUS
  <2>1. l \in DOMAIN open /\ l <= x.level
    BY <1>2, <1>3
  <2> QED
    BY <1>1, <1>3, <2>1, HeadersKept
<1>6. ASSUME NEW l \in DOMAIN open'
      PROVE  /\ open'[l] \in DOMAIN program'
             /\ program'[open'[l]].kind \in Compound /\ program'[open'[l]].level = l - 1
             /\ \A k \in open'[l] + 1 .. Len(program') : program'[k].level >= l
  <2>1. CASE l \in 1 .. Len(open) - 1
    BY <1>2, <1>5, <2>1
  <2>2. CASE l = Len(open)
    <3>1. open'[l] = Len(program) + 1
      BY <1>2, <2>2 DEF This
    <3>2. program'[open'[l]] = x /\ open'[l] \in DOMAIN program'
      BY <1>1, <1>4, <3>1
    <3>3. \A k \in open'[l] + 1 .. Len(program') : FALSE
      BY <1>1, <1>4, <3>1
    <3> QED
      BY <1>3, <2>2, <3>2, <3>3
  <2> QED
    BY <1>2, <2>1, <2>2
<1>7. indentation = Len(open)
  <2>1. Last(open) \in Nat /\ Len(program) \in Nat /\ Last(open) < Len(program)
    BY <1>1, <1>2
  <2>2. Last(open) # Len(program)
    BY <2>1
  <2> QED
    BY <1>1, <2>2, OpenTop
<1>8. indentation' = Len(open') - 1 /\ Last(open') = Len(program')
  BY <1>1, <1>2, <1>4, <1>7 DEF This
<1> QED
  BY <1>1, <1>2, <1>6, <1>8 DEF OpenInv

\* A statement that is left was the innermost one.
LEMMA LeaveOpen ==
  ASSUME TypeOK, OpenInv, LeaveStatement
  PROVE  OpenInv'
<1>1. /\ program \in Seq(Statements) /\ open \in Seq(Nat) /\ program' = program
      /\ open # <<>> /\ Last(open) < Len(program) /\ finished' = FALSE
      /\ Len(program) \in Nat /\ indentation' = indentation - 1 /\ open' = Front(open)
  BY DEF TypeOK, LeaveStatement
<1>2. /\ Len(open) \in Nat \ {0} /\ DOMAIN open = 1 .. Len(open)
      /\ DOMAIN open' = 1 .. Len(open) - 1 /\ Len(open') = Len(open) - 1 /\ open' \in Seq(Nat)
      /\ \A l \in 1 .. Len(open) - 1 : open'[l] = open[l]
      /\ Last(open) = open[Len(open)] /\ Last(open) \in Nat
      /\ Len(open) \in DOMAIN open
  BY <1>1, OpenTop, OpenBelow
<1>3. \A l \in DOMAIN open' : l \in DOMAIN open /\ open'[l] = open[l]
  BY <1>2
<1>4. indentation' = Len(open')
  <2>1. indentation = Len(open)
    BY <1>1, <1>2, OpenTop
  <2> QED
    BY <1>1, <1>2, <2>1
<1>5. open' = <<>> \/ Last(open') # Len(program')
  <2> SUFFICES ASSUME open' # <<>> PROVE Last(open') # Len(program')
    OBVIOUS
  <2>1. Last(open') = open'[Len(open')] /\ Len(open') \in DOMAIN open' /\ Last(open') \in Nat
    <3>1. Len(open') \in Nat \ {0}
      BY <1>2, EmptySeq
    <3>2. Last(open') = open'[Len(open')]
      BY DEF Last
    <3> QED
      BY <1>2, <3>1, <3>2
  <2>2. open[Len(open) - 1] < open[Len(open)] /\ Last(open') = open[Len(open) - 1]
    <3>1. Len(open) - 1 \in DOMAIN open /\ Len(open) \in DOMAIN open /\ Len(open) - 1 < Len(open)
      BY <1>2, <2>1
    <3>2. \A l, m \in DOMAIN open : l < m => open[l] < open[m]
      BY <1>1, OpenOrder
    <3>3. Last(open') = open[Len(open) - 1]
      BY <1>2, <2>1
    <3> QED
      BY <3>1, <3>2, <3>3
  <2> QED
    BY <1>1, <1>2, <2>1, <2>2
<1> QED
  BY <1>1, <1>3, <1>4, <1>5 DEF OpenInv

\* The other actions have no statement open.
LEMMA RestOpen ==
  ASSUME TypeOK, Indented, OpenInv, UnexpectedIndent \/ Finish
  PROVE  OpenInv'
<1>1. CASE UnexpectedIndent
  <2>1. open = <<>> /\ open' = open /\ indentation' = indentation
    BY <1>1 DEF UnexpectedIndent, Indented
  <2>2. indentation = 0
    BY <2>1 DEF OpenInv
  <2> QED
    BY <2>1, <2>2 DEF OpenInv
<1>2. CASE Finish
  BY <1>2 DEF Finish, OpenInv
<1> QED
  BY <1>1, <1>2

-----------------------------------------------------------------------------
(* The contexts after a step.                                                *)

\* A visit adds what it finds to the innermost context, and may open another.
LEMMA VisitContexts ==
  ASSUME TypeOK, NodesInv, NEW x \in Statements, NEW ms \in Seq(Texts),
         Visiting(x, ms), VisitOf(x, ms), NEW n, n = Len(contexts), NEW t, t = This
  PROVE  /\ Len(contexts') = (IF x.kind \in Scopes THEN n + 1 ELSE n) /\ contexts' # <<>>
         /\ DOMAIN contexts' = 1 .. Len(contexts')
         /\ \A c \in 1 .. n - 1 : contexts'[c] = contexts[c]
         /\ contexts'[n].node = contexts[n].node
         /\ contexts'[n].blocks =
              IF x.kind \in Blocks THEN Append(contexts[n].blocks, x.kind) ELSE contexts[n].blocks
         /\ contexts'[n].params = (contexts[n].params \/ x.kind \in WithParameter)
         /\ contexts'[n].used =
              contexts[n].used
                \cup (IF x.kind \in Occurrences THEN {[what |-> x.kind, at |-> t]} ELSE {})
                \cup (IF x.kind \in WithParameter THEN {[what |-> "param", at |-> t]} ELSE {})
         /\ contexts'[n].globals = contexts[n].globals \cup (IF x.kind = "global" THEN {t} ELSE {})
         /\ contexts'[n].nonlocals = contexts[n].nonlocals \cup (IF x.kind = "nonlocal" THEN {t} ELSE {})
         /\ contexts'[n].subscopes = contexts[n].subscopes
         /\ x.kind \in Scopes => contexts'[n + 1] = NewContext(t)
<1>1. /\ contexts \in Seq(ContextRecords) /\ contexts # <<>> /\ n \in Nat \ {0}
      /\ DOMAIN contexts = 1 .. n /\ Context = contexts[n] /\ Context \in ContextRecords
  BY ContextTyped DEF TypeOK, NodesInv
<1> DEFINE y == IF x.kind \in NameStatements THEN AddName(x.kind)
                ELSE IF x.kind \in Blocks THEN [Context EXCEPT !.blocks = Append(@, x.kind)]
                ELSE Around(x.kind)
<1>2. y \in ContextRecords
  BY VisitedContextTyped
<1>3. /\ y.node = Context.node
      /\ y.blocks = (IF x.kind \in Blocks THEN Append(Context.blocks, x.kind) ELSE Context.blocks)
      /\ y.params = (Context.params \/ x.kind \in WithParameter)
      /\ y.used = Context.used
                    \cup (IF x.kind \in Occurrences THEN {[what |-> x.kind, at |-> t]} ELSE {})
                    \cup (IF x.kind \in WithParameter THEN {[what |-> "param", at |-> t]} ELSE {})
      /\ y.globals = Context.globals \cup (IF x.kind = "global" THEN {t} ELSE {})
      /\ y.nonlocals = Context.nonlocals \cup (IF x.kind = "nonlocal" THEN {t} ELSE {})
      /\ y.subscopes = Context.subscopes
  <2>1. CASE x.kind \in NameStatements
    BY <1>1, <2>1 DEF AddName, NameStatements, Occurrences, Blocks, WithParameter, ContextRecords
  <2>2. CASE x.kind \in Blocks
    BY <1>1, <2>2 DEF NameStatements, Occurrences, Blocks, WithParameter, ContextRecords
  <2>3. CASE x.kind \notin NameStatements \cup Blocks
    BY <1>1, <2>3 DEF Around, NameStatements, Occurrences, Blocks, ContextRecords
  <2> QED
    BY <2>1, <2>2, <2>3
<1>4. CASE x.kind \in Scopes
  <2>1. y = Around(x.kind) /\ contexts' = Append(InContext(y), NewContext(t))
    BY <1>4 DEF VisitOf, NameVisit, JumpVisit, BlockVisit, ScopeVisit, RuledVisit, NameStatements,
                Jumps, Blocks, Scopes, Functions, RuledKinds
  <2> DEFINE f == InContext(y)
  <2> HIDE DEF y
  <2>2. /\ f \in Seq(ContextRecords) /\ Len(f) = n /\ f[n] = y
        /\ \A c \in 1 .. n - 1 : f[c] = contexts[c]
    BY <1>1, <1>2, Replaced DEF InContext
  <2>3. NewContext(t) \in ContextRecords
    BY VisitedContextTyped
  <2> HIDE DEF f
  <2>4. /\ contexts' # <<>> /\ Len(contexts') = n + 1 /\ DOMAIN contexts' = 1 .. n + 1
        /\ \A c \in 1 .. n : contexts'[c] = f[c]
        /\ contexts'[n + 1] = NewContext(t)
    BY <2>1, <2>2, <2>3, Pushed DEF f
  <2>5. contexts'[n] = y /\ \A c \in 1 .. n - 1 : contexts'[c] = contexts[c]
    BY <1>1, <2>2, <2>4
  <2> QED
    BY <1>1, <1>3, <1>4, <2>4, <2>5
<1>5. CASE x.kind \notin Scopes
  <2>1. contexts' = InContext(y) \/ (contexts' = contexts /\ y = Context)
    BY <1>5 DEF VisitOf, NameVisit, JumpVisit, BlockVisit, ScopeVisit, RuledVisit, NameStatements,
                Jumps, Blocks, Scopes, Functions, RuledKinds, Around, WithParameter
  <2> HIDE DEF y
  <2>2. CASE contexts' = InContext(y)
    <3>1. /\ contexts' # <<>> /\ Len(contexts') = n /\ DOMAIN contexts' = 1 .. n
          /\ contexts'[n] = y /\ \A c \in 1 .. n - 1 : contexts'[c] = contexts[c]
      BY <1>1, <1>2, <2>2, Replaced DEF InContext
    <3> QED
      BY <1>1, <1>3, <1>5, <3>1
  <2>3. CASE contexts' = contexts /\ y = Context
    BY <1>1, <1>3, <1>5, <2>3
  <2> QED
    BY <2>1, <2>2, <2>3
<1> QED
  BY <1>4, <1>5

\* A scope that is left hands what it does not handle to the context around it, and
\* a block is taken from its own.
LEMMA LeaveContexts ==
  ASSUME TypeOK, NodesInv, NamesInv, LeaveStatement,
         program[Last(open)].kind \in Scopes => Len(contexts) > 1,
         NEW n, n = Len(contexts), NEW m, m = Len(contexts')
  PROVE  /\ m = (IF program[Last(open)].kind \in Scopes THEN n - 1 ELSE n)
         /\ contexts' # <<>> /\ DOMAIN contexts' = 1 .. m
         /\ \A c \in 1 .. m - 1 : contexts'[c] = contexts[c]
         /\ contexts'[m].node = contexts[m].node
         /\ contexts'[m].blocks =
              IF program[Last(open)].kind \in Scopes THEN contexts[m].blocks ELSE Front(contexts[m].blocks)
         /\ contexts'[m].params = contexts[m].params /\ contexts'[m].used = contexts[m].used
         /\ contexts'[m].globals = contexts[m].globals
         /\ contexts'[m].nonlocals = contexts[m].nonlocals
         /\ contexts'[m].subscopes =
              contexts[m].subscopes \cup (IF program[Last(open)].kind \in Scopes THEN NotHandled(contexts[n]) ELSE {})
<1>1. /\ contexts \in Seq(ContextRecords) /\ contexts # <<>> /\ n \in Nat \ {0}
      /\ DOMAIN contexts = 1 .. n /\ Context = contexts[n] /\ Context \in ContextRecords
      /\ \A c \in DOMAIN contexts : contexts[c] \in ContextRecords
  BY ContextTyped DEF TypeOK, NodesInv
<1>2. CASE program[Last(open)].kind \in Scopes
  <2> DEFINE outer == Front(contexts)
             r == [Last(outer) EXCEPT !.subscopes = @ \cup NotHandled(Context)]
  <2>1. outer \in Seq(ContextRecords) /\ Len(outer) = n - 1 /\ \A c \in 1 .. n - 1 : outer[c] = contexts[c]
    BY <1>1, Popped
  <2>2. outer # <<>> /\ n - 1 \in Nat \ {0} /\ n - 1 \in DOMAIN contexts
    <3>1. Len(outer) > 0
      BY <1>1, <1>2, <2>1
    <3> QED
      BY <1>1, <2>1, <3>1
  <2>3. contexts' = Append(Front(outer), r)
    BY <1>2 DEF LeaveStatement
  <2> HIDE DEF outer
  <2>4. Last(outer) = contexts[n - 1]
    <3>1. Last(outer) = outer[n - 1]
      BY <2>1 DEF Last
    <3>2. n - 1 \in 1 .. n - 1
      BY <2>2
    <3> QED
      BY <2>1, <3>1, <3>2
  <2>5. contexts[n - 1] \in ContextRecords
    BY <1>1, <2>2
  <2>6. /\ r = [contexts[n - 1] EXCEPT !.subscopes = @ \cup NotHandled(contexts[n])]
        /\ r.node = contexts[n - 1].node /\ r.blocks = contexts[n - 1].blocks
        /\ r.params = contexts[n - 1].params /\ r.used = contexts[n - 1].used
        /\ r.globals = contexts[n - 1].globals /\ r.nonlocals = contexts[n - 1].nonlocals
        /\ r.subscopes = contexts[n - 1].subscopes \cup NotHandled(contexts[n])
    BY <1>1, <2>4, <2>5 DEF ContextRecords
  <2>7. r \in ContextRecords
    <3>1. NotHandled(contexts[n]) \subseteq Nat
      <4>1. NotHandled(contexts[n]) \subseteq DOMAIN program
        BY <1>1, ContextBounded
      <4> QED
        BY <4>1 DEF TypeOK
    <3> HIDE DEF r
    <3> QED
      BY <2>5, <2>6, <3>1 DEF ContextRecords
  <2> HIDE DEF r
  <2>8. /\ contexts' # <<>> /\ Len(contexts') = n - 1 /\ DOMAIN contexts' = 1 .. n - 1
        /\ contexts'[n - 1] = r /\ \A c \in 1 .. n - 1 - 1 : contexts'[c] = outer[c]
    <3>1. outer \in Seq(ContextRecords) /\ outer # <<>> /\ Len(outer) = n - 1
      BY <2>1, <2>2
    <3> QED
      BY <2>3, <2>7, <3>1, Replaced
  <2>9. \A c \in 1 .. n - 1 - 1 : contexts'[c] = contexts[c]
    BY <2>1, <2>2, <2>8
  <2> QED
    BY <1>2, <2>6, <2>8, <2>9
<1>3. CASE program[Last(open)].kind \notin Scopes
  <2> DEFINE r == [Context EXCEPT !.blocks = Front(@)]
             S == ContextRecords \cup {r}
  <2>1. contexts' = Append(Front(contexts), r)
    BY <1>3 DEF LeaveStatement, InContext
  <2>2. /\ r.node = contexts[n].node /\ r.blocks = Front(contexts[n].blocks)
        /\ r.params = contexts[n].params /\ r.used = contexts[n].used
        /\ r.globals = contexts[n].globals /\ r.nonlocals = contexts[n].nonlocals
        /\ r.subscopes = contexts[n].subscopes
    BY <1>1 DEF ContextRecords
  <2>3. contexts \in Seq(S) /\ r \in S
    <3> HIDE DEF r
    <3>1. ContextRecords \subseteq S
      OBVIOUS
    <3> QED
      BY <1>1, <3>1, SeqMonotonic
  <2> HIDE DEF r, S
  <2>4. /\ contexts' # <<>> /\ Len(contexts') = n /\ DOMAIN contexts' = 1 .. n
        /\ contexts'[n] = r /\ \A c \in 1 .. n - 1 : contexts'[c] = contexts[c]
    BY <1>1, <2>1, <2>3, Replaced
  <2> QED
    BY <1>3, <2>2, <2>4
<1> QED
  BY <1>2, <1>3

-----------------------------------------------------------------------------
(* The scopes that are open, and the contexts that are theirs.               *)

\* What OpenScopes are, now and after a step.
LEMMA OpenScopesAre ==
  ASSUME NEW s
  PROVE  s \in OpenScopes <=> \E l \in DOMAIN open : s = open[l] /\ program[s].kind \in Scopes
BY DEF OpenScopes

LEMMA OpenScopesAreThen ==
  ASSUME NEW s
  PROVE  s \in OpenScopes' <=> \E l \in DOMAIN open' : s = open'[l] /\ program'[s].kind \in Scopes
BY DEF OpenScopes

\* A visited scope is open.
LEMMA VisitScopes ==
  ASSUME TypeOK, OpenInv, NEW x \in Statements, NEW ms \in Seq(Texts), Visiting(x, ms), NEW t, t = This
  PROVE  /\ OpenScopes' = IF x.kind \in Scopes THEN OpenScopes \cup {t} ELSE OpenScopes
         /\ OpenScopes \subseteq DOMAIN program /\ t = Len(program) + 1
<1>1. /\ open \in Seq(Nat) /\ program \in Seq(Statements) /\ program' = Append(program, x)
      /\ Len(open) \in Nat /\ DOMAIN open = 1 .. Len(open) /\ t \in Nat
      /\ \A l \in DOMAIN open : open[l] \in DOMAIN program
  BY OpenOrder DEF TypeOK, Visiting, This
<1>2. /\ \A i \in DOMAIN program : program'[i] = program[i]
      /\ program'[t] = x
  BY <1>1, NewLine
<1>3. CASE x.kind \in Blocks \cup Scopes
  <2>1. /\ DOMAIN open' = 1 .. Len(open) + 1
        /\ \A l \in 1 .. Len(open) : open'[l] = open[l]
        /\ open'[Len(open) + 1] = t
    BY <1>1, <1>3, Pushed DEF Visiting
  <2>2. ASSUME NEW s
        PROVE  s \in OpenScopes' <=> s \in OpenScopes \/ (s = t /\ x.kind \in Scopes)
    <3>1. ASSUME s \in OpenScopes' PROVE s \in OpenScopes \/ (s = t /\ x.kind \in Scopes)
      <4>1. PICK l \in DOMAIN open' : s = open'[l] /\ program'[s].kind \in Scopes
        BY <3>1, OpenScopesAreThen
      <4>2. CASE l \in 1 .. Len(open)
        <5>1. l \in DOMAIN open /\ s = open[l] /\ program'[s] = program[s]
          BY <1>1, <1>2, <2>1, <4>1, <4>2
        <5> QED
          BY <4>1, <5>1, OpenScopesAre
      <4>3. CASE l = Len(open) + 1
        BY <1>2, <2>1, <4>1, <4>3
      <4> QED
        BY <1>1, <2>1, <4>1, <4>2, <4>3
    <3>2. ASSUME s \in OpenScopes PROVE s \in OpenScopes'
      <4>1. PICK l \in DOMAIN open : s = open[l] /\ program[s].kind \in Scopes
        BY <3>2, OpenScopesAre
      <4>2. l \in DOMAIN open' /\ s = open'[l] /\ program'[s] = program[s]
        BY <1>1, <1>2, <2>1, <4>1
      <4> QED
        BY <4>1, <4>2, OpenScopesAreThen
    <3>3. ASSUME s = t, x.kind \in Scopes PROVE s \in OpenScopes'
      <4>1. Len(open) + 1 \in DOMAIN open'
        BY <1>1, <2>1
      <4>2. s = open'[Len(open) + 1] /\ program'[s] = x
        BY <1>2, <2>1, <3>3
      <4> QED
        BY <3>3, <4>1, <4>2, OpenScopesAreThen
    <3> QED
      BY <3>1, <3>2, <3>3
  <2>3. OpenScopes' = IF x.kind \in Scopes THEN OpenScopes \cup {t} ELSE OpenScopes
    BY <2>2
  <2> QED
    BY <1>1, <2>3, OpenScopesNest DEF This
<1>4. CASE x.kind \notin Blocks \cup Scopes
  <2>1. open' = open
    BY <1>4 DEF Visiting
  <2>2. ASSUME NEW s PROVE s \in OpenScopes' <=> s \in OpenScopes
    BY <1>1, <1>2, <2>1, OpenScopesAre, OpenScopesAreThen
  <2> QED
    BY <1>1, <1>4, <2>2, OpenScopesNest DEF This
<1> QED
  BY <1>3, <1>4

\* An else is none.
LEMMA ElseScopes ==
  ASSUME TypeOK, OpenInv, ElseClause
  PROVE  OpenScopes' = OpenScopes
<1> DEFINE x == [kind |-> "else", detail |-> <<>>, level |-> Len(open) - 1]
<1>1. /\ open # <<>> /\ program[Last(open)].kind = "while" /\ program' = Append(program, x)
      /\ open' = Append(Front(open), This) /\ This \in Nat
  BY DEF TypeOK, ElseClause, This
<1>2. /\ open \in Seq(Nat) /\ program \in Seq(Statements)
      /\ Len(open) \in Nat \ {0} /\ DOMAIN open = 1 .. Len(open) /\ Last(open) = open[Len(open)]
  BY <1>1, OpenTop
<1>3. /\ DOMAIN open' = 1 .. Len(open)
      /\ \A l \in 1 .. Len(open) - 1 : open'[l] = open[l]
      /\ open'[Len(open)] = This
  BY <1>1, <1>2, OpenReplaced
<1>4. x \in Statements /\ x.kind \notin Scopes
  <2>1. x \in Statements
    BY <1>2 DEF Statements, Kinds, Compound
  <2> QED
    BY <2>1 DEF Scopes, Functions
<1> HIDE DEF x
<1>5. /\ \A i \in DOMAIN program : program'[i] = program[i]
      /\ program'[This] = x
  BY <1>1, <1>2, <1>4, NewLine
<1>6. \A l \in DOMAIN open : open[l] \in DOMAIN program
  BY <1>2, OpenOrder
<1>7. "while" \notin Scopes
  BY DEF Scopes, Functions
<1>8. ASSUME NEW s PROVE s \in OpenScopes' <=> s \in OpenScopes
  <2>1. ASSUME s \in OpenScopes' PROVE s \in OpenScopes
    <3>1. PICK l \in DOMAIN open' : s = open'[l] /\ program'[s].kind \in Scopes
      BY <2>1, OpenScopesAreThen
    <3>2. l # Len(open)
      BY <1>3, <1>4, <1>5, <3>1
    <3>3. l \in 1 .. Len(open) - 1 /\ l \in DOMAIN open
      BY <1>2, <1>3, <3>1, <3>2
    <3>4. s = open[l] /\ program'[s] = program[s]
      BY <1>3, <1>5, <1>6, <3>1, <3>3
    <3> QED
      BY <3>1, <3>3, <3>4, OpenScopesAre
  <2>2. ASSUME s \in OpenScopes PROVE s \in OpenScopes'
    <3>1. PICK l \in DOMAIN open : s = open[l] /\ program[s].kind \in Scopes
      BY <2>2, OpenScopesAre
    <3>2. l # Len(open)
      BY <1>1, <1>2, <1>7, <3>1
    <3>3. l \in 1 .. Len(open) - 1 /\ l \in DOMAIN open'
      BY <1>2, <1>3, <3>1, <3>2
    <3>4. s = open'[l] /\ program'[s] = program[s]
      BY <1>3, <1>5, <1>6, <3>1, <3>3
    <3> QED
      BY <3>1, <3>3, <3>4, OpenScopesAreThen
  <2> QED
    BY <2>1, <2>2
<1> QED
  BY <1>8

\* A scope that is left is no longer open, and it was the innermost one.
LEMMA LeaveScopes ==
  ASSUME TypeOK, OpenInv, LeaveStatement, NEW h, h = Last(open)
  PROVE  /\ OpenScopes' = OpenScopes \ {h} /\ h \in DOMAIN program
         /\ program[h].kind \in Scopes <=> h \in OpenScopes
         /\ \A s \in OpenScopes : s <= h
<1>1. open # <<>> /\ program' = program /\ open' = Front(open)
  BY DEF LeaveStatement
<1>2. /\ open \in Seq(Nat) /\ program \in Seq(Statements)
      /\ Len(open) \in Nat \ {0} /\ DOMAIN open = 1 .. Len(open) /\ h = open[Len(open)]
      /\ h \in DOMAIN program /\ Len(open) \in DOMAIN open
  BY <1>1, OpenTop
<1>3. /\ DOMAIN open' = 1 .. Len(open) - 1
      /\ \A l \in 1 .. Len(open) - 1 : open'[l] = open[l]
  BY <1>1, <1>2, OpenBelow
<1>4. /\ \A l, m \in DOMAIN open : l < m => open[l] < open[m]
      /\ \A l \in DOMAIN open : open[l] \in Nat
  BY <1>2, OpenOrder
<1>5. \A l \in DOMAIN open : /\ l = Len(open) \/ (l \in 1 .. Len(open) - 1 /\ open[l] < h)
                             /\ open[l] <= h
  BY <1>2, <1>4
<1>6. ASSUME NEW s PROVE s \in OpenScopes' <=> s \in OpenScopes /\ s # h
  <2>1. ASSUME s \in OpenScopes' PROVE s \in OpenScopes /\ s # h
    <3>1. PICK l \in DOMAIN open' : s = open'[l] /\ program'[s].kind \in Scopes
      BY <2>1, OpenScopesAreThen
    <3>2. l \in DOMAIN open /\ l # Len(open) /\ s = open[l]
      BY <1>2, <1>3, <3>1
    <3>3. s < h /\ s \in Nat /\ h \in Nat
      BY <1>2, <1>4, <1>5, <3>2
    <3> QED
      BY <1>1, <3>1, <3>2, <3>3, OpenScopesAre
  <2>2. ASSUME s \in OpenScopes, s # h PROVE s \in OpenScopes'
    <3>1. PICK l \in DOMAIN open : s = open[l] /\ program[s].kind \in Scopes
      BY <2>2, OpenScopesAre
    <3>2. l \in 1 .. Len(open) - 1
      BY <1>2, <1>5, <2>2, <3>1
    <3> QED
      BY <1>1, <1>3, <3>1, <3>2, OpenScopesAreThen
  <2> QED
    BY <2>1, <2>2
<1>7. program[h].kind \in Scopes <=> h \in OpenScopes
  BY <1>2, OpenScopesAre
<1>8. \A s \in OpenScopes : s <= h
  BY <1>5, OpenScopesAre
<1> QED
  BY <1>2, <1>6, <1>7, <1>8

\* The innermost context is that of the last scope that is open.
LEMMA InnermostScope ==
  ASSUME TypeOK, OpenInv, NodesInv, NEW n, n = Len(contexts)
  PROVE  /\ n \in Nat \ {0} /\ DOMAIN contexts = 1 .. n
         /\ contexts[n].node \in {0} \cup OpenScopes
         /\ \A s \in {0} \cup OpenScopes : s <= contexts[n].node
         /\ \A s \in {0} \cup OpenScopes : \E c \in DOMAIN contexts : contexts[c].node = s
         /\ \A c \in DOMAIN contexts : contexts[c].node \in {0} \cup OpenScopes
         /\ n > 1 <=> OpenScopes # {}
<1>1. /\ n \in Nat \ {0} /\ DOMAIN contexts = 1 .. n
      /\ \A c \in DOMAIN contexts : contexts[c] \in ContextRecords
  BY ContextTyped
<1>2. /\ contexts[1].node = 0
      /\ {contexts[c].node : c \in 2 .. n} = OpenScopes
      /\ \A c, d \in DOMAIN contexts : c < d => contexts[c].node < contexts[d].node
  BY DEF NodesInv
<1>3. \A c \in DOMAIN contexts : contexts[c].node \in Nat
  BY <1>1 DEF ContextRecords
<1>4. \A c \in DOMAIN contexts : contexts[c].node <= contexts[n].node
  BY <1>1, <1>2, <1>3
<1>5. \A c \in DOMAIN contexts : contexts[c].node \in {0} \cup OpenScopes
  <2> SUFFICES ASSUME NEW c \in DOMAIN contexts PROVE contexts[c].node \in {0} \cup OpenScopes
    OBVIOUS
  <2>1. c = 1 \/ c \in 2 .. n
    BY <1>1
  <2> QED
    BY <1>2, <2>1
<1>6. \A s \in {0} \cup OpenScopes : \E c \in DOMAIN contexts : contexts[c].node = s
  <2> SUFFICES ASSUME NEW s \in {0} \cup OpenScopes
               PROVE  \E c \in DOMAIN contexts : contexts[c].node = s
    OBVIOUS
  <2>1. CASE s = 0
    BY <1>1, <1>2, <2>1
  <2>2. CASE s \in OpenScopes
    <3>1. PICK c \in 2 .. n : s = contexts[c].node
      BY <1>2, <2>2
    <3> QED
      BY <1>1, <3>1
  <2> QED
    BY <2>1, <2>2
<1>7. n > 1 <=> OpenScopes # {}
  <2>1. ASSUME n > 1 PROVE OpenScopes # {}
    <3>1. 2 \in 2 .. n
      BY <1>1, <2>1
    <3> QED
      BY <1>2, <3>1
  <2>2. ASSUME OpenScopes # {} PROVE n > 1
    <3>1. PICK c \in 2 .. n : TRUE
      BY <1>2, <2>2
    <3> QED
      BY <1>1, <3>1
  <2> QED
    BY <2>1, <2>2
<1>8. n \in DOMAIN contexts
  BY <1>1
<1>9. \A s \in {0} \cup OpenScopes : s <= contexts[n].node
  BY <1>4, <1>6
<1> QED
  BY <1>1, <1>5, <1>6, <1>7, <1>8, <1>9

\* A visited scope has a context on top of the others.
LEMMA VisitNodes ==
  ASSUME TypeOK, OpenInv, NodesInv, NEW x \in Statements, NEW ms \in Seq(Texts),
         Visiting(x, ms), VisitOf(x, ms)
  PROVE  NodesInv'
<1> DEFINE n == Len(contexts)
           t == This
<1>1. /\ n \in Nat \ {0} /\ DOMAIN contexts = 1 .. n
      /\ contexts[1].node = 0
      /\ {contexts[c].node : c \in 2 .. n} = OpenScopes
      /\ \A c, d \in DOMAIN contexts : c < d => contexts[c].node < contexts[d].node
      /\ \A c \in DOMAIN contexts : contexts[c].node \in {0} \cup OpenScopes
  BY InnermostScope DEF NodesInv
<1>2. /\ Len(contexts') = (IF x.kind \in Scopes THEN n + 1 ELSE n) /\ contexts' # <<>>
      /\ DOMAIN contexts' = 1 .. Len(contexts')
      /\ \A c \in 1 .. n - 1 : contexts'[c] = contexts[c]
      /\ contexts'[n].node = contexts[n].node
      /\ x.kind \in Scopes => contexts'[n + 1] = NewContext(t)
  BY VisitContexts
<1>3. /\ OpenScopes' = IF x.kind \in Scopes THEN OpenScopes \cup {t} ELSE OpenScopes
      /\ OpenScopes \subseteq DOMAIN program /\ t = Len(program) + 1
  BY VisitScopes
<1>4. Len(program) \in Nat /\ DOMAIN program = 1 .. Len(program) /\ t \in Nat
  BY DEF TypeOK, This
<1> HIDE DEF n, t
<1>5. \A c \in 1 .. n : contexts'[c].node = contexts[c].node
  BY <1>1, <1>2
<1>6. CASE x.kind \in Scopes
  <2>1. contexts'[n + 1].node = t
    BY <1>2, <1>6 DEF NewContext
  <2>2. \A c \in 1 .. n : contexts[c].node < t
    <3>1. \A s \in {0} \cup OpenScopes : s < t
      BY <1>3, <1>4
    <3> QED
      BY <1>1, <3>1
  <2>3. DOMAIN contexts' = 1 .. n + 1 /\ Len(contexts') = n + 1
    BY <1>2, <1>6
  <2>4. \A c, d \in 1 .. n + 1 : c < d => contexts'[c].node < contexts'[d].node
    <3> SUFFICES ASSUME NEW c \in 1 .. n + 1, NEW d \in 1 .. n + 1, c < d
                 PROVE  contexts'[c].node < contexts'[d].node
      OBVIOUS
    <3>1. c \in 1 .. n /\ (d \in 1 .. n \/ d = n + 1)
      BY <1>1
    <3>2. CASE d \in 1 .. n
      <4>1. contexts[c].node < contexts[d].node
        BY <1>1, <3>1, <3>2
      <4> QED
        BY <1>5, <3>1, <3>2, <4>1
    <3>3. CASE d = n + 1
      BY <1>5, <2>1, <2>2, <3>1, <3>3
    <3> QED
      BY <3>1, <3>2, <3>3
  <2>5. {contexts'[c].node : c \in 2 .. n + 1} = {contexts[c].node : c \in 2 .. n} \cup {t}
    <3>1. ASSUME NEW c \in 2 .. n + 1
          PROVE  contexts'[c].node \in {contexts[d].node : d \in 2 .. n} \cup {t}
      <4>1. c = n + 1 \/ (c \in 2 .. n /\ c \in 1 .. n)
        BY <1>1
      <4> QED
        BY <1>5, <2>1, <4>1
    <3>2. ASSUME NEW c \in 2 .. n PROVE contexts[c].node \in {contexts'[d].node : d \in 2 .. n + 1}
      <4>1. c \in 2 .. n + 1 /\ c \in 1 .. n
        BY <1>1
      <4> QED
        BY <1>5, <4>1
    <3>3. t \in {contexts'[d].node : d \in 2 .. n + 1}
      <4>1. n + 1 \in 2 .. n + 1
        BY <1>1
      <4> QED
        BY <2>1, <4>1
    <3> QED
      BY <3>1, <3>2, <3>3
  <2>6. contexts'[1].node = 0
    BY <1>1, <1>5
  <2>7. OpenScopes' = OpenScopes \cup {t}
    BY <1>3, <1>6
  <2> QED
    BY <1>1, <1>2, <2>3, <2>4, <2>5, <2>6, <2>7 DEF NodesInv
<1>7. CASE x.kind \notin Scopes
  <2>1. DOMAIN contexts' = 1 .. n /\ Len(contexts') = n /\ OpenScopes' = OpenScopes
    BY <1>2, <1>3, <1>7
  <2>2. \A c \in 2 .. n : c \in 1 .. n
    BY <1>1
  <2>3. {contexts'[c].node : c \in 2 .. n} = OpenScopes
    BY <1>1, <1>5, <2>2
  <2>4. contexts'[1].node = 0
    BY <1>1, <1>5
  <2>5. \A c, d \in 1 .. n : c < d => contexts'[c].node < contexts'[d].node
    BY <1>1, <1>5
  <2> QED
    BY <1>2, <2>1, <2>3, <2>4, <2>5 DEF NodesInv
<1> QED
  BY <1>6, <1>7

\* An else has none.
LEMMA ElseNodes ==
  ASSUME TypeOK, OpenInv, NodesInv, ElseClause
  PROVE  NodesInv'
<1>1. contexts' = contexts /\ OpenScopes' = OpenScopes
  BY ElseScopes DEF ElseClause
<1> QED
  BY <1>1 DEF NodesInv

\* A scope that is left has a context of its own.
LEMMA LeftScope ==
  ASSUME TypeOK, OpenInv, NodesInv, LeaveStatement, program[Last(open)].kind \in Scopes
  PROVE  Len(contexts) > 1 /\ contexts[Len(contexts)].node = Last(open)
<1> DEFINE n == Len(contexts)
           h == Last(open)
<1>1. /\ h \in OpenScopes /\ h \in DOMAIN program
      /\ \A s \in OpenScopes : s <= h
  BY LeaveScopes
<1>2. /\ n > 1 /\ contexts[n].node \in {0} \cup OpenScopes
      /\ \A s \in {0} \cup OpenScopes : s <= contexts[n].node
  BY <1>1, InnermostScope
<1>3. OpenScopes \subseteq DOMAIN program /\ DOMAIN program \subseteq Nat \ {0}
  BY OpenScopesNest DEF TypeOK
<1> HIDE DEF n, h
<1>4. contexts[n].node \in OpenScopes
  <2>1. h <= contexts[n].node /\ h \in Nat \ {0}
    BY <1>1, <1>2, <1>3
  <2>2. contexts[n].node # 0
    BY <2>1
  <2> QED
    BY <1>2, <2>2
<1>5. h <= contexts[n].node /\ contexts[n].node <= h /\ h \in Nat /\ contexts[n].node \in Nat
  BY <1>1, <1>2, <1>3, <1>4
<1>6. contexts[n].node = h
  BY <1>5
<1> QED
  BY <1>2, <1>6 DEF n, h

\* With a scope its context goes.
LEMMA LeaveNodes ==
  ASSUME TypeOK, OpenInv, NodesInv, NamesInv, LeaveStatement
  PROVE  NodesInv'
<1> DEFINE n == Len(contexts)
           m == Len(contexts')
           h == Last(open)
<1>1. /\ n \in Nat \ {0} /\ DOMAIN contexts = 1 .. n
      /\ contexts[1].node = 0
      /\ {contexts[c].node : c \in 2 .. n} = OpenScopes
      /\ \A c, d \in DOMAIN contexts : c < d => contexts[c].node < contexts[d].node
  BY InnermostScope DEF NodesInv
<1>2. program[h].kind \in Scopes => n > 1 /\ contexts[n].node = h
  BY LeftScope
<1>3. /\ m = (IF program[h].kind \in Scopes THEN n - 1 ELSE n)
      /\ contexts' # <<>> /\ DOMAIN contexts' = 1 .. m
      /\ \A c \in 1 .. m - 1 : contexts'[c] = contexts[c]
      /\ contexts'[m].node = contexts[m].node
  BY <1>2, LeaveContexts
<1>4. OpenScopes' = OpenScopes \ {h} /\ (program[h].kind \in Scopes <=> h \in OpenScopes)
  BY LeaveScopes
<1>5. \A c \in DOMAIN contexts : contexts[c].node \in Nat
  BY ContextTyped DEF ContextRecords
<1> HIDE DEF n, m, h
<1>6. m \in Nat \ {0} /\ m <= n
  BY <1>1, <1>2, <1>3
<1>7. \A c \in 1 .. m : contexts'[c].node = contexts[c].node /\ c \in DOMAIN contexts
  BY <1>1, <1>3, <1>6
<1>8. {contexts'[c].node : c \in 2 .. m} = OpenScopes'
  <2>1. CASE program[h].kind \in Scopes
    <3>1. m = n - 1 /\ contexts[n].node = h /\ n > 1
      BY <1>2, <1>3, <2>1
    <3>2. ASSUME NEW c \in 2 .. m PROVE contexts'[c].node \in OpenScopes \ {h}
      <4>1. c \in 1 .. m /\ c \in 2 .. n /\ c < n /\ c \in DOMAIN contexts /\ n \in DOMAIN contexts
        BY <1>1, <1>6, <3>1
      <4>2. contexts[c].node \in OpenScopes /\ contexts[c].node < h /\ h \in Nat
        BY <1>1, <1>5, <3>1, <4>1
      <4> QED
        BY <1>5, <1>7, <4>1, <4>2
    <3>3. ASSUME NEW s \in OpenScopes, s # h PROVE s \in {contexts'[c].node : c \in 2 .. m}
      <4>1. PICK c \in 2 .. n : s = contexts[c].node
        BY <1>1
      <4>2. c # n
        BY <3>1, <3>3, <4>1
      <4>3. c \in 2 .. m /\ c \in 1 .. m
        BY <1>1, <3>1, <4>1, <4>2
      <4> QED
        BY <1>7, <4>1, <4>3
    <3> QED
      BY <1>4, <3>2, <3>3
  <2>2. CASE program[h].kind \notin Scopes
    <3>1. m = n /\ OpenScopes' = OpenScopes /\ \A c \in 2 .. n : c \in 1 .. n
      BY <1>1, <1>3, <1>4, <2>2
    <3> QED
      BY <1>1, <1>7, <3>1
  <2> QED
    BY <2>1, <2>2
<1>9. contexts'[1].node = 0
  BY <1>1, <1>6, <1>7
<1>10. \A c, d \in 1 .. m : c < d => contexts'[c].node < contexts'[d].node
  BY <1>1, <1>7
<1> QED
  BY <1>3, <1>8, <1>9, <1>10 DEF NodesInv, m

\* The other actions keep the contexts.
LEMMA RestNodes ==
  ASSUME TypeOK, Indented, OpenInv, NodesInv, UnexpectedIndent \/ Finish
  PROVE  NodesInv'
<1>1. contexts' = contexts /\ OpenScopes' = OpenScopes
  <2>1. CASE UnexpectedIndent
    <3>1. open = <<>> /\ open' = open /\ contexts' = contexts
      BY <2>1 DEF UnexpectedIndent, Indented
    <3>2. OpenScopes = {} /\ OpenScopes' = {}
      BY <3>1 DEF OpenScopes
    <3> QED
      BY <3>1, <3>2
  <2>2. CASE Finish
    BY <2>2 DEF Finish, OpenScopes
  <2> QED
    BY <2>1, <2>2
<1> QED
  BY <1>1 DEF NodesInv

-----------------------------------------------------------------------------
(* The blocks of a context.                                                  *)

\* Where a scope that is open is in the stack.
LEMMA BaseOf ==
  ASSUME TypeOK, OpenInv, NodesInv, NEW c \in DOMAIN contexts, NEW s, s = contexts[c].node
  PROVE  /\ Base(s) \in 0 .. Len(open) /\ Len(open) \in Nat
         /\ s = 0 \/ (s \in DOMAIN program /\ Base(s) \in DOMAIN open /\ s = open[Base(s)]
                         /\ program[s].kind \in Scopes)
<1>1. s \in {0} \cup OpenScopes
  BY InnermostScope
<1>2. open \in Seq(Nat) /\ program \in Seq(Statements) /\ Len(open) \in Nat /\ DOMAIN open = 1 .. Len(open)
  BY DEF TypeOK
<1>3. CASE s = 0
  BY <1>2, <1>3 DEF Base
<1>4. CASE s # 0
  <2>1. PICK l \in DOMAIN open : s = open[l] /\ program[s].kind \in Scopes
    BY <1>1, <1>4, OpenScopesAre
  <2>2. program[open[l]].level = l - 1 /\ open[l] \in DOMAIN program
    BY DEF OpenInv
  <2>3. Base(s) = l
    BY <1>2, <1>4, <2>1, <2>2 DEF Base
  <2> QED
    BY <1>2, <2>1, <2>2, <2>3
<1> QED
  BY <1>3, <1>4

\* The blocks of the contexts around the innermost one are below its scope.
LEMMA BlocksBelow ==
  ASSUME TypeOK, OpenInv, NodesInv, BlocksInv, NEW c \in DOMAIN contexts,
         NEW base, base = Base(contexts[c].node), NEW n, n = Len(contexts)
  PROVE  /\ Len(contexts[c].blocks) \in Nat /\ DOMAIN contexts[c].blocks = 1 .. Len(contexts[c].blocks)
         /\ base \in Nat /\ contexts[c].blocks \in Seq(Blocks) /\ Len(open) \in Nat
         /\ base + Len(contexts[c].blocks) =
              (IF c = n THEN Len(open) ELSE Base(contexts[c + 1].node) - 1)
         /\ \A b \in DOMAIN contexts[c].blocks :
              /\ base + b \in DOMAIN open /\ IsClauseOf(open[base + b], contexts[c].blocks[b])
              /\ c < n => base + b < Len(open)
<1>1. /\ n \in Nat \ {0} /\ DOMAIN contexts = 1 .. n /\ contexts[c] \in ContextRecords
  BY ContextTyped
<1>2. contexts[c].blocks \in Seq(Blocks)
  BY <1>1 DEF ContextRecords
<1>3. Len(contexts[c].blocks) \in Nat /\ DOMAIN contexts[c].blocks = 1 .. Len(contexts[c].blocks)
  BY <1>2
<1>4. base \in Nat /\ Len(open) \in Nat
  BY BaseOf
<1>5. /\ base + Len(contexts[c].blocks) =
          (IF c = n THEN Len(open) ELSE Base(contexts[c + 1].node) - 1)
      /\ \A b \in DOMAIN contexts[c].blocks :
           base + b \in DOMAIN open /\ IsClauseOf(open[base + b], contexts[c].blocks[b])
  BY DEF BlocksInv
<1>6. ASSUME c < n, NEW b \in DOMAIN contexts[c].blocks PROVE base + b < Len(open)
  <2>1. c + 1 \in DOMAIN contexts /\ c # n
    BY <1>1, <1>6
  <2>2. Base(contexts[c + 1].node) \in 0 .. Len(open)
    BY <2>1, BaseOf
  <2> QED
    BY <1>3, <1>4, <1>5, <1>6, <2>1, <2>2
<1> QED
  BY <1>2, <1>3, <1>4, <1>5, <1>6

\* The same after a step.
BaseThen(s) == IF s = 0 THEN 0 ELSE program'[s].level + 1
IsClauseThen(i, kind) == program'[i].kind = kind \/ (program'[i].kind = "else" /\ kind = "while")

\* BlocksInv after a step, in terms of what the contexts are then.
LEMMA BlocksThen ==
  ASSUME NEW m, m = Len(contexts'),
         \A c \in DOMAIN contexts' :
           /\ BaseThen(contexts'[c].node) + Len(contexts'[c].blocks) =
                IF c = m THEN Len(open') ELSE BaseThen(contexts'[c + 1].node) - 1
           /\ \A b \in DOMAIN contexts'[c].blocks :
                /\ BaseThen(contexts'[c].node) + b \in DOMAIN open'
                /\ IsClauseThen(open'[BaseThen(contexts'[c].node) + b], contexts'[c].blocks[b])
  PROVE  BlocksInv'
BY DEF BlocksInv, Base, IsClauseOf, BaseThen, IsClauseThen

\* A new line changes neither where an open scope is nor what is a clause of what.
LEMMA BaseStays ==
  ASSUME TypeOK, NEW x \in Statements, program' = Append(program, x) \/ program' = program
  PROVE  /\ \A s \in {0} \cup DOMAIN program : BaseThen(s) = Base(s)
         /\ \A i \in DOMAIN program : \A kind : IsClauseThen(i, kind) <=> IsClauseOf(i, kind)
<1>1. \A i \in DOMAIN program : program'[i] = program[i]
  BY NewLine DEF TypeOK
<1> QED
  BY <1>1 DEF Base, BaseThen, IsClauseOf, IsClauseThen

\* A visited block is the last one of its context, and a new scope has none.
LEMMA VisitBlocks ==
  ASSUME TypeOK, OpenInv, NodesInv, BlocksInv, NEW x \in Statements, NEW ms \in Seq(Texts),
         Visiting(x, ms), VisitOf(x, ms)
  PROVE  BlocksInv'
<1> DEFINE n == Len(contexts)
           t == This
           d == Len(open)
<1>1. /\ n \in Nat \ {0} /\ DOMAIN contexts = 1 .. n /\ d \in Nat /\ DOMAIN open = 1 .. d
      /\ x.level = d /\ program' = Append(program, x) /\ open \in Seq(Nat) /\ t \in Nat \ {0}
      /\ open' = (IF x.kind \in Blocks \cup Scopes THEN Append(open, t) ELSE open)
      /\ Blocks \cap Scopes = {}
  <2>1. Blocks \cap Scopes = {}
    BY DEF Blocks, Scopes, Functions
  <2> QED
    BY <2>1, ContextTyped DEF TypeOK, Visiting, This
<1>2. /\ Len(contexts') = (IF x.kind \in Scopes THEN n + 1 ELSE n)
      /\ DOMAIN contexts' = 1 .. Len(contexts')
      /\ \A c \in 1 .. n - 1 : contexts'[c] = contexts[c]
      /\ contexts'[n].node = contexts[n].node
      /\ contexts'[n].blocks =
           (IF x.kind \in Blocks THEN Append(contexts[n].blocks, x.kind) ELSE contexts[n].blocks)
      /\ x.kind \in Scopes => contexts'[n + 1] = NewContext(t)
  BY VisitContexts
<1>3. program'[t] = x
  BY <1>1, NewLine DEF TypeOK
<1>4. /\ \A s \in {0} \cup DOMAIN program : BaseThen(s) = Base(s)
      /\ \A i \in DOMAIN program : \A kind : IsClauseThen(i, kind) <=> IsClauseOf(i, kind)
  BY <1>1, BaseStays
<1>5. \A l \in DOMAIN open : l \in DOMAIN open' /\ open'[l] = open[l] /\ open[l] \in DOMAIN program
  <2>1. \A l \in DOMAIN open : open[l] \in DOMAIN program
    BY DEF OpenInv
  <2>2. \A l \in DOMAIN open : l \in DOMAIN open' /\ open'[l] = open[l]
    BY <1>1, Pushed
  <2> QED
    BY <2>1, <2>2
<1>6. /\ x.kind \in Blocks \cup Scopes =>
           Len(open') = d + 1 /\ d + 1 \in DOMAIN open' /\ open'[d + 1] = t
      /\ x.kind \notin Blocks \cup Scopes => Len(open') = d
  <2>1. CASE x.kind \in Blocks \cup Scopes
    <3>1. open' = Append(open, t) /\ open \in Seq(Nat) /\ t \in Nat
      BY <1>1, <2>1
    <3>2. Len(open') = d + 1 /\ DOMAIN open' = 1 .. d + 1 /\ open'[d + 1] = t
      BY <3>1, Pushed
    <3> HIDE DEF d
    <3>3. d + 1 \in 1 .. d + 1
      BY <1>1
    <3> QED
      BY <2>1, <3>2, <3>3
  <2>2. CASE x.kind \notin Blocks \cup Scopes
    BY <1>1, <2>2
  <2> QED
    BY <2>1, <2>2
<1>7. BaseThen(t) = d + 1
  BY <1>1, <1>3 DEF BaseThen
<1> HIDE DEF n, t, d
<1>8. ASSUME NEW c \in 1 .. n
      PROVE  BaseThen(contexts'[c].node) = Base(contexts[c].node)
  <2>1. contexts[c].node \in {0} \cup DOMAIN program
    BY <1>1, BaseOf
  <2>2. contexts'[c].node = contexts[c].node
    BY <1>1, <1>2
  <2> QED
    BY <1>4, <2>1, <2>2
<1>9. ASSUME NEW c \in 1 .. n
      PROVE  \A b \in DOMAIN contexts[c].blocks :
               /\ BaseThen(contexts'[c].node) + b \in DOMAIN open'
               /\ IsClauseThen(open'[BaseThen(contexts'[c].node) + b], contexts[c].blocks[b])
  <2> SUFFICES ASSUME NEW b \in DOMAIN contexts[c].blocks
               PROVE  /\ BaseThen(contexts'[c].node) + b \in DOMAIN open'
                      /\ IsClauseThen(open'[BaseThen(contexts'[c].node) + b], contexts[c].blocks[b])
    OBVIOUS
  <2> DEFINE l == Base(contexts[c].node) + b
  <2>1. l \in DOMAIN open /\ IsClauseOf(open[l], contexts[c].blocks[b])
    BY <1>1, BlocksBelow
  <2>2. BaseThen(contexts'[c].node) + b = l
    BY <1>8
  <2> HIDE DEF l
  <2>3. l \in DOMAIN open' /\ IsClauseThen(open'[l], contexts[c].blocks[b])
    BY <1>4, <1>5, <2>1
  <2> QED
    BY <2>2, <2>3
<1>10. ASSUME NEW c \in 1 .. n - 1
       PROVE  /\ BaseThen(contexts'[c].node) + Len(contexts'[c].blocks) = BaseThen(contexts'[c + 1].node) - 1
              /\ contexts'[c].blocks = contexts[c].blocks /\ c + 1 \in 1 .. n /\ c \in 1 .. n /\ c # n
  <2>1. c \in 1 .. n /\ c + 1 \in 1 .. n /\ c # n
    BY <1>1
  <2>2. Base(contexts[c].node) + Len(contexts[c].blocks) = Base(contexts[c + 1].node) - 1
    BY <1>1, <2>1 DEF BlocksInv, n
  <2>3. contexts'[c].blocks = contexts[c].blocks
    BY <1>2
  <2> QED
    BY <1>8, <2>1, <2>2, <2>3
<1>11. /\ Base(contexts[n].node) + Len(contexts[n].blocks) = d
       /\ Len(contexts[n].blocks) \in Nat /\ DOMAIN contexts[n].blocks = 1 .. Len(contexts[n].blocks)
       /\ contexts[n].blocks \in Seq(Blocks) /\ Base(contexts[n].node) \in Nat
  <2>1. n \in DOMAIN contexts
    BY <1>1
  <2> QED
    BY <2>1, BlocksBelow DEF n, d
<1>12. CASE x.kind \in Scopes
  <2>1. /\ contexts'[n + 1].node = t /\ contexts'[n + 1].blocks = <<>> /\ Len(contexts') = n + 1
        /\ Len(open') = d + 1
    BY <1>2, <1>6, <1>12 DEF NewContext
  <2>2. ASSUME NEW c \in 1 .. n + 1
        PROVE  /\ BaseThen(contexts'[c].node) + Len(contexts'[c].blocks) =
                    IF c = n + 1 THEN Len(open') ELSE BaseThen(contexts'[c + 1].node) - 1
               /\ \A b \in DOMAIN contexts'[c].blocks :
                    /\ BaseThen(contexts'[c].node) + b \in DOMAIN open'
                    /\ IsClauseThen(open'[BaseThen(contexts'[c].node) + b], contexts'[c].blocks[b])
    <3>1. CASE c \in 1 .. n - 1
      <4>1. c # n + 1
        BY <1>1, <3>1
      <4> QED
        BY <1>9, <1>10, <3>1, <4>1
    <3>2. CASE c = n
      <4>1. c # n + 1 /\ c \in 1 .. n
        BY <1>1, <3>2
      <4>2. contexts'[n].blocks = contexts[n].blocks
        BY <1>1, <1>2, <1>12
      <4>3. BaseThen(contexts'[n].node) + Len(contexts'[n].blocks) = BaseThen(contexts'[n + 1].node) - 1
        BY <1>1, <1>7, <1>8, <1>11, <2>1, <3>2, <4>1, <4>2
      <4> QED
        BY <1>9, <3>2, <4>1, <4>2, <4>3
    <3>3. CASE c = n + 1
      BY <1>1, <1>7, <2>1, <3>3
    <3>4. c \in 1 .. n - 1 \/ c = n \/ c = n + 1
      BY <1>1
    <3> QED
      BY <3>1, <3>2, <3>3, <3>4
  <2> QED
    BY <1>2, <2>1, <2>2, BlocksThen
<1>13. CASE x.kind \notin Scopes
  <2>1. Len(contexts') = n /\ DOMAIN contexts' = 1 .. n
    BY <1>2, <1>13
  <2>2. /\ BaseThen(contexts'[n].node) + Len(contexts'[n].blocks) = Len(open')
        /\ \A b \in DOMAIN contexts'[n].blocks :
             /\ BaseThen(contexts'[n].node) + b \in DOMAIN open'
             /\ IsClauseThen(open'[BaseThen(contexts'[n].node) + b], contexts'[n].blocks[b])
    <3>1. n \in 1 .. n /\ BaseThen(contexts'[n].node) = Base(contexts[n].node)
      BY <1>1, <1>8
    <3>2. CASE x.kind \in Blocks
      <4>1. /\ Len(contexts'[n].blocks) = Len(contexts[n].blocks) + 1
            /\ DOMAIN contexts'[n].blocks = 1 .. Len(contexts[n].blocks) + 1
            /\ \A b \in 1 .. Len(contexts[n].blocks) : contexts'[n].blocks[b] = contexts[n].blocks[b]
            /\ contexts'[n].blocks[Len(contexts[n].blocks) + 1] = x.kind
        BY <1>2, <1>11, <3>2, Pushed
      <4>2. Len(open') = d + 1 /\ d + 1 \in DOMAIN open' /\ open'[d + 1] = t
        BY <1>6, <3>2
      <4> DEFINE k == Len(contexts[n].blocks)
                 e == Base(contexts[n].node)
      <4>5. k \in Nat /\ e \in Nat /\ e + k = d /\ BaseThen(contexts'[n].node) = e
        BY <1>11, <3>1
      <4> HIDE DEF k, e
      <4>3. BaseThen(contexts'[n].node) + Len(contexts'[n].blocks) = Len(open')
        <5>1. Len(contexts'[n].blocks) = k + 1
          BY <4>1 DEF k
        <5>2. e + (k + 1) = d + 1
          BY <4>5
        <5> QED
          BY <4>2, <4>5, <5>1, <5>2
      <4>4. ASSUME NEW b \in DOMAIN contexts'[n].blocks
            PROVE  /\ BaseThen(contexts'[n].node) + b \in DOMAIN open'
                   /\ IsClauseThen(open'[BaseThen(contexts'[n].node) + b], contexts'[n].blocks[b])
        <5>1. CASE b \in 1 .. Len(contexts[n].blocks)
          BY <1>9, <1>11, <3>1, <4>1, <5>1
        <5>2. CASE b = Len(contexts[n].blocks) + 1
          <6>1. BaseThen(contexts'[n].node) + b = d + 1
            <7>1. b = k + 1
              BY <5>2 DEF k
            <7> QED
              BY <4>5, <7>1
          <6>2. IsClauseThen(t, x.kind)
            BY <1>3 DEF IsClauseThen
          <6> QED
            BY <4>1, <4>2, <5>2, <6>1, <6>2
        <5> QED
          BY <1>11, <4>1, <5>1, <5>2
      <4> QED
        BY <4>3, <4>4
    <3>3. CASE x.kind \notin Blocks
      <4>1. contexts'[n].blocks = contexts[n].blocks /\ Len(open') = d
        BY <1>2, <1>6, <1>13, <3>3
      <4> QED
        BY <1>9, <1>11, <3>1, <4>1
    <3> QED
      BY <3>2, <3>3
  <2>3. ASSUME NEW c \in 1 .. n
        PROVE  /\ BaseThen(contexts'[c].node) + Len(contexts'[c].blocks) =
                    IF c = n THEN Len(open') ELSE BaseThen(contexts'[c + 1].node) - 1
               /\ \A b \in DOMAIN contexts'[c].blocks :
                    /\ BaseThen(contexts'[c].node) + b \in DOMAIN open'
                    /\ IsClauseThen(open'[BaseThen(contexts'[c].node) + b], contexts'[c].blocks[b])
    <3>1. CASE c \in 1 .. n - 1
      BY <1>9, <1>10, <3>1
    <3>2. CASE c = n
      BY <2>2, <3>2
    <3> QED
      BY <1>1, <3>1, <3>2
  <2> QED
    BY <2>1, <2>3, BlocksThen
<1> QED
  BY <1>12, <1>13

\* An else counts as the block of its loop.
LEMMA ElseBlocks ==
  ASSUME TypeOK, OpenInv, NodesInv, BlocksInv, ElseClause
  PROVE  BlocksInv'
<1> DEFINE x == [kind |-> "else", detail |-> <<>>, level |-> Len(open) - 1]
           n == Len(contexts)
           t == This
           d == Len(open)
<1>1. /\ open # <<>> /\ program[Last(open)].kind = "while" /\ program' = Append(program, x)
      /\ open' = Append(Front(open), t) /\ t \in Nat /\ contexts' = contexts
  BY DEF TypeOK, ElseClause, This
<1>2. /\ open \in Seq(Nat) /\ program \in Seq(Statements) /\ d \in Nat \ {0}
      /\ DOMAIN open = 1 .. d /\ Last(open) = open[d]
  BY <1>1, OpenTop
<1>3. /\ DOMAIN open' = 1 .. d /\ Len(open') = d
      /\ \A l \in 1 .. d - 1 : open'[l] = open[l]
      /\ open'[d] = t
  BY <1>1, <1>2, OpenReplaced
<1>4. x \in Statements /\ x.kind = "else"
  BY <1>2 DEF Statements, Kinds, Compound
<1> HIDE DEF x
<1>5. /\ \A s \in {0} \cup DOMAIN program : BaseThen(s) = Base(s)
      /\ \A i \in DOMAIN program : \A kind : IsClauseThen(i, kind) <=> IsClauseOf(i, kind)
  BY <1>1, <1>4, BaseStays
<1>6. program'[t] = x
  BY <1>1, <1>2, <1>4, NewLine
<1>7. \A l \in DOMAIN open : open[l] \in DOMAIN program
  BY <1>2, OpenOrder
<1> HIDE DEF n, t, d
<1>8. \A c \in DOMAIN contexts : BaseThen(contexts[c].node) = Base(contexts[c].node)
  <2> SUFFICES ASSUME NEW c \in DOMAIN contexts
               PROVE  BaseThen(contexts[c].node) = Base(contexts[c].node)
    OBVIOUS
  <2>1. contexts[c].node \in {0} \cup DOMAIN program
    BY BaseOf
  <2> QED
    BY <1>5, <2>1
<1>9. ASSUME NEW c \in DOMAIN contexts, NEW b \in DOMAIN contexts[c].blocks
      PROVE  /\ BaseThen(contexts[c].node) + b \in DOMAIN open'
             /\ IsClauseThen(open'[BaseThen(contexts[c].node) + b], contexts[c].blocks[b])
  <2> DEFINE l == Base(contexts[c].node) + b
             kind == contexts[c].blocks[b]
  <2>1. l \in DOMAIN open /\ IsClauseOf(open[l], kind)
    BY BlocksBelow
  <2>2. BaseThen(contexts[c].node) + b = l
    BY <1>8
  <2> HIDE DEF l, kind
  <2>3. CASE l = d
    <3>1. kind = "while"
      BY <1>1, <1>2, <2>1, <2>3 DEF IsClauseOf
    <3>2. IsClauseThen(t, kind)
      BY <1>4, <1>6, <3>1 DEF IsClauseThen
    <3>3. l \in DOMAIN open' /\ open'[l] = t
      BY <1>2, <1>3, <2>3
    <3> QED
      BY <2>2, <3>2, <3>3 DEF kind
  <2>4. CASE l # d
    <3>1. l \in 1 .. d - 1 /\ l \in DOMAIN open'
      BY <1>2, <1>3, <2>1, <2>4
    <3>2. open'[l] = open[l] /\ IsClauseThen(open[l], kind)
      BY <1>3, <1>5, <1>7, <2>1, <3>1
    <3> QED
      BY <2>2, <3>1, <3>2 DEF kind
  <2> QED
    BY <2>3, <2>4
<1>10. /\ n \in Nat \ {0} /\ DOMAIN contexts = 1 .. n
  BY ContextTyped DEF n
<1>11. ASSUME NEW c \in DOMAIN contexts
       PROVE  BaseThen(contexts[c].node) + Len(contexts[c].blocks) =
                IF c = n THEN Len(open') ELSE BaseThen(contexts[c + 1].node) - 1
  <2>1. Base(contexts[c].node) + Len(contexts[c].blocks) =
          (IF c = n THEN d ELSE Base(contexts[c + 1].node) - 1)
    BY BlocksBelow DEF n, d
  <2>2. c = n \/ c + 1 \in DOMAIN contexts
    BY <1>10
  <2> QED
    BY <1>3, <1>8, <2>1, <2>2
<1> QED
  BY <1>1, <1>9, <1>11, BlocksThen DEF n

\* A block that is left was the last one of its context; a scope has none left.
LEMMA LeaveBlocks ==
  ASSUME TypeOK, OpenInv, NodesInv, BlocksInv, NamesInv, LeaveStatement
  PROVE  BlocksInv'
<1> DEFINE n == Len(contexts)
           m == Len(contexts')
           h == Last(open)
           d == Len(open)
<1>1. /\ open # <<>> /\ program' = program /\ open' = Front(open)
  BY DEF LeaveStatement
<1>2. /\ open \in Seq(Nat) /\ program \in Seq(Statements) /\ d \in Nat \ {0}
      /\ DOMAIN open = 1 .. d /\ h = open[d] /\ h \in DOMAIN program /\ h # 0
  BY <1>1, OpenTop
<1>3. /\ DOMAIN open' = 1 .. d - 1 /\ Len(open') = d - 1
      /\ \A l \in 1 .. d - 1 : open'[l] = open[l]
  BY <1>1, <1>2, OpenBelow
<1>4. n \in Nat \ {0} /\ DOMAIN contexts = 1 .. n
  BY ContextTyped
<1>5. program[h].kind \in Scopes => n > 1 /\ contexts[n].node = h
  BY LeftScope
<1>6. /\ m = (IF program[h].kind \in Scopes THEN n - 1 ELSE n)
      /\ DOMAIN contexts' = 1 .. m
      /\ \A c \in 1 .. m - 1 : contexts'[c] = contexts[c]
      /\ contexts'[m].node = contexts[m].node
      /\ contexts'[m].blocks =
           (IF program[h].kind \in Scopes THEN contexts[m].blocks ELSE Front(contexts[m].blocks))
  BY <1>5, LeaveContexts
<1>7. program[h].level = d - 1
  <2>1. d \in DOMAIN open
    BY <1>2
  <2> QED
    BY <1>2, <2>1 DEF OpenInv
<1>8. /\ \A s \in {0} \cup DOMAIN program : BaseThen(s) = Base(s)
      /\ \A i \in DOMAIN program : \A kind : IsClauseThen(i, kind) <=> IsClauseOf(i, kind)
  BY <1>1 DEF BaseThen, Base, IsClauseThen, IsClauseOf
<1>9. \A l \in DOMAIN open : open[l] \in DOMAIN program
  BY <1>2, OpenOrder
<1> HIDE DEF n, m, h, d
<1>10. m \in Nat \ {0} /\ m <= n /\ \A c \in 1 .. m : c \in DOMAIN contexts
  BY <1>4, <1>5, <1>6
<1>11. \A c \in 1 .. m : /\ contexts'[c].node = contexts[c].node
                         /\ BaseThen(contexts'[c].node) = Base(contexts[c].node)
  <2> SUFFICES ASSUME NEW c \in 1 .. m
               PROVE  /\ contexts'[c].node = contexts[c].node
                      /\ BaseThen(contexts'[c].node) = Base(contexts[c].node)
    OBVIOUS
  <2>1. c \in DOMAIN contexts /\ (c = m \/ c \in 1 .. m - 1)
    BY <1>10
  <2>2. contexts'[c].node = contexts[c].node
    BY <1>6, <2>1
  <2>3. contexts[c].node \in {0} \cup DOMAIN program
    BY <2>1, BaseOf
  <2> QED
    BY <1>8, <2>2, <2>3
\* A block that stays is below the statement that is left.
<1>12. ASSUME NEW c \in 1 .. m, NEW b \in DOMAIN contexts[c].blocks,
              Base(contexts[c].node) + b < d
       PROVE  /\ BaseThen(contexts'[c].node) + b \in DOMAIN open'
              /\ IsClauseThen(open'[BaseThen(contexts'[c].node) + b], contexts[c].blocks[b])
  <2> DEFINE l == Base(contexts[c].node) + b
  <2>1. l \in DOMAIN open /\ IsClauseOf(open[l], contexts[c].blocks[b]) /\ l < d
    BY <1>10, <1>12, BlocksBelow
  <2>2. BaseThen(contexts'[c].node) + b = l
    BY <1>11
  <2> HIDE DEF l
  <2>3. l \in DOMAIN open' /\ open'[l] = open[l]
    BY <1>2, <1>3, <2>1
  <2>4. IsClauseThen(open[l], contexts[c].blocks[b])
    BY <1>8, <1>9, <2>1
  <2> QED
    BY <2>2, <2>3, <2>4
<1>13. ASSUME NEW c \in 1 .. m - 1
       PROVE  /\ BaseThen(contexts'[c].node) + Len(contexts'[c].blocks) = BaseThen(contexts'[c + 1].node) - 1
              /\ \A b \in DOMAIN contexts'[c].blocks :
                   /\ BaseThen(contexts'[c].node) + b \in DOMAIN open'
                   /\ IsClauseThen(open'[BaseThen(contexts'[c].node) + b], contexts'[c].blocks[b])
  <2>1. c \in 1 .. m /\ c + 1 \in 1 .. m /\ c \in DOMAIN contexts /\ c # n /\ c < n /\ contexts'[c] = contexts[c]
    BY <1>4, <1>6, <1>10
  <2>2. /\ Base(contexts[c].node) + Len(contexts[c].blocks) = Base(contexts[c + 1].node) - 1
        /\ \A b \in DOMAIN contexts[c].blocks : Base(contexts[c].node) + b < d
    BY <2>1, BlocksBelow DEF n, d
  <2>3. BaseThen(contexts'[c].node) + Len(contexts'[c].blocks) = BaseThen(contexts'[c + 1].node) - 1
    BY <1>11, <2>1, <2>2
  <2> QED
    BY <1>12, <2>1, <2>2, <2>3
<1>14. ASSUME program[h].kind \in Scopes
       PROVE  /\ BaseThen(contexts'[m].node) + Len(contexts'[m].blocks) = d - 1
              /\ contexts'[m].blocks = contexts[m].blocks
              /\ \A b \in DOMAIN contexts'[m].blocks : Base(contexts[m].node) + b < d
  <2>1. m \in DOMAIN contexts /\ m # n /\ m < n /\ m + 1 = n /\ m \in 1 .. m
    BY <1>4, <1>6, <1>10, <1>14
  <2>2. /\ Base(contexts[m].node) + Len(contexts[m].blocks) = Base(contexts[m + 1].node) - 1
        /\ \A b \in DOMAIN contexts[m].blocks : Base(contexts[m].node) + b < d
    BY <2>1, BlocksBelow DEF n, d
  <2>3. contexts[m + 1].node = h /\ Base(h) = program[h].level + 1
    BY <1>2, <1>5, <1>14, <2>1 DEF Base
  <2>4. Base(contexts[m + 1].node) - 1 = d - 1
    BY <1>2, <1>7, <2>3
  <2>5. contexts'[m].blocks = contexts[m].blocks
    BY <1>6, <1>14
  <2>6. BaseThen(contexts'[m].node) = Base(contexts[m].node)
    BY <1>11, <2>1
  <2> QED
    BY <2>2, <2>4, <2>5, <2>6
<1>15. ASSUME program[h].kind \notin Scopes
       PROVE  /\ BaseThen(contexts'[m].node) + Len(contexts'[m].blocks) = d - 1
              /\ \A b \in DOMAIN contexts'[m].blocks :
                   /\ b \in DOMAIN contexts[m].blocks /\ contexts'[m].blocks[b] = contexts[m].blocks[b]
                   /\ Base(contexts[m].node) + b < d
  <2> DEFINE bs == contexts[n].blocks
             s == contexts[n].node
             e == Base(s)
             k == Len(bs)
  <2>1. n \in DOMAIN contexts /\ m = n /\ m \in 1 .. m
    BY <1>4, <1>6, <1>10, <1>15
  <2>2. bs \in Seq(Blocks) /\ k \in Nat /\ e \in Nat /\ e + k = d /\ DOMAIN bs = 1 .. k
    BY <2>1, BlocksBelow DEF n, d
  <2>3. e # d
    <3> SUFFICES ASSUME e = d PROVE FALSE
      OBVIOUS
    <3>1. e # 0
      BY <1>2
    <3>2. s = 0 \/ (s = open[e] /\ program[s].kind \in Scopes)
      BY <2>1, BaseOf
    <3>3. s # 0
      BY <3>1 DEF Base
    <3> QED
      BY <1>2, <1>15, <3>2, <3>3
  <2>4. contexts'[m].blocks = Front(bs)
    BY <1>6, <1>15, <2>1
  <2>5. BaseThen(contexts'[m].node) = e
    BY <1>11, <2>1
  <2> HIDE DEF bs, s, e
  <2>6. bs # <<>>
    <3>1. k # 0
      BY <1>2, <2>2, <2>3
    <3> QED
      BY <3>1
  <2>7. /\ Len(Front(bs)) = k - 1 /\ DOMAIN Front(bs) = 1 .. k - 1
        /\ \A b \in 1 .. k - 1 : Front(bs)[b] = bs[b]
    BY <2>2, <2>6, Popped
  <2> HIDE DEF k
  <2>8. e + (k - 1) = d - 1 /\ \A b \in 1 .. k - 1 : e + b < d /\ b \in 1 .. k
    BY <1>2, <2>2
  <2>9. BaseThen(contexts'[m].node) + Len(contexts'[m].blocks) = d - 1
    BY <2>4, <2>5, <2>7, <2>8
  <2>10. \A b \in DOMAIN contexts'[m].blocks :
           b \in DOMAIN bs /\ contexts'[m].blocks[b] = bs[b] /\ e + b < d
    BY <2>2, <2>4, <2>7, <2>8
  <2> QED
    BY <2>1, <2>9, <2>10 DEF bs, s, e
<1>16. /\ BaseThen(contexts'[m].node) + Len(contexts'[m].blocks) = Len(open')
       /\ \A b \in DOMAIN contexts'[m].blocks :
            /\ BaseThen(contexts'[m].node) + b \in DOMAIN open'
            /\ IsClauseThen(open'[BaseThen(contexts'[m].node) + b], contexts'[m].blocks[b])
  <2>1. m \in 1 .. m
    BY <1>10
  <2>2. BaseThen(contexts'[m].node) + Len(contexts'[m].blocks) = d - 1
    BY <1>14, <1>15
  <2>3. \A b \in DOMAIN contexts'[m].blocks :
          /\ b \in DOMAIN contexts[m].blocks /\ contexts'[m].blocks[b] = contexts[m].blocks[b]
          /\ Base(contexts[m].node) + b < d
    BY <1>14, <1>15
  <2> QED
    BY <1>3, <1>12, <2>1, <2>2, <2>3
<1>17. ASSUME NEW c \in 1 .. m
       PROVE  /\ BaseThen(contexts'[c].node) + Len(contexts'[c].blocks) =
                   IF c = m THEN Len(open') ELSE BaseThen(contexts'[c + 1].node) - 1
              /\ \A b \in DOMAIN contexts'[c].blocks :
                   /\ BaseThen(contexts'[c].node) + b \in DOMAIN open'
                   /\ IsClauseThen(open'[BaseThen(contexts'[c].node) + b], contexts'[c].blocks[b])
  <2>1. CASE c = m
    BY <1>16, <2>1
  <2>2. CASE c \in 1 .. m - 1
    <3>1. c # m
      BY <1>10, <2>2
    <3> QED
      BY <1>13, <2>2, <3>1
  <2>3. c = m \/ c \in 1 .. m - 1
    BY <1>10
  <2> QED
    BY <2>1, <2>2, <2>3
<1> QED
  BY <1>6, <1>17, BlocksThen DEF m

\* The other actions leave the blocks.
LEMMA RestBlocks ==
  ASSUME TypeOK, Indented, OpenInv, NodesInv, BlocksInv, UnexpectedIndent \/ Finish
  PROVE  BlocksInv'
<1>1. CASE UnexpectedIndent
  <2>1. contexts = <<NewContext(0)>> /\ contexts' = contexts /\ open = <<>> /\ open' = open
    BY <1>1 DEF UnexpectedIndent, Indented
  <2>2. /\ Len(contexts') = 1 /\ DOMAIN contexts' = {1}
        /\ contexts'[1].node = 0 /\ contexts'[1].blocks = <<>> /\ Len(open') = 0
    BY <2>1 DEF NewContext
  <2>3. BaseThen(0) = 0
    BY DEF BaseThen
  <2> QED
    BY <2>2, <2>3, BlocksThen
<1>2. CASE Finish
  BY <1>2 DEF Finish, BlocksInv, Base, IsClauseOf
<1> QED
  BY <1>1, <1>2

-----------------------------------------------------------------------------
(* What may be before the first statement.                                   *)

\* Nothing comes before or after a first statement that is indented.
LEMMA IndentedStays ==
  ASSUME TypeOK, Indented, Next
  PROVE  Indented'
<1>1. CASE NameStatement \/ Jump \/ BlockStatement \/ ScopeStatement \/ RuledStatement
  <2>1. PICK x \in Statements, ms \in Seq(Texts) : Visiting(x, ms) /\ VisitOf(x, ms)
    BY <1>1, Visits
  <2> QED
    BY <2>1 DEF Visiting, Indented
<1>2. CASE ElseClause \/ LeaveStatement
  <2>1. open # <<>> /\ head' = head
    BY <1>2 DEF ElseClause, LeaveStatement
  <2>2. head = <<>>
    BY <2>1 DEF Indented
  <2> QED
    BY <2>1, <2>2 DEF Indented
<1>3. CASE UnexpectedIndent
  <2> DEFINE x == [kind |-> "indented", detail |-> <<>>, level |-> 0]
  <2>1. open = <<>> /\ contexts = <<NewContext(0)>> /\ open' = open /\ contexts' = contexts
    BY <1>3 DEF UnexpectedIndent, Indented
  <2>2. program' = <<x>> /\ x.kind = "indented"
    BY <1>3 DEF UnexpectedIndent
  <2> HIDE DEF x
  <2>3. \A i \in DOMAIN program' : program'[i].kind = "indented" /\ Len(program') = 1
    BY <2>2
  <2>4. contexts' = <<NewContext(0)>>'
    BY <2>1 DEF NewContext
  <2> QED
    BY <2>1, <2>3, <2>4 DEF Indented
<1>4. CASE Finish
  BY <1>4 DEF Finish, Indented, NewContext
<1> QED
  BY <1>1, <1>2, <1>3, <1>4 DEF Next

-----------------------------------------------------------------------------
(* What is around the next line, in terms of the contexts.                   *)

\* A part of the open statements is as many lines.
LEMMA CardinalityOfPart ==
  ASSUME NEW a \in Nat, NEW b \in Nat, a <= b,
         \A l \in a + 1 .. b : \A m \in a + 1 .. b : open[l] = open[m] => l = m,
         NEW T, \A l \in a + 1 .. b : open[l] \in T, \A j \in T : \E l \in a + 1 .. b : j = open[l]
  PROVE  Cardinality(T) = b - a
<1> DEFINE S == a + 1 .. b
           g == [l \in S |-> open[l]]
<1>1. g \in [S -> T] /\ DOMAIN g = S /\ \A l \in S : g[l] = open[l]
  OBVIOUS
<1> HIDE DEF g
<1>2. g \in Injection(S, T)
  BY <1>1 DEF Injection, IsInjective
<1>3. g \in Surjection(S, T)
  BY <1>1 DEF Surjection
<1>4. ExistsBijection(S, T)
  BY <1>2, <1>3 DEF Bijection, ExistsBijection
<1>5. a + 1 \in Int /\ b \in Int
  OBVIOUS
<1>6. IsFiniteSet(S) /\ Cardinality(S) = IF a + 1 > b THEN 0 ELSE b - (a + 1) + 1
  BY <1>5, FS_Interval
<1> HIDE DEF S
<1>7. Cardinality(T) = Cardinality(S)
  BY <1>4, <1>6, FS_Bijection
<1>8. Cardinality(S) = b - a
  BY <1>6
<1> QED
  BY <1>7, <1>8

\* Whatever is open is around the next line, unless that is another clause of it.
LEMMA NextScope ==
  ASSUME TypeOK, OpenInv, NodesInv, NEW x \in Statements, program' = Append(program, x),
         NEW n, n = This, NEW s, s = Context.node,
         \/ x.level = Len(open)
         \/ open # <<>> /\ x.level = Len(open) - 1 /\ program[Last(open)].kind \notin Scopes
  PROVE  ScopesAround(n)' = OpenScopes /\ ScopeOf(n)' = s
<1> DEFINE d == Len(open)
<1>1. /\ open \in Seq(Nat) /\ program \in Seq(Statements) /\ d \in Nat /\ DOMAIN open = 1 .. d
      /\ \A l \in DOMAIN open : open[l] \in DOMAIN program
  BY OpenOrder DEF TypeOK
<1>2. x.level \in 0 .. d /\ (x.level = d \/ (x.level = d - 1 /\ program[open[d]].kind \notin Scopes))
  <2>1. CASE x.level = d
    BY <1>1, <2>1
  <2>2. CASE open # <<>> /\ x.level = Len(open) - 1 /\ program[Last(open)].kind \notin Scopes
    <3>1. d \in Nat \ {0} /\ Last(open) = open[d]
      BY <2>2, OpenTop
    <3> QED
      BY <2>2, <3>1
  <2> QED
    BY <2>1, <2>2
<1>3. Headers(n)' = {open[l] : l \in 1 .. x.level}
  BY <1>1, <1>2, NextHeaders
<1>4. \A i \in DOMAIN program : program'[i] = program[i]
  BY <1>1, NewLine
<1> HIDE DEF d
<1>5. ASSUME NEW g PROVE g \in ScopesAround(n)' <=> g \in OpenScopes
  <2>1. g \in ScopesAround(n)' <=> g \in Headers(n)' /\ program'[g].kind \in Scopes
    BY DEF ScopesAround
  <2>2. ASSUME g \in ScopesAround(n)' PROVE g \in OpenScopes
    <3>1. PICK l \in 1 .. x.level : g = open[l]
      BY <1>3, <2>1, <2>2
    <3>2. l \in DOMAIN open
      BY <1>1, <1>2
    <3> QED
      BY <1>1, <1>4, <2>1, <2>2, <3>1, <3>2, OpenScopesAre
  <2>3. ASSUME g \in OpenScopes PROVE g \in ScopesAround(n)'
    <3>1. PICK l \in DOMAIN open : g = open[l] /\ program[g].kind \in Scopes
      BY <2>3, OpenScopesAre
    <3>2. l \in 1 .. x.level
      BY <1>1, <1>2, <3>1
    <3> QED
      BY <1>1, <1>3, <1>4, <2>1, <3>1, <3>2
  <2> QED
    BY <2>2, <2>3
<1>6. ScopesAround(n)' = OpenScopes
  BY <1>5
<1>7. s \in {0} \cup OpenScopes /\ \A k \in {0} \cup OpenScopes : k <= s
  BY ContextTyped, InnermostScope
<1>8. {0} \cup OpenScopes \in SUBSET Nat
  BY <1>1, OpenScopesNest
<1>9. MaxOf({0} \cup OpenScopes) = s
  <2> DEFINE S == {0} \cup OpenScopes
  <2> HIDE DEF S
  <2> QED
    BY <1>7, <1>8, MaxIs DEF S
<1>10. ScopeOf(n)' = MaxOf({0} \cup OpenScopes)
  BY <1>6 DEF ScopeOf
<1> QED
  BY <1>6, <1>9, <1>10

\* The blocks around a statement that is visited are those of the context.
LEMMA NextBlocks ==
  ASSUME TypeOK, OpenInv, NodesInv, BlocksInv, NEW x \in Statements, program' = Append(program, x),
         x.level = Len(open), NEW n, n = This,
         NEW blocks, blocks = Context.blocks, NEW base, base = Base(Context.node)
  PROVE  /\ BlocksAround(n)' = {open[l] : l \in base + 1 .. Len(open)}
         /\ Cardinality(BlocksAround(n)') = Len(blocks)
         /\ Cardinality(Headers(n)') = Len(open)
         /\ base \in Nat /\ base + Len(blocks) = Len(open) /\ blocks \in Seq(Blocks)
<1> DEFINE d == Len(open)
           s == Context.node
<1>1. /\ open \in Seq(Nat) /\ program \in Seq(Statements) /\ d \in Nat /\ DOMAIN open = 1 .. d
      /\ \A l \in DOMAIN open : open[l] \in DOMAIN program /\ open[l] \in Nat \ {0}
      /\ \A l, m \in DOMAIN open : l < m => open[l] < open[m]
  BY OpenOrder DEF TypeOK
<1>2. Headers(n)' = {open[l] : l \in 1 .. d}
  BY <1>1, NextHeaders
<1>3. ScopeOf(n)' = s
  BY NextScope
<1>4. Len(contexts) \in DOMAIN contexts /\ Context = contexts[Len(contexts)]
  BY ContextTyped
<1>5. /\ base \in Nat /\ base + Len(blocks) = d /\ blocks \in Seq(Blocks) /\ Len(blocks) \in Nat
  BY <1>4, BlocksBelow
<1>6. base <= d /\ ((s = 0 /\ base = 0) \/ (base \in DOMAIN open /\ s = open[base]))
  <2>1. s = 0 \/ (base \in DOMAIN open /\ s = open[base])
    BY <1>4, BaseOf
  <2>2. s = 0 => base = 0
    BY DEF Base
  <2> QED
    BY <1>1, <1>5, <2>1, <2>2
<1> HIDE DEF d, s
<1>7. \A l \in DOMAIN open : open[l] > s <=> l > base
  <2> SUFFICES ASSUME NEW l \in DOMAIN open PROVE open[l] > s <=> l > base
    OBVIOUS
  <2>1. CASE s = 0 /\ base = 0
    BY <1>1, <2>1
  <2>2. CASE base \in DOMAIN open /\ s = open[base]
    <3>1. l < base \/ l = base \/ base < l
      BY <1>1, <1>5
    <3>2. open[l] \in Nat /\ s \in Nat /\ l \in Nat
      BY <1>1, <2>2
    <3>3. (l < base => open[l] < s) /\ (base < l => s < open[l])
      BY <1>1, <2>2
    <3> QED
      BY <1>5, <2>2, <3>1, <3>2, <3>3
  <2> QED
    BY <1>6, <2>1, <2>2
<1>8. BlocksAround(n)' = {open[l] : l \in base + 1 .. d}
  <2>1. \A j : j \in BlocksAround(n)' <=> j \in Headers(n)' /\ j > s
    BY <1>3 DEF BlocksAround
  <2>2. ASSUME NEW j \in BlocksAround(n)' PROVE j \in {open[l] : l \in base + 1 .. d}
    <3>1. PICK l \in 1 .. d : j = open[l]
      BY <1>2, <2>1
    <3>2. l \in DOMAIN open /\ j > s
      BY <1>1, <2>1, <3>1
    <3>3. l > base
      BY <1>7, <3>1, <3>2
    <3>4. l \in base + 1 .. d
      BY <1>1, <1>5, <3>1, <3>3
    <3> QED
      BY <3>1, <3>4
  <2>3. ASSUME NEW l \in base + 1 .. d PROVE open[l] \in BlocksAround(n)'
    <3>1. l \in 1 .. d /\ l \in DOMAIN open /\ l > base
      BY <1>1, <1>5
    <3>2. open[l] > s
      BY <1>7, <3>1
    <3> QED
      BY <1>2, <2>1, <3>1, <3>2
  <2> QED
    BY <2>2, <2>3
<1>9. \A l, m \in 1 .. d : open[l] = open[m] => l = m
  <2> SUFFICES ASSUME NEW l \in 1 .. d, NEW m \in 1 .. d, open[l] = open[m], l # m PROVE FALSE
    OBVIOUS
  <2>1. l < m \/ m < l
    BY <1>1
  <2>2. l \in DOMAIN open /\ m \in DOMAIN open /\ open[l] \in Nat /\ open[m] \in Nat
    BY <1>1
  <2>3. open[l] < open[m] \/ open[m] < open[l]
    BY <1>1, <2>1, <2>2
  <2> QED
    BY <2>2, <2>3
<1>10. Cardinality({open[l] : l \in base + 1 .. d}) = d - base
  <2>1. \A l \in base + 1 .. d : l \in 1 .. d
    BY <1>1, <1>5
  <2>2. \A l, m \in base + 1 .. d : open[l] = open[m] => l = m
    BY <1>9, <2>1
  <2>3. base \in Nat /\ d \in Nat /\ base <= d
    BY <1>1, <1>5, <1>6
  <2> DEFINE T == {open[l] : l \in base + 1 .. d}
  <2>4. (\A l \in base + 1 .. d : open[l] \in T) /\ \A j \in T : \E l \in base + 1 .. d : j = open[l]
    OBVIOUS
  <2> HIDE DEF T
  <2>5. Cardinality(T) = d - base
    BY <2>2, <2>3, <2>4, CardinalityOfPart
  <2> QED
    BY <2>5 DEF T
<1>11. Cardinality({open[l] : l \in 0 + 1 .. d}) = d - 0
  <2>1. 0 \in Nat /\ d \in Nat /\ 0 <= d /\ \A l, m \in 0 + 1 .. d : open[l] = open[m] => l = m
    BY <1>1, <1>9
  <2> DEFINE T == {open[l] : l \in 0 + 1 .. d}
  <2>2. (\A l \in 0 + 1 .. d : open[l] \in T) /\ \A j \in T : \E l \in 0 + 1 .. d : j = open[l]
    OBVIOUS
  <2> HIDE DEF T
  <2>3. Cardinality(T) = d - 0
    BY <2>1, <2>2, CardinalityOfPart
  <2> QED
    BY <2>3 DEF T
<1>12. Cardinality(BlocksAround(n)') = Len(blocks)
  <2>1. d - base = Len(blocks)
    BY <1>1, <1>5
  <2> QED
    BY <1>8, <1>10, <2>1
<1>13. Cardinality(Headers(n)') = d
  <2>1. 0 + 1 = 1 /\ d - 0 = d
    BY <1>1
  <2> QED
    BY <1>2, <1>11, <2>1
<1> QED
  BY <1>5, <1>8, <1>12, <1>13 DEF d

\* So are the limits on blocks and on the depth.
LEMMA NextDepth ==
  ASSUME TypeOK, OpenInv, NodesInv, BlocksInv, NEW x \in Statements, program' = Append(program, x),
         x.level = Len(open), NEW n, n = This
  PROVE  /\ TooDeep(n)' <=> Begins /\ indentation + 1 = MaxIndents
         /\ TooManyBlocks(n)' <=> x.kind \in Blocks /\ Len(Context.blocks) + 1 = MaxBlocks
<1> DEFINE d == Len(open)
<1>1. /\ open \in Seq(Nat) /\ program \in Seq(Statements) /\ d \in Nat /\ DOMAIN open = 1 .. d
      /\ \A l \in DOMAIN open : open[l] \in DOMAIN program
      /\ \A l, m \in DOMAIN open : l < m => open[l] < open[m]
  BY OpenOrder DEF TypeOK
<1>2. /\ Headers(n)' = {open[l] : l \in 1 .. d}
      /\ Cardinality(Headers(n)') = d /\ Cardinality(BlocksAround(n)') = Len(Context.blocks)
  BY <1>1, NextHeaders, NextBlocks
<1>3. program'[n] = x /\ n - 1 = Len(program) /\ Len(program) \in Nat /\ DOMAIN program = 1 .. Len(program)
  BY <1>1, NewLine DEF This
<1>4. Len(program) \in {open[l] : l \in 1 .. d} <=> Begins
  <2>1. ASSUME NEW l \in 1 .. d, Len(program) = open[l] PROVE Begins
    <3>1. d \in DOMAIN open /\ l \in DOMAIN open
      BY <1>1
    <3>2. l = d
      <4> SUFFICES ASSUME l # d PROVE FALSE
        OBVIOUS
      <4>1. l < d
        <5>1. l \in 1 .. d /\ l # d /\ d \in Nat
          BY <1>1
        <5> HIDE DEF d
        <5> QED
          BY <5>1
      <4>2. open[l] < open[d] /\ open[d] \in 1 .. Len(program)
        BY <1>1, <1>3, <3>1, <4>1
      <4> QED
        BY <1>3, <2>1, <4>2
    <3>3. open # <<>>
      BY <1>1
    <3>4. Last(open) = open[d]
      BY DEF Last
    <3> QED
      BY <2>1, <3>2, <3>3, <3>4 DEF Begins
  <2>2. ASSUME Begins PROVE Len(program) \in {open[l] : l \in 1 .. d}
    <3>1. d \in Nat \ {0} /\ Last(open) = open[d] /\ Last(open) = Len(program)
      BY <2>2, OpenTop DEF Begins
    <3>2. d \in 1 .. d
      BY <3>1
    <3> QED
      BY <3>1, <3>2
  <2> QED
    BY <2>1, <2>2
<1>5. Begins => indentation + 1 = d
  <2> SUFFICES ASSUME Begins PROVE indentation + 1 = d
    OBVIOUS
  <2>1. indentation = d - 1
    BY OpenTop DEF Begins
  <2> QED
    BY <1>1, <2>1
<1> HIDE DEF d
<1>6. TooDeep(n)' <=> n - 1 \in Headers(n)' /\ Cardinality(Headers(n)') = MaxIndents
  BY DEF TooDeep
<1>7. TooDeep(n)' <=> Begins /\ indentation + 1 = MaxIndents
  BY <1>2, <1>3, <1>4, <1>5, <1>6
<1>8. TooManyBlocks(n)' <=> program'[n].kind \in Blocks /\ Cardinality(BlocksAround(n)') + 1 = MaxBlocks
  BY DEF TooManyBlocks
<1> QED
  BY <1>2, <1>3, <1>7, <1>8

\* So is what a jump leaves, but for what is in the else of a loop.
LEMMA NextMisplaced ==
  ASSUME TypeOK, OpenInv, NodesInv, BlocksInv, NEW x \in Statements, program' = Append(program, x),
         x.level = Len(open), NEW n, n = This
  PROVE  /\ x.kind \in Jumps /\ ~InItsPlace(x.kind) => Misplaced(n)'
         /\ Misplaced(n)' /\ ~InElse(n)' => x.kind \in Jumps /\ ~InItsPlace(x.kind)
<1> DEFINE s == Context.node
           blocks == Context.blocks
           base == Base(s)
           d == Len(open)
<1>1. /\ open \in Seq(Nat) /\ program \in Seq(Statements) /\ d \in Nat /\ DOMAIN open = 1 .. d
      /\ \A l \in DOMAIN open : open[l] \in DOMAIN program
  BY OpenOrder DEF TypeOK
<1>2. /\ BlocksAround(n)' = {open[l] : l \in base + 1 .. d}
      /\ base \in Nat /\ base + Len(blocks) = d /\ blocks \in Seq(Blocks)
  BY NextBlocks
<1>3. ScopeOf(n)' = s
  BY NextScope
<1>4. program'[n] = x /\ \A i \in DOMAIN program : program'[i] = program[i]
  BY <1>1, NewLine
<1>5. Len(contexts) \in DOMAIN contexts /\ Context = contexts[Len(contexts)]
  BY ContextTyped
<1>6. /\ Len(blocks) \in Nat /\ DOMAIN blocks = 1 .. Len(blocks)
      /\ \A b \in DOMAIN blocks : base + b \in DOMAIN open /\ IsClauseOf(open[base + b], blocks[b])
  BY <1>5, BlocksBelow
<1>7. s = 0 \/ s \in DOMAIN program
  BY <1>5, BaseOf
<1>8. IsModule <=> s = 0
  <2>1. /\ Len(contexts) \in Nat \ {0} /\ (Len(contexts) > 1 <=> OpenScopes # {})
        /\ s \in {0} \cup OpenScopes /\ \A k \in {0} \cup OpenScopes : k <= s
    BY <1>5, InnermostScope
  <2>2. \A k \in OpenScopes : k \in Nat \ {0}
    BY <1>1, OpenScopesNest
  <2>3. IsModule <=> OpenScopes = {}
    <3>1. Len(contexts) = 1 <=> ~(Len(contexts) > 1)
      <4>1. Len(contexts) \in Nat \ {0}
        BY <2>1
      <4>2. \A k \in Nat \ {0} : k = 1 <=> ~(k > 1)
        OBVIOUS
      <4> QED
        BY <4>1, <4>2, Zenon
    <3> QED
      BY <2>1, <3>1 DEF IsModule
  <2>4. OpenScopes = {} => s = 0
    BY <2>1
  <2>5. s = 0 => OpenScopes = {}
    BY <2>1, <2>2
  <2> QED
    BY <2>3, <2>4, <2>5
<1> HIDE DEF s, blocks, base, d
<1>9. ~InLoop(Context) => \A j \in BlocksAround(n)' : program'[j].kind # "while"
  <2> SUFFICES ASSUME ~InLoop(Context), NEW j \in BlocksAround(n)', program'[j].kind = "while" PROVE FALSE
    OBVIOUS
  <2>1. PICK l \in base + 1 .. d : j = open[l]
    BY <1>2
  <2> DEFINE b == l - base
  <2>2. b \in DOMAIN blocks /\ base + b = l
    BY <1>1, <1>2, <1>6
  <2> HIDE DEF b
  <2>3. IsClauseOf(j, blocks[b]) /\ l \in DOMAIN open
    BY <1>6, <2>1, <2>2
  <2>4. program[j].kind = "while"
    BY <1>1, <1>4, <2>1, <2>3
  <2>5. blocks[b] = "while"
    BY <2>3, <2>4 DEF IsClauseOf
  <2>6. InLoop(Context)
    BY <1>6, <2>2, <2>5 DEF InLoop, Contains, blocks
  <2> QED
    BY <2>6
<1>10. InLoop(Context) /\ ~InElse(n)' => \E j \in BlocksAround(n)' : program'[j].kind = "while"
  <2> SUFFICES ASSUME InLoop(Context), ~InElse(n)' PROVE \E j \in BlocksAround(n)' : program'[j].kind = "while"
    OBVIOUS
  <2>1. PICK b \in DOMAIN blocks : blocks[b] = "while"
    BY <1>6 DEF InLoop, Contains, blocks
  <2> DEFINE l == base + b
  <2>2. l \in DOMAIN open /\ IsClauseOf(open[l], "while")
    BY <1>6, <2>1
  <2>3. l \in base + 1 .. d
    BY <1>1, <1>2, <1>6, <2>2
  <2> HIDE DEF l
  <2>4. open[l] \in BlocksAround(n)' /\ program'[open[l]] = program[open[l]]
    BY <1>1, <1>2, <1>4, <2>2, <2>3
  <2>5. program'[open[l]].kind # "else"
    BY <2>4 DEF InElse
  <2> QED
    BY <2>2, <2>4, <2>5 DEF IsClauseOf
<1>11. Misplaced(n)' <=>
         \/ x.kind = "break" /\ \A j \in BlocksAround(n)' : program'[j].kind # "while"
         \/ x.kind = "return" /\ ~(s # 0 /\ program'[s].kind \in Functions)
         \/ x.kind = "await" /\ (s = 0 \/ program'[s].kind # "async def f()")
         \/ x.kind = "import *" /\ s # 0
  BY <1>3, <1>4 DEF Misplaced, IsFunction
<1>12. s = 0 \/ program'[s] = program[s]
  BY <1>4, <1>7
<1>13. x.kind \in Jumps =>
         (InItsPlace(x.kind) <=>
           \/ x.kind = "break" /\ InLoop(Context)
           \/ x.kind = "return" /\ s # 0 /\ program[s].kind \in Functions
           \/ x.kind = "await" /\ s # 0 /\ program[s].kind = "async def f()"
           \/ x.kind = "import *" /\ s = 0)
  BY <1>8 DEF InItsPlace, Jumps, InFunction, IsFunction, IsAsyncFuncdef, s
<1>14. ASSUME x.kind \in Jumps, ~InItsPlace(x.kind) PROVE Misplaced(n)'
  BY <1>9, <1>11, <1>12, <1>13, <1>14 DEF Jumps
<1>15. ASSUME Misplaced(n)', ~InElse(n)' PROVE x.kind \in Jumps /\ ~InItsPlace(x.kind)
  BY <1>10, <1>11, <1>12, <1>13, <1>15 DEF Jumps
<1> QED
  BY <1>14, <1>15

-----------------------------------------------------------------------------
(* What is said of places.                                                   *)

\* Parts of a list of messages that are empty can be left out.
LEMMA Listed ==
  ASSUME NEW A \in Seq(Texts), NEW B \in Seq(Texts), NEW C \in Seq(Texts)
  PROVE  /\ A \o B \o C = <<>> <=> A = <<>> /\ B = <<>> /\ C = <<>>
         /\ B = <<>> => A \o B \o C = A \o C
         /\ C = <<>> => A \o B \o C = A \o B
<1> DEFINE D == A \o B
           E == D \o C
<1>1. /\ D \in Seq(Texts) /\ Len(D) = Len(A) + Len(B)
      /\ B = <<>> => D = A
  BY ConcatProperties, ConcatEmptySeq
<1>2. Len(A) \in Nat /\ Len(B) \in Nat /\ Len(C) \in Nat
  OBVIOUS
<1>3. A \o B \o C = E
  OBVIOUS
<1> HIDE DEF D
<1>4. /\ E \in Seq(Texts) /\ Len(E) = Len(D) + Len(C)
      /\ C = <<>> => E = D
  BY <1>1, ConcatProperties, ConcatEmptySeq
<1>5. /\ A = <<>> <=> Len(A) = 0
      /\ B = <<>> <=> Len(B) = 0
      /\ C = <<>> <=> Len(C) = 0
  BY EmptySeq
<1>6. E = <<>> <=> Len(E) = 0
  <2> HIDE DEF E
  <2> QED
    BY <1>4, EmptySeq
<1>7. Len(E) = 0 <=> Len(A) = 0 /\ Len(B) = 0 /\ Len(C) = 0
  <2> HIDE DEF E
  <2> QED
    BY <1>1, <1>2, <1>4
<1>8. E = <<>> <=> A = <<>> /\ B = <<>> /\ C = <<>>
  BY <1>5, <1>6, <1>7
<1>9. B = <<>> => E = A \o C
  BY <1>1
<1>10. C = <<>> => E = A \o B
  BY <1>4 DEF D
<1> QED
  BY <1>3, <1>8, <1>9, <1>10

Deep == IF Begins /\ indentation + 1 = MaxIndents THEN <<"indentation">> ELSE <<>>

\* The messages of a statement that is visited are the errors of its place, but for
\* a declaration in the module, and what the rules for statements say.
LEMMA NextPlace ==
  ASSUME TypeOK, OpenInv, NodesInv, BlocksInv, NEW x \in Statements, NEW ms \in Seq(Texts),
         Visiting(x, ms), VisitOf(x, ms), NEW n, n = This
  PROVE  /\ Messages(ms) # <<>> =>
              PlaceErrors(n)' # <<>> \/ (x.kind = "nonlocal" /\ IsModule) \/ x.detail # <<>>
         /\ x.kind \in Jumps \cup Blocks /\ ~InElse(n)' => PlaceErrors(n)' = Messages(ms)
<1> DEFINE B == IF TooManyBlocks(n)' THEN <<"blocks">> ELSE <<>>
           C == IF Misplaced(n)' THEN <<"misplaced">> ELSE <<>>
<1>1. /\ TooDeep(n)' <=> Begins /\ indentation + 1 = MaxIndents
      /\ TooManyBlocks(n)' <=> x.kind \in Blocks /\ Len(Context.blocks) + 1 = MaxBlocks
      /\ x.kind \in Jumps /\ ~InItsPlace(x.kind) => Misplaced(n)'
      /\ Misplaced(n)' /\ ~InElse(n)' => x.kind \in Jumps /\ ~InItsPlace(x.kind)
  BY NextDepth, NextMisplaced DEF Visiting
<1>2. PlaceErrors(n)' = Deep \o B \o C
  BY <1>1 DEF PlaceErrors, Deep
<1>3. Messages(ms) = Deep \o ms
  BY DEF Messages, Deep
<1>4. Deep \in Seq(Texts) /\ B \in Seq(Texts) /\ C \in Seq(Texts)
  BY OneMessage DEF Deep, Texts
<1>5. /\ x.kind \in Blocks => ms = B
      /\ x.kind \in Jumps => ms = IF InItsPlace(x.kind) THEN <<>> ELSE <<"misplaced">>
      /\ ms # <<>> => x.kind \in Jumps \cup Blocks \/ (x.kind = "nonlocal" /\ IsModule) \/ x.detail # <<>>
  <2>1. Blocks \cap (NameStatements \cup Jumps \cup Scopes \cup RuledKinds) = {}
    BY DEF Blocks, NameStatements, Jumps, Scopes, Functions, RuledKinds
  <2>2. Jumps \cap (NameStatements \cup Blocks \cup Scopes \cup RuledKinds) = {}
    BY DEF Blocks, NameStatements, Jumps, Scopes, Functions, RuledKinds
  <2>3. CASE NameVisit(x, ms)
    BY <2>1, <2>2, <2>3 DEF NameVisit, NonlocalModuleLevelRule
  <2>4. CASE JumpVisit(x, ms)
    BY <2>1, <2>2, <2>4 DEF JumpVisit
  <2>5. CASE BlockVisit(x, ms)
    BY <1>1, <2>1, <2>2, <2>5 DEF BlockVisit
  <2>6. CASE ScopeVisit(x, ms)
    BY <2>1, <2>2, <2>6 DEF ScopeVisit
  <2>7. CASE RuledVisit(x, ms)
    BY <2>1, <2>2, <2>7 DEF RuledVisit
  <2> QED
    BY <2>3, <2>4, <2>5, <2>6, <2>7 DEF VisitOf
<1>6. <<"blocks">> # <<>> /\ <<"misplaced">> # <<>> /\ <<"indentation">> # <<>>
  BY OneMessage DEF Texts
<1>7. Jumps \cap Blocks = {}
  BY DEF Jumps, Blocks
<1>8. TooManyBlocks(n)' => x.kind \in Blocks
  BY <1>1
<1>9. B # <<>> => x.kind \in Blocks
  BY <1>8
<1>10. x.kind \in Jumps /\ ~InItsPlace(x.kind) => C # <<>>
  BY <1>1, <1>6
<1>11. ~InElse(n)' => C = IF x.kind \in Jumps /\ ~InItsPlace(x.kind) THEN <<"misplaced">> ELSE <<>>
  BY <1>1
<1> HIDE DEF B, C
<1>12. /\ Deep \o B \o C = <<>> <=> Deep = <<>> /\ B = <<>> /\ C = <<>>
       /\ B = <<>> => Deep \o B \o C = Deep \o C
       /\ C = <<>> => Deep \o B \o C = Deep \o B
  <2>1. Deep \o B \o C = <<>> <=> Deep = <<>> /\ B = <<>> /\ C = <<>>
    BY <1>4, Listed
  <2>2. B = <<>> => Deep \o B \o C = Deep \o C
    BY <1>4, Listed
  <2>3. C = <<>> => Deep \o B \o C = Deep \o B
    BY <1>4, Listed
  <2> QED
    BY <2>1, <2>2, <2>3
<1>13. Messages(ms) # <<>> => Deep # <<>> \/ ms # <<>>
  BY <1>6, MessagesTyped DEF Deep
<1>14. ASSUME Messages(ms) # <<>>
       PROVE  PlaceErrors(n)' # <<>> \/ (x.kind = "nonlocal" /\ IsModule) \/ x.detail # <<>>
  <2>1. CASE Deep # <<>>
    BY <1>2, <1>12, <2>1
  <2>2. CASE ms # <<>>
    <3>1. CASE x.kind \in Blocks
      BY <1>2, <1>5, <1>12, <2>2, <3>1
    <3>2. CASE x.kind \in Jumps
      <4>1. C # <<>>
        BY <1>5, <1>10, <2>2, <3>2
      <4> QED
        BY <1>2, <1>12, <4>1
    <3> QED
      BY <1>5, <2>2, <3>1, <3>2
  <2> QED
    BY <1>13, <1>14, <2>1, <2>2
<1>15. ASSUME x.kind \in Jumps \cup Blocks, ~InElse(n)' PROVE PlaceErrors(n)' = Messages(ms)
  <2>1. CASE x.kind \in Blocks
    <3>1. C = <<>> /\ ms = B
      BY <1>5, <1>7, <1>11, <1>15, <2>1
    <3> QED
      BY <1>2, <1>3, <1>12, <3>1
  <2>2. CASE x.kind \in Jumps
    <3>1. B = <<>> /\ ms = C
      BY <1>5, <1>7, <1>9, <1>11, <1>15, <2>2
    <3> QED
      BY <1>2, <1>3, <1>12, <3>1
  <2> QED
    BY <1>15, <2>1, <2>2
<1> QED
  BY <1>14, <1>15

\* Where an error of names is: at a declaration or an annotation.
LEMMA AnalyzedAt ==
  ASSUME NEW n \in Nat, NEW context, NEW d \in 1 .. n, \A u \in context.used : u.at \in 1 .. n,
         NEW e \in Analyzed(context, d)
  PROVE  e = d \/ \E u \in context.used : u.what = "annotate" /\ u.at = e
<1> DEFINE found == \E u \in context.used : u.at > d
           wrong == {u \in context.used : u.what # "param" /\ (found => u.what = "annotate")}
           S == {u.at : u \in wrong}
           at == IF found /\ wrong # {} THEN MaxOf(S) ELSE d
<1>1. S \in SUBSET (0 .. n)
  OBVIOUS
<1>2. Analyzed(context, d) = IF wrong = {} /\ ~HasParameter(context.node) THEN {} ELSE {at}
  BY Zenon DEF Analyzed
<1>3. e = at
  <2> HIDE DEF at, wrong
  <2> QED
    BY <1>2
<1>4. ASSUME found, wrong # {} PROVE \E u \in wrong : u.at = MaxOf(S)
  <2>1. S # {}
    BY <1>4
  <2> HIDE DEF S
  <2>2. MaxOf(S) \in S
    BY <1>1, <2>1, MaxExists
  <2> QED
    BY <2>2 DEF S
<1> HIDE DEF S
<1>5. CASE found /\ wrong # {}
  <2>1. PICK u \in wrong : u.at = MaxOf(S)
    BY <1>4, <1>5
  <2>2. u \in context.used /\ u.what = "annotate"
    BY <1>5
  <2> QED
    BY <1>3, <1>5, <2>1, <2>2
<1>6. CASE ~(found /\ wrong # {})
  BY <1>3, <1>6
<1> QED
  BY <1>5, <1>6

\* finalize finds declarations and annotations only.
LEMMA FinalizeAt ==
  ASSUME NEW n \in Nat, NEW context,
         \A u \in context.used : u.at \in 1 .. n,
         context.globals \subseteq 1 .. n, context.nonlocals \subseteq 1 .. n,
         NEW e \in FinalizeIssues(context)
  PROVE  \/ e \in context.globals \cup context.nonlocals \cup context.subscopes
         \/ \E u \in context.used : u.what = "annotate" /\ u.at = e
<1> DEFINE names == UNION {Analyzed(context, d) : d \in context.globals \cup context.nonlocals}
           unbound == IF HasNoBinding(context) THEN context.subscopes ELSE {}
<1>1. FinalizeIssues(context) = names \cup Both(context) \cup unbound
  BY Zenon DEF FinalizeIssues
<1>2. CASE e \in names
  <2>1. PICK d \in context.globals \cup context.nonlocals : e \in Analyzed(context, d)
    BY <1>2, Zenon
  <2>2. d \in 1 .. n
    OBVIOUS
  <2>3. e = d \/ \E u \in context.used : u.what = "annotate" /\ u.at = e
    BY <2>1, <2>2, AnalyzedAt
  <2> QED
    BY <2>1, <2>3
<1>3. CASE e \in Both(context)
  <2> DEFINE G == context.globals
             g == MaxOf(G)
  <2>1. G # {}
    BY <1>3 DEF Both
  <2>2. g \in G
    <3>1. G \in SUBSET (0 .. n)
      OBVIOUS
    <3> HIDE DEF G
    <3> QED
      BY <2>1, <3>1, MaxExists
  <2> HIDE DEF g
  <2>3. Both(context) = {IF g < m THEN g ELSE m : m \in context.nonlocals}
    BY <2>1 DEF Both, g
  <2> QED
    BY <1>3, <2>2, <2>3
<1>4. CASE e \in unbound
  BY <1>4
<1> HIDE DEF names, unbound
<1> QED
  BY <1>1, <1>2, <1>3, <1>4

\* What a scope is left with has the lines of its declarations and annotations, and
\* those of nonlocal names in it.
Found == {"annotate"} \cup Declarations

\* The same of a context that has names of a scope.
LEMMA ErrorKinds ==
  ASSUME TypeOK, NEW context, NEW s, context.used = Uses(s),
         context.globals = Lines(s, {"global"}), context.nonlocals = Lines(s, {"nonlocal"}),
         context.subscopes \subseteq Arriving(s),
         NEW e \in FinalizeIssues(context)
  PROVE  e \in DOMAIN program /\ program[e].kind \in Found
<1>1. \A kinds : \A i \in Lines(s, kinds) : i \in DOMAIN program /\ program[i].kind \in kinds
  BY DEF Lines
<1>2. \A i \in Arriving(s) : i \in DOMAIN program /\ program[i].kind = "nonlocal"
  BY DEF Arriving
<1>3. \A u \in Uses(s) : /\ u.at \in DOMAIN program
                         /\ u.what = "annotate" => program[u.at].kind = "annotate"
  <2> SUFFICES ASSUME NEW u \in Uses(s)
               PROVE  u.at \in DOMAIN program /\ (u.what = "annotate" => program[u.at].kind = "annotate")
    OBVIOUS
  <2>1. \/ \E i \in Lines(s, Occurrences) : u = [what |-> program[i].kind, at |-> i]
        \/ \E i \in Lines(s, WithParameter) : u = [what |-> "param", at |-> i]
    BY DEF Uses
  <2>2. ASSUME NEW i \in Lines(s, Occurrences), u = [what |-> program[i].kind, at |-> i]
        PROVE  u.at \in DOMAIN program /\ (u.what = "annotate" => program[u.at].kind = "annotate")
    BY <1>1, <2>2
  <2>3. ASSUME NEW i \in Lines(s, WithParameter), u = [what |-> "param", at |-> i]
        PROVE  u.at \in DOMAIN program /\ (u.what = "annotate" => program[u.at].kind = "annotate")
    BY <1>1, <2>3
  <2> QED
    BY <2>1, <2>2, <2>3
<1>4. Len(program) \in Nat /\ DOMAIN program = 1 .. Len(program)
  BY DEF TypeOK
<1>5. /\ \A u \in context.used : u.at \in 1 .. Len(program)
      /\ context.globals \subseteq 1 .. Len(program) /\ context.nonlocals \subseteq 1 .. Len(program)
  <2>1. \A u \in context.used : u.at \in 1 .. Len(program)
    BY <1>3, <1>4
  <2>2. context.globals \subseteq 1 .. Len(program) /\ context.nonlocals \subseteq 1 .. Len(program)
    BY <1>1, <1>4
  <2> QED
    BY <2>1, <2>2
<1>6. \/ e \in context.globals \cup context.nonlocals \cup context.subscopes
      \/ \E u \in context.used : u.what = "annotate" /\ u.at = e
  BY <1>4, <1>5, FinalizeAt
<1>7. CASE e \in context.globals \cup context.nonlocals
  BY <1>1, <1>7 DEF Found, Declarations
<1>8. CASE e \in context.subscopes
  BY <1>2, <1>8 DEF Found, Declarations
<1>9. CASE \E u \in context.used : u.what = "annotate" /\ u.at = e
  <2>1. PICK u \in Uses(s) : u.what = "annotate" /\ u.at = e
    BY <1>9
  <2>2. e \in DOMAIN program /\ program[e].kind = "annotate"
    BY <1>3, <2>1
  <2> QED
    BY <2>2 DEF Found
<1> QED
  BY <1>6, <1>7, <1>8, <1>9

\* And of each one of the walk.
LEMMA ContextErrors ==
  ASSUME TypeOK, NamesInv, NEW c \in DOMAIN contexts, NEW e \in FinalizeIssues(contexts[c])
  PROVE  e \in DOMAIN program /\ program[e].kind \in Found
<1> DEFINE s == contexts[c].node
<1>1. /\ contexts[c].used = Uses(s) /\ contexts[c].globals = Lines(s, {"global"})
      /\ contexts[c].nonlocals = Lines(s, {"nonlocal"})
      /\ contexts[c].subscopes \subseteq Arriving(s)
  BY DEF NamesInv, ContextOf, Arrived
<1> QED
  BY <1>1, ErrorKinds

\* So errors of names are in lines with these.
LEMMA NamesFound ==
  ASSUME TypeOK, NEW e \in NameErrors
  PROVE  e \in DOMAIN program /\ program[e].kind \in Found
<1>1. CASE e \in DOMAIN program /\ program[e].kind = "nonlocal"
  BY <1>1 DEF Found, Declarations
<1>2. CASE e \in UNION {FinalizeIssues(ContextOf(s)) : s \in Closed}
  <2>1. PICK s \in Closed : e \in FinalizeIssues(ContextOf(s))
    BY <1>2, Zenon
  <2>2. /\ ContextOf(s).used = Uses(s) /\ ContextOf(s).globals = Lines(s, {"global"})
        /\ ContextOf(s).nonlocals = Lines(s, {"nonlocal"}) /\ ContextOf(s).subscopes = Arriving(s)
    BY DEF ContextOf
  <2> QED
    BY <2>1, <2>2, ErrorKinds
<1>3. \/ e \in {i \in DOMAIN program : program[i].kind = "nonlocal" /\ ScopeOf(i) = 0}
      \/ e \in UNION {FinalizeIssues(ContextOf(s)) : s \in Closed}
  BY Zenon DEF NameErrors
<1> QED
  BY <1>1, <1>2, <1>3

\* All errors are in lines of the program.
LEMMA ErrorsInProgram ==
  ASSUME TypeOK, head = <<>>, ErrorsInv
  PROVE  DOMAIN errors \subseteq DOMAIN program
<1> SUFFICES ASSUME NEW i \in DOMAIN errors PROVE i \in DOMAIN program
  OBVIOUS
<1>1. i \in NameErrors \/ i \in DOMAIN program
  BY DEF ErrorsInv
<1> QED
  BY <1>1, NamesFound

\* Without another line the places are the same.
LEMMA SamePlaces ==
  ASSUME program' = program, NEW i
  PROVE  PlaceErrors(i)' = PlaceErrors(i) /\ InElse(i)' = InElse(i)
<1>1. Headers(i)' = Headers(i)
  BY DEF Headers
<1>2. ScopesAround(i)' = ScopesAround(i)
  BY <1>1 DEF ScopesAround
<1>3. ScopeOf(i)' = ScopeOf(i)
  BY <1>2 DEF ScopeOf
<1>4. BlocksAround(i)' = BlocksAround(i)
  BY <1>1, <1>3 DEF BlocksAround
<1>5. TooDeep(i)' = TooDeep(i)
  BY <1>1 DEF TooDeep
<1>6. TooManyBlocks(i)' = TooManyBlocks(i)
  BY <1>4 DEF TooManyBlocks
<1>7. Misplaced(i)' = Misplaced(i)
  BY <1>3, <1>4 DEF Misplaced, IsFunction
<1>8. InElse(i)' = InElse(i)
  BY <1>4 DEF InElse
<1> QED
  BY <1>5, <1>6, <1>7, <1>8 DEF PlaceErrors

\* The error of a visit is in the new line, which has none.
LEMMA VisitErrors ==
  ASSUME TypeOK, ErrorsInv, NEW x \in Statements, NEW ms \in Seq(Texts), Visiting(x, ms), NEW n, n = This
  PROVE  /\ n \notin DOMAIN errors
         /\ \A i \in DOMAIN errors : i \in DOMAIN errors' /\ errors'[i] = errors[i]
         /\ \A i \in DOMAIN errors' : i \in DOMAIN errors \/ i = n
         /\ n \in DOMAIN errors' <=> Messages(ms) # <<>>
         /\ Messages(ms) # <<>> => errors'[n] = Head(Messages(ms))
<1>1. Len(program) \in Nat /\ DOMAIN program = 1 .. Len(program) /\ n = Len(program) + 1 /\ head = <<>>
  BY DEF TypeOK, This, Visiting
<1>2. n \notin DOMAIN errors
  BY <1>1, ErrorsInProgram
<1>3. CASE Messages(ms) = <<>>
  <2>1. errors' = errors
    BY <1>3 DEF Visiting
  <2> QED
    BY <1>2, <1>3, <2>1
<1>4. CASE Messages(ms) # <<>>
  <2>1. errors' = AddIssues({n}, Head(Messages(ms)))
    BY <1>4 DEF Visiting
  <2>2. Line(n) = n
    BY <1>1, LineOfStatement
  <2> DEFINE S == {n}
             message == Head(Messages(ms))
             lines == {n}
  <2>4. /\ errors' = AddIssues(S, message)
        /\ (\A i \in S : Line(i) \in lines) /\ \A l \in lines : \E i \in S : l = Line(i)
    BY <2>1, <2>2
  <2> HIDE DEF S, message, lines
  <2>6. /\ DOMAIN errors' = DOMAIN errors \cup lines
        /\ \A l \in DOMAIN errors : errors'[l] = errors[l]
        /\ \A l \in lines : l \notin DOMAIN errors => errors'[l] = message
    BY <2>4 DEF AddIssues
  <2>5. /\ DOMAIN errors' = DOMAIN errors \cup {n}
        /\ \A l \in DOMAIN errors : errors'[l] = errors[l]
        /\ errors'[n] = message
    BY <1>2, <2>6 DEF lines
  <2> QED
    BY <1>2, <1>4, <2>5 DEF message
<1> QED
  BY <1>3, <1>4

\* Errors of names are in lines that are about names.
LEMMA NamesAdded ==
  ASSUME TypeOK, head = <<>>, NEW S, S \subseteq DOMAIN program,
         errors' = AddIssues(S, "name")
  PROVE  /\ \A i \in DOMAIN errors : i \in DOMAIN errors' /\ errors'[i] = errors[i]
         /\ \A i : i \in DOMAIN errors' <=> i \in DOMAIN errors \/ i \in S
<1>1. \A i \in S : Line(i) = i
  <2> SUFFICES ASSUME NEW i \in S PROVE Line(i) = i
    OBVIOUS
  <2>1. i \in Nat
    BY DEF TypeOK
  <2> QED
    BY <2>1, LineOfStatement
<1>2. (\A i \in S : Line(i) \in S) /\ \A l \in S : \E i \in S : l = Line(i)
  BY <1>1
<1>3. /\ DOMAIN errors' = DOMAIN errors \cup S
      /\ \A l \in DOMAIN errors : errors'[l] = errors[l]
  BY <1>2 DEF AddIssues
<1> QED
  BY <1>3

\* What is said of a place is said at the visit, and the first message stays.
LEMMA VisitPlaces ==
  ASSUME TypeOK, OpenInv, NodesInv, BlocksInv, PlacesInv, ErrorsInv,
         NEW x \in Statements, NEW ms \in Seq(Texts), Visiting(x, ms), VisitOf(x, ms)
  PROVE  PlacesInv'
<1> SUFFICES ASSUME NEW i \in DOMAIN program',
                    program'[i].kind \in Jumps \cup Blocks, ~InElse(i)'
             PROVE  IF PlaceErrors(i)' = <<>> THEN i \notin DOMAIN errors'
                    ELSE i \in DOMAIN errors' /\ errors'[i] = Head(PlaceErrors(i)')
  BY DEF PlacesInv
<1> DEFINE n == This
<1>1. /\ n \notin DOMAIN errors
      /\ \A l \in DOMAIN errors : l \in DOMAIN errors' /\ errors'[l] = errors[l]
      /\ \A l \in DOMAIN errors' : l \in DOMAIN errors \/ l = n
      /\ n \in DOMAIN errors' <=> Messages(ms) # <<>>
      /\ Messages(ms) # <<>> => errors'[n] = Head(Messages(ms))
  BY VisitErrors
<1>2. program \in Seq(Statements) /\ program' = Append(program, x)
  BY DEF TypeOK, Visiting
<1>3. /\ i \in DOMAIN program \/ i = n
      /\ \A j \in DOMAIN program : program'[j] = program[j] /\ j # n
      /\ program'[n] = x
  BY <1>2, NewLine DEF This
<1>4. CASE i \in DOMAIN program
  <2>1. PlaceErrors(i)' = PlaceErrors(i) /\ InElse(i)' = InElse(i)
    BY <1>2, <1>4, PlacesStay
  <2>2. program[i].kind \in Jumps \cup Blocks /\ ~InElse(i) /\ i # n
    BY <1>3, <1>4, <2>1
  <2>3. IF PlaceErrors(i) = <<>> THEN i \notin DOMAIN errors
        ELSE i \in DOMAIN errors /\ errors[i] = Head(PlaceErrors(i))
    BY <1>4, <2>2 DEF PlacesInv
  <2> HIDE DEF n
  <2> QED
    BY <1>1, <2>1, <2>2, <2>3
<1>5. CASE i = n
  <2>1. x.kind \in Jumps \cup Blocks
    BY <1>3, <1>5
  <2>2. PlaceErrors(i)' = Messages(ms)
    BY <1>5, <2>1, NextPlace
  <2> HIDE DEF n
  <2> QED
    BY <1>1, <1>5, <2>2
<1> QED
  BY <1>3, <1>4, <1>5

\* An else says nothing.
LEMMA ElsePlaces ==
  ASSUME TypeOK, PlacesInv, ElseClause
  PROVE  PlacesInv'
<1> SUFFICES ASSUME NEW i \in DOMAIN program',
                    program'[i].kind \in Jumps \cup Blocks, ~InElse(i)'
             PROVE  IF PlaceErrors(i)' = <<>> THEN i \notin DOMAIN errors'
                    ELSE i \in DOMAIN errors' /\ errors'[i] = Head(PlaceErrors(i)')
  BY DEF PlacesInv
<1> DEFINE x == [kind |-> "else", detail |-> <<>>, level |-> Len(open) - 1]
<1>1. program \in Seq(Statements) /\ program' = Append(program, x) /\ errors' = errors
  BY DEF TypeOK, ElseClause
<1>2. x \in Statements /\ x.kind \notin Jumps \cup Blocks
  <2>1. Len(open) \in Nat \ {0}
    BY EmptySeq DEF TypeOK, ElseClause
  <2> QED
    <3>1. x \in Statements
      BY <2>1 DEF Statements, Kinds, Compound
    <3> QED
      BY <3>1 DEF Jumps, Blocks
<1> HIDE DEF x
<1>3. i \in DOMAIN program /\ program'[i] = program[i]
  BY <1>1, <1>2, NewLine
<1>4. PlaceErrors(i)' = PlaceErrors(i) /\ InElse(i)' = InElse(i)
  BY <1>1, <1>2, <1>3, PlacesStay
<1> QED
  BY <1>1, <1>3, <1>4 DEF PlacesInv

\* Errors of names are in other lines than those of places.
LEMMA RestPlaces ==
  ASSUME TypeOK, Indented, OpenInv, NodesInv, NamesInv, PlacesInv,
         LeaveStatement \/ UnexpectedIndent \/ Finish
  PROVE  PlacesInv'
<1> SUFFICES ASSUME NEW i \in DOMAIN program',
                    program'[i].kind \in Jumps \cup Blocks, ~InElse(i)'
             PROVE  IF PlaceErrors(i)' = <<>> THEN i \notin DOMAIN errors'
                    ELSE i \in DOMAIN errors' /\ errors'[i] = Head(PlaceErrors(i)')
  BY DEF PlacesInv
<1>1. "indented" \notin Jumps \cup Blocks /\ (Jumps \cup Blocks) \cap Found = {}
  BY DEF Jumps, Blocks, Found, Declarations
<1>2. CASE UnexpectedIndent
  <2> DEFINE x == [kind |-> "indented", detail |-> <<>>, level |-> 0]
  <2>1. program' = <<x>> /\ x.kind = "indented"
    BY <1>2 DEF UnexpectedIndent
  <2> HIDE DEF x
  <2>2. program'[i].kind = "indented"
    BY <2>1
  <2> QED
    BY <1>1, <2>2
<1>3. CASE LeaveStatement \/ Finish
  <2>1. program' = program
    BY <1>3 DEF LeaveStatement, Finish
  <2>2. PlaceErrors(i)' = PlaceErrors(i) /\ InElse(i)' = InElse(i)
    BY <2>1, SamePlaces
  <2>3. head = <<>>
    <3> SUFFICES ASSUME head # <<>> PROVE FALSE
      OBVIOUS
    <3>1. program[i].kind = "indented"
      BY <2>1 DEF Indented
    <3> QED
      BY <1>1, <2>1, <3>1
  <2>4. /\ \A l \in DOMAIN errors : l \in DOMAIN errors' /\ errors'[l] = errors[l]
        /\ i \in DOMAIN errors' => i \in DOMAIN errors
    <3>1. CASE errors' = errors
      BY <3>1
    <3>2. CASE errors' = AddIssues(FinalizeIssues(Context), "name")
      <4>1. \A e \in FinalizeIssues(Context) : e \in DOMAIN program /\ program[e].kind \in Found
        BY ContextTyped, ContextErrors
      <4>2. i \notin FinalizeIssues(Context)
        BY <1>1, <2>1, <4>1
      <4>3. /\ \A l \in DOMAIN errors : l \in DOMAIN errors' /\ errors'[l] = errors[l]
            /\ \A l : l \in DOMAIN errors' <=> l \in DOMAIN errors \/ l \in FinalizeIssues(Context)
        <5> DEFINE S == FinalizeIssues(Context)
        <5>1. S \subseteq DOMAIN program /\ errors' = AddIssues(S, "name")
          BY <3>2, <4>1
        <5> HIDE DEF S
        <5>2. /\ \A l \in DOMAIN errors : l \in DOMAIN errors' /\ errors'[l] = errors[l]
              /\ \A l : l \in DOMAIN errors' <=> l \in DOMAIN errors \/ l \in S
          BY <2>3, <5>1, NamesAdded
        <5> QED
          BY <5>2 DEF S
      <4> QED
        BY <4>2, <4>3
    <3>3. errors' = errors \/ errors' = AddIssues(FinalizeIssues(Context), "name")
      BY <1>3 DEF LeaveStatement, Finish
    <3> QED
      BY <3>1, <3>2, <3>3
  <2>5. IF PlaceErrors(i) = <<>> THEN i \notin DOMAIN errors
        ELSE i \in DOMAIN errors /\ errors[i] = Head(PlaceErrors(i))
    BY <2>1, <2>2 DEF PlacesInv
  <2> QED
    BY <2>2, <2>4, <2>5
<1> QED
  BY <1>2, <1>3

-----------------------------------------------------------------------------
(* The names of a scope after another line.                                  *)

\* Another line is one of the scope it is in.
LEMMA LinesThen ==
  ASSUME program \in Seq(Statements), NEW x \in Statements, program' = Append(program, x),
         NEW n, n = This, NEW s, s = ScopeOf(n)', NEW g, NEW kinds
  PROVE  Lines(g, kinds)' = Lines(g, kinds) \cup (IF x.kind \in kinds /\ s = g THEN {n} ELSE {})
<1>1. /\ \A i \in DOMAIN program : i \in Lines(g, kinds)' <=> i \in Lines(g, kinds)
      /\ n \in Lines(g, kinds)' <=> x.kind \in kinds /\ s = g
      /\ \A i \in Lines(g, kinds)' : i \in Lines(g, kinds) \/ i = n
      /\ Lines(g, kinds) \subseteq DOMAIN program
  BY LinesStay
<1> QED
  BY <1>1

\* What Uses are, now and after a step.
LEMMA UsesAre ==
  ASSUME NEW s, NEW u
  PROVE  u \in Uses(s) <=>
           \/ \E i \in Lines(s, Occurrences) : u = [what |-> program[i].kind, at |-> i]
           \/ \E i \in Lines(s, WithParameter) : u = [what |-> "param", at |-> i]
BY DEF Uses

LEMMA UsesAreThen ==
  ASSUME NEW s, NEW u
  PROVE  u \in Uses(s)' <=>
           \/ \E i \in Lines(s, Occurrences)' : u = [what |-> program'[i].kind, at |-> i]
           \/ \E i \in Lines(s, WithParameter)' : u = [what |-> "param", at |-> i]
BY DEF Uses

\* Another line adds its own use.
LEMMA UsesThen ==
  ASSUME program \in Seq(Statements), NEW x \in Statements, program' = Append(program, x),
         NEW n, n = This, NEW s, s = ScopeOf(n)', NEW g, NEW u
  PROVE  u \in Uses(g)' <=>
           \/ u \in Uses(g)
           \/ s = g /\ x.kind \in Occurrences /\ u = [what |-> x.kind, at |-> n]
           \/ s = g /\ x.kind \in WithParameter /\ u = [what |-> "param", at |-> n]
<1>1. /\ \A i \in DOMAIN program : program'[i] = program[i]
      /\ program'[n] = x
  BY NewLine
<1>2. Lines(g, Occurrences)' =
        Lines(g, Occurrences) \cup (IF x.kind \in Occurrences /\ s = g THEN {n} ELSE {})
  BY LinesThen
<1>3. Lines(g, WithParameter)' =
        Lines(g, WithParameter) \cup (IF x.kind \in WithParameter /\ s = g THEN {n} ELSE {})
  BY LinesThen
<1>4. \A i \in Lines(g, Occurrences) : i \in DOMAIN program
  BY DEF Lines
<1>5. (\E i \in Lines(g, Occurrences)' : u = [what |-> program'[i].kind, at |-> i])
        <=> \/ \E i \in Lines(g, Occurrences) : u = [what |-> program[i].kind, at |-> i]
            \/ s = g /\ x.kind \in Occurrences /\ u = [what |-> x.kind, at |-> n]
  <2>1. \A i \in Lines(g, Occurrences) : program'[i] = program[i]
    BY <1>1, <1>4
  <2>2. \A i : i \in Lines(g, Occurrences)'
                <=> i \in Lines(g, Occurrences) \/ (x.kind \in Occurrences /\ s = g /\ i = n)
    BY <1>2
  <2> QED
    BY <1>1, <2>1, <2>2
<1>6. (\E i \in Lines(g, WithParameter)' : u = [what |-> "param", at |-> i])
        <=> \/ \E i \in Lines(g, WithParameter) : u = [what |-> "param", at |-> i]
            \/ s = g /\ x.kind \in WithParameter /\ u = [what |-> "param", at |-> n]
  BY <1>3
<1>7. u \in Uses(g) <=>
        \/ \E i \in Lines(g, Occurrences) : u = [what |-> program[i].kind, at |-> i]
        \/ \E i \in Lines(g, WithParameter) : u = [what |-> "param", at |-> i]
  BY UsesAre
<1>8. u \in Uses(g)' <=>
        \/ \E i \in Lines(g, Occurrences)' : u = [what |-> program'[i].kind, at |-> i]
        \/ \E i \in Lines(g, WithParameter)' : u = [what |-> "param", at |-> i]
  BY UsesAreThen
<1> QED
  BY <1>5, <1>6, <1>7, <1>8, Zenon

\* Another scope has what it had.
LEMMA OtherStays ==
  ASSUME program \in Seq(Statements), NEW x \in Statements, program' = Append(program, x),
         NEW n, n = This, NEW s, s = ScopeOf(n)', NEW g, g # s, g \in {0} \cup DOMAIN program
  PROVE  /\ \A kinds : Lines(g, kinds)' = Lines(g, kinds)
         /\ Uses(g)' = Uses(g) /\ IsFunction(g)' = IsFunction(g) /\ HasParameter(g)' = HasParameter(g)
         /\ Stops(g)' <=> Stops(g)
<1>1. \A kinds : Lines(g, kinds)' = Lines(g, kinds)
  <2> SUFFICES ASSUME NEW kinds PROVE Lines(g, kinds)' = Lines(g, kinds)
    OBVIOUS
  <2>1. Lines(g, kinds)' = Lines(g, kinds) \cup (IF x.kind \in kinds /\ s = g THEN {n} ELSE {})
    BY LinesThen
  <2> QED
    BY <2>1
<1>2. Uses(g)' = Uses(g)
  <2>1. \A u : u \in Uses(g)' <=> u \in Uses(g)
    BY UsesThen
  <2> QED
    BY <2>1
<1>3. IsFunction(g)' = IsFunction(g) /\ HasParameter(g)' = HasParameter(g)
  <2>1. g = 0 \/ program'[g] = program[g]
    BY NewLine
  <2> QED
    BY <2>1 DEF IsFunction, HasParameter
<1>4. Stops(g)' <=> Stops(g)
  <2>1. /\ Lines(g, WithParameter)' = Lines(g, WithParameter)
        /\ Lines(g, {"global"})' = Lines(g, {"global"})
    BY <1>1
  <2> QED
    BY <1>2, <1>3, <2>1 DEF Stops
<1> QED
  BY <1>1, <1>2, <1>3, <1>4

\* What Arriving is, now and after a step.
LEMMA ArrivingAre ==
  ASSUME NEW s, NEW i
  PROVE  i \in Arriving(s) <=>
           /\ i \in DOMAIN program /\ program[i].kind = "nonlocal" /\ ScopeOf(i) # s
           /\ s \in {0} \cup ScopesAround(i)
           /\ \A g \in Outside(i) : g > s => ~Stops(g)
BY DEF Arriving

LEMMA ArrivingAreThen ==
  ASSUME NEW s, NEW i
  PROVE  i \in Arriving(s)' <=>
           /\ i \in DOMAIN program' /\ program'[i].kind = "nonlocal" /\ ScopeOf(i)' # s
           /\ s \in {0} \cup ScopesAround(i)'
           /\ \A g \in Outside(i)' : g > s => ~Stops(g)'
BY DEF Arriving

\* What has arrived at an open scope stays, and a new line has not.
LEMMA ArrivedStays ==
  ASSUME TypeOK, OpenInv, NodesInv, NEW x \in Statements, program' = Append(program, x),
         NEW n, n = This, ScopesAround(n)' = OpenScopes, ScopeOf(n)' = Context.node,
         OpenScopes' = OpenScopes \/ OpenScopes' = OpenScopes \cup {n},
         NEW g \in {0} \cup OpenScopes
  PROVE  Arrived(g)' = Arrived(g)
<1> DEFINE s == Context.node
<1>1. /\ program \in Seq(Statements) /\ open \in Seq(Nat)
      /\ Len(program) \in Nat /\ DOMAIN program = 1 .. Len(program) /\ n = Len(program) + 1
      /\ n \notin DOMAIN program
  BY DEF TypeOK, This
<1>2. /\ \A i \in DOMAIN program : i \in DOMAIN program' /\ program'[i] = program[i]
      /\ \A i \in DOMAIN program' : i \in DOMAIN program \/ i = n
  BY <1>1, NewLine
<1>3. /\ s \in {0} \cup OpenScopes
      /\ \A k \in {0} \cup OpenScopes : k <= s
  BY ContextTyped, InnermostScope
<1>4. OpenScopes \subseteq DOMAIN program
  BY <1>1, OpenScopesNest
<1>5. \A i \in DOMAIN program :
        ScopeOf(i)' = ScopeOf(i) /\ ScopesAround(i)' = ScopesAround(i) /\ Outside(i)' = Outside(i)
  BY <1>1, HeadersStay
<1>6. \A i \in DOMAIN program : ScopesAround(i) \subseteq DOMAIN program /\ Outside(i) \subseteq ScopesAround(i)
  BY <1>1, ScopeIsAround DEF Outside
<1>7. ASSUME NEW h \in DOMAIN program, h \notin OpenScopes PROVE Stops(h)' <=> Stops(h)
  <2>1. h # s
    BY <1>1, <1>3, <1>7
  <2> QED
    BY <1>1, <1>7, <2>1, OtherStays
<1> HIDE DEF s
<1>8. \A i : i \in Arrived(g) <=>
               i \in Arriving(g) /\ \A h \in ScopesAround(i) : h > g => h \notin OpenScopes
  BY DEF Arrived
<1>9. \A i : i \in Arrived(g)' <=>
               i \in Arriving(g)' /\ \A h \in ScopesAround(i)' : h > g => h \notin OpenScopes'
  BY DEF Arrived
<1>10. ASSUME NEW i \in DOMAIN program PROVE i \in Arrived(g)' <=> i \in Arrived(g)
  <2>1. (\A h \in ScopesAround(i)' : h > g => h \notin OpenScopes')
         <=> \A h \in ScopesAround(i) : h > g => h \notin OpenScopes
    BY <1>1, <1>5, <1>6
  <2>2. ASSUME \A h \in ScopesAround(i) : h > g => h \notin OpenScopes
        PROVE  i \in Arriving(g)' <=> i \in Arriving(g)
    <3>1. \A h \in Outside(i) : h > g => (Stops(h)' <=> Stops(h))
      BY <1>6, <1>7, <2>2
    <3>2. /\ i \in DOMAIN program' /\ program'[i] = program[i] /\ ScopeOf(i)' = ScopeOf(i)
          /\ ScopesAround(i)' = ScopesAround(i) /\ Outside(i)' = Outside(i)
      BY <1>2, <1>5
    <3> QED
      BY <3>1, <3>2, ArrivingAre, ArrivingAreThen
  <2> QED
    BY <1>8, <1>9, <2>1, <2>2
<1>11. n \notin Arrived(g)'
  <2> SUFFICES ASSUME n \in Arrived(g)' PROVE FALSE
    OBVIOUS
  <2>1. /\ ScopeOf(n)' # g
        /\ \A h \in OpenScopes : h > g => h \notin OpenScopes'
    BY <1>9, ArrivingAreThen
  <2>2. s # g /\ g <= s
    BY <1>3, <2>1 DEF s
  <2>3. g \in Nat /\ s \in Nat
    BY <1>1, <1>3, <1>4
  <2>4. s > g
    BY <2>2, <2>3
  <2>5. s \in OpenScopes
    <3>1. s # 0
      BY <2>3, <2>4
    <3> QED
      BY <1>3, <3>1
  <2> QED
    BY <2>1, <2>4, <2>5
<1>12. \A i \in Arrived(g)' : i \in DOMAIN program \/ i = n
  BY <1>2, <1>9, ArrivingAreThen
<1>13. \A i \in Arrived(g) : i \in DOMAIN program
  BY <1>8, ArrivingAre
<1> QED
  BY <1>10, <1>11, <1>12, <1>13

\* A scope that is closed keeps all it has.
LEMMA ClosedStays ==
  ASSUME TypeOK, OpenInv, NodesInv, NEW x \in Statements, program' = Append(program, x),
         NEW n, n = This, ScopesAround(n)' = OpenScopes, ScopeOf(n)' = Context.node,
         NEW s \in DOMAIN program, s \notin OpenScopes
  PROVE  ContextOf(s)' = ContextOf(s)
<1>1. /\ program \in Seq(Statements) /\ open \in Seq(Nat)
      /\ Len(program) \in Nat /\ DOMAIN program = 1 .. Len(program) /\ n = Len(program) + 1
      /\ n \notin DOMAIN program /\ s \in Nat \ {0}
  BY DEF TypeOK, This
<1>2. /\ \A i \in DOMAIN program : i \in DOMAIN program' /\ program'[i] = program[i]
      /\ \A i \in DOMAIN program' : i \in DOMAIN program \/ i = n
  BY <1>1, NewLine
<1>3. Context.node \in {0} \cup OpenScopes
  BY ContextTyped, InnermostScope
<1>4. \A i \in DOMAIN program :
        ScopeOf(i)' = ScopeOf(i) /\ ScopesAround(i)' = ScopesAround(i) /\ Outside(i)' = Outside(i)
  BY <1>1, HeadersStay
<1>5. ASSUME NEW h \in DOMAIN program, h \notin OpenScopes
      PROVE  /\ \A kinds : Lines(h, kinds)' = Lines(h, kinds)
             /\ Uses(h)' = Uses(h) /\ (Stops(h)' <=> Stops(h))
  <2>1. h # Context.node
    BY <1>1, <1>3, <1>5
  <2> QED
    BY <1>1, <1>5, <2>1, OtherStays
<1>6. ASSUME NEW i \in DOMAIN program, s \in {0} \cup ScopesAround(i), NEW h \in Outside(i), h > s
      PROVE  h \in DOMAIN program /\ h \notin OpenScopes
  <2>1. h \in ScopesAround(i) /\ s \in ScopesAround(i)
    BY <1>1, <1>6 DEF Outside
  <2>2. h \in DOMAIN program /\ ScopesAround(h) = {g \in ScopesAround(i) : g < h}
    BY <1>1, <2>1, ScopesOfScope
  <2>3. s \in ScopesAround(h)
    <3>1. s < h
      BY <1>1, <1>6, <2>2
    <3> QED
      BY <2>1, <2>2, <3>1
  <2>4. h \in OpenScopes => s \in OpenScopes
    BY <1>1, <2>3, OpenScopesNest
  <2> QED
    BY <2>2, <2>4
<1>7. ASSUME NEW i PROVE i \in Arriving(s)' <=> i \in Arriving(s)
  <2>1. CASE i \in DOMAIN program
    <3>1. s \in {0} \cup ScopesAround(i) => \A h \in Outside(i) : h > s => (Stops(h)' <=> Stops(h))
      BY <1>5, <1>6, <2>1
    <3>2. /\ i \in DOMAIN program' /\ program'[i] = program[i] /\ ScopeOf(i)' = ScopeOf(i)
          /\ ScopesAround(i)' = ScopesAround(i) /\ Outside(i)' = Outside(i)
      BY <1>2, <1>4, <2>1
    <3> QED
      BY <2>1, <3>1, <3>2, ArrivingAre, ArrivingAreThen
  <2>2. CASE i \notin DOMAIN program
    <3>1. i \notin Arriving(s)
      BY <2>2, ArrivingAre
    <3>2. i \in Arriving(s)' => i = n /\ s \in {0} \cup OpenScopes
      BY <1>2, <2>2, ArrivingAreThen
    <3> QED
      BY <1>1, <3>1, <3>2
  <2> QED
    BY <2>1, <2>2
<1>8. Arriving(s)' = Arriving(s)
  BY <1>7
<1>9. /\ Lines(s, WithParameter)' = Lines(s, WithParameter) /\ Lines(s, {"global"})' = Lines(s, {"global"})
      /\ Lines(s, {"nonlocal"})' = Lines(s, {"nonlocal"}) /\ Uses(s)' = Uses(s)
  BY <1>5
<1> QED
  BY <1>8, <1>9 DEF ContextOf

-----------------------------------------------------------------------------
(* The names in the contexts after a step.                                   *)

\* That context k has the names of scope s.
LEMMA NamesAre ==
  ASSUME NamesInv, NEW c \in DOMAIN contexts, NEW s, s = contexts[c].node
  PROVE  /\ contexts[c].params = (Lines(s, WithParameter) # {}) /\ contexts[c].used = Uses(s)
         /\ contexts[c].globals = Lines(s, {"global"})
         /\ contexts[c].nonlocals = Lines(s, {"nonlocal"})
         /\ contexts[c].subscopes = Arrived(s)
BY DEF NamesInv, ContextOf

\* NamesInv after a step, in terms of what the contexts are then.
LEMMA NamesThen ==
  ASSUME \A c \in DOMAIN contexts' : \A s : s = contexts'[c].node =>
           /\ contexts'[c].params = (Lines(s, WithParameter)' # {}) /\ contexts'[c].used = Uses(s)'
           /\ contexts'[c].globals = Lines(s, {"global"})'
           /\ contexts'[c].nonlocals = Lines(s, {"nonlocal"})'
           /\ contexts'[c].subscopes = Arrived(s)'
  PROVE  NamesInv'
BY DEF NamesInv, ContextOf

\* A scope that begins has no names.
LEMMA NewScope ==
  ASSUME program \in Seq(Statements), NEW x \in Statements, program' = Append(program, x),
         NEW n, n = This, ScopeOf(n)' # n, n \notin ScopesAround(n)'
  PROVE  /\ \A kinds : Lines(n, kinds)' = {}
         /\ Uses(n)' = {} /\ Arrived(n)' = {}
<1>1. /\ n \notin DOMAIN program /\ n \in Nat \ {0}
      /\ \A i \in DOMAIN program' : i \in DOMAIN program \/ i = n
  BY NewLine DEF This
<1>2. ASSUME NEW i \in DOMAIN program
      PROVE  /\ ScopeOf(i)' = ScopeOf(i) /\ ScopesAround(i)' = ScopesAround(i)
             /\ ScopeOf(i) # n /\ n \notin ScopesAround(i)
  <2>1. ScopeOf(i)' = ScopeOf(i) /\ ScopesAround(i)' = ScopesAround(i)
    BY HeadersStay
  <2>2. ScopeOf(i) \in {0} \cup DOMAIN program /\ ScopesAround(i) \subseteq DOMAIN program
    BY ScopeIsAround
  <2> QED
    BY <1>1, <2>1, <2>2
<1>3. \A kinds : Lines(n, kinds)' = {}
  <2> SUFFICES ASSUME NEW kinds, NEW i \in Lines(n, kinds)' PROVE FALSE
    OBVIOUS
  <2>1. i \in DOMAIN program' /\ ScopeOf(i)' = n
    BY DEF Lines
  <2> QED
    BY <1>1, <1>2, <2>1
<1>4. Uses(n)' = {}
  <2> SUFFICES ASSUME NEW u \in Uses(n)' PROVE FALSE
    OBVIOUS
  <2>1. Lines(n, Occurrences)' = {} /\ Lines(n, WithParameter)' = {}
    BY <1>3
  <2> QED
    BY <2>1, UsesAreThen
<1>5. Arrived(n)' = {}
  <2> SUFFICES ASSUME NEW i \in Arrived(n)' PROVE FALSE
    OBVIOUS
  <2>1. i \in Arriving(n)'
    BY DEF Arrived
  <2>2. i \in DOMAIN program' /\ n \in {0} \cup ScopesAround(i)'
    BY <2>1, ArrivingAreThen
  <2> QED
    BY <1>1, <1>2, <2>2
<1> QED
  BY <1>3, <1>4, <1>5

\* A visited name is added to the context of its scope, and nothing else to any.
LEMMA VisitNames ==
  ASSUME TypeOK, OpenInv, NodesInv, NamesInv, NEW x \in Statements, NEW ms \in Seq(Texts),
         Visiting(x, ms), VisitOf(x, ms),
         NEW n, n = Len(contexts), NEW t, t = This, NEW s, s = Context.node
  PROVE  NamesInv'
<1>1. /\ n \in Nat \ {0} /\ DOMAIN contexts = 1 .. n
      /\ \A c, d \in DOMAIN contexts : c < d => contexts[c].node < contexts[d].node
      /\ \A c \in DOMAIN contexts : contexts[c].node \in {0} \cup OpenScopes
      /\ s \in {0} \cup OpenScopes /\ s = contexts[n].node
  BY InnermostScope, ContextTyped DEF NodesInv
<1>2. /\ Len(contexts') = (IF x.kind \in Scopes THEN n + 1 ELSE n) /\ contexts' # <<>>
      /\ DOMAIN contexts' = 1 .. Len(contexts')
      /\ \A c \in 1 .. n - 1 : contexts'[c] = contexts[c]
      /\ contexts'[n].node = contexts[n].node
      /\ contexts'[n].params = (contexts[n].params \/ x.kind \in WithParameter)
      /\ contexts'[n].used =
           contexts[n].used
             \cup (IF x.kind \in Occurrences THEN {[what |-> x.kind, at |-> t]} ELSE {})
             \cup (IF x.kind \in WithParameter THEN {[what |-> "param", at |-> t]} ELSE {})
      /\ contexts'[n].globals = contexts[n].globals \cup (IF x.kind = "global" THEN {t} ELSE {})
      /\ contexts'[n].nonlocals = contexts[n].nonlocals \cup (IF x.kind = "nonlocal" THEN {t} ELSE {})
      /\ contexts'[n].subscopes = contexts[n].subscopes
      /\ x.kind \in Scopes => contexts'[n + 1] = NewContext(t)
  BY VisitContexts
<1>3. /\ OpenScopes' = IF x.kind \in Scopes THEN OpenScopes \cup {t} ELSE OpenScopes
      /\ OpenScopes \subseteq DOMAIN program /\ t = Len(program) + 1
  BY VisitScopes
<1>4. /\ program \in Seq(Statements) /\ program' = Append(program, x) /\ x.level = Len(open)
      /\ Len(program) \in Nat /\ DOMAIN program = 1 .. Len(program) /\ t \in Nat \ {0}
      /\ t \notin DOMAIN program
  BY DEF TypeOK, This, Visiting
<1>5. ScopesAround(t)' = OpenScopes /\ ScopeOf(t)' = s
  BY <1>1, <1>4, NextScope
<1>7. ASSUME NEW c \in 1 .. n, NEW g, g = contexts[c].node
      PROVE  /\ contexts[c].params = (Lines(g, WithParameter) # {}) /\ contexts[c].used = Uses(g)
             /\ contexts[c].globals = Lines(g, {"global"})
             /\ contexts[c].nonlocals = Lines(g, {"nonlocal"})
             /\ contexts[c].subscopes = Arrived(g)
  BY <1>1, <1>7, NamesAre
<1>8. ASSUME NEW g \in {0} \cup OpenScopes PROVE Arrived(g)' = Arrived(g)
  <2>1. OpenScopes' = OpenScopes \/ OpenScopes' = OpenScopes \cup {t}
    BY <1>3
  <2> QED
    BY <1>4, <1>5, <2>1, ArrivedStays
<1>9. ASSUME NEW c \in 1 .. n - 1, NEW g, g = contexts'[c].node
      PROVE  /\ contexts'[c].params = (Lines(g, WithParameter)' # {}) /\ contexts'[c].used = Uses(g)'
             /\ contexts'[c].globals = Lines(g, {"global"})'
             /\ contexts'[c].nonlocals = Lines(g, {"nonlocal"})'
             /\ contexts'[c].subscopes = Arrived(g)'
  <2>1. c \in 1 .. n /\ c < n /\ n \in 1 .. n /\ contexts'[c] = contexts[c]
    BY <1>1, <1>2
  <2>2. g \in {0} \cup OpenScopes /\ g # s
    <3>1. contexts[c].node < contexts[n].node /\ g = contexts[c].node /\ g \in {0} \cup OpenScopes
      BY <1>1, <1>9, <2>1
    <3>2. g \in Nat /\ s \in Nat
      BY <1>1, <1>3, <1>4, <3>1
    <3> QED
      BY <1>1, <3>1, <3>2
  <2>3. g \in {0} \cup DOMAIN program
    BY <1>3, <2>2
  <2>4. \A kinds : Lines(g, kinds)' = Lines(g, kinds)
    BY <1>4, <1>5, <2>2, <2>3, OtherStays
  <2>5. Uses(g)' = Uses(g)
    BY <1>4, <1>5, <2>2, <2>3, OtherStays
  <2>6. /\ contexts[c].params = (Lines(g, WithParameter) # {}) /\ contexts[c].used = Uses(g)
        /\ contexts[c].globals = Lines(g, {"global"})
        /\ contexts[c].nonlocals = Lines(g, {"nonlocal"})
        /\ contexts[c].subscopes = Arrived(g)
    BY <1>7, <1>9, <2>1
  <2>7. Arrived(g)' = Arrived(g)
    BY <1>8, <2>2
  <2> QED
    BY <2>1, <2>4, <2>5, <2>6, <2>7
<1>10. /\ contexts'[n].params = (Lines(s, WithParameter)' # {}) /\ contexts'[n].used = Uses(s)'
       /\ contexts'[n].globals = Lines(s, {"global"})'
       /\ contexts'[n].nonlocals = Lines(s, {"nonlocal"})'
       /\ contexts'[n].subscopes = Arrived(s)'
  <2>1. \A kinds : Lines(s, kinds)' = Lines(s, kinds) \cup (IF x.kind \in kinds THEN {t} ELSE {})
    <3> SUFFICES ASSUME NEW kinds
                 PROVE  Lines(s, kinds)' = Lines(s, kinds) \cup (IF x.kind \in kinds THEN {t} ELSE {})
      OBVIOUS
    <3>1. Lines(s, kinds)' = Lines(s, kinds) \cup (IF x.kind \in kinds /\ s = s THEN {t} ELSE {})
      BY <1>4, <1>5, LinesThen
    <3> QED
      BY <3>1
  <2>2. \A u : u \in Uses(s)' <=>
                 \/ u \in Uses(s)
                 \/ x.kind \in Occurrences /\ u = [what |-> x.kind, at |-> t]
                 \/ x.kind \in WithParameter /\ u = [what |-> "param", at |-> t]
    <3> SUFFICES ASSUME NEW u
                 PROVE  u \in Uses(s)' <=>
                          \/ u \in Uses(s)
                          \/ x.kind \in Occurrences /\ u = [what |-> x.kind, at |-> t]
                          \/ x.kind \in WithParameter /\ u = [what |-> "param", at |-> t]
      OBVIOUS
    <3>1. u \in Uses(s)' <=>
            \/ u \in Uses(s)
            \/ s = s /\ x.kind \in Occurrences /\ u = [what |-> x.kind, at |-> t]
            \/ s = s /\ x.kind \in WithParameter /\ u = [what |-> "param", at |-> t]
      BY <1>4, <1>5, UsesThen
    <3> QED
      BY <3>1
  <2>3. /\ contexts[n].params = (Lines(s, WithParameter) # {}) /\ contexts[n].used = Uses(s)
        /\ contexts[n].globals = Lines(s, {"global"})
        /\ contexts[n].nonlocals = Lines(s, {"nonlocal"})
        /\ contexts[n].subscopes = Arrived(s)
    <3>1. n \in 1 .. n /\ s = contexts[n].node
      BY <1>1
    <3> QED
      BY <1>7, <3>1
  <2>4. Arrived(s)' = Arrived(s)
    BY <1>1, <1>8
  <2>5. contexts'[n].used = Uses(s)'
    <3>1. \A u : u \in contexts'[n].used <=> u \in Uses(s)'
      BY <1>2, <2>2, <2>3
    <3> QED
      BY <3>1
  <2>6. contexts'[n].params = (Lines(s, WithParameter)' # {})
    <3>1. Lines(s, WithParameter)' =
            Lines(s, WithParameter) \cup (IF x.kind \in WithParameter THEN {t} ELSE {})
      BY <2>1
    <3>2. (Lines(s, WithParameter)' # {}) <=> (Lines(s, WithParameter) # {} \/ x.kind \in WithParameter)
      BY <3>1
    <3>3. /\ contexts'[n].params = (contexts[n].params \/ x.kind \in WithParameter)
          /\ contexts[n].params = (Lines(s, WithParameter) # {})
      BY <1>2, <2>3, Zenon
    <3> QED
      BY <3>2, <3>3, Zenon
  <2>7. contexts'[n].globals = Lines(s, {"global"})'
    <3>1. Lines(s, {"global"})' = Lines(s, {"global"}) \cup (IF x.kind \in {"global"} THEN {t} ELSE {})
      BY <2>1
    <3> QED
      BY <1>2, <2>3, <3>1
  <2>8. contexts'[n].nonlocals = Lines(s, {"nonlocal"})'
    <3>1. Lines(s, {"nonlocal"})' = Lines(s, {"nonlocal"}) \cup (IF x.kind \in {"nonlocal"} THEN {t} ELSE {})
      BY <2>1
    <3> QED
      BY <1>2, <2>3, <3>1
  <2> QED
    BY <1>2, <2>3, <2>4, <2>5, <2>6, <2>7, <2>8
<1>11. ASSUME x.kind \in Scopes
       PROVE  /\ contexts'[n + 1].node = t
              /\ contexts'[n + 1].params = (Lines(t, WithParameter)' # {}) /\ contexts'[n + 1].used = Uses(t)'
              /\ contexts'[n + 1].globals = Lines(t, {"global"})'
              /\ contexts'[n + 1].nonlocals = Lines(t, {"nonlocal"})'
              /\ contexts'[n + 1].subscopes = Arrived(t)'
  <2>1. ScopeOf(t)' # t /\ t \notin ScopesAround(t)'
    BY <1>1, <1>3, <1>4, <1>5
  <2>2. \A kinds : Lines(t, kinds)' = {}
    BY <1>4, <2>1, NewScope
  <2>3. Uses(t)' = {} /\ Arrived(t)' = {}
    BY <1>4, <2>1, NewScope
  <2>4. contexts'[n + 1] = NewContext(t)
    BY <1>2, <1>11
  <2>5. contexts'[n + 1].params = (Lines(t, WithParameter)' # {})
    <3>1. contexts'[n + 1].params = FALSE
      BY <2>4 DEF NewContext
    <3> QED
      BY <2>2, <3>1, Zenon
  <2>6. /\ contexts'[n + 1].node = t /\ contexts'[n + 1].used = {} /\ contexts'[n + 1].globals = {}
        /\ contexts'[n + 1].nonlocals = {} /\ contexts'[n + 1].subscopes = {}
    BY <2>4 DEF NewContext
  <2>7. Lines(t, {"global"})' = {} /\ Lines(t, {"nonlocal"})' = {}
    BY <2>2
  <2> QED
    BY <2>3, <2>5, <2>6, <2>7, Zenon
<1>12. ASSUME NEW c \in DOMAIN contexts', NEW g, g = contexts'[c].node
       PROVE  /\ contexts'[c].params = (Lines(g, WithParameter)' # {}) /\ contexts'[c].used = Uses(g)'
              /\ contexts'[c].globals = Lines(g, {"global"})'
              /\ contexts'[c].nonlocals = Lines(g, {"nonlocal"})'
              /\ contexts'[c].subscopes = Arrived(g)'
  <2>1. c \in 1 .. n - 1 \/ c = n \/ (c = n + 1 /\ x.kind \in Scopes)
    BY <1>1, <1>2
  <2>2. CASE c \in 1 .. n - 1
    BY <1>9, <1>12, <2>2
  <2>3. CASE c = n
    <3>1. g = s
      BY <1>1, <1>2, <1>12, <2>3
    <3> QED
      BY <1>10, <2>3, <3>1
  <2>4. CASE c = n + 1 /\ x.kind \in Scopes
    <3>1. g = t
      BY <1>11, <1>12, <2>4
    <3> QED
      BY <1>11, <2>4, <3>1
  <2> QED
    BY <2>1, <2>2, <2>3, <2>4
<1> QED
  BY <1>12, NamesThen

\* The suite of an else is in the scope that the loop is in.
LEMMA ElseNames ==
  ASSUME TypeOK, OpenInv, NodesInv, NamesInv, ElseClause, NEW t, t = This, NEW s, s = Context.node
  PROVE  NamesInv'
<1> DEFINE x == [kind |-> "else", detail |-> <<>>, level |-> Len(open) - 1]
<1>1. /\ program \in Seq(Statements) /\ program' = Append(program, x)
      /\ contexts' = contexts /\ OpenScopes' = OpenScopes /\ open # <<>>
      /\ program[Last(open)].kind \notin Scopes
  <2>1. program[Last(open)].kind = "while"
    BY DEF ElseClause
  <2> QED
    BY <2>1, ElseScopes DEF TypeOK, ElseClause, Scopes, Functions
<1>2. /\ x \in Statements /\ x.level = Len(open) - 1
      /\ x.kind \notin WithParameter \cup Occurrences \cup {"global", "nonlocal"}
  <2>1. Len(open) \in Nat \ {0}
    BY <1>1, EmptySeq DEF TypeOK
  <2>2. x \in Statements
    BY <2>1 DEF Statements, Kinds, Compound
  <2> QED
    BY <2>2 DEF WithParameter, Occurrences
<1> HIDE DEF x
<1>3. ScopesAround(t)' = OpenScopes /\ ScopeOf(t)' = s
  BY <1>1, <1>2, NextScope
<1>4. \A g, kinds : x.kind \notin kinds => Lines(g, kinds)' = Lines(g, kinds)
  <2> SUFFICES ASSUME NEW g, NEW kinds, x.kind \notin kinds PROVE Lines(g, kinds)' = Lines(g, kinds)
    OBVIOUS
  <2>1. Lines(g, kinds)' = Lines(g, kinds) \cup (IF x.kind \in kinds /\ s = g THEN {t} ELSE {})
    BY <1>1, <1>2, <1>3, LinesThen
  <2> QED
    BY <2>1
<1>5. ASSUME NEW g PROVE Uses(g)' = Uses(g)
  <2>1. \A u : u \in Uses(g)' <=>
                 \/ u \in Uses(g)
                 \/ s = g /\ x.kind \in Occurrences /\ u = [what |-> x.kind, at |-> t]
                 \/ s = g /\ x.kind \in WithParameter /\ u = [what |-> "param", at |-> t]
    BY <1>1, <1>2, <1>3, UsesThen
  <2> QED
    BY <1>2, <2>1
<1>6. ASSUME NEW g \in {0} \cup OpenScopes PROVE Arrived(g)' = Arrived(g)
  BY <1>1, <1>2, <1>3, ArrivedStays
<1>7. ASSUME NEW c \in DOMAIN contexts', NEW g, g = contexts'[c].node
      PROVE  /\ contexts'[c].params = (Lines(g, WithParameter)' # {}) /\ contexts'[c].used = Uses(g)'
             /\ contexts'[c].globals = Lines(g, {"global"})'
             /\ contexts'[c].nonlocals = Lines(g, {"nonlocal"})'
             /\ contexts'[c].subscopes = Arrived(g)'
  <2>1. c \in DOMAIN contexts /\ g = contexts[c].node /\ g \in {0} \cup OpenScopes
    BY <1>1, <1>7, InnermostScope
  <2>2. /\ contexts[c].params = (Lines(g, WithParameter) # {}) /\ contexts[c].used = Uses(g)
        /\ contexts[c].globals = Lines(g, {"global"})
        /\ contexts[c].nonlocals = Lines(g, {"nonlocal"})
        /\ contexts[c].subscopes = Arrived(g)
    BY <2>1, NamesAre
  <2>3. /\ Lines(g, WithParameter)' = Lines(g, WithParameter)
        /\ Lines(g, {"global"})' = Lines(g, {"global"})
        /\ Lines(g, {"nonlocal"})' = Lines(g, {"nonlocal"})
    BY <1>2, <1>4
  <2> QED
    BY <1>1, <1>5, <1>6, <2>1, <2>2, <2>3
<1> QED
  BY <1>7, NamesThen

\* The names depend on the program only.
LEMMA SameNames ==
  ASSUME program' = program, NEW g
  PROVE  /\ \A i : ScopeOf(i)' = ScopeOf(i) /\ ScopesAround(i)' = ScopesAround(i)
         /\ \A kinds : Lines(g, kinds)' = Lines(g, kinds)
         /\ Uses(g)' = Uses(g) /\ Arriving(g)' = Arriving(g) /\ ContextOf(g)' = ContextOf(g)
<1>1. \A i : Headers(i)' = Headers(i)
  BY DEF Headers
<1>2. \A i : ScopesAround(i)' = ScopesAround(i)
  BY <1>1 DEF ScopesAround
<1>3. \A i : ScopeOf(i)' = ScopeOf(i) /\ Outside(i)' = Outside(i)
  BY <1>2 DEF ScopeOf, Outside
<1>4. \A s, kinds : Lines(s, kinds)' = Lines(s, kinds)
  BY <1>3 DEF Lines
<1>5. \A s : Uses(s)' = Uses(s)
  BY <1>4 DEF Uses
<1>6. \A s : Stops(s)' <=> Stops(s)
  BY <1>4, <1>5 DEF Stops, IsFunction
<1>7. \A s : Arriving(s)' = Arriving(s)
  <2> SUFFICES ASSUME NEW s, NEW i PROVE i \in Arriving(s)' <=> i \in Arriving(s)
    OBVIOUS
  <2> QED
    BY <1>2, <1>3, <1>6, ArrivingAre, ArrivingAreThen
<1>8. ContextOf(g)' = ContextOf(g)
  BY <1>4, <1>5, <1>7 DEF ContextOf
<1> QED
  BY <1>2, <1>3, <1>4, <1>5, <1>7, <1>8

\* The innermost context has all that its scope is left with.
LEMMA LastContext ==
  ASSUME TypeOK, OpenInv, NodesInv, NamesInv, NEW h, h = Context.node
  PROVE  /\ FinalizeIssues(Context) = FinalizeIssues(ContextOf(h))
         /\ NotHandled(Context) = NotHandled(ContextOf(h))
<1> DEFINE n == Len(contexts)
<1>1. /\ n \in DOMAIN contexts /\ Context = contexts[n]
      /\ \A s \in OpenScopes : s <= h
  <2>1. n \in DOMAIN contexts /\ Context = contexts[n]
    BY ContextTyped
  <2>2. \A s \in {0} \cup OpenScopes : s <= contexts[n].node
    BY InnermostScope
  <2> QED
    BY <2>1, <2>2
<1> HIDE DEF n
<1>2. /\ Context.params = (Lines(h, WithParameter) # {}) /\ Context.used = Uses(h)
      /\ Context.globals = Lines(h, {"global"}) /\ Context.nonlocals = Lines(h, {"nonlocal"})
      /\ Context.subscopes = Arrived(h)
  BY <1>1, NamesAre
<1>3. Arrived(h) = Arriving(h)
  <2>1. \A i : \A g \in ScopesAround(i) : g > h => g \notin OpenScopes
    <3>1. h \in Nat /\ OpenScopes \subseteq Nat
      BY ContextTyped, OpenScopesNest DEF ContextRecords, TypeOK
    <3>2. \A g \in OpenScopes : ~(g > h)
      BY <1>1, <3>1
    <3> QED
      BY <3>2
  <2> QED
    BY <2>1 DEF Arrived
<1> DEFINE b == ContextOf(h)
<1>4. /\ b.node = h /\ b.params = (Lines(h, WithParameter) # {}) /\ b.used = Uses(h)
      /\ b.globals = Lines(h, {"global"}) /\ b.nonlocals = Lines(h, {"nonlocal"})
      /\ b.subscopes = Arriving(h)
  BY DEF ContextOf
<1> HIDE DEF b
<1>5. /\ Context.node = b.node /\ Context.used = b.used
      /\ Context.globals = b.globals /\ Context.nonlocals = b.nonlocals
      /\ Context.subscopes = b.subscopes
  BY <1>2, <1>3, <1>4
<1>6. Context.params = b.params
  BY <1>2, <1>4, Zenon
<1>7. FinalizeIssues(Context) = FinalizeIssues(b) /\ NotHandled(Context) = NotHandled(b)
  BY <1>5, <1>6, SameFinalize
<1> QED
  BY <1>7 DEF b

\* What a scope hands on are the nonlocal names in it that come to the scope around.
LEMMA Handed ==
  ASSUME program \in Seq(Statements), NEW h \in DOMAIN program, program[h].kind \in Scopes,
         NEW g, g = ScopeOf(h), NEW i
  PROVE  i \in NotHandled(ContextOf(h)) <=> i \in Arriving(g) /\ h \in ScopesAround(i)
<1>1. /\ Len(program) \in Nat /\ DOMAIN program = 1 .. Len(program)
      /\ h \in Nat \ {0} /\ g \in {0} \cup ScopesAround(h) /\ g \in Nat /\ g < h
      /\ \A k \in ScopesAround(h) : k \in Nat /\ k <= g /\ k < h
  <2>1. /\ Len(program) \in Nat /\ DOMAIN program = 1 .. Len(program) /\ h \in Nat \ {0}
    OBVIOUS
  <2>2. /\ g \in {0} \cup ScopesAround(h)
        /\ \A k \in ScopesAround(h) : k \in DOMAIN program /\ k < h /\ k <= g
    BY ScopeIsAround
  <2> QED
    BY <2>1, <2>2
<1> DEFINE C == ContextOf(h)
<1>2. /\ C.node = h /\ (C.params <=> Lines(h, WithParameter) # {}) /\ C.used = Uses(h)
      /\ C.globals = Lines(h, {"global"}) /\ C.nonlocals = Lines(h, {"nonlocal"})
      /\ C.subscopes = Arriving(h)
  BY DEF ContextOf
<1> HIDE DEF C
<1>3. IsHandled(C) \/ HasNoBinding(C) <=> Stops(h)
  <2>1. IsHandled(C) <=> \/ Lines(h, WithParameter) # {}
                         \/ Lines(h, {"global"}) = {} /\ IsFunction(h) /\ Uses(h) # {}
    BY <1>2, Zenon DEF IsHandled
  <2>2. HasNoBinding(C) <=> Lines(h, WithParameter) = {} /\ (Lines(h, {"global"}) # {} \/ h = 0)
    BY <1>2, Zenon DEF HasNoBinding
  <2>3. h # 0
    BY <1>1
  <2>4. Stops(h) <=> \/ Lines(h, WithParameter) # {} \/ Lines(h, {"global"}) # {}
                     \/ IsFunction(h) /\ Uses(h) # {}
    BY Zenon DEF Stops
  <2> QED
    BY <2>1, <2>2, <2>3, <2>4, Zenon
<1>4. i \in NotHandled(C) <=> i \in Lines(h, {"nonlocal"}) \/ (~Stops(h) /\ i \in Arriving(h))
  BY <1>2, <1>3 DEF NotHandled
<1>5. ASSUME i \in DOMAIN program
      PROVE  /\ ScopeOf(i) \in {0} \cup ScopesAround(i) /\ ScopeOf(i) \in Nat
             /\ \A k \in ScopesAround(i) : k \in Nat /\ k <= ScopeOf(i)
             /\ h \in ScopesAround(i) =>
                  /\ ScopesAround(h) = {k \in ScopesAround(i) : k < h}
                  /\ g \in {0} \cup ScopesAround(i)
  <2>1. /\ ScopeOf(i) \in {0} \cup ScopesAround(i)
        /\ \A k \in ScopesAround(i) : k \in DOMAIN program /\ k <= ScopeOf(i)
    BY <1>5, ScopeIsAround
  <2>2. h \in ScopesAround(i) => ScopesAround(h) = {k \in ScopesAround(i) : k < h}
    BY <1>5, ScopesOfScope
  <2> QED
    BY <1>1, <2>1, <2>2
<1>6. ASSUME i \in DOMAIN program, h \in ScopesAround(i), NEW k \in ScopesAround(i), k > g
      PROVE  k = h \/ k > h
  <2>1. k \in Nat /\ (k < h => k <= g)
    BY <1>1, <1>5, <1>6
  <2> QED
    BY <1>1, <1>6, <2>1
<1>7. ASSUME i \in Lines(h, {"nonlocal"}) PROVE i \in Arriving(g) /\ h \in ScopesAround(i)
  <2>1. i \in DOMAIN program /\ program[i].kind = "nonlocal" /\ ScopeOf(i) = h
    BY <1>7 DEF Lines
  <2>2. h \in ScopesAround(i) /\ g # h
    BY <1>1, <1>5, <2>1
  <2>3. ASSUME NEW k \in Outside(i), k > g PROVE FALSE
    <3>1. k \in ScopesAround(i) /\ k # h
      BY <2>1, <2>3 DEF Outside
    <3>2. k > h /\ k <= h /\ k \in Nat
      BY <1>5, <1>6, <2>1, <2>2, <2>3, <3>1
    <3> QED
      BY <1>1, <3>2
  <2> QED
    BY <1>5, <2>1, <2>2, <2>3, ArrivingAre
<1>8. ASSUME ~Stops(h), i \in Arriving(h) PROVE i \in Arriving(g) /\ h \in ScopesAround(i)
  <2>1. /\ i \in DOMAIN program /\ program[i].kind = "nonlocal"
        /\ h \in {0} \cup ScopesAround(i)
        /\ \A k \in Outside(i) : k > h => ~Stops(k)
    BY <1>8, ArrivingAre
  <2>2. h \in ScopesAround(i)
    BY <1>1, <2>1
  <2>3. ScopeOf(i) # g
    <3>1. h <= ScopeOf(i)
      BY <1>5, <2>1, <2>2
    <3> QED
      BY <1>1, <1>5, <2>1, <3>1
  <2>4. ASSUME NEW k \in Outside(i), k > g PROVE ~Stops(k)
    <3>1. k = h \/ k > h
      BY <1>6, <2>1, <2>2, <2>4 DEF Outside
    <3> QED
      BY <1>8, <2>1, <3>1
  <2> QED
    BY <1>5, <2>1, <2>2, <2>3, <2>4, ArrivingAre
<1>9. ASSUME i \in Arriving(g), h \in ScopesAround(i)
      PROVE  i \in Lines(h, {"nonlocal"}) \/ (~Stops(h) /\ i \in Arriving(h))
  <2>1. /\ i \in DOMAIN program /\ program[i].kind = "nonlocal"
        /\ \A k \in Outside(i) : k > g => ~Stops(k)
    BY <1>9, ArrivingAre
  <2>2. CASE ScopeOf(i) = h
    BY <2>1, <2>2 DEF Lines
  <2>3. CASE ScopeOf(i) # h
    <3>1. ~Stops(h)
      BY <1>1, <1>9, <2>1, <2>3 DEF Outside
    <3>2. ASSUME NEW k \in Outside(i), k > h PROVE ~Stops(k)
      <4>1. k \in Nat
        BY <1>5, <2>1 DEF Outside
      <4>2. k > g
        BY <1>1, <3>2, <4>1
      <4> QED
        BY <2>1, <4>2
    <3> QED
      BY <1>9, <2>1, <2>3, <3>1, <3>2, ArrivingAre
  <2> QED
    BY <2>2, <2>3
<1>10. i \in NotHandled(C) <=> i \in Arriving(g) /\ h \in ScopesAround(i)
  BY <1>4, <1>7, <1>8, <1>9
<1> QED
  BY <1>10 DEF C

\* What has arrived when scope h is left: in the scope around it, the names that it
\* hands on; in the others nothing new.
LEMMA ArrivedAreThen ==
  ASSUME program' = program, NEW s, NEW i
  PROVE  i \in Arrived(s)' <=>
           i \in Arriving(s) /\ \A k \in ScopesAround(i) : k > s => k \notin OpenScopes'
<1>1. i \in Arrived(s)' <=> i \in Arriving(s)' /\ \A k \in ScopesAround(i)' : k > s => k \notin OpenScopes'
  BY DEF Arrived
<1> QED
  BY <1>1, SameNames

\* The scope around gets what the one that is left hands on.
LEMMA LeaveNames ==
  ASSUME TypeOK, OpenInv, NodesInv, NamesInv, LeaveStatement,
         NEW n, n = Len(contexts), NEW m, m = Len(contexts'), NEW h, h = Last(open)
  PROVE  NamesInv'
<1>1. /\ n \in Nat \ {0} /\ DOMAIN contexts = 1 .. n
      /\ \A c, d \in DOMAIN contexts : c < d => contexts[c].node < contexts[d].node
      /\ \A s \in {0} \cup OpenScopes : \E c \in DOMAIN contexts : contexts[c].node = s
      /\ \A c \in DOMAIN contexts : contexts[c].node \in {0} \cup OpenScopes
      /\ {contexts[c].node : c \in 2 .. n} = OpenScopes
  BY InnermostScope DEF NodesInv
<1>2. program[h].kind \in Scopes => n > 1 /\ contexts[n].node = h
  BY LeftScope
<1>3. /\ m = (IF program[h].kind \in Scopes THEN n - 1 ELSE n)
      /\ contexts' # <<>> /\ DOMAIN contexts' = 1 .. m
      /\ \A c \in 1 .. m - 1 : contexts'[c] = contexts[c]
      /\ contexts'[m].node = contexts[m].node
      /\ contexts'[m].params = contexts[m].params /\ contexts'[m].used = contexts[m].used
      /\ contexts'[m].globals = contexts[m].globals
      /\ contexts'[m].nonlocals = contexts[m].nonlocals
      /\ contexts'[m].subscopes =
           contexts[m].subscopes \cup (IF program[h].kind \in Scopes THEN NotHandled(contexts[n]) ELSE {})
  BY <1>2, LeaveContexts
<1>4. /\ OpenScopes' = OpenScopes \ {h} /\ h \in DOMAIN program
      /\ (program[h].kind \in Scopes <=> h \in OpenScopes)
  BY LeaveScopes
<1>5. /\ program' = program /\ program \in Seq(Statements) /\ open \in Seq(Nat)
      /\ OpenScopes \subseteq DOMAIN program /\ DOMAIN program \subseteq Nat \ {0}
  BY OpenScopesNest DEF TypeOK, LeaveStatement
<1>6. m \in 1 .. n /\ m \in Nat \ {0}
  BY <1>1, <1>2, <1>3
<1>7. ASSUME NEW c \in 1 .. m, NEW g, g = contexts[c].node
      PROVE  \A i : i \in Arrived(g)' <=>
                      \/ i \in Arrived(g)
                      \/ c = m /\ program[h].kind \in Scopes /\ i \in NotHandled(contexts[n])
  <2> SUFFICES ASSUME NEW i
               PROVE  i \in Arrived(g)' <=>
                        \/ i \in Arrived(g)
                        \/ c = m /\ program[h].kind \in Scopes /\ i \in NotHandled(contexts[n])
    OBVIOUS
  <2>1. i \in Arrived(g)' <=>
          i \in Arriving(g) /\ \A k \in ScopesAround(i) : k > g => k \notin OpenScopes \ {h}
    BY <1>4, <1>5, ArrivedAreThen
  <2>2. i \in Arrived(g) <=>
          i \in Arriving(g) /\ \A k \in ScopesAround(i) : k > g => k \notin OpenScopes
    BY DEF Arrived
  <2>3. CASE program[h].kind \notin Scopes
    <3>1. h \notin OpenScopes
      BY <1>4, <2>3
    <3> QED
      BY <2>1, <2>2, <2>3, <3>1
  <2>4. CASE program[h].kind \in Scopes
    <3>1. /\ h \in OpenScopes /\ n > 1 /\ contexts[n].node = h /\ m = n - 1
          /\ c \in DOMAIN contexts /\ n \in DOMAIN contexts /\ m \in DOMAIN contexts /\ c < n
      BY <1>1, <1>2, <1>3, <1>4, <1>6, <2>4
    <3>2. g \in {0} \cup OpenScopes /\ g \in Nat /\ h \in Nat /\ g < h
      BY <1>1, <1>5, <1>7, <3>1
    <3>3. ScopesAround(h) = {k \in OpenScopes : k < h}
      BY <1>5, <3>1, OpenScopesNest
    <3>4. ASSUME i \in Arriving(g), h \in ScopesAround(i)
          PROVE  ScopesAround(h) = {k \in ScopesAround(i) : k < h}
      <4>1. i \in DOMAIN program
        BY <3>4, ArrivingAre
      <4> QED
        BY <1>5, <3>4, <4>1, ScopesOfScope
    <3>5. CASE c < m
      <4> DEFINE p == contexts[m].node
      <4>1. p \in {0} \cup OpenScopes /\ g < p /\ p < h
        BY <1>1, <1>7, <3>1, <3>5
      <4> HIDE DEF p
      <4>2. p \in OpenScopes \ {h} /\ p \in Nat /\ p > g
        <5>1. p \in Nat
          BY <1>5, <4>1
        <5> QED
          BY <3>2, <4>1, <5>1
      <4>3. ASSUME i \in Arrived(g)' PROVE h \notin ScopesAround(i)
        <5> SUFFICES ASSUME h \in ScopesAround(i) PROVE FALSE
          OBVIOUS
        <5>1. p \in ScopesAround(i)
          BY <2>1, <3>3, <3>4, <4>1, <4>2, <4>3
        <5> QED
          BY <2>1, <4>2, <4>3, <5>1
      <4>4. i \in Arrived(g)' => i \in Arrived(g)
        BY <2>1, <2>2, <4>3
      <4>5. i \in Arrived(g) => i \in Arrived(g)'
        BY <2>1, <2>2
      <4>6. c # m
        BY <1>6, <3>5
      <4> QED
        BY <4>4, <4>5, <4>6
    <3>6. CASE c = m
      <4>1. \A k \in OpenScopes : k > g => k = h
        <5> SUFFICES ASSUME NEW k \in OpenScopes, k > g, k # h PROVE FALSE
          OBVIOUS
        <5>1. PICK d \in DOMAIN contexts : contexts[d].node = k
          BY <1>1
        <5>2. d # n
          BY <3>1, <5>1
        <5>3. d = m \/ d < m
          BY <1>1, <1>6, <3>1, <5>1, <5>2
        <5>4. CASE d = m
          BY <1>7, <3>2, <3>6, <5>1, <5>4
        <5>5. CASE d < m
          <6>1. k < g /\ k \in Nat
            BY <1>1, <1>5, <1>7, <3>1, <3>6, <5>1, <5>5
          <6> QED
            BY <3>2, <6>1
        <5> QED
          BY <5>3, <5>4, <5>5
      <4>2. h > g
        BY <3>2
      <4>3. i \in Arrived(g)' <=> i \in Arriving(g)
        BY <2>1, <4>1
      <4>4. i \in Arrived(g) <=> i \in Arriving(g) /\ h \notin ScopesAround(i)
        BY <2>2, <3>1, <4>1, <4>2
      <4>5. g = ScopeOf(h)
        <5>1. /\ ScopeOf(h) \in {0} \cup ScopesAround(h)
              /\ \A k \in ScopesAround(h) : k <= ScopeOf(h)
              /\ ScopeOf(h) = 0 => ScopesAround(h) = {}
          BY <1>4, <1>5, ScopeIsAround
        <5>2. ScopeOf(h) \in {0} \cup OpenScopes /\ ScopeOf(h) # h /\ ScopeOf(h) \in Nat
          <6>1. h \notin ScopesAround(h) /\ h # 0
            BY <1>4, <1>5, <3>3
          <6>2. ScopeOf(h) \in {0} \cup OpenScopes
            BY <3>3, <5>1
          <6> QED
            BY <1>5, <5>1, <6>1, <6>2
        <5>3. ~(ScopeOf(h) > g)
          BY <3>2, <4>1, <5>2
        <5>4. CASE g = 0
          BY <3>2, <5>2, <5>3, <5>4
        <5>5. CASE g # 0
          <6>1. g \in ScopesAround(h)
            BY <3>2, <3>3, <5>5
          <6> QED
            BY <3>2, <5>1, <5>2, <5>3, <6>1
        <5> QED
          BY <5>4, <5>5
      <4>6. i \in NotHandled(ContextOf(h)) <=> i \in Arriving(g) /\ h \in ScopesAround(i)
        BY <1>4, <1>5, <2>4, <4>5, Handed
      <4>7. NotHandled(contexts[n]) = NotHandled(ContextOf(h))
        <5>1. Context = contexts[n]
          BY ContextTyped
        <5> QED
          BY <3>1, <5>1, LastContext
      <4> QED
        BY <2>4, <3>6, <4>3, <4>4, <4>6, <4>7
    <3> QED
      BY <1>6, <3>5, <3>6
  <2> QED
    BY <2>3, <2>4
<1>8. ASSUME NEW c \in DOMAIN contexts', NEW g, g = contexts'[c].node
      PROVE  /\ contexts'[c].params = (Lines(g, WithParameter)' # {}) /\ contexts'[c].used = Uses(g)'
             /\ contexts'[c].globals = Lines(g, {"global"})'
             /\ contexts'[c].nonlocals = Lines(g, {"nonlocal"})'
             /\ contexts'[c].subscopes = Arrived(g)'
  <2>1. c \in 1 .. m /\ (c = m \/ c \in 1 .. m - 1) /\ c \in DOMAIN contexts
    BY <1>1, <1>3, <1>6
  <2>2. g = contexts[c].node
    BY <1>3, <1>8, <2>1
  <2>3. /\ contexts[c].params = (Lines(g, WithParameter) # {}) /\ contexts[c].used = Uses(g)
        /\ contexts[c].globals = Lines(g, {"global"})
        /\ contexts[c].nonlocals = Lines(g, {"nonlocal"})
        /\ contexts[c].subscopes = Arrived(g)
    BY <2>1, <2>2, NamesAre
  <2>4. /\ \A kinds : Lines(g, kinds)' = Lines(g, kinds)
        /\ Uses(g)' = Uses(g)
    BY <1>5, SameNames
  <2>5. \A i : i \in Arrived(g)' <=>
                 \/ i \in Arrived(g)
                 \/ c = m /\ program[h].kind \in Scopes /\ i \in NotHandled(contexts[n])
    BY <1>7, <2>1, <2>2
  <2>6. contexts'[c].subscopes = Arrived(g)'
    <3>1. \A i : i \in contexts'[c].subscopes <=> i \in Arrived(g)'
      <4>1. CASE c = m
        BY <1>3, <2>3, <2>5, <4>1
      <4>2. CASE c # m
        BY <1>3, <2>1, <2>3, <2>5, <4>2
      <4> QED
        BY <4>1, <4>2
    <3> QED
      BY <3>1
  <2>7. /\ contexts'[c].params = contexts[c].params /\ contexts'[c].used = contexts[c].used
        /\ contexts'[c].globals = contexts[c].globals /\ contexts'[c].nonlocals = contexts[c].nonlocals
    BY <1>3, <2>1
  <2> QED
    BY <2>3, <2>4, <2>6, <2>7
<1> QED
  BY <1>8, NamesThen

\* One line that is indented has no names.
LEMMA NoNames ==
  ASSUME \A i \in DOMAIN program : program[i].kind = "indented", NEW g
  PROVE  /\ \A kinds : "indented" \notin kinds => Lines(g, kinds) = {}
         /\ Uses(g) = {} /\ Arriving(g) = {}
<1>1. \A kinds : "indented" \notin kinds => Lines(g, kinds) = {}
  BY DEF Lines
<1>2. "indented" \notin Occurrences /\ "indented" \notin WithParameter
  BY DEF Occurrences, WithParameter
<1>3. Lines(g, Occurrences) = {} /\ Lines(g, WithParameter) = {}
  BY <1>1, <1>2
<1>4. Uses(g) = {}
  BY <1>3, UsesAre
<1>5. Arriving(g) = {}
  BY ArrivingAre
<1> QED
  BY <1>1, <1>4, <1>5

\* Without names the module has none.
LEMMA IndentedNames ==
  ASSUME contexts = <<NewContext(0)>>, \A i \in DOMAIN program : program[i].kind = "indented"
  PROVE  NamesInv
<1> SUFFICES ASSUME NEW c \in DOMAIN contexts, NEW s \in {contexts[c].node}
             PROVE  /\ contexts[c].params = ContextOf(s).params /\ contexts[c].used = Uses(s)
                    /\ contexts[c].globals = ContextOf(s).globals
                    /\ contexts[c].nonlocals = ContextOf(s).nonlocals
                    /\ contexts[c].subscopes = Arrived(s)
  BY Zenon DEF NamesInv
<1>1. /\ contexts[c].used = {} /\ contexts[c].params = FALSE /\ contexts[c].globals = {}
      /\ contexts[c].nonlocals = {} /\ contexts[c].subscopes = {}
  BY DEF NewContext
<1>2. /\ Uses(s) = {} /\ Arriving(s) = {}
      /\ \A kinds : "indented" \notin kinds => Lines(s, kinds) = {}
  BY NoNames
<1>3. /\ Lines(s, WithParameter) = {} /\ Lines(s, {"global"}) = {} /\ Lines(s, {"nonlocal"}) = {}
  <2>1. "indented" \notin WithParameter
    BY DEF WithParameter
  <2> QED
    BY <1>2, <2>1
<1>4. Arrived(s) = {}
  BY <1>2 DEF Arrived
<1>5. ContextOf(s).globals = {} /\ ContextOf(s).nonlocals = {}
  BY <1>3 DEF ContextOf
<1>6. ContextOf(s).params = FALSE
  <2>1. ContextOf(s).params = (Lines(s, WithParameter) # {})
    BY DEF ContextOf
  <2> QED
    BY <1>3, <2>1, Zenon
<1> QED
  BY <1>1, <1>2, <1>4, <1>5, <1>6

\* The other actions leave the names.
LEMMA RestNames ==
  ASSUME TypeOK, Indented, OpenInv, NodesInv, NamesInv, UnexpectedIndent \/ Finish \/ UNCHANGED vars
  PROVE  NamesInv'
<1>1. CASE UnexpectedIndent
  <2> DEFINE x == [kind |-> "indented", detail |-> <<>>, level |-> 0]
  <2>1. contexts' = <<NewContext(0)>>' /\ program' = <<x>> /\ x.kind = "indented"
    BY <1>1 DEF UnexpectedIndent, Indented, NewContext
  <2> HIDE DEF x
  <2>2. (\A i \in DOMAIN program : program[i].kind = "indented")'
    BY <2>1
  <2>3. (contexts = <<NewContext(0)>>)'
    BY <2>1
  <2> QED
    BY <2>2, <2>3, IndentedNames, PTL
<1>2. CASE Finish \/ UNCHANGED vars
  <2>1. program' = program /\ contexts' = contexts /\ OpenScopes' = OpenScopes
    BY <1>2 DEF Finish, vars, OpenScopes
  <2>2. ASSUME NEW c \in DOMAIN contexts', NEW g, g = contexts'[c].node
        PROVE  /\ contexts'[c].params = (Lines(g, WithParameter)' # {}) /\ contexts'[c].used = Uses(g)'
               /\ contexts'[c].globals = Lines(g, {"global"})'
               /\ contexts'[c].nonlocals = Lines(g, {"nonlocal"})'
               /\ contexts'[c].subscopes = Arrived(g)'
    <3>1. /\ contexts[c].params = (Lines(g, WithParameter) # {}) /\ contexts[c].used = Uses(g)
          /\ contexts[c].globals = Lines(g, {"global"})
          /\ contexts[c].nonlocals = Lines(g, {"nonlocal"})
          /\ contexts[c].subscopes = Arrived(g)
      BY <2>1, <2>2, NamesAre
    <3>2. /\ \A kinds : Lines(g, kinds)' = Lines(g, kinds)
          /\ Uses(g)' = Uses(g)
      BY <2>1, SameNames
    <3>3. Arrived(g)' = Arrived(g)
      <4>1. \A i : i \in Arrived(g)' <=>
                     i \in Arriving(g) /\ \A k \in ScopesAround(i) : k > g => k \notin OpenScopes
        BY <2>1, ArrivedAreThen
      <4> QED
        BY <4>1 DEF Arrived
    <3> QED
      BY <2>1, <3>1, <3>2, <3>3
  <2> QED
    BY <2>2, NamesThen
<1> QED
  BY <1>1, <1>2

-----------------------------------------------------------------------------
(* The errors of names.                                                      *)

\* What NameErrors and Closed are, now and after a step.
LEMMA NameErrorsAre ==
  ASSUME NEW e
  PROVE  e \in NameErrors <=>
           \/ e \in DOMAIN program /\ program[e].kind = "nonlocal" /\ ScopeOf(e) = 0
           \/ \E s \in Closed : e \in FinalizeIssues(ContextOf(s))
BY Zenon DEF NameErrors

LEMMA NameErrorsAreThen ==
  ASSUME NEW e
  PROVE  e \in NameErrors' <=>
           \/ e \in DOMAIN program' /\ program'[e].kind = "nonlocal" /\ ScopeOf(e)' = 0
           \/ \E s \in Closed' : e \in FinalizeIssues(ContextOf(s))'
BY Zenon DEF NameErrors

LEMMA ClosedAre ==
  ASSUME NEW s
  PROVE  s \in Closed <=>
           \/ s \in DOMAIN program /\ program[s].kind \in Scopes /\ s \notin OpenScopes
           \/ finished /\ s = 0
BY DEF Closed

LEMMA ClosedAreThen ==
  ASSUME NEW s
  PROVE  s \in Closed' <=>
           \/ s \in DOMAIN program' /\ program'[s].kind \in Scopes /\ s \notin OpenScopes'
           \/ finished' /\ s = 0
BY DEF Closed

\* What finalize finds in a scope that stays as it is.
LEMMA FinalizeStays ==
  ASSUME NEW s, s = 0 \/ program'[s] = program[s], ContextOf(s)' = ContextOf(s)
  PROVE  FinalizeIssues(ContextOf(s))' = FinalizeIssues(ContextOf(s))
<1>1. HasParameter(s)' = HasParameter(s)
  BY DEF HasParameter
<1>2. PICK C : C = ContextOf(s)
  OBVIOUS
<1>3. C.node = s
  BY <1>2 DEF ContextOf
<1>4. \A d : Analyzed(C, d)' = Analyzed(C, d)
  BY <1>1, <1>3 DEF Analyzed
<1>5. Both(C)' = Both(C) /\ HasNoBinding(C)' = HasNoBinding(C)
  BY DEF Both, HasNoBinding
<1>6. FinalizeIssues(C)' = FinalizeIssues(C)
  BY <1>4, <1>5 DEF FinalizeIssues
<1>7. FinalizeIssues(ContextOf(s))' = FinalizeIssues(C)'
  BY <1>2
<1> QED
  BY <1>2, <1>6, <1>7

\* A line adds to the errors of names only when it is nonlocal in the module.
LEMMA NextNameErrors ==
  ASSUME TypeOK, OpenInv, NodesInv, NEW x \in Statements, program' = Append(program, x),
         NEW n, n = This, ScopesAround(n)' = OpenScopes, ScopeOf(n)' = Context.node,
         OpenScopes' = (IF x.kind \in Scopes THEN OpenScopes \cup {n} ELSE OpenScopes),
         ~finished, ~finished', NEW e
  PROVE  e \in NameErrors' <=>
           e \in NameErrors \/ (e = n /\ x.kind = "nonlocal" /\ Context.node = 0)
<1>1. /\ program \in Seq(Statements) /\ open \in Seq(Nat)
      /\ DOMAIN program = 1 .. Len(program) /\ n = Len(program) + 1
      /\ n \notin DOMAIN program /\ 0 \notin DOMAIN program
  BY DEF TypeOK, This
<1>2. /\ \A i \in DOMAIN program : i \in DOMAIN program' /\ program'[i] = program[i]
      /\ \A i \in DOMAIN program' : i \in DOMAIN program \/ i = n
      /\ program'[n] = x /\ n \in DOMAIN program'
  BY <1>1, NewLine
<1>3. \A i \in DOMAIN program : ScopeOf(i)' = ScopeOf(i)
  BY <1>1, HeadersStay
<1>4. \A s : s \in Closed => s \in DOMAIN program /\ s \notin OpenScopes
  BY ClosedAre
<1>5. \A s : s \in Closed' <=> s \in Closed
  <2> SUFFICES ASSUME NEW s PROVE s \in Closed' <=> s \in Closed
    OBVIOUS
  <2>1. OpenScopes \subseteq DOMAIN program
    BY <1>1, OpenScopesNest
  <2>2. CASE s \in DOMAIN program
    <3>1. s \in OpenScopes' <=> s \in OpenScopes
      BY <1>1, <2>2
    <3> QED
      BY <1>2, <2>2, <3>1, ClosedAre, ClosedAreThen
  <2>3. CASE s = n
    BY <1>1, <1>2, <2>1, <2>3, ClosedAre, ClosedAreThen
  <2>4. CASE s \notin DOMAIN program /\ s # n
    BY <1>2, <2>4, ClosedAre, ClosedAreThen
  <2> QED
    BY <2>2, <2>3, <2>4
<1>6. ASSUME NEW s \in Closed PROVE FinalizeIssues(ContextOf(s))' = FinalizeIssues(ContextOf(s))
  <2>1. s \in DOMAIN program /\ s \notin OpenScopes
    BY <1>4
  <2>2. ContextOf(s)' = ContextOf(s)
    BY <1>1, <2>1, ClosedStays
  <2>3. program'[s] = program[s]
    BY <1>2, <2>1
  <2> QED
    BY <2>2, <2>3, FinalizeStays
<1>7. (\E s \in Closed' : e \in FinalizeIssues(ContextOf(s))')
        <=> \E s \in Closed : e \in FinalizeIssues(ContextOf(s))
  BY <1>5, <1>6
<1>8. (e \in DOMAIN program' /\ program'[e].kind = "nonlocal" /\ ScopeOf(e)' = 0)
        <=> \/ e \in DOMAIN program /\ program[e].kind = "nonlocal" /\ ScopeOf(e) = 0
            \/ e = n /\ x.kind = "nonlocal" /\ Context.node = 0
  <2>1. CASE e \in DOMAIN program
    BY <1>1, <1>2, <1>3, <2>1
  <2>2. CASE e = n
    BY <1>1, <1>2, <2>2
  <2>3. CASE e \notin DOMAIN program /\ e # n
    BY <1>2, <2>3
  <2> QED
    BY <2>1, <2>2, <2>3
<1> QED
  BY <1>7, <1>8, NameErrorsAre, NameErrorsAreThen

\* A visit adds errors of places, and that of a nonlocal name in the module.
LEMMA VisitNameErrors ==
  ASSUME TypeOK, OpenInv, NodesInv, BlocksInv, ErrorsInv, NEW x \in Statements, NEW ms \in Seq(Texts),
         Visiting(x, ms), VisitOf(x, ms), NEW n, n = This
  PROVE  ErrorsInv'
<1>1. /\ program \in Seq(Statements) /\ program' = Append(program, x) /\ x.level = Len(open)
      /\ ~finished /\ ~finished' /\ head = <<>>
  BY DEF TypeOK, Visiting
<1>2. ScopesAround(n)' = OpenScopes /\ ScopeOf(n)' = Context.node
  BY <1>1, NextScope
<1>3. OpenScopes' = IF x.kind \in Scopes THEN OpenScopes \cup {n} ELSE OpenScopes
  BY VisitScopes
<1>4. \A e : e \in NameErrors' <=>
               e \in NameErrors \/ (e = n /\ x.kind = "nonlocal" /\ Context.node = 0)
  BY <1>1, <1>2, <1>3, NextNameErrors
<1>5. /\ \A i \in DOMAIN errors : i \in DOMAIN errors' /\ errors'[i] = errors[i]
      /\ \A i \in DOMAIN errors' : i \in DOMAIN errors \/ i = n
      /\ n \in DOMAIN errors' <=> Messages(ms) # <<>>
  BY VisitErrors
<1>6. Messages(ms) # <<>> =>
        PlaceErrors(n)' # <<>> \/ (x.kind = "nonlocal" /\ IsModule) \/ x.detail # <<>>
  BY NextPlace
<1>7. IsModule <=> Context.node = 0
  <2>1. /\ Len(contexts) > 1 <=> OpenScopes # {}
        /\ Len(contexts) \in Nat \ {0} /\ Context = contexts[Len(contexts)]
        /\ contexts[Len(contexts)].node \in {0} \cup OpenScopes
        /\ \A s \in {0} \cup OpenScopes : s <= contexts[Len(contexts)].node
    BY InnermostScope, ContextTyped
  <2>2. OpenScopes \subseteq DOMAIN program /\ DOMAIN program \subseteq Nat \ {0}
    BY OpenScopesNest DEF TypeOK
  <2>3. OpenScopes # {} <=> Context.node # 0
    <3>1. \A s \in OpenScopes : s <= Context.node /\ s \in Nat \ {0}
      BY <2>1, <2>2
    <3> QED
      BY <2>1, <3>1
  <2>4. IsModule <=> ~(Len(contexts) > 1)
    <3> DEFINE m == Len(contexts)
    <3>1. m \in Nat \ {0}
      BY <2>1
    <3> HIDE DEF m
    <3>2. m = 1 <=> ~(m > 1)
      BY <3>1
    <3> QED
      BY <3>2 DEF IsModule, m
  <2> QED
    BY <2>1, <2>3, <2>4
<1>8. x.kind = "nonlocal" /\ IsModule => Messages(ms) # <<>>
  <2> SUFFICES ASSUME x.kind = "nonlocal", IsModule PROVE Messages(ms) # <<>>
    OBVIOUS
  <2>1. NameVisit(x, ms)
    BY DEF VisitOf, JumpVisit, BlockVisit, ScopeVisit, RuledVisit, Jumps, Blocks, Scopes, Functions,
           RuledKinds
  <2>2. ms = <<"at module level">>
    BY <2>1 DEF NameVisit, NonlocalModuleLevelRule
  <2> QED
    BY <2>2, MessagesTyped
<1>9. \A i \in DOMAIN program : PlaceErrors(i)' = PlaceErrors(i)
  BY <1>1, PlacesStay
<1>10. /\ \A i \in DOMAIN program : i \in DOMAIN program' /\ program'[i] = program[i]
       /\ program'[n] = x /\ n \in DOMAIN program'
  BY <1>1, NewLine DEF This
<1>11. /\ NameErrors \subseteq DOMAIN errors
       /\ \A i \in DOMAIN errors :
            \/ i \in NameErrors
            \/ i \in DOMAIN program /\ (PlaceErrors(i) # <<>> \/ Alone)
  BY <1>1 DEF ErrorsInv
<1>12. NameErrors' \subseteq DOMAIN errors'
  BY <1>4, <1>5, <1>7, <1>8, <1>11
<1>13. ASSUME NEW i \in DOMAIN errors'
       PROVE  \/ i \in NameErrors'
              \/ i \in DOMAIN program' /\ (PlaceErrors(i)' # <<>> \/ Alone')
  <2>1. CASE i \in DOMAIN errors
    BY <1>4, <1>9, <1>10, <1>11, <2>1 DEF Visiting
  <2>2. CASE i = n
    <3>1. x.detail # <<>> => Alone'
      <4> SUFFICES ASSUME x.detail # <<>> PROVE Alone'
        OBVIOUS
      <4>1. program = <<>>
        BY DEF VisitOf, NameVisit, JumpVisit, BlockVisit, ScopeVisit, RuledVisit
      <4>2. n = 1 /\ program' # <<>>
        BY <1>10, <4>1 DEF This
      <4> QED
        BY <1>10, <4>2 DEF Alone
    <3> QED
      BY <1>4, <1>5, <1>6, <1>7, <1>10, <1>13, <2>2, <3>1
  <2> QED
    BY <1>5, <2>1, <2>2
<1> QED
  BY <1>12, <1>13 DEF ErrorsInv

\* An else adds none.
LEMMA ElseNameErrors ==
  ASSUME TypeOK, OpenInv, NodesInv, ErrorsInv, Indented, ElseClause, NEW n, n = This
  PROVE  ErrorsInv'
<1> DEFINE x == [kind |-> "else", detail |-> <<>>, level |-> Len(open) - 1]
<1>1. /\ program \in Seq(Statements) /\ program' = Append(program, x)
      /\ errors' = errors /\ OpenScopes' = OpenScopes /\ open # <<>>
      /\ ~finished /\ ~finished' /\ head' = head
      /\ program[Last(open)].kind \notin Scopes
  <2>1. program[Last(open)].kind = "while"
    BY DEF ElseClause
  <2> QED
    BY <2>1, ElseScopes DEF TypeOK, ElseClause, Scopes, Functions
<1>2. x \in Statements /\ x.level = Len(open) - 1 /\ x.kind \notin Scopes \cup {"nonlocal"}
  <2>1. Len(open) \in Nat \ {0}
    BY <1>1, EmptySeq DEF TypeOK
  <2>2. x \in Statements
    BY <2>1 DEF Statements, Kinds, Compound
  <2> QED
    BY <2>2 DEF Scopes, Functions
<1>3. head = <<>>
  BY <1>1 DEF Indented
<1> HIDE DEF x
<1>4. ScopesAround(n)' = OpenScopes /\ ScopeOf(n)' = Context.node
  BY <1>1, <1>2, NextScope
<1>5. \A e : e \in NameErrors' <=> e \in NameErrors
  <2>1. OpenScopes' = (IF x.kind \in Scopes THEN OpenScopes \cup {n} ELSE OpenScopes)
    BY <1>1, <1>2
  <2>2. \A e : e \in NameErrors' <=>
                 e \in NameErrors \/ (e = n /\ x.kind = "nonlocal" /\ Context.node = 0)
    BY <1>1, <1>2, <1>4, <2>1, NextNameErrors
  <2> QED
    BY <1>2, <2>2
<1>6. \A i \in DOMAIN program : PlaceErrors(i)' = PlaceErrors(i)
  BY <1>1, <1>2, PlacesStay
<1>7. \A i \in DOMAIN program : i \in DOMAIN program' /\ program'[i] = program[i]
  BY <1>1, <1>2, NewLine
<1>8. /\ NameErrors \subseteq DOMAIN errors
      /\ \A i \in DOMAIN errors :
           \/ i \in NameErrors
           \/ i \in DOMAIN program /\ (PlaceErrors(i) # <<>> \/ Alone)
  BY <1>3 DEF ErrorsInv
<1>9. NameErrors' \subseteq DOMAIN errors'
  BY <1>1, <1>5, <1>8
<1>10. \A i \in DOMAIN errors' :
         \/ i \in NameErrors'
         \/ i \in DOMAIN program' /\ (PlaceErrors(i)' # <<>> \/ Alone')
  <2>1. Alone => Alone'
    <3> SUFFICES ASSUME Alone PROVE Alone'
      OBVIOUS
    <3>1. 1 \in DOMAIN program /\ program[1].detail # <<>>
      BY <1>1, EmptySeq DEF Alone
    <3>2. 1 \in DOMAIN program' /\ program'[1].detail # <<>>
      BY <1>7, <3>1
    <3> QED
      BY <3>2 DEF Alone
  <2> QED
    BY <1>1, <1>5, <1>6, <1>7, <1>8, <2>1
<1> QED
  BY <1>9, <1>10 DEF ErrorsInv

\* A scope that is left, and the module at the end, add what finalize finds in them.
LEMMA LeaveNameErrors ==
  ASSUME TypeOK, Indented, OpenInv, NodesInv, NamesInv, ErrorsInv, LeaveStatement \/ Finish
  PROVE  ErrorsInv'
<1> SUFFICES ASSUME head' = <<>>
             PROVE  /\ NameErrors' \subseteq DOMAIN errors'
                    /\ \A i \in DOMAIN errors' :
                         \/ i \in NameErrors'
                         \/ i \in DOMAIN program' /\ (PlaceErrors(i)' # <<>> \/ Alone')
  BY DEF ErrorsInv
<1>1. /\ head = <<>> /\ program' = program /\ program \in Seq(Statements) /\ open \in Seq(Nat)
      /\ ~finished
  BY DEF LeaveStatement, Finish, TypeOK
<1> DEFINE left == Finish \/ program[Last(open)].kind \in Scopes
<1>2. errors' = IF left THEN AddIssues(FinalizeIssues(Context), "name") ELSE errors
  BY DEF LeaveStatement, Finish
<1>3. \A s : ContextOf(s)' = ContextOf(s) /\ ScopeOf(s)' = ScopeOf(s)
  BY <1>1, SameNames
<1>4. \A s : FinalizeIssues(ContextOf(s))' = FinalizeIssues(ContextOf(s))
  BY <1>1, <1>3, FinalizeStays
<1>5. PICK h : h = Context.node
  OBVIOUS
<1>6. FinalizeIssues(Context) = FinalizeIssues(ContextOf(h))
  BY <1>5, LastContext
<1>7. \A s : s \in Closed' <=> s \in Closed \/ (left /\ s = h)
  <2>1. CASE LeaveStatement
    <3>1. /\ OpenScopes' = OpenScopes \ {Last(open)} /\ Last(open) \in DOMAIN program
          /\ program[Last(open)].kind \in Scopes <=> Last(open) \in OpenScopes
      BY <2>1, LeaveScopes
    <3>2. program[Last(open)].kind \in Scopes => h = Last(open)
      <4>1. Context = contexts[Len(contexts)]
        BY ContextTyped
      <4> QED
        BY <1>5, <2>1, <4>1, LeftScope
    <3>3. ~finished' /\ ~Finish
      BY <1>1, <2>1 DEF LeaveStatement, Finish
    <3> QED
      BY <1>1, <3>1, <3>2, <3>3, ClosedAre, ClosedAreThen
  <2>2. CASE Finish
    <3>1. OpenScopes = {} /\ OpenScopes' = {} /\ finished'
      BY <2>2 DEF Finish, OpenScopes
    <3>2. h = 0
      <4>1. /\ Context = contexts[Len(contexts)]
            /\ contexts[Len(contexts)].node \in {0} \cup OpenScopes
        BY ContextTyped, InnermostScope
      <4> QED
        BY <1>5, <3>1, <4>1
    <3> QED
      BY <1>1, <2>2, <3>1, <3>2, ClosedAre, ClosedAreThen
  <2> QED
    BY <2>1, <2>2
<1> HIDE DEF left
<1>8. \A e : e \in NameErrors' <=> e \in NameErrors \/ (left /\ e \in FinalizeIssues(Context))
  <2> SUFFICES ASSUME NEW e
               PROVE  e \in NameErrors' <=> e \in NameErrors \/ (left /\ e \in FinalizeIssues(Context))
    OBVIOUS
  <2>1. (\E s \in Closed' : e \in FinalizeIssues(ContextOf(s))')
          <=> \/ \E s \in Closed : e \in FinalizeIssues(ContextOf(s))
              \/ left /\ e \in FinalizeIssues(ContextOf(h))
    BY <1>4, <1>7
  <2> QED
    BY <1>1, <1>3, <1>6, <2>1, NameErrorsAre, NameErrorsAreThen
<1>9. \A e : e \in DOMAIN errors' <=> e \in DOMAIN errors \/ (left /\ e \in FinalizeIssues(Context))
  <2>1. CASE left
    <3> DEFINE S == FinalizeIssues(Context)
    <3>1. S \subseteq DOMAIN program
      BY ContextTyped, ContextBounded
    <3>2. errors' = AddIssues(S, "name")
      BY <1>2, <2>1
    <3> HIDE DEF S
    <3>3. \A e : e \in DOMAIN errors' <=> e \in DOMAIN errors \/ e \in S
      BY <1>1, <3>1, <3>2, NamesAdded
    <3> QED
      BY <2>1, <3>3 DEF S
  <2>2. CASE ~left
    BY <1>2, <2>2
  <2> QED
    BY <2>1, <2>2
<1>10. \A i : PlaceErrors(i)' = PlaceErrors(i)
  BY <1>1, SamePlaces
<1>11. /\ NameErrors \subseteq DOMAIN errors
       /\ \A i \in DOMAIN errors :
            \/ i \in NameErrors
            \/ i \in DOMAIN program /\ (PlaceErrors(i) # <<>> \/ Alone)
  BY <1>1 DEF ErrorsInv
<1>12. NameErrors' \subseteq DOMAIN errors'
  BY <1>8, <1>9, <1>11
<1>13. \A i \in DOMAIN errors' :
         \/ i \in NameErrors'
         \/ i \in DOMAIN program' /\ (PlaceErrors(i)' # <<>> \/ Alone')
  <2>1. Alone' <=> Alone
    BY <1>1 DEF Alone
  <2> QED
    BY <1>1, <1>8, <1>9, <1>10, <1>11, <2>1
<1> QED
  BY <1>12, <1>13

-----------------------------------------------------------------------------
(* The invariant holds at the start, and every step keeps it.                *)

\* The invariant holds at first, and every step keeps it.
LEMMA IInit == Init => IInv
<1> SUFFICES ASSUME Init PROVE IInv
  OBVIOUS
<1>1. /\ program = <<>> /\ open = <<>> /\ contexts = <<NewContext(0)>> /\ errors = <<>>
      /\ indentation = 0 /\ finished = FALSE
  BY DEF Init
<1>2. DOMAIN program = {} /\ DOMAIN open = {} /\ DOMAIN errors = {} /\ Len(program) = 0 /\ Len(open) = 0
  BY <1>1
<1>3. TypeOK
  BY TypeInit
<1>4. Indented
  BY <1>1, <1>2 DEF Indented
<1>5. OpenInv
  BY <1>1, <1>2 DEF OpenInv
<1>6. OpenScopes = {}
  BY <1>2 DEF OpenScopes
<1>7. /\ contexts # <<>> /\ Len(contexts) = 1 /\ DOMAIN contexts = {1}
      /\ contexts[1].node = 0 /\ contexts[1].blocks = <<>>
  BY <1>1 DEF NewContext
<1>8. NodesInv
  BY <1>6, <1>7 DEF NodesInv
<1>9. BlocksInv
  BY <1>2, <1>7 DEF BlocksInv, Base
<1>10. PlacesInv
  BY <1>2 DEF PlacesInv
<1>11. NamesInv
  BY <1>1, <1>2, IndentedNames
<1>12. ErrorsInv
  <2>1. Closed = {}
    BY <1>1, <1>2 DEF Closed
  <2>2. NameErrors = {}
    BY <1>2, <2>1, NameErrorsAre
  <2> QED
    BY <1>2, <2>2 DEF ErrorsInv
<1> QED
  BY <1>3, <1>4, <1>5, <1>8, <1>9, <1>10, <1>11, <1>12 DEF IInv

LEMMA Stutter ==
  ASSUME IInv, UNCHANGED vars
  PROVE  IInv'
<1> USE DEF IInv
<1>1. /\ head' = head /\ program' = program /\ contexts' = contexts /\ open' = open
      /\ indentation' = indentation /\ errors' = errors /\ finished' = finished
  BY DEF vars
<1>2. TypeOK' /\ Indented'
  BY <1>1 DEF TypeOK, Indented, NewContext
<1>3. OpenInv'
  BY <1>1 DEF OpenInv
<1>4. OpenScopes' = OpenScopes
  BY <1>1 DEF OpenScopes
<1>5. NodesInv'
  BY <1>1, <1>4 DEF NodesInv
<1>6. BlocksInv'
  BY <1>1 DEF BlocksInv, Base, IsClauseOf
<1>7. \A i : PlaceErrors(i)' = PlaceErrors(i) /\ InElse(i)' = InElse(i)
  BY <1>1, SamePlaces
<1>8. PlacesInv'
  BY <1>1, <1>7 DEF PlacesInv
<1>9. NamesInv'
  BY RestNames
<1>10. ErrorsInv'
  <2>1. \A s : /\ s \in Closed' <=> s \in Closed
               /\ ScopeOf(s)' = ScopeOf(s)
               /\ FinalizeIssues(ContextOf(s))' = FinalizeIssues(ContextOf(s))
    <3> SUFFICES ASSUME NEW s
                 PROVE  /\ s \in Closed' <=> s \in Closed
                        /\ ScopeOf(s)' = ScopeOf(s)
                        /\ FinalizeIssues(ContextOf(s))' = FinalizeIssues(ContextOf(s))
      OBVIOUS
    <3>1. ContextOf(s)' = ContextOf(s) /\ ScopeOf(s)' = ScopeOf(s)
      BY <1>1, SameNames
    <3>2. s \in Closed' <=> s \in Closed
      BY <1>1, <1>4, ClosedAre, ClosedAreThen
    <3>3. FinalizeIssues(ContextOf(s))' = FinalizeIssues(ContextOf(s))
      BY <1>1, <3>1, FinalizeStays
    <3> QED
      BY <3>1, <3>2, <3>3
  <2>2. \A e : e \in NameErrors' <=> e \in NameErrors
    BY <1>1, <2>1, NameErrorsAre, NameErrorsAreThen
  <2> QED
    BY <1>1, <1>7, <2>2 DEF ErrorsInv, Alone
<1> QED
  BY <1>2, <1>3, <1>5, <1>6, <1>8, <1>9, <1>10

LEMMA INext == IInv /\ [Next]_vars => IInv'
<1> SUFFICES ASSUME IInv, [Next]_vars PROVE IInv'
  OBVIOUS
<1>1. /\ TypeOK /\ Indented /\ OpenInv /\ NodesInv /\ BlocksInv /\ PlacesInv
      /\ NamesInv /\ ErrorsInv
  BY DEF IInv
<1>2. ASSUME Next PROVE Indented'
  BY <1>1, <1>2, IndentedStays
<1>3. CASE NameStatement \/ Jump \/ BlockStatement \/ ScopeStatement \/ RuledStatement
  <2>1. PICK x \in Statements, ms \in Seq(Texts) : Visiting(x, ms) /\ VisitOf(x, ms)
    BY <1>1, <1>3, Visits
  <2>2. TypeOK'
    BY <1>1, <2>1, VisitTyped
  <2>3. OpenInv'
    BY <1>1, <2>1, VisitOpen
  <2>4. NodesInv'
    BY <1>1, <2>1, VisitNodes
  <2>5. BlocksInv'
    BY <1>1, <2>1, VisitBlocks
  <2>6. PlacesInv'
    BY <1>1, <2>1, VisitPlaces
  <2>7. NamesInv'
    BY <1>1, <2>1, VisitNames
  <2>8. ErrorsInv'
    BY <1>1, <2>1, VisitNameErrors
  <2> QED
    BY <1>2, <1>3, <2>2, <2>3, <2>4, <2>5, <2>6, <2>7, <2>8 DEF IInv, Next
<1>4. CASE ElseClause
  <2>1. TypeOK'
    BY <1>1, <1>4, ElseTyped
  <2>2. OpenInv' /\ PlacesInv'
    BY <1>1, <1>4, ElseOpen, ElsePlaces
  <2>3. NodesInv'
    BY <1>1, <1>4, ElseNodes
  <2>4. BlocksInv'
    BY <1>1, <1>4, ElseBlocks
  <2>5. NamesInv'
    BY <1>1, <1>4, ElseNames
  <2>6. ErrorsInv'
    BY <1>1, <1>4, ElseNameErrors
  <2> QED
    BY <1>2, <1>4, <2>1, <2>2, <2>3, <2>4, <2>5, <2>6 DEF IInv, Next
<1>5. CASE LeaveStatement
  <2>1. program[Last(open)].kind \in Scopes => Len(contexts) > 1
    BY <1>1, <1>5, LeftScope
  <2>2. TypeOK'
    BY <1>1, <1>5, <2>1, LeaveTyped
  <2>3. OpenInv'
    BY <1>1, <1>5, LeaveOpen
  <2>4. NodesInv'
    BY <1>1, <1>5, LeaveNodes
  <2>5. BlocksInv'
    BY <1>1, <1>5, LeaveBlocks
  <2>6. PlacesInv'
    BY <1>1, <1>5, RestPlaces
  <2>7. NamesInv'
    BY <1>1, <1>5, LeaveNames
  <2>8. ErrorsInv'
    BY <1>1, <1>5, LeaveNameErrors
  <2> QED
    BY <1>2, <1>5, <2>2, <2>3, <2>4, <2>5, <2>6, <2>7, <2>8 DEF IInv, Next
<1>6. CASE UnexpectedIndent \/ Finish
  <2>1. TypeOK'
    BY <1>1, <1>6, IndentTyped, FinishTyped
  <2>2. OpenInv'
    BY <1>1, <1>6, RestOpen
  <2>3. NodesInv'
    BY <1>1, <1>6, RestNodes
  <2>4. BlocksInv'
    BY <1>1, <1>6, RestBlocks
  <2>5. PlacesInv'
    BY <1>1, <1>6, RestPlaces
  <2>6. NamesInv'
    BY <1>1, <1>6, RestNames
  <2>7. ErrorsInv'
    <3>1. CASE UnexpectedIndent
      BY <3>1 DEF UnexpectedIndent, ErrorsInv
    <3>2. CASE Finish
      BY <1>1, <3>2, LeaveNameErrors
    <3> QED
      BY <1>6, <3>1, <3>2
  <2> QED
    BY <1>2, <1>6, <2>1, <2>2, <2>3, <2>4, <2>5, <2>6, <2>7 DEF IInv, Next
<1>7. CASE UNCHANGED vars
  BY <1>7, Stutter
<1> QED
  BY <1>3, <1>4, <1>5, <1>6, <1>7 DEF Next

\* The walk keeps its stacks, its lists of names and its errors as the invariant says.
THEOREM WalkInvariant == Spec => []IInv
<1>1. Init => IInv
  BY IInit
<1>2. IInv /\ [Next]_vars => IInv'
  BY INext
<1> QED
  BY <1>1, <1>2, PTL DEF Spec

\* The variables have their types: the statements of the program, the contexts below
\* each other, and messages at lines.
THEOREM WalkTypes == Spec => []TypeOK
<1>1. IInv => TypeOK
  BY DEF IInv
<1> QED
  BY <1>1, WalkInvariant, PTL

\* What is said of the place of a statement is what the levels of the lines say,
\* however many statements, blocks and scopes there are: the context that the walk
\* asks for its blocks and its node is that of the innermost scope, also when a
\* scope inside has been left.
THEOREM PlacesAreDecided == Spec => []PlacesDecided
<1>1. IInv => PlacesDecided
  BY DEF IInv, PlacesInv, PlacesDecided
<1> QED
  BY <1>1, WalkInvariant, PTL

-----------------------------------------------------------------------------
(* What is wrong with declarations, in terms of the contexts.                *)

\* What the definitions for reference say, with strings in brackets kept in sets.
LEMMA LinesAre ==
  ASSUME NEW s, NEW kinds, NEW i
  PROVE  i \in Lines(s, kinds) <=> i \in DOMAIN program /\ program[i].kind \in kinds /\ ScopeOf(i) = s
BY DEF Lines

\* The functions named x.
NamedX == {"def x()"}

LEMMA BindsAre ==
  ASSUME NEW f
  PROVE  Binds(f) <=> /\ program[f].kind \in WithParameter \/ Lines(f, Bindings \cup NamedX) # {}
                      /\ Lines(f, Declarations) = {}
BY Zenon DEF Binds, WithParameter, NamedX

LEMMA RefusedAre ==
  ASSUME NEW i
  PROVE  RefusedNevertheless(i) <=>
           \/ ScopeOf(i) = 0 /\ Lines(0, {"annotate"}) # {}
           \/ \E s \in Outside(i) : \/ Lines(s, NamedX) # {}
                                    \/ ~IsFunction(s) /\ Lines(s, {"global"}) # {}
BY Zenon DEF RefusedNevertheless, NamedX

LEMMA PriorUseAre ==
  ASSUME NEW i
  PROVE  PriorUse(i) <=> \E j \in Lines(ScopeOf(i), Occurrences \cup NamedX) : j < i
BY Zenon DEF PriorUse, NamedX

LEMMA SeenAre ==
  ASSUME NEW i
  PROVE  /\ SeenUse(i) =>
              /\ \E j \in Lines(ScopeOf(i), Occurrences) : j < i
              /\ \A j \in Lines(ScopeOf(i), Occurrences) \cup Lines(ScopeOf(i), WithParameter) : j < i
         /\ SeenUnbound(i) =>
              /\ program[i].kind = "nonlocal"
              /\ \A f \in Enclosing(i) : Lines(f, Occurrences) = {}
              /\ \A s \in Outside(i) \cup {0} : Lines(s, WithParameter) = {}
BY Zenon DEF SeenUse, SeenUnbound, WithParameter

\* What names are used as, and where.
LEMMA UsesTyped ==
  ASSUME NEW s, NEW u \in Uses(s)
  PROVE  /\ u.at \in DOMAIN program /\ ScopeOf(u.at) = s
         /\ \/ u.what = "param" /\ u.at \in Lines(s, WithParameter)
            \/ u.what # "param" /\ u.what = program[u.at].kind /\ u.at \in Lines(s, Occurrences)
<1>1. \/ \E i \in Lines(s, Occurrences) : u = [what |-> program[i].kind, at |-> i]
      \/ \E i \in Lines(s, WithParameter) : u = [what |-> "param", at |-> i]
  BY UsesAre
<1>2. ASSUME NEW i \in Lines(s, Occurrences), u = [what |-> program[i].kind, at |-> i]
      PROVE  /\ u.at \in DOMAIN program /\ ScopeOf(u.at) = s
             /\ u.what # "param" /\ u.what = program[u.at].kind /\ u.at \in Lines(s, Occurrences)
  <2>1. i \in DOMAIN program /\ ScopeOf(i) = s /\ program[i].kind \in Occurrences
    BY LinesAre
  <2>2. program[i].kind # "param"
    BY <2>1 DEF Occurrences
  <2> QED
    BY <1>2, <2>1, <2>2
<1>3. ASSUME NEW i \in Lines(s, WithParameter), u = [what |-> "param", at |-> i]
      PROVE  /\ u.at \in DOMAIN program /\ ScopeOf(u.at) = s
             /\ u.what = "param" /\ u.at \in Lines(s, WithParameter)
  <2>1. i \in DOMAIN program /\ ScopeOf(i) = s
    BY LinesAre
  <2> QED
    BY <1>3, <2>1
<1> QED
  BY <1>1, <1>2, <1>3

\* A declaration is analyzed in the context of its scope.
LEMMA AnalyzedAre ==
  ASSUME NEW s, NEW d, NEW C, C = ContextOf(s)
  PROVE  Analyzed(C, d) # {} <=>
           \/ HasParameter(s)
           \/ \E u \in Uses(s) : u.what # "param" /\ ((\E v \in Uses(s) : v.at > d) => u.what = "annotate")
<1>1. C.used = Uses(s) /\ C.node = s
  BY DEF ContextOf
<1> DEFINE found == \E n \in C.used : n.at > d
           wrong == {n \in C.used : n.what # "param" /\ (found => n.what = "annotate")}
           at == IF found /\ wrong # {} THEN MaxOf({n.at : n \in wrong}) ELSE d
<1>2. Analyzed(C, d) = IF wrong = {} /\ ~HasParameter(C.node) THEN {} ELSE {at}
  BY Zenon DEF Analyzed
<1>3. wrong # {} <=>
        \E u \in Uses(s) : u.what # "param" /\ ((\E v \in Uses(s) : v.at > d) => u.what = "annotate")
  BY <1>1
<1> HIDE DEF at, wrong, found
<1>4. Analyzed(C, d) # {} <=> wrong # {} \/ HasParameter(s)
  BY <1>1, <1>2
<1> QED
  BY <1>3, <1>4

\* Its error is in one of its lines.
LEMMA AnalyzedIn ==
  ASSUME TypeOK, NEW s, NEW d \in Lines(s, Declarations), NEW C, C = ContextOf(s), NEW e \in Analyzed(C, d)
  PROVE  e \in ErrorLines(d)
<1>1. d \in DOMAIN program /\ ScopeOf(d) = s
  BY LinesAre
<1>2. Len(program) \in Nat /\ DOMAIN program = 1 .. Len(program)
  BY DEF TypeOK
<1>3. C.used = Uses(s)
  BY DEF ContextOf
<1>4. \A u \in C.used : u.at \in 1 .. Len(program)
  BY <1>2, <1>3, UsesTyped
<1>5. e = d \/ \E u \in C.used : u.what = "annotate" /\ u.at = e
  BY <1>1, <1>2, <1>4, AnalyzedAt
<1>6. CASE e = d
  BY <1>6 DEF ErrorLines
<1>7. CASE \E u \in C.used : u.what = "annotate" /\ u.at = e
  <2>1. PICK u \in Uses(s) : u.what = "annotate" /\ u.at = e
    BY <1>3, <1>7
  <2>2. e \in DOMAIN program /\ ScopeOf(e) = s /\ program[e].kind = "annotate"
    BY <2>1, UsesTyped
  <2>3. e \in Lines(s, {"annotate"} \cup Declarations)
    BY <2>2, LinesAre
  <2> QED
    BY <1>1, <2>3 DEF ErrorLines
<1> QED
  BY <1>5, <1>6, <1>7

\* Both declarations of a name are found, at one of them.
LEMMA BothAre ==
  ASSUME TypeOK, NEW s, NEW C, C = ContextOf(s)
  PROVE  /\ Both(C) # {} <=> Lines(s, {"global"}) # {} /\ Lines(s, {"nonlocal"}) # {}
         /\ Both(C) \subseteq Lines(s, Declarations)
<1>1. C.globals = Lines(s, {"global"}) /\ C.nonlocals = Lines(s, {"nonlocal"})
  BY DEF ContextOf
<1>2. Lines(s, {"global"}) \cup Lines(s, {"nonlocal"}) \subseteq Lines(s, Declarations)
  BY LinesAre DEF Declarations
<1>3. CASE Lines(s, {"global"}) = {}
  BY <1>1, <1>3 DEF Both
<1>4. CASE Lines(s, {"global"}) # {}
  <2> DEFINE S == Lines(s, {"global"})
             g == MaxOf(S)
  <2>1. S \in SUBSET (0 .. Len(program)) /\ S # {} /\ Len(program) \in Nat
    <3>1. \A i \in S : i \in DOMAIN program
      BY LinesAre
    <3>2. Len(program) \in Nat /\ DOMAIN program = 1 .. Len(program)
      BY DEF TypeOK
    <3> HIDE DEF S
    <3>3. \A i \in S : i \in 0 .. Len(program)
      BY <3>1, <3>2
    <3>4. S # {}
      BY <1>4 DEF S
    <3> QED
      BY <3>2, <3>3, <3>4
  <2> HIDE DEF S
  <2>2. g \in S
    BY <2>1, MaxExists
  <2> HIDE DEF g
  <2>3. Both(C) = {IF g < n THEN g ELSE n : n \in C.nonlocals}
    BY <1>1, <2>1, Zenon DEF Both, S, g
  <2>4. g \in Lines(s, Declarations)
    BY <1>2, <2>2 DEF S
  <2> QED
    BY <1>1, <1>2, <1>4, <2>3, <2>4
<1> QED
  BY <1>3, <1>4

\* What finalize finds in the context of a scope.
LEMMA FinalizeAre ==
  ASSUME NEW s, NEW C, C = ContextOf(s), NEW e
  PROVE  e \in FinalizeIssues(C) <=>
           \/ \E d \in Lines(s, Declarations) : e \in Analyzed(C, d)
           \/ e \in Both(C)
           \/ /\ Lines(s, WithParameter) = {} /\ (Lines(s, {"global"}) # {} \/ s = 0)
              /\ e \in Arriving(s)
<1>1. /\ C.globals = Lines(s, {"global"}) /\ C.nonlocals = Lines(s, {"nonlocal"})
      /\ C.subscopes = Arriving(s) /\ C.node = s /\ (C.params <=> Lines(s, WithParameter) # {})
  BY DEF ContextOf
<1>2. HasNoBinding(C) <=> Lines(s, WithParameter) = {} /\ (Lines(s, {"global"}) # {} \/ s = 0)
  BY <1>1, Zenon DEF HasNoBinding
<1>3. \A d : d \in C.globals \cup C.nonlocals <=> d \in Lines(s, Declarations)
  BY <1>1, LinesAre DEF Declarations
<1>4. e \in UNION {Analyzed(C, d) : d \in C.globals \cup C.nonlocals}
        <=> \E d \in C.globals \cup C.nonlocals : e \in Analyzed(C, d)
  BY Zenon
<1> DEFINE names == UNION {Analyzed(C, d) : d \in C.globals \cup C.nonlocals}
           unbound == IF HasNoBinding(C) THEN C.subscopes ELSE {}
<1>5. FinalizeIssues(C) = names \cup Both(C) \cup unbound
  BY Zenon DEF FinalizeIssues
<1>6. e \in unbound <=>
        /\ Lines(s, WithParameter) = {} /\ (Lines(s, {"global"}) # {} \/ s = 0)
        /\ e \in Arriving(s)
  BY <1>1, <1>2
<1> HIDE DEF names, unbound
<1>7. e \in FinalizeIssues(C) <=> e \in names \/ e \in Both(C) \/ e \in unbound
  BY <1>5
<1>8. e \in names <=> \E d \in Lines(s, Declarations) : e \in Analyzed(C, d)
  BY <1>3, <1>4 DEF names
<1> QED
  BY <1>6, <1>7, <1>8

\* When the walk is over all scopes are closed.
LEMMA AllClosed ==
  ASSUME TypeOK, OpenInv, finished
  PROVE  /\ 0 \in Closed /\ \A s \in DOMAIN program : program[s].kind \in Scopes => s \in Closed
         /\ \A s \in Closed : s = 0 \/ (s \in DOMAIN program /\ program[s].kind \in Scopes)
         /\ \A i \in DOMAIN program : ScopeOf(i) \in Closed /\ \A s \in ScopesAround(i) : s \in Closed
<1>1. OpenScopes = {}
  BY DEF OpenInv, OpenScopes
<1>2. \A s : s \in Closed <=> s = 0 \/ (s \in DOMAIN program /\ program[s].kind \in Scopes)
  BY <1>1, ClosedAre
<1>3. ASSUME NEW i \in DOMAIN program
      PROVE  ScopeOf(i) \in {0} \cup ScopesAround(i) /\ ScopesAround(i) \subseteq DOMAIN program
  BY ScopeIsAround DEF TypeOK
<1>4. \A i : \A s \in ScopesAround(i) : program[s].kind \in Scopes
  BY DEF ScopesAround
<1> QED
  BY <1>2, <1>3, <1>4

-----------------------------------------------------------------------------
(* Only wrong declarations are reported.                                     *)

\* A declaration that is analyzed is used before, annotated, or a parameter.
LEMMA AnalyzedWrong ==
  ASSUME TypeOK, NEW s, NEW d \in Lines(s, Declarations), NEW C, C = ContextOf(s), Analyzed(C, d) # {}
  PROVE  PriorUse(d) \/ Annotated(d) \/ IsParameter(d) \/ RefusedNevertheless(d)
<1>1. d \in DOMAIN program /\ ScopeOf(d) = s /\ program[d].kind \in Declarations
  BY LinesAre
<1>2. CASE HasParameter(s)
  BY <1>1, <1>2 DEF IsParameter
<1>3. ASSUME NEW u \in Uses(s), u.what # "param", (\E v \in Uses(s) : v.at > d) => u.what = "annotate"
      PROVE  PriorUse(d) \/ Annotated(d) \/ RefusedNevertheless(d)
  <2>1. u.at \in Lines(s, Occurrences) /\ u.what = program[u.at].kind
    BY <1>3, UsesTyped
  <2>2. CASE u.what = "annotate"
    <3>1. Lines(s, {"annotate"}) # {}
      BY <2>1, <2>2, LinesAre
    <3>2. s # 0 => Annotated(d)
      BY <1>1, <3>1 DEF Annotated
    <3>3. s = 0 => RefusedNevertheless(d)
      BY <1>1, <3>1, RefusedAre
    <3> QED
      BY <3>2, <3>3
  <2>3. CASE u.what # "annotate"
    <3>1. ~(u.at > d)
      BY <1>3, <2>3
    <3>2. u.at # d
      <4>1. program[u.at].kind \in Occurrences
        BY <2>1, LinesAre
      <4> QED
        BY <1>1, <4>1 DEF Occurrences, Declarations
    <3>3. u.at \in Nat /\ d \in Nat
      BY <1>1, <2>1, LinesAre DEF TypeOK
    <3>4. u.at < d
      BY <3>1, <3>2, <3>3
    <3>5. u.at \in Lines(s, Occurrences \cup NamedX)
      BY <2>1, LinesAre
    <3> QED
      BY <1>1, <3>4, <3>5, PriorUseAre
  <2> QED
    BY <2>2, <2>3
<1> QED
  BY <1>2, <1>3, AnalyzedAre

\* A nonlocal name that comes to a scope where it has no binding has none, or is one of
\* those that are refused nevertheless.
LEMMA ArrivingWrong ==
  ASSUME TypeOK, NEW s, NEW e \in Arriving(s),
         Lines(s, WithParameter) = {}, Lines(s, {"global"}) # {} \/ s = 0
  PROVE  Unbound(e) \/ RefusedNevertheless(e)
<1> SUFFICES ASSUME ~RefusedNevertheless(e) PROVE Unbound(e)
  OBVIOUS
<1>1. /\ e \in DOMAIN program /\ program[e].kind = "nonlocal" /\ ScopeOf(e) # s
      /\ s \in {0} \cup ScopesAround(e)
      /\ \A g \in Outside(e) : g > s => ~Stops(g)
  BY ArrivingAre
<1>2. \A k \in Outside(e) : /\ Lines(k, NamedX) = {}
                            /\ ~IsFunction(k) => Lines(k, {"global"}) = {}
  BY RefusedAre
<1>3. /\ program \in Seq(Statements) /\ DOMAIN program \subseteq Nat \ {0}
      /\ \A g \in ScopesAround(e) : g \in DOMAIN program /\ g < e /\ g <= ScopeOf(e)
  BY <1>1, ScopeIsAround DEF TypeOK
<1>4. s \in Nat
  BY <1>1, <1>3
<1>5. ASSUME NEW f \in Enclosing(e), Binds(f)
      PROVE  \E g \in Enclosing(e) : g > f /\ Lines(g, {"global"}) # {}
  <2>1. f \in Outside(e) /\ f \in ScopesAround(e) /\ f # ScopeOf(e) /\ IsFunction(f) /\ f \in Nat \ {0}
    BY <1>3 DEF Enclosing, Outside
  <2>2. /\ program[f].kind \in WithParameter \/ Lines(f, Bindings \cup NamedX) # {}
        /\ Lines(f, Declarations) = {}
    BY <1>5, BindsAre
  <2>3. Lines(f, {"global"}) = {}
    BY <2>2, LinesAre DEF Declarations
  <2>4. CASE f > s
    <3>1. ~Stops(f)
      BY <1>1, <2>1, <2>4
    <3>2. Uses(f) = {}
      BY <2>1, <3>1 DEF Stops
    <3>3. Lines(f, Bindings \cup NamedX) = {}
      <4> SUFFICES ASSUME NEW j \in Lines(f, Bindings \cup NamedX) PROVE FALSE
        OBVIOUS
      <4>1. j \in Lines(f, Bindings) \/ j \in Lines(f, NamedX)
        BY LinesAre
      <4>2. j \in Lines(f, Occurrences)
        BY <1>2, <2>1, <4>1, LinesAre DEF Bindings, Occurrences
      <4> QED
        BY <3>2, <4>2, UsesAre
    <3>4. program[f].kind \in WithParameter
      BY <2>2, <3>3
    <3> DEFINE p == ScopeOf(f)
    <3>5. f \in Lines(p, WithParameter)
      BY <1>3, <2>1, <3>4, LinesAre
    <3>6. /\ p \in {0} \cup ScopesAround(f) /\ \A k \in ScopesAround(f) : k <= p /\ k < f
          /\ ScopesAround(f) = {g \in ScopesAround(e) : g < f}
      BY <1>1, <1>3, <2>1, ScopeIsAround, ScopesOfScope
    <3> HIDE DEF p
    <3>7. p \in Nat
      BY <1>3, <3>6
    <3>8. CASE p > s
      <4>1. p \in ScopesAround(e) /\ p < f
        BY <1>4, <3>6, <3>7, <3>8
      <4>2. p # ScopeOf(e)
        <5>1. f <= ScopeOf(e) /\ f \in Nat
          BY <1>3, <2>1
        <5>2. ScopeOf(e) \in Nat
          BY <1>1, <1>3, ScopeIsAround
        <5> QED
          BY <3>7, <4>1, <5>1, <5>2
      <4>3. ~Stops(p)
        BY <1>1, <3>8, <4>1, <4>2 DEF Outside
      <4> QED
        BY <3>5, <4>3 DEF Stops
    <3>9. CASE p = s
      BY <3>5, <3>9
    <3>10. CASE p < s
      <4>1. s # 0
        BY <3>7, <3>10
      <4>2. s \in ScopesAround(f)
        BY <1>1, <1>4, <2>1, <2>4, <3>6, <4>1
      <4> QED
        BY <1>4, <3>6, <3>7, <3>10, <4>2
    <3> QED
      BY <1>4, <3>7, <3>8, <3>9, <3>10
  <2>5. CASE f = s
    BY <2>1, <2>3, <2>5
  <2>6. CASE f < s
    <3>1. s # 0 /\ s \in ScopesAround(e) /\ Lines(s, {"global"}) # {}
      BY <1>1, <1>4, <2>1, <2>6
    <3>2. s \in Outside(e)
      BY <1>1, <3>1 DEF Outside
    <3>3. s \in Enclosing(e)
      BY <1>2, <3>1, <3>2 DEF Enclosing
    <3>4. s > f
      BY <1>4, <2>1, <2>6
    <3> QED
      BY <3>1, <3>3, <3>4
  <2> QED
    BY <1>4, <2>1, <2>4, <2>5, <2>6
<1> QED
  BY <1>1, <1>5 DEF Unbound

\* An error of names is one of a declaration that is wrong, at a line where it may be.
LEMMA FoundWrong ==
  ASSUME TypeOK, OpenInv, finished, NEW e \in NameErrors
  PROVE  \E i \in DOMAIN program :
           /\ program[i].kind \in Declarations /\ e \in ErrorLines(i)
           /\ Wrong(i) \/ RefusedNevertheless(i)
<1>1. CASE e \in DOMAIN program /\ program[e].kind = "nonlocal" /\ ScopeOf(e) = 0
  <2>1. ScopesAround(e) = {}
    BY <1>1, ScopeIsAround DEF TypeOK
  <2>2. Enclosing(e) = {}
    BY <2>1 DEF Enclosing, Outside
  <2>3. Unbound(e)
    BY <1>1, <2>2 DEF Unbound
  <2>4. program[e].kind \in Declarations /\ e \in ErrorLines(e)
    BY <1>1 DEF Declarations, ErrorLines
  <2> QED
    BY <1>1, <2>3, <2>4 DEF Wrong
<1>2. ASSUME NEW s \in Closed, e \in FinalizeIssues(ContextOf(s))
      PROVE  \E i \in DOMAIN program :
               /\ program[i].kind \in Declarations /\ e \in ErrorLines(i)
               /\ Wrong(i) \/ RefusedNevertheless(i)
  <2>1. PICK C : C = ContextOf(s)
    OBVIOUS
  <2>2. \/ \E d \in Lines(s, Declarations) : e \in Analyzed(C, d)
        \/ e \in Both(C)
        \/ /\ Lines(s, WithParameter) = {} /\ (Lines(s, {"global"}) # {} \/ s = 0)
           /\ e \in Arriving(s)
    BY <1>2, <2>1, FinalizeAre
  <2>3. ASSUME NEW d \in Lines(s, Declarations), e \in Analyzed(C, d)
        PROVE  \E i \in DOMAIN program :
                 /\ program[i].kind \in Declarations /\ e \in ErrorLines(i)
                 /\ Wrong(i) \/ RefusedNevertheless(i)
    <3>1. d \in DOMAIN program /\ program[d].kind \in Declarations
      BY LinesAre
    <3>2. e \in ErrorLines(d)
      BY <2>1, <2>3, AnalyzedIn
    <3>3. PriorUse(d) \/ Annotated(d) \/ IsParameter(d) \/ RefusedNevertheless(d)
      BY <2>1, <2>3, AnalyzedWrong
    <3> QED
      BY <3>1, <3>2, <3>3 DEF Wrong
  <2>4. CASE e \in Both(C)
    <3>1. Lines(s, {"global"}) # {} /\ Lines(s, {"nonlocal"}) # {} /\ e \in Lines(s, Declarations)
      BY <2>1, <2>4, BothAre
    <3>2. e \in DOMAIN program /\ program[e].kind \in Declarations /\ ScopeOf(e) = s
      BY <3>1, LinesAre
    <3>3. DeclaredTwice(e)
      BY <3>1, <3>2 DEF DeclaredTwice, Declarations
    <3>4. e \in ErrorLines(e)
      BY DEF ErrorLines
    <3> QED
      BY <3>2, <3>3, <3>4 DEF Wrong
  <2>5. CASE /\ Lines(s, WithParameter) = {} /\ (Lines(s, {"global"}) # {} \/ s = 0)
             /\ e \in Arriving(s)
    <3>1. e \in DOMAIN program /\ program[e].kind = "nonlocal"
      BY <2>5, ArrivingAre
    <3>2. Unbound(e) \/ RefusedNevertheless(e)
      BY <2>5, ArrivingWrong
    <3>3. program[e].kind \in Declarations /\ e \in ErrorLines(e)
      BY <3>1 DEF Declarations, ErrorLines
    <3> QED
      BY <3>1, <3>2, <3>3 DEF Wrong
  <2> QED
    BY <2>2, <2>3, <2>4, <2>5
<1> QED
  BY <1>1, <1>2, NameErrorsAre

\* An error is never said of a declaration that is right, of names in whatever scopes:
\* every line with an error is out of its place, or has a declaration that Python
\* refuses, or one of those that the finder refuses nevertheless.
THEOREM OnlyWrongDeclarationsFound == Spec => []OnlyWrongDeclarations
<1>1. IInv => OnlyWrongDeclarations
  <2> SUFFICES ASSUME IInv, finished, head = <<>>, ~Alone, NEW line \in DOMAIN errors
               PROVE  \/ PlaceErrors(line) # <<>>
                      \/ \E i \in DOMAIN program :
                           /\ program[i].kind \in Declarations /\ line \in ErrorLines(i)
                           /\ Wrong(i) \/ RefusedNevertheless(i)
    BY DEF OnlyWrongDeclarations
  <2>1. TypeOK /\ OpenInv
    BY DEF IInv
  <2>2. line \in NameErrors \/ PlaceErrors(line) # <<>>
    BY DEF IInv, ErrorsInv
  <2> QED
    BY <2>1, <2>2, FoundWrong
<1> QED
  BY <1>1, WalkInvariant, PTL

\* A declaration in a scope that is analyzed has its error in one of its lines.
LEMMA AnalyzedReported ==
  ASSUME TypeOK, OpenInv, finished, NameErrors \subseteq DOMAIN errors,
         NEW i \in DOMAIN program, program[i].kind \in Declarations,
         NEW s, s = ScopeOf(i), NEW C, C = ContextOf(s),
         Analyzed(C, i) # {} \/ Both(C) # {}
  PROVE  Reported(i)
<1>1. s \in Closed /\ i \in Lines(s, Declarations)
  BY AllClosed, LinesAre
<1>2. ASSUME NEW e \in ErrorLines(i), e \in FinalizeIssues(C) PROVE Reported(i)
  <2>1. e \in NameErrors
    BY <1>1, <1>2, NameErrorsAre
  <2> QED
    BY <1>2, <2>1 DEF Reported
<1>3. CASE Analyzed(C, i) # {}
  <2>1. PICK e : e \in Analyzed(C, i)
    BY <1>3
  <2>2. e \in ErrorLines(i)
    BY <1>1, <2>1, AnalyzedIn
  <2>3. e \in FinalizeIssues(C)
    BY <1>1, <2>1, FinalizeAre
  <2> QED
    BY <1>2, <2>2, <2>3
<1>4. CASE Both(C) # {}
  <2>1. PICK e : e \in Both(C)
    BY <1>4
  <2>2. e \in Lines(s, Declarations)
    BY <2>1, BothAre
  <2>3. e \in ErrorLines(i)
    BY <2>2, LinesAre DEF ErrorLines
  <2>4. e \in FinalizeIssues(C)
    BY <2>1, FinalizeAre
  <2> QED
    BY <1>2, <2>3, <2>4
<1> QED
  BY <1>3, <1>4

\* A nonlocal name that nothing around could bind is reported in its own line: it is
\* handed on until a scope that declares it global, or the module.
LEMMA UnboundReported ==
  ASSUME TypeOK, OpenInv, finished, NameErrors \subseteq DOMAIN errors,
         NEW i \in DOMAIN program, SeenUnbound(i)
  PROVE  Reported(i)
<1>1. /\ program[i].kind = "nonlocal"
      /\ \A f \in Enclosing(i) : Lines(f, Occurrences) = {}
      /\ \A s \in Outside(i) \cup {0} : Lines(s, WithParameter) = {}
  BY SeenAre
<1>2. /\ program \in Seq(Statements) /\ Len(program) \in Nat /\ DOMAIN program = 1 .. Len(program)
      /\ \A g \in ScopesAround(i) : g \in DOMAIN program
  BY ScopeIsAround DEF TypeOK
<1>3. i \in NameErrors
  <2>1. CASE ScopeOf(i) = 0
    BY <1>1, <2>1, NameErrorsAre
  <2>2. CASE ScopeOf(i) # 0
    <3> DEFINE S == {0} \cup {g \in Outside(i) : Lines(g, {"global"}) # {}}
               m == MaxOf(S)
    <3>1. S \in SUBSET (0 .. Len(program)) /\ S # {}
      <4>1. \A g \in Outside(i) : g \in 0 .. Len(program)
        BY <1>2 DEF Outside
      <4> QED
        BY <1>2, <4>1
    <3>2. \A g : g \in S <=> g = 0 \/ (g \in Outside(i) /\ Lines(g, {"global"}) # {})
      OBVIOUS
    <3> HIDE DEF S
    <3>3. m \in S /\ \A k \in S : k <= m
      BY <1>2, <3>1, MaxExists
    <3> HIDE DEF m
    <3>4. m \in Nat
      <4>1. m \in 0 .. Len(program)
        BY <3>1, <3>3
      <4> QED
        BY <1>2, <4>1
    <3>5. m = 0 \/ (m \in Outside(i) /\ Lines(m, {"global"}) # {})
      BY <3>2, <3>3
    <3>6. Lines(m, WithParameter) = {}
      BY <1>1, <3>5
    <3>7. ASSUME NEW k \in Outside(i), k > m PROVE ~Stops(k)
      <4>1. Lines(k, WithParameter) = {}
        BY <1>1
      <4>2. Lines(k, {"global"}) = {}
        <5>1. k \in Nat
          BY <1>2 DEF Outside
        <5>2. k \notin S
          BY <3>3, <3>4, <3>7, <5>1
        <5> QED
          BY <3>2, <5>2
      <4>3. IsFunction(k) => Uses(k) = {}
        <5> SUFFICES ASSUME IsFunction(k) PROVE Uses(k) = {}
          OBVIOUS
        <5>1. Lines(k, Occurrences) = {}
          BY <1>1 DEF Enclosing
        <5> QED
          BY <4>1, <5>1, UsesAre
      <4> QED
        BY <4>1, <4>2, <4>3 DEF Stops
    <3>8. ScopeOf(i) # m /\ m \in {0} \cup ScopesAround(i)
      BY <2>2, <3>5 DEF Outside
    <3>9. i \in Arriving(m)
      BY <1>1, <3>7, <3>8, ArrivingAre
    <3>10. m \in Closed
      BY <3>8, AllClosed
    <3>11. i \in FinalizeIssues(ContextOf(m))
      BY <3>5, <3>6, <3>9, FinalizeAre
    <3> QED
      BY <3>10, <3>11, NameErrorsAre
  <2> QED
    BY <2>1, <2>2
<1>4. i \in ErrorLines(i)
  BY DEF ErrorLines
<1> QED
  BY <1>3, <1>4 DEF Reported

\* A declaration that is wrong in a way that the finder sees has an error, with any
\* number of scopes between it and the one where it is decided.
THEOREM SeenDeclarationsAreReported == Spec => []SeenDeclarationsReported
<1>1. IInv => SeenDeclarationsReported
  <2> SUFFICES ASSUME IInv, finished, NEW i \in DOMAIN program, Seen(i) PROVE Reported(i)
    BY DEF SeenDeclarationsReported
  <2>1. /\ TypeOK /\ OpenInv /\ program[i].kind \in Declarations
        /\ SeenUse(i) \/ Annotated(i) \/ IsParameter(i) \/ DeclaredTwice(i) \/ SeenUnbound(i)
    BY DEF IInv, Seen
  <2>2. head = <<>>
    <3> SUFFICES ASSUME head # <<>> PROVE FALSE
      OBVIOUS
    <3>1. program[i].kind = "indented"
      BY DEF IInv, Indented
    <3> QED
      BY <2>1, <3>1 DEF Declarations
  <2>3. NameErrors \subseteq DOMAIN errors
    BY <2>2 DEF IInv, ErrorsInv
  <2>4. PICK s : s = ScopeOf(i)
    OBVIOUS
  <2>5. PICK C : C = ContextOf(s)
    OBVIOUS
  <2>6. CASE SeenUse(i)
    <3>1. /\ \E j \in Lines(s, Occurrences) : j < i
          /\ \A j \in Lines(s, Occurrences) \cup Lines(s, WithParameter) : j < i
      BY <2>4, <2>6, SeenAre
    <3>2. PICK j \in Lines(s, Occurrences) : j < i
      BY <3>1
    <3>3. PICK u : u = [what |-> program[j].kind, at |-> j]
      OBVIOUS
    <3>4. u \in Uses(s) /\ u.what # "param"
      <4>1. program[j].kind \in Occurrences
        BY LinesAre
      <4> QED
        BY <3>3, <4>1, UsesAre DEF Occurrences
    <3>5. ~\E v \in Uses(s) : v.at > i
      <4> SUFFICES ASSUME NEW v \in Uses(s), v.at > i PROVE FALSE
        OBVIOUS
      <4>1. v.at \in Lines(s, Occurrences) \cup Lines(s, WithParameter) /\ v.at \in DOMAIN program
        BY UsesTyped
      <4>2. v.at < i /\ v.at \in Nat /\ i \in Nat
        BY <2>1, <3>1, <4>1 DEF TypeOK
      <4> QED
        BY <4>2
    <3>6. Analyzed(C, i) # {}
      BY <2>5, <3>4, <3>5, AnalyzedAre
    <3> QED
      BY <2>1, <2>3, <2>4, <2>5, <3>6, AnalyzedReported
  <2>7. CASE Annotated(i)
    <3>1. PICK j \in Lines(s, {"annotate"}) : TRUE
      BY <2>4, <2>7 DEF Annotated
    <3>2. j \in Lines(s, Occurrences) /\ program[j].kind = "annotate"
      BY LinesAre DEF Occurrences
    <3>3. PICK u : u = [what |-> program[j].kind, at |-> j]
      OBVIOUS
    <3>4. u \in Uses(s) /\ u.what = "annotate"
      BY <3>2, <3>3, UsesAre
    <3>5. Analyzed(C, i) # {}
      BY <2>5, <3>4, AnalyzedAre
    <3> QED
      BY <2>1, <2>3, <2>4, <2>5, <3>5, AnalyzedReported
  <2>8. CASE IsParameter(i)
    <3>1. Analyzed(C, i) # {}
      BY <2>4, <2>5, <2>8, AnalyzedAre DEF IsParameter
    <3> QED
      BY <2>1, <2>3, <2>4, <2>5, <3>1, AnalyzedReported
  <2>9. CASE DeclaredTwice(i)
    <3>1. Lines(s, {"global"}) # {} /\ Lines(s, {"nonlocal"}) # {}
      BY <2>4, <2>9 DEF DeclaredTwice, Declarations
    <3>2. Both(C) # {}
      BY <2>1, <2>5, <3>1, BothAre
    <3> QED
      BY <2>1, <2>3, <2>4, <2>5, <3>2, AnalyzedReported
  <2>10. CASE SeenUnbound(i)
    BY <2>1, <2>3, <2>10, UnboundReported
  <2> QED
    BY <2>1, <2>6, <2>7, <2>8, <2>9, <2>10
<1> QED
  BY <1>1, WalkInvariant, PTL
=============================================================================
