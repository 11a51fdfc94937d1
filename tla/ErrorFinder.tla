----------------------------- MODULE ErrorFinder -----------------------------
(***************************************************************************)
(* The walk of the error finder (python/errors.py, normalizer.py) over a    *)
(* tree, statement by statement, with the scopes it keeps for the names     *)
(* that are declared global or nonlocal.  The program is written while it   *)
(* is walked, one statement in a line; nodes and names are known by the     *)
(* statements they are in.  There is one variable in it; what is said of a  *)
(* name does not depend on the others.  What the rules for single           *)
(* statements and the prefixes give is left to constants (StatementRules).  *)
(* Error nodes, f-strings and the rules on single literals and imports are  *)
(* left out.                                                                *)
(***************************************************************************)
EXTENDS Integers, Sequences, FiniteSets, SequencesExt

CONSTANTS
  MaxLines,            \* bound: the lines of a program
  MaxJumps,            \* bound: the lines that are about their place only
  MaxBlocks,           \* _MAX_BLOCK_SIZE
  MaxIndents,          \* _MAX_INDENT_COUNT
  Heads,               \* what may be before the first statement
  HeadLines(_),        \* the number of its lines, the last one that of the statement
  SpacingLine(_),      \* the line of the spacing at its end
  Ruled,               \* the statements that rules look into, as <<kind, detail>>
  RuleMessages(_, _)   \* what these say of one

RuledKinds == {"signature", "call", "clauses", "target"}

ASSUME HeadsAssumption ==
  /\ \A text \in Heads : HeadLines(text) \in Nat \ {0} /\ SpacingLine(text) \in Nat
  /\ <<>> \in Heads => HeadLines(<<>>) = 1
ASSUME RuledAssumption ==
  \A statement \in Ruled :
    /\ statement[1] \in RuledKinds /\ statement[2] # <<>>
    /\ RuleMessages(statement[1], statement[2]) \in Seq(STRING)

VARIABLES
  head,                \* the prefix of the first leaf
  program,             \* the statements so far, each with its level
  contexts,            \* self.context below its parent contexts
  open,                \* the compound statements the walk is in, by their last headers
  indentation,         \* self._indentation_count
  errors,              \* self._error_dict: line -> message
  finished

vars == <<head, program, contexts, open, indentation, errors, finished>>

NameStatements == {"use", "assign", "annotate", "global", "nonlocal"}
Jumps == {"break", "return", "await", "import *"}
Blocks == {"if", "while"}                       \* _BLOCK_STMTS
Functions == {"def f()", "def f(x)", "def x()", "async def f()"}
Scopes == Functions \cup {"class C"}

\* _Context.  params: whether x is one of _local_params_names, which are those of
\* the functions in it.  The lists of names are sets; what matters of their order
\* is that of the text.
NewContext(node) ==
  [node |-> node, blocks |-> <<>>, params |-> FALSE,
   used |-> {}, globals |-> {}, nonlocals |-> {}, subscopes |-> {}]

Init ==
  /\ head \in Heads
  /\ program = <<>> /\ open = <<>>
  /\ contexts = <<NewContext(0)>>
  /\ indentation = 0
  /\ errors = <<>>
  /\ finished = FALSE

Line(i) == HeadLines(head) + i - 1
This == Len(program) + 1                        \* the statement that is read next

Context == Last(contexts)
IsModule == Len(contexts) = 1

IsFunction(s) == s # 0 /\ program[s].kind \in Functions
HasParameter(s) == s # 0 /\ program[s].kind = "def f(x)"

\* add_issue: the first one of a line stays.
AddIssues(statements, message) ==
  [line \in DOMAIN errors \cup {Line(i) : i \in statements} |->
     IF line \in DOMAIN errors THEN errors[line] ELSE message]

MaxOf(S) == CHOOSE n \in S : \A m \in S : m <= n

-----------------------------------------------------------------------------
(* _Context.finalize: the statements that have an error.                     *)

\* Mistake: names of parameters count as uses in the scope around.
AnalyzedWithParams(context, declared) ==
  LET found == \E n \in context.used : n.at > declared
      wrong == {n \in context.used : found => n.what = "annotate"}
  IN IF wrong = {} /\ ~HasParameter(context.node) THEN {}
     ELSE {IF found /\ wrong # {} THEN MaxOf({n.at : n \in wrong}) ELSE declared}

\* _analyze_names for one name that is declared.  found_global_or_nonlocal is
\* set by the last use already, and then only annotations are looked for.
Analyzed(context, declared) ==
  LET found == \E n \in context.used : n.at > declared
      wrong == {n \in context.used : n.what # "param" /\ (found => n.what = "annotate")}
  IN IF wrong = {} /\ ~HasParameter(context.node) THEN {}
     ELSE {IF found /\ wrong # {} THEN MaxOf({n.at : n \in wrong}) ELSE declared}

\* Global and nonlocal at once: at the first one of the two.
Both(context) ==
  LET global == MaxOf(context.globals)
  IN IF context.globals = {} THEN {}
     ELSE {IF global < n THEN global ELSE n : n \in context.nonlocals}

\* A nonlocal name of an inner scope finds its binding here, goes on to the
\* next scope, or has none.
IsHandled(context) ==
  \/ context.params
  \/ context.globals = {} /\ IsFunction(context.node) /\ context.used # {}

HasNoBinding(context) ==
  ~context.params /\ (context.globals # {} \/ context.node = 0)

FinalizeIssues(context) ==
  (UNION {Analyzed(context, declared) : declared \in context.globals \cup context.nonlocals})
    \cup Both(context)
    \cup IF HasNoBinding(context) THEN context.subscopes ELSE {}

\* Mistake: a scope hands on its own names only.
OwnNonlocals(context) == context.nonlocals

NotHandled(context) ==
  context.nonlocals
    \cup IF IsHandled(context) \/ HasNoBinding(context) THEN {} ELSE context.subscopes

-----------------------------------------------------------------------------
(* The walk.                                                                 *)

Alone == program # <<>> /\ program[1].detail # <<>>

\* A statement is visited, in these contexts afterwards.  The first one of a
\* block begins its suite.
Visit(kind, detail, afterwards, messages) ==
  LET begins == open # <<>> /\ Last(open) = Len(program)
      tooDeep == begins /\ indentation + 1 = MaxIndents
      all == (IF tooDeep THEN <<"indentation">> ELSE <<>>) \o messages
  IN /\ ~finished /\ Len(program) < MaxLines /\ ~Alone
     /\ program' = Append(program, [kind |-> kind, detail |-> detail, level |-> Len(open)])
     /\ contexts' = afterwards
     /\ open' = IF kind \in Blocks \cup Scopes THEN Append(open, This) ELSE open
     /\ indentation' = indentation + IF begins THEN 1 ELSE 0
     /\ errors' = IF all = <<>> THEN errors ELSE AddIssues({This}, Head(all))
     /\ UNCHANGED <<head, finished>>

InContext(context) == Append(Front(contexts), context)

\* add_name
AddName(kind) ==
  CASE kind = "global" -> [Context EXCEPT !.globals = @ \cup {This}]
    [] kind = "nonlocal" -> [Context EXCEPT !.nonlocals = @ \cup {This}]
    [] OTHER -> [Context EXCEPT !.used = @ \cup {[what |-> kind, at |-> This]}]

\* _NonlocalModuleLevelRule
NonlocalModuleLevelRule(kind) == IF kind = "nonlocal" /\ IsModule THEN <<"at module level">> ELSE <<>>

\* _NameChecks for the name in one of these
NameStatement ==
  /\ head = <<>>
  /\ \E kind \in NameStatements :
       Visit(kind, <<>>, InContext(AddName(kind)), NonlocalModuleLevelRule(kind))

\* Mistake: the loops around a function count, too.
InAnyLoop(context) == \E i \in DOMAIN contexts : Contains(contexts[i].blocks, "while")

InLoop(context) == Contains(context.blocks, "while")

IsAsyncFuncdef == Context.node # 0 /\ program[Context.node].kind = "async def f()"
InFunction == IsFunction(Context.node)

\* _BreakOutsideLoop, _ReturnAndYieldChecks, _AwaitOutsideAsync, _ImportStarInFunction
InItsPlace(kind) ==
  CASE kind = "break" -> InLoop(Context)
    [] kind = "return" -> InFunction
    [] kind = "await" -> IsAsyncFuncdef
    [] kind = "import *" -> IsModule

Jump ==
  /\ head = <<>>
  /\ Cardinality({i \in DOMAIN program : program[i].kind \in Jumps}) < MaxJumps
  /\ \E kind \in Jumps :
       Visit(kind, <<>>, contexts, IF InItsPlace(kind) THEN <<>> ELSE <<"misplaced">>)

\* visit_node of one of _BLOCK_STMTS
BlockStatement ==
  /\ head = <<>>
  /\ \E kind \in Blocks :
       Visit(kind, <<>>, InContext([Context EXCEPT !.blocks = Append(@, kind)]),
             IF Len(Context.blocks) + 1 = MaxBlocks THEN <<"blocks">> ELSE <<>>)

\* The suite of the while ends, the statement does not.
ElseClause ==
  /\ open # <<>> /\ program[Last(open)].kind = "while" /\ Last(open) < Len(program)
  /\ ~finished /\ Len(program) < MaxLines
  /\ program' = Append(program, [kind |-> "else", detail |-> <<>>, level |-> Len(open) - 1])
  /\ open' = Append(Front(open), This)
  /\ indentation' = indentation - 1
  /\ UNCHANGED <<head, contexts, errors, finished>>

\* Up to the colon a class or function is part of the scope around it.
ScopeStatement ==
  /\ head = <<>>
  /\ \E kind \in Scopes :
       LET around == IF kind = "def f(x)"
                     THEN [Context EXCEPT !.params = TRUE, !.used = @ \cup {[what |-> "param", at |-> This]}]
                     ELSE Context
       IN Visit(kind, <<>>, Append(InContext(around), NewContext(This)), <<>>)

\* visit_node, after the yield, for the suite and for its statement
LeaveStatement ==
  /\ ~finished
  /\ open # <<>> /\ Last(open) < Len(program)
  /\ open' = Front(open)
  /\ indentation' = indentation - 1
  /\ IF program[Last(open)].kind \in Scopes
     THEN LET outer == Front(contexts)
          IN /\ contexts' = Append(Front(outer),
                                   [Last(outer) EXCEPT !.subscopes = @ \cup NotHandled(Context)])
             /\ errors' = AddIssues(FinalizeIssues(Context), "name")
     ELSE /\ contexts' = InContext([Context EXCEPT !.blocks = Front(@)])
          /\ UNCHANGED errors
  /\ UNCHANGED <<head, program, finished>>

\* One statement that a rule looks into.
RuledStatement ==
  /\ head = <<>> /\ program = <<>>
  /\ \E statement \in Ruled :
       Visit(statement[1], statement[2], contexts, RuleMessages(statement[1], statement[2]))

\* visit_leaf of an error_leaf INDENT: the error is where the spacing is.
UnexpectedIndent ==
  /\ head # <<>> /\ Last(head) = "sp" /\ program = <<>>
  /\ program' = <<[kind |-> "indented", detail |-> <<>>, level |-> 0]>>
  /\ errors' = [line \in {SpacingLine(head)} |-> "unexpected indent"]
  /\ UNCHANGED <<head, contexts, open, indentation, finished>>

\* finalize
Finish ==
  /\ ~finished /\ open = <<>> /\ program # <<>>
  /\ errors' = AddIssues(FinalizeIssues(Context), "name")
  /\ finished' = TRUE
  /\ UNCHANGED <<head, program, contexts, open, indentation>>

Next ==
  \/ NameStatement \/ Jump \/ BlockStatement \/ ElseClause \/ ScopeStatement
  \/ LeaveStatement
  \/ RuledStatement \/ UnexpectedIndent
  \/ Finish

Spec == Init /\ [][Next]_vars

-----------------------------------------------------------------------------
(* For reference: the program as its levels say.                             *)

\* The statements that line i is in.
Headers(i) ==
  {j \in 1 .. i - 1 : /\ program[j].level < program[i].level
                      /\ \A k \in j + 1 .. i - 1 : program[k].level > program[j].level}

ScopesAround(i) == {j \in Headers(i) : program[j].kind \in Scopes}
ScopeOf(i) == MaxOf({0} \cup ScopesAround(i))
BlocksAround(i) == {j \in Headers(i) : j > ScopeOf(i)}

\* The lines of a scope itself that are of these kinds.
Lines(s, kinds) == {i \in DOMAIN program : program[i].kind \in kinds /\ ScopeOf(i) = s}

Occurrences == {"use", "assign", "annotate"}
Bindings == {"assign", "annotate"}
Declarations == {"global", "nonlocal"}

-----------------------------------------------------------------------------
(* What is wrong with the place of line i, in the order it is found.         *)

TooDeep(i) == i - 1 \in Headers(i) /\ Cardinality(Headers(i)) = MaxIndents
TooManyBlocks(i) == program[i].kind \in Blocks /\ Cardinality(BlocksAround(i)) + 1 = MaxBlocks
Misplaced(i) ==
  LET scope == ScopeOf(i)
  IN CASE program[i].kind = "break" -> \A j \in BlocksAround(i) : program[j].kind # "while"
       [] program[i].kind = "return" -> ~IsFunction(scope)
       [] program[i].kind = "await" -> scope = 0 \/ program[scope].kind # "async def f()"
       [] program[i].kind = "import *" -> scope # 0
       [] OTHER -> FALSE

PlaceErrors(i) ==
  (IF TooDeep(i) THEN <<"indentation">> ELSE <<>>)
    \o (IF TooManyBlocks(i) THEN <<"blocks">> ELSE <<>>)
    \o (IF Misplaced(i) THEN <<"misplaced">> ELSE <<>>)

\* A break in the else of a loop passes as one in the loop.
InElse(i) == \E j \in BlocksAround(i) : program[j].kind = "else"

\* What is said of the place of a statement - a jump outside of what it leaves,
\* blocks or indentation too deep - is what the levels of the lines say: the
\* blocks and the depth that the walk counts belong to the right function, also
\* when a function or class in a loop is left again.
PlacesDecided ==
  finished =>
    \A i \in DOMAIN program :
      program[i].kind \in Jumps \cup Blocks /\ ~InElse(i) =>
        IF PlaceErrors(i) = <<>> THEN i \notin DOMAIN errors
        ELSE i \in DOMAIN errors /\ errors[i] = Head(PlaceErrors(i))

-----------------------------------------------------------------------------
(* What is wrong with a declaration, in line i.                              *)

PriorUse(i) == \E j \in Lines(ScopeOf(i), Occurrences \cup {"def x()"}) : j < i

\* At the level of the module Python allows the annotation of a global name.
Annotated(i) == ScopeOf(i) # 0 /\ Lines(ScopeOf(i), {"annotate"}) # {}
IsParameter(i) == HasParameter(ScopeOf(i))
DeclaredTwice(i) == \A kind \in Declarations : Lines(ScopeOf(i), {kind}) # {}

\* What is around the scope of declaration i, and the functions of it.
Outside(i) == ScopesAround(i) \ {ScopeOf(i)}
Enclosing(i) == {f \in Outside(i) : IsFunction(f)}

Binds(f) ==
  /\ program[f].kind = "def f(x)" \/ Lines(f, Bindings \cup {"def x()"}) # {}
  /\ Lines(f, Declarations) = {}

Unbound(i) ==
  /\ program[i].kind = "nonlocal"
  /\ \A f \in Enclosing(i) :
       Binds(f) => \E g \in Enclosing(i) : g > f /\ Lines(g, {"global"}) # {}

Wrong(i) ==
  program[i].kind \in Declarations
    /\ (PriorUse(i) \/ Annotated(i) \/ IsParameter(i) \/ DeclaredTwice(i) \/ Unbound(i))

\* What the finder refuses although Python does not: an annotation in the module,
\* and a nonlocal name that is bound by a function of that name, or around a
\* class that declares it global.
RefusedNevertheless(i) ==
  \/ ScopeOf(i) = 0 /\ Lines(0, {"annotate"}) # {}
  \/ \E s \in Outside(i) : Lines(s, {"def x()"}) # {} \/ (~IsFunction(s) /\ Lines(s, {"global"}) # {})

\* What it does not see: a use before the declaration when the name is also in a
\* later line, and a function of that name; a name that a function around only
\* uses, or that is a parameter of a function in it, passes as bound.
SeenUse(i) ==
  LET Names == Lines(ScopeOf(i), Occurrences)
  IN /\ \E j \in Names : j < i
     /\ \A j \in Names \cup Lines(ScopeOf(i), {"def f(x)"}) : j < i

SeenUnbound(i) ==
  /\ program[i].kind = "nonlocal"
  /\ \A f \in Enclosing(i) : Lines(f, Occurrences) = {}
  /\ \A s \in Outside(i) \cup {0} : Lines(s, {"def f(x)"}) = {}

Seen(i) ==
  program[i].kind \in Declarations
    /\ (SeenUse(i) \/ Annotated(i) \/ IsParameter(i) \/ DeclaredTwice(i) \/ SeenUnbound(i))

\* The lines where an error of declaration i may stand.
ErrorLines(i) == {i} \cup Lines(ScopeOf(i), {"annotate"} \cup Declarations)
Reported(i) == ErrorLines(i) \cap DOMAIN errors # {}

\* What is said of names is said of a declaration that Python refuses, or of one
\* of those that are refused nevertheless: names that _Context.finalize hands
\* from scope to scope end where their scope is.
OnlyWrongDeclarations ==
  finished /\ head = <<>> /\ ~Alone =>
    \A line \in DOMAIN errors :
      \/ PlaceErrors(line) # <<>>
      \/ \E i \in DOMAIN program :
           /\ program[i].kind \in Declarations /\ line \in ErrorLines(i)
           /\ Wrong(i) \/ RefusedNevertheless(i)

\* A declaration that is wrong in a way the finder sees is reported, whatever
\* the scopes between it and the binding that it misses.
SeenDeclarationsReported ==
  finished => \A i \in DOMAIN program : Seen(i) => Reported(i)

\* A declaration after a use in its scope is reported, as the comment on the
\* names that follow it has it: "don't have to be checked", those and no others.
PriorUseReported ==
  finished => \A i \in DOMAIN program :
                program[i].kind \in Declarations /\ PriorUse(i) => Reported(i)
=============================================================================
