# A model of parso in TLA+

[parso](../src/README.rst) parses Python code, valid or not, into a tree from
which the code can be restored to the last character; it parses again what has
changed, and it caches trees in RAM and on disk. The modules here model its
core logic: the parser generator, the tokenizer, the parsing engine with its
error recovery, the diff parser, the cache, and the finder of syntax errors. TLC
checks them on small instances; for the tokenizer, the parser, the cache and the walk
of the error finder TLAPS proves the main results for every instance.

## The system

| component | state | operations | interacts with |
|---|---|---|---|
| grammar file parser (`pgen2/grammar_parser.py`) | NFA states and arcs | `_parse_rhs`, `_parse_items`, `_parse_item`, `_parse_atom` | gives NFAs to the generator |
| parser generator (`pgen2/generator.py`) | DFAs per rule, `transitions`, `first_plans` | `_make_dfas`, `_simplify_dfas`, `_calculate_tree_traversal` | gives `transitions` to the engine |
| tokenizer (`python/tokenize.py`) | `indents`, `paren_level`, `fstring_stack`, `contstr`, `new_line`, `additional_prefix` | `tokenize_lines`, a generator | its tokens are pulled by the engine; the diff parser shares `indents` |
| parsing engine (`parser.py`) | the stack of nodes | `parse`, `_add_token`, `_pop` | calls `convert_node`, `convert_leaf`, `error_recovery` |
| error recovery (`python/parser.py`) | `_omit_dedent_list`, `_indent_counter` | `error_recovery`, `_stack_removal`, `_recovery_tokenize` | calls `_add_token` again |
| diff parser (`python/diff.py`) | the tree under construction, its `indents`, the old tree, changed in place | `update`, copying, partial parses | the cached tree and lines, tokenizer, engine |
| cache (`cache.py`, `file_io.py`) | `parser_cache`, pickles, the lock file | `load_module`, `try_to_save_module`, `clear_cache`, cleanup | other processes, the source files |
| grammar front end (`grammar.py`) | `_loaded_grammars` | `Grammar.parse`, `load_grammar` | all of the above |
| tree (`tree.py`, `python/tree.py`) | parents, children, positions | navigation, search by position | everybody |
| error finder (`python/errors.py`, `normalizer.py`) | contexts, blocks, errors per line | `visit`, `add_context`, `finalize` | the tree |
| prefixes and lines (`python/prefix.py`, `utils.py`) | none | `split_prefix`, `split_lines` | tokenizer, tree, normalizer |
| pep8 normalizer (`python/pep8.py`) | a stack of indentation nodes | `visit` | the tree |

What makes each correct:

* the generator: the plans of a grammar are its leftmost derivations, one token
  decides between them, and a grammar that cannot be had that way is refused;
* the tokenizer: every character is in one token, INDENT and DEDENT balance;
* the engine and its recovery: every token with text is in the tree, once and
  in order, whatever the tokens are; valid code is untouched by recovery;
  blocks survive errors in them; it never crashes and always comes to an end;
* the diff parser: its tree is the one a full parse gives;
* the cache: `parse` never returns a tree older than the call; a cache that
  fails does not make `parse` fail; what is in use stays;
* the error finder: it reports what the compiler of that version refuses.

What makes them hard: mutual recursion of `_add_token` and `error_recovery`; a
stack that is cut in the middle of rules; a counter of indents that has to
agree with a lazy generator; several processes, none of which locks anything,
on the same files, with crashes and edits between any two calls; in-place
changes of cached trees. `PROJECT.json` lists these hazards line by line, with
the properties aimed at them.

## Modules

| module | models | kind |
|---|---|---|
| `Dfas` | one rule: its NFA, the powerset construction, one unification | operators |
| `PlanTables` | the rules connected: first plans, transitions, ambiguity, left recursion | operators |
| `GrammarMeaning` | what a right-hand side describes and can begin with, without automata | operators |
| `GrammarGenerator`, `MCGrammarGenerator` | `generate_grammar` on a grammar, with its errors | state machine |
| `TokenStream` | what the tokenizer promises the parser | part of `Parser`, abstract specification of `Tokenizer` |
| `Tokenizer` | `tokenize_lines`: indentation, brackets, strings, f-strings | state machine |
| `Parser` | the engine and Python's error recovery | state machine |
| `ParserReference`, `MCParserReference` | the parser next to a recognizer that searches all derivations | composition |
| `ToyGrammars` | a grammar of Python's shape, its DFAs and transitions | constants |
| `TokenizerProofs` | the theorems about `Tokenizer` | proofs |
| `ParserProofs` | the theorems about `Parser`: types, text, retries | proofs |
| `ParserOrderProofs` | the order of the text, and what blocks keep | proofs |
| `ParserBlockProofs` | indentation, the depth of recovery, that nothing crashes | proofs |
| `Cache` | `Grammar.parse(cache=True)` in several processes | state machine |
| `CacheSurvival` | `Cache` with the history of uses | composition |
| `CacheCleanup` | the directory of the cache: making it, load, save, lock file, daily cleanup, call by call | state machine |
| `CacheProofs` | the theorems about `Cache` | proofs |
| `SurvivalProofs` | the theorems about `CacheSurvival` | proofs |
| `CleanupProofs` | the theorems about `CacheCleanup` | proofs |
| `Trees` | the tree, its leaves, positions and the search by position | operators |
| `LineTokens`, `TreeParser` | the tokenizer and the parser as functions from lines to a tree | operators |
| `NodesTree` | the tree under construction of the diff parser: adding, copying, closing | operators |
| `SequenceMatcher` | `difflib`, which says what of the lines is equal | operators, external |
| `DiffParser`, `MCDiffParser` | `DiffParser.update` | state machine |
| `BlockGrammar` | the grammar and the lines of its instances | constants |
| `ErrorFinder` | the walk of the error finder over a program, and what Python refuses | state machine |
| `ErrorRules` | the rules for parameters, arguments, clauses and targets, and what Python refuses | operators |
| `StatementRules`, `MCErrorFinder` | the walk with these rules and with prefixes | composition |
| `ErrorFinderProofs` | the theorems about `ErrorFinder` | proofs |
| `Prefixes` | `split_lines` and `split_prefix` | operators |

Definitions introduced by "Mistake:" are what a plausible slip in the code would
turn the definition after them into; every property is tried against one of
them and must fail.

### The generator

The text of a rule is the tree its brackets describe. `ParseAtom`, `ParseItem`,
`ParseItems` and `ParseRhs` are the methods of `GrammarParser`: a fragment has a
start, an end and arcs, and brackets add arcs between the states of the body
exactly as `_parse_item` does. `MakeDfas` is `_make_dfas` with a DFA state *being*
its `nfa_set`; `Merge` is one `del dfas[j]` with its `unifystate` calls.
`GrammarGenerator` makes every unification a step of its own, so that TLC tries
them in every order, which covers the one the nested loops happen to take.

`PlanTables` connects rules. First plans are sets of pairs rather than
dictionaries, so that the overwriting of a token's first plan
(`generator.py:379`) cannot hide an ambiguity from the model; the state in which
the code finds it (the first state of the rule itself) is in the grammar, too,
so both refuse the same grammars. Left out are the rule names and positions in
the error messages, and `ReservedString`s: `_make_transition` maps the literals
of a grammar to them one to one, so a literal is its own transition.

### The tokenizer

The input is a sequence of lexemes: what the regular expressions match at the
current position, with the spaces before it, chosen among the kinds that can match
there (`Matches`). A name, a keyword of `ALWAYS_BREAK_TOKENS`, a bracket, a line
end, the start of a string that goes on in the next line, a piece of f-string text
that ends its line: each kind is one that the loop treats differently. Numbers,
operators and strings on one line are treated alike and are one kind. A lexeme is
known by its position, so that "no character is lost" is that the positions in
the tokens are 1, 2, 3 and so on (`EverythingYielded`).

Every `yield` is a step of its own: the consumer runs in between, and the diff
parser reads the list `indents` then. An INDENT is yielded before its column is
appended, a DEDENT after its column is popped, an ERROR_DEDENT before the innermost
column is lowered. `Depth` accounts for that, and under it the tokenizer
implements `TokenStream` (`KeepsPromise`): everything the runs and proofs of the
parser assume of its input is true of this tokenizer.

### The parser

`stack`, `omit` and `indentCounter` are the fields of the code. A DFA state is a
name; what the code reads from it (`from_rule`, `is_final`, `transitions`,
`arcs['stmt']`) are functions of it, constants of the module.
`GrammarAssumption` gives their types, `SuiteAssumption` the shape of the rule
`suite`, which all the grammar files share. Three more say what else of these files
the parser lives on: `BlockAssumption`, `EndAssumption` and `OneLineAssumption`. A tree node is its type, the set of
positions (in the token sequence) of the text below it, and its last leaf, which
is what recovery looks at. `pc` and `pending` replace the Python call stack:
`_add_token` and `error_recovery` call each other in tail position except for the
last lines of `error_recovery` (`FinishRecovery`), and these take no argument but
`self.stack`, so a counter of waiting calls is all there is to it.

`TokenStream` is the environment: any sequence of tokens the tokenizer can
yield. Tokens with text come in any order, so every syntax error is among them;
the guards say when INDENT, DEDENT, ERROR_DEDENT, NEWLINE and ENDMARKER can be
yielded. INDENT, for instance, needs a new line outside brackets
(`tokenize.py:503-509`), and a token with text always follows it.

An exception that is no `ParserSyntaxError` takes `pc` to "crashed"; that it
never happens is a property (`NeverCrashes`).

`ToyGrammars` has statements, blocks, and a compound statement with a required
and an optional clause. Its DFAs are written out, which keeps the runs fast;
`AutomataOfRules` is evaluated at the start of each run and says that they are,
up to the numbers of the states, what `PlanTables` compiles from the rules.

### The cache

One action per call of the file system, since that is where processes
interleave. A tree is the version of the source file it was made from; `seen` is
a history variable with the version at the time of the call. Pickles are written
in place: `OpenPickle` truncates, `WritePickle` completes, and `writers` and
`shared` tell who has the file open, so that two writers may leave a mixture and
a deleted file takes its writer's data with it. A process may end at any step.
Calls fail, too: a `PermissionError` of a save is a warning (`OpenDenied`), an
`OSError` of the second read of the file's time keeps the item in RAM only
(`SaveItemInRam`), and any other one leaves `parse` (`CallFails`).
`RemoveInactive` is what the cleanup of any process does to the pickles. `ClearCache`
and `RemoveInactive` take pickles at any time; that `clear_cache` removes one file after
the other makes no difference to a model that lets each of them go by itself.

`CacheCleanup` is the same program as the directory sees it, again with one action for
each call of the file system, and any of these may fail (`Raises`, `SaveDenied`,
`AppendFails`, `RemoveFails`). Load and save look for the directory and make it, parents
first; a save that succeeds looks at the lock. `_touch` is two calls: `Utime` sets the
time of the lock, and if there is none `AppendLock` makes it, or leaves the time of the
one that another process has made since. `RootExists`, `ListDir`, `IsDir`,
`ScanDir`, `StatEntry` and `RemoveEntry` are `clear_inactive_cache`; the
listing of a directory is read at once, with the first entry. `DeletePickle`,
`DeleteLock` and `DeleteDirectories` are `clear_cache` of any process, file by file,
or the system that frees disk space. `began`, `kept` and `touched` are history:
when the scan of a process began, what it failed to remove, and when it last called
`os.utime` on a lock that has not been deleted since.

The clock ticks by itself and with every edit of a source file: file times are
assumed fine enough to tell an edit from what happened before it. On a file
system with coarse times an edit within the same tick as a save goes unnoticed;
the code cannot tell, and the model does not try to.

### The diff parser

The lines are small: a line is a kind (`x`, `class C:`, `class C: x`, `while x:`,
`else:`, `@x`, a bracket, nothing), a column, and whether it ends in a newline.
What the diff parser calls is modelled as functions: `LineTokens` is
`tokenize_lines`, and each of its tokens carries what `indents` holds when it is
yielded, since `_diff_tokenize` reads that list while it pulls; `TreeParser` takes
the steps of `Parser` with recovery, but builds the whole tree, leaf by leaf with
positions and prefixes; `Trees` walks it, with paths in place of references to
parents. A prefix is the widths of its lines, all that is asked of it.

`NodesTree` is `_NodesTree` with its working stack. Nodes are collected in groups
with an offset and changed in `Close` only, as in the code, so that a group copied
from the old tree stays as it was while more is copied next to it. `CopyRun` and
`CopyTaken` are `_copy_nodes`, which calls itself for the suite of the last node
it took; `TakeFrom`, `PopErrors` and `LastMatching` say where a run of nodes ends.

In `DiffParser` every round of the loops of `update`, `_parse` and
`_copy_from_old_parser` is a step; `pc` and `opcodes` say which loop is at work. An
assertion that does not hold, and the exception at the end of `update`, take `pc`
to "failed"; an attribute of None or an index out of range would be a value TLC
cannot evaluate, which stops the run.

### The error finder

A program is written while it is walked, a statement in a line: uses, assignments,
annotations and declarations of one name, jumps, blocks, functions and classes,
which may be left at any time. The choices make every program of five lines.
`contexts` is `self.context` with its parents, and each one is a `_Context` for
that one name: `node` is the line of its function or class (0 for the module), its lists
keep lines. `open` has the headers that the walk is below, so `program[open[l]]` is what
the code finds by `node.parent`. `LeaveStatement` ends a suite and its statement, with
`finalize` for a scope.

What the walk asks of a rule is its messages, and of a prefix its number of lines and
that of its last part: `RuleMessages`, `HeadLines` and `SpacingLine` are constants of
`ErrorFinder`. `RuledAssumption` and `HeadsAssumption` say of them that messages are texts
and line numbers positive. `StatementRules` has what the code makes of them, which is
what the runs give to these constants: TLC checks the two assumptions for it.

Rules that look into one statement only are operators of `ErrorRules`; each goes
over what it is given with the flags the code has. The `target` of a statement is a
tree of brackets, lists and stars, and `TargetIssue` is all the rules that are
called at it or below. A prefix of the first statement is a sequence of characters,
of which each class is one: line feed, carriage return, form feed (any of
`_NON_LINE_BREAKS`), hash, backslash, space, other.

The reference definitions at the end of `ErrorFinder`, `ErrorRules` and `StatementRules` say what
Python refuses, from the lines and levels of the program, without a walk. Where
the finder deviates, `RefusedNevertheless`, `SeenUse`, `SeenUnbound`, `InElse` and
`PassesNevertheless` say so, and the properties hold outside of these.

## Runs

| run | bounds | shows |
|---|---|---|
| `grammar_generator` | one rule over two tokens and two levels of brackets, or two rules of up to two alternatives; languages compared on words of up to 4 labels (`MaxWord`) | `CompiledLanguage`, `UsefulStates`, `UnifyKeepsLanguage`, `OneTokenDecides`, `PlansAreDerivations`, `RefusedForAReason` |
| `tokenizer` | 7 lexemes (`MaxLexemes`), three columns, 2 f-strings inside one another | `EverythingYielded`, `AssertionHolds`, `IndentsIncrease`, `StatementsAligned`, `KeepsPromise` |
| `recovery` | 7 tokens (`MaxTokens`), 2 levels (`MaxDepth`); closing DEDENTs and the token an INDENT must have are not counted | `TypeOK`, `NothingLost`, `InOrder`, `NeverCrashes`, `IndentsAccounted`, `RecoveryDepth`, `ErrorsOnlyWhenInvalid`, `SuiteStripsIndents`, `BlocksKept`, `RetriesShrink` |
| `parser_strict` | 14 tokens, 3 levels, no error recovery | `StrictDecidesGrammar`, `TokenConsumed` |
| `cache_fresh` | two processes, one path, two versions, clock up to 2 | `FreshResult`, the inductive `FreshInv`, and `ParseReturns` |
| `cache_survival` | one process, two paths, a RAM cache of one, clock up to 3 | `HitsSurvive` |
| `cleanup` | two processes, two pickles, a threshold of two ticks, a survival of one, clock up to 3 | `CleanupComplete`, `CleanupSpacing` |
| `diff` | two lines of any kind in two columns with four endings, one changed, added or removed; six files of six lines, one line replaced, added or removed | `SameTree`, `NeverFails`, `CoversParsedLines`, `SearchFindsFirst`, `RoundsAdvance` |
| `errors` | 5 lines (`MaxLines`) with one jump (`MaxJumps`) among them, 2 blocks and 3 levels as the limits of Python (20 and 100); 4 parameters, arguments or clauses (`MaxParts`), `/` and trailing commas among them; targets of two levels and the star below, with 2 in place of 256 items before a star (`StarLimit`); prefixes of 5 characters (`MaxHead`) | `PlacesDecided`, `OnlyWrongDeclarations`, `SeenDeclarationsReported`, `SignaturesDecided`, `TargetsDecided`, `PartsAreInTheLines` |
| `cache_docs_fresh` | one process, edits at any time | `FreshResult` is violated |
| `cache_docs_none` | two processes | `LoadModuleNeverFails` is violated |
| `errors_docs` | 3 lines | `PriorUseReported` is violated |

Types are checked where they are not obvious, in `recovery`, and proved for the
tokenizer, the parser, the cache and its cleanup (`TypeCorrect`), and for the error
finder (`WalkTypes`).

Why these bounds are enough: two levels of blocks with an error inside one, before
it and behind it take six tokens, and the recursion of recovery reaches its full
depth with them (`RecoveryDepth` names it, and its mutant exceeds it). A strict
parse stops at the first error, so that 14 tokens and three levels are affordable
there: a nested compound statement with all its clauses. Two bracket levels are
the least in which a loop or a shortcut meets another one, and a word of four
labels goes twice round each of two loops. Three columns are the least with an
ERROR_DEDENT; a bracket in the format spec of an f-string inside another one takes
six lexemes. Paths interact only through the size
of the RAM cache, so freshness needs one path and survival two; what matters of
a version is whether it is the current one. Two processes are the most that can
have a pickle open in an order that matters: a third one finds the file in a
state one of the two has left. A threshold of two ticks is the least with a time within
it, which the lock that one process makes and another one finds needs. What the bounds of the runs `tokenizer`,
`cache_survival` and `cleanup` leave open the proofs settle altogether; of `recovery`
all but `ErrorsOnlyWhenInvalid`, of `cache_fresh` all but `ParseReturns`, and of
`errors` all about places and names: programs of any length, nested to any depth, with
any limits.

The diff parser is at its limits where an equal range, a changed one and another
equal one meet in a block, which two lines and an ending of the text show for any
kinds of lines; suites in suites, a bracket or a decorator that takes the next
line, and a dedent to a column that is none need more lines, and the six files have
one of these each, with every line in turn replaced by every kind in three columns.
The mutants say that the cases happen: a partial parse that closes a decorator, a
copy that begins within a statement, a search that stops one leaf early. Five lines
have three scopes with two statements, or a name that goes through two scopes
to a binding; two blocks are enough for a limit of two to be met and
exceeded in another context.

Fairness: the diff parser and the error finder have none. Their loops end if
every round gets ahead, which `RoundsAdvance` states as a property of steps; the
walk ends with the tree. `FairRefSpec` of `ParserReference` assumes weak fairness of the whole
next-state relation: the parser is one thread which runs to the end of its
input, and its tokenizer always has another token. `FairSpec` of `Cache` assumes
weak fairness of the steps of each process in a call: an operating system runs
every process that can run. Nobody has to call, edit, crash or clear. Deadlock
is checked for the cache and its cleanup, where somebody can always call. Elsewhere it is
not, since these systems stop: a grammar that is generated, a parser that is done, a
tree that is updated, a program that is written.

### Where the code and its words differ

Three runs with `expect: violation` state what a docstring or a comment says, and
find the behaviour of the code that contradicts it.

* `cache_docs_fresh`: a file edited between the read of its text and the second
  read of its time (`cache.py:175`) is cached with the old tree and the new time, or
  the present time if the second read fails, and stays stale until the next edit.
* `cache_docs_none`: a truncated pickle makes `load_module` raise instead of
  returning None; only `FileNotFoundError` is caught.
* `errors_docs`: of `x = 1`, `global x` and `x = 2` on three lines the finder says
  nothing. It goes from the last use of a name to the first one, and the flag that a
  use after the declaration sets (`errors.py:335`) stays set for those before it.

Met while modelling, visible in the models, and without runs of their own:

* `SkipsRepeat` in `GrammarMeaning`: `[x y*]` also accepts `y`, and `(x* y)*`
  also accepts `x`, since the shortcut past a group joins a state inside a loop.
  `CompiledLanguage` makes exactly this exception. No shipped grammar has such a
  group.
* An item just put into RAM counts as last used when its source file was last
  changed (`last_used = change_time`), so that a collection may take it before
  its first hit; `HitsSurvive` is about hits only, and about `parse` with `cache=True`:
  a save with `diff_cache` and no `cache` follows no look at the file's time, and
  can replace an item that was just used by one that seems old.
* An entry gone between `os.scandir` and `stat` raises out of `parse` ("raised" of
  `CacheCleanup`), and so does a directory that comes or goes between two calls of a
  load, a save or a cleanup: only `PermissionError` of a save is caught.
* Two scans of a process can begin closer to each other than the threshold, since the
  second is counted from the time of the lock and the first may begin later than that:
  above all if its `os.utime` finds no lock and its `open`, after a while, the one another
  process has made since. `_get_cache_clear_lock_path` says that the lock
  will "only allow garbage collection once a day" (`cache.py:93-94`); it does so
  for the calls of `os.utime`, which is what `CleanupSpacing` states. Two processes that look at the lock before either
  sets it both clean up, which the comment in the code admits (`cache.py:254-256`).
* A pickle that `os.remove` fails on, since it may not or since it is open in another
  program, stays until a later cleanup removes it (`cache.py:225`). `CleanupComplete` is
  about the others.
* An unmatched `}` in the text of an f-string takes `parentheses_count` below zero,
  and the next `{x}` of it is then read as text (`Closed`, `IsInExpr`).
* The `;` among `ALWAYS_BREAK_TOKENS` breaks nothing: only names are looked up there.
* A pickle just rewritten is removed if nobody has read it for a month: the
  cleanup looks at the time of access, which a write need not change. `FreshResult` holds
  with pickles removed at any time.
* A round of `_parse` may end on the line it began on: it then has only given up an
  indent that a failed copy left behind. The assertion (`diff.py:430`) lets that
  happen once, since `last_until_line` starts at 0 for every call; `RoundsAdvance`
  says exactly that.
* A nested copy that is thrown away again has reset `_prefix_remainder` all the same
  (`diff.py:859`); the model keeps it, which makes no difference, since a partial parse
  follows, and that sets it anew. Several guards of the copying
  (`BrokenSuite`, the DEDENT leaves, the end marker case of `_get_last_line`) break
  nothing on these instances when they are dropped: others end the copy as early.
* The error finder refuses what Python accepts: an annotated global name at the level
  of the module; a nonlocal name that is bound by `def x`, or around a class that
  declares it global; `f(a := 1, b)`, whose `:=` counts as a keyword;
  `lambda: (yield)` outside of a function. The last two are not in the model.
* It accepts what Python refuses: a nonlocal name that a function around only uses, or
  that is a parameter of a function in it; `def x` before `global x`; `break` in the
  `else` of a loop; two bare excepts; two stars in the targets of a `for`, a `with` or
  a comprehension; `(a) := 1`.
* `[i := 0 for [i, j] in x]` raises UnboundLocalError (`errors.py:208`), and a comment
  with a form feed and text after it AttributeError out of `split_prefix`
  (`prefix.py:84`), since the expression for the text matches nothing. Both are out
  of the model: they need no more than the one statement.

## Proofs

### The tokenizer

`TokenizerProofs` proves, for any columns, any number of lexemes and f-strings inside
one another, from `TokenizerAssumption`:

* `InvHolds`: `Spec => []Inv`, the inductive invariant;
* `PromiseKept`: `Spec => KeepsPromise`, which is `Stream!StreamSpec` under
  `depth <- Depth`: every step is a step of `TokenStream` or none. `ParserProofs`
  is about all streams, whatever the bounds and whatever transitions the tokens with
  text stand for, so that what it proves holds for what this tokenizer yields;
* `IndentsRise`, `Aligned`, `NoLinesLost` and `TypeCorrect`: `IndentsIncrease`,
  `StatementsAligned`, `AssertionHolds` and `TypeOK` always hold;
* `TextIsYielded`: `Spec => []EverythingYielded`, the tokens are the text read, up to
  what is held back, and `RoundTrip`: after the ENDMARKER they are all of it.

None of the first ones is inductive, since each depends on what was yielded before. An INDENT is
promised at the begin of a statement only, and the tokenizer decides by `new_line`,
which is about lexemes, not tokens: `LineOK` relates the two, for brackets and
f-strings that open and are broken off in between. A DEDENT must not follow an
INDENT or an ERROR_DEDENT, which holds since the innermost column is the one of the
token then (`LastOK`). The assertion rests on `FStringsOK`: only the innermost
f-string holds lines, and never while code between its braces is read. One `...Step`
lemma per action shows that it preserves each conjunct and maps to the stream;
`NextInv` combines them.

`EverythingYielded` says in which order the four places that can hold text come:
`additional_prefix`, `contstr` with its prefix, the innermost f-string, and the lexeme
at hand. That order is right since at most one of the first three holds any, which is
`HoldsOne`, the invariant added to `Inv` for it (`TextInv`). It needs to know why a
line end or a closing bracket can be read in the text of an f-string without leaving
a prefix behind: such a line end breaks the f-string off. `Accounted` reduces every
step to one equation between what is yielded and what is held before and after it;
`Concats` and `HeldFacts` have what that takes of sequences.

### The parser

`ParserProofs` proves, for any grammar and any bound on tokens and levels, from
`GrammarAssumption`, `SuiteAssumption` and `TokenAssumption`:

* `ParserInvariant`: `Spec => []Inv`, the inductive invariant;
* `TypeCorrect`: `Spec => []TypeOK`;
* `NothingIsLost`: `Spec => []NothingLost`, the tree and the token in hand have
  exactly the text of the tokens read;
* `RetriesTerminate`: `Spec => RetriesShrink`, every retry of a token leaves a
  smaller stack or a finished state on it, so that recovery cannot go round in
  circles.

`NothingLost` alone is not inductive: a suite that is popped drops its second and
last child by position, and nothing in `NothingLost` says that they are without
text. `Inv` adds that a suite on the stack has one of five shapes (`SuiteOK`): a
NEWLINE, waiting for the INDENT; an open block, whose second child has no text; a
suite that is final and empty while the statement it consists of is above it; the
same with the statement; and a block closed by a child without text. It also adds that the node
on top is never empty (`TopOK`), that `file_input` stays at the bottom (`BottomOK`), and how `pc` goes with
`pending` (`CallsOK`). The lemmas come in three groups: what shifting a plan, popping a
node and cutting the stack do to text and shapes (`ShiftFacts`, `PoppedFacts`,
`CutAppend`, `CutSuites`); one `...Step` lemma per action; and `NextInv`, which
combines them.

`ParserOrderProofs` proves, from the same assumptions, `TextKeepsOrder`
(`Spec => []InOrder`) and `BlocksAreKept` (`Spec => BlocksKept`). The first follows from
`OrderInv`, which states the order between the sets of text of whole stack nodes and
not only between tree nodes, so that a node made of the upper part of a stack is in
order with what is below it (`CutInOrder`); the second is about steps and needs `Inv`
only: what recovery cuts off is above the innermost block.

`ParserBlockProofs` proves, from these assumptions and `BlockAssumption`,
`EndAssumption` and `OneLineAssumption`:

* `BlockInvariant`: `Spec => []BlockInv`, the inductive invariant;
* `ParserNeverCrashes`: `Spec => []NeverCrashes`;
* `EveryIndentAccounted`: `Spec => []IndentsAccounted`;
* `RecoveryIsShallow`: `Spec => []RecoveryDepth`;
* `SuiteLosesIndentsOnly`: `Spec => SuiteStripsIndents`.

These depend on each other. The parser does not crash on a DEDENT since an open suite
waits for it; that one does is arithmetic on levels, open suites and omitted INDENTs;
and the arithmetic is only right if suites are popped and cut at no other moment. So
`BlockInv` has all of it at once, for every `pc` and not only between two tokens:

* `Shapes`: the second child of an open suite is its INDENT, the last one of a complete
  suite its DEDENT, and one that has its INDENT only is on top of the stack;
* `FreshOK`: in that state comes a token with text, never a DEDENT. That is where the
  promise of `TokenStream` is used;
* `LevelsOK`: open suites, omitted INDENTs and the token in hand add up to the level of
  indentation, and the n-th omitted INDENT is of level n or deeper. From the latter it
  follows that a DEDENT for no open suite is one to be omitted (`DedentHasBlock`);
* `AllBegun` and `EndOK`: `file_input` is at the bottom of the stack only, the ENDMARKER
  and nothing else completes it, and it is alone then;
* `OneLineOK` and `RecoveryOK`: one call of recovery may wait that gave up a suite of
  one line, and one that gave up the statement it is in; then nothing is left to
  remove but for the token itself, since there is no suite of one line within another one.

The assumptions are about the tables: nothing but a `suite` has an INDENT or a DEDENT, and
a `stmt` is between them; `file_input` is `stmt* ENDMARKER` and part of no other rule;
what can follow in a suite of one line, a `simple_stmt` and all that is below it, begins
no suite. They are evaluated for the grammar of the runs, and they are what the rules
`suite: simple_stmt | NEWLINE INDENT stmt+ DEDENT` and
`file_input: stmt* ENDMARKER` (`grammar314.txt:101`, `:12`) of every grammar file compile
to; the transitions that `generate_grammar` makes of each of the nine files meet them.
`BlockInv` and its parts were model-checked on the instances of `recovery` and
`parser_strict` before they were proved.

### The cache

`CacheProofs` proves, for any sets of processes and paths, any limits and any
clock:

* `TypeCorrect`: `Spec => []TypeOK`;
* `FreshInvariant`: `Spec => []FreshInv` if `QuietSources`;
* `FreshTrees` and `FreshCaches`: `[]FreshResult` and `[]FreshItems` from it.

`QuietSources` says that nobody edits a file between its read and the moment its
pickle is written; without it the result is false, as `cache_docs_fresh` shows.
`FreshResult` alone is not inductive. `FreshInv` adds that no time is ahead of
the clock (`FilesSound`), that an item that counts as current against the time of
its file is current (`MemorySound`, `PickleSound`), that a process between reading
a file and having written its pickle has the current version, and that a pickle
no older than the `p_time` a process holds has a version no older than its call
(`ProcessSound`). The last one is why it does not matter that the pickle may be
replaced between `getmtime` and `open`. Each lemma covers one group of actions;
`FreshStep` combines them.

`SurvivalProofs` proves `HitsAreKept` (`SurvivalSpec => HitsSurvive`) for any processes,
paths and limits, and without `QuietSources`. A collection goes by `last_used`, which a
hit sets to the present and a new item to the time its file was changed, so the danger
is an item that replaces another one and seems older than the last hit of that one.
`HitOK` says why it is not: a file is read again only if it is younger than the item in
RAM, and was changed after the last hit then.

`CleanupProofs` proves, for any processes and pickles, any threshold and survival,
`TypeCorrect`, `CleanupLeavesNoneBehind` (`Spec => []CleanupComplete`) and
`CleanupOncePerThreshold` (`Spec => CleanupSpacing`) from one invariant, `CleanupInvariant`.
`LockKept` says that the lock is never older than the last `os.utime` of any process,
unless it was deleted since: only between the `os.utime` and the `open` of a process can
there be no lock, and the one it finds or makes then is from after its `os.utime`. So a
process that has found the lock due may call `os.utime` (`TouchDue`), whatever the others
did to the lock since it looked. `ScanKept` says that what a scan has passed and not
failed to remove, and what was saved behind it, was read recently enough, whoever else
removes or reads.

### The error finder

`ErrorFinderProofs` proves, for programs of any length with blocks, functions and classes
in any order and depth, any limits of Python, any rules for single statements and any
prefixes, from `HeadsAssumption` and `RuledAssumption`:

* `WalkInvariant`: `Spec => []IInv`, the inductive invariant, and `WalkTypes`;
* `PlacesAreDecided`: `Spec => []PlacesDecided`;
* `OnlyWrongDeclarationsFound`: `Spec => []OnlyWrongDeclarations`;
* `SeenDeclarationsAreReported`: `Spec => []SeenDeclarationsReported`.

All three compare what the walk counts and collects with definitions on the levels of the
lines, and hold only when the walk is at its end, so none is inductive. `IInv` says what
each variable is in terms of the program, at any point of the walk:

* `OpenInv`: the statements in `open` are, one a level, those that the next line can be
  in, and `indentation` is their number, less one where the suite has not begun;
* `NodesInv`: the contexts are the module's and those of the scopes in `open`, in this
  order. The scope of a line is defined by levels; that it is the node of the context
  at the visit is `NextScope`;
* `BlocksInv`: the blocks of a context are the statements in `open` between its scope and
  the next one, an `else` under the name of its loop. So `break` and the limit of blocks
  see the right function when one inside has been left (`NextBlocks`, `NextMisplaced`);
* `PlacesInv`: what is said of a place was said at the visit and is the first message of
  its line. That it stays needs that errors of names are in lines of other kinds
  (`ErrorKinds`);
* `NamesInv`: a context has the uses and declarations of its scope so far (`ContextOf`),
  and as `subscopes` the nonlocal names of closed scopes in it that no scope between
  stops (`Arrived`);
* `ErrorsInv`: the errors so far are those of places and `NameErrors`: what `finalize`
  says of the contexts of the scopes that are closed;
* `Indented` sets the case of a first line that is indented apart.

The hard step is `LeaveNames`: `close_child_context` adds what `finalize` returns to the
scope around, and this must be what `Arrived` says after the step, for names from any
depth. `Handed` reduces it to one scope: what it hands on is what arrived there and is
not stopped by it, with its own nonlocal names. At the end all scopes are closed, so
`Arrived` is `Arriving`, which is defined by the program alone, and `NameErrors` is
compared with `Wrong` and `Seen` one kind of error at a time: `AnalyzedWrong`,
`BothAre` and `ArrivingWrong` for the first of the two theorems, `AnalyzedReported` and
`UnboundReported` for the second. The latter needs the innermost scope around that
declares the name global: there, or in the module, the walk of the name ends.

All parts of `IInv` were model-checked on programs of four and five lines before they were
proved.

### Left to TLC

* Liveness (`TokenConsumed`, `ParseReturns`), which needs fairness and ENABLED.
  `RetriesTerminate` is the part of the first one that is about the code.
* What the recursive operators of `Dfas`, `GrammarMeaning`, `PlanTables`,
  `ParserReference`, `Trees`, `LineTokens`, `TreeParser`, `NodesTree`,
  `SequenceMatcher`, `ErrorRules` and `Prefixes` compute, which would need induction
  over data: all properties of `GrammarGenerator` and `DiffParser`, and
  `ErrorsOnlyWhenInvalid` and `StrictDecidesGrammar`, which compare the parser with a
  recursive recognizer.
* `SignaturesDecided`, `TargetsDecided` and `PartsAreInTheLines` for the same reason: they
  are about what the operators of `ErrorRules` and `Prefixes` compute.
* The violated statements of the three runs with `expect: violation`, naturally.

## Plan

1. Done: `Dfas`, `PlanTables`, `GrammarMeaning`, `GrammarGenerator`;
   `TokenStream`, `Tokenizer`, `TokenizerProofs`; `Parser`, `ParserReference`,
   `ParserProofs`, `ParserOrderProofs`, `ParserBlockProofs`; `Cache`, `CacheSurvival`,
   `CacheCleanup`, `CacheProofs`, `SurvivalProofs`, `CleanupProofs`.
2. Done: `Trees`, `LineTokens`, `TreeParser`, `NodesTree`, `SequenceMatcher`,
   `DiffParser`; `Prefixes`, `ErrorRules`, `ErrorFinder`, `StatementRules`,
   `ErrorFinderProofs`.
3. Of the error finder: error nodes, the rules for f-strings and comprehensions. Of
   the diff parser: byte order marks.
4. Proofs: that `SearchFindsFirst` holds for any nodes in order, as a theorem about the
   search alone, with its recursion as one over the number of nodes left.

## Not modelled

* Of the diff parser: byte order marks, for which nothing is copied; `async`, which is
  unwrapped before a node is looked at; strings over several lines, f-strings and
  comments, so that a prefix is spaces and line ends; `_assert_valid_graph` and the
  comparison of `DEBUG_DIFF_PARSER`, of which `SameTree` is the second. All names are
  alike, so two lines are equal when their kinds and columns are. The assertion on the
  width of a prefix in `_diff_tokenize` is left out.
* Of the error finder: branches for Python below 3.10, error nodes, rules on
  literals, f-strings, `from __future__`, dict displays and comprehensions, `continue`,
  which has the rule of `break`, and the text of messages. There is one name.
* Of the tree: the classes of `python/tree.py` with what they offer to users (names,
  parameters, paths of imports), which read a tree and change nothing.
* Altogether: the pep8 normalizer (layout), the dumps of trees and automata, decoding
  of source bytes, version strings, `load_grammar` (one atomic `setdefault`), and the
  grammar files themselves, which are data for the generator.
