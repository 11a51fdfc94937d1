----------------------------- MODULE ErrorRules -----------------------------
(***************************************************************************)
(* The rules of the error finder (python/errors.py) that look at one        *)
(* statement only: parameters, arguments, except clauses, and what may be   *)
(* assigned to, for Python 3.10 and later.  Of the errors of a line only    *)
(* the first one is kept, so a rule gives the sequence of its messages, or  *)
(* where these are alike whether there is one.                              *)
(***************************************************************************)
EXTENDS Integers, Sequences, SequencesExt, FiniteSets

CONSTANT
  StarLimit            \* 256: what may stand before a star that is assigned to

-----------------------------------------------------------------------------
(* A parameter is <<kind, name>>: "plain", "default", "args" for *a,        *)
(* "kwargs", or, without a name, "bare" for the star alone and "slash".     *)

RepeatedName(names, p) == IF p[2] \in names THEN <<"duplicate argument">> ELSE <<>>

\* Mistake: keyword-only parameters are judged like positional ones, from anew.
AfterStarAnew(s) == [s EXCEPT !.defaultOnly = FALSE]

\* What comes after a star may have a default or not.
AfterStar(s) == [s EXCEPT !.star = TRUE, !.defaultOnly = FALSE]

NextParameter(s, p) ==
  LET named == [s EXCEPT !.names = @ \cup {p[2]}, !.issues = @ \o RepeatedName(s.names, p)]
  IN IF s.done THEN s
     ELSE IF p[1] = "slash" THEN s
     ELSE IF p[1] = "bare" THEN AfterStar(s)
     ELSE IF s.star THEN named
     ELSE IF p[1] \in {"args", "kwargs"} THEN AfterStar(named)
     ELSE IF p[1] = "default" THEN [named EXCEPT !.defaultOnly = TRUE]
     ELSE IF s.defaultOnly
     THEN [named EXCEPT !.issues = Append(@, "non-default argument"), !.done = TRUE]
     ELSE named

\* _ParameterRule; it returns at the first parameter that lacks a default.
ParameterRule(params) ==
  FoldLeft(NextParameter,
           [names |-> {}, defaultOnly |-> FALSE, star |-> FALSE, done |-> FALSE, issues |-> <<>>],
           params).issues

\* _StarCheck
StarCheck(params) ==
  IF \E i \in DOMAIN params :
       /\ params[i][1] = "bare"
       /\ \A j \in i + 1 .. Len(params) : params[j][1] \in {"args", "bare", "kwargs"}
  THEN <<"named arguments must follow">> ELSE <<>>

ParameterIssues(params) == ParameterRule(params) \o StarCheck(params)

-----------------------------------------------------------------------------
(* An argument is <<kind, name>>: "positional", "keyword", "star",          *)
(* "starstar", "generator", or "comma" for a comma after the last one.      *)

PositionalIssue(s) ==
  IF s.unpacking THEN <<"positional follows unpacking">>
  ELSE IF s.keyword THEN <<"positional follows keyword">>
  ELSE <<>>

NextArgument(s, a) ==
  IF s.done THEN s
  ELSE CASE a[1] = "generator" -> [s EXCEPT !.issues = Append(@, "generator"), !.done = TRUE]
         [] a[1] = "star" ->
              [s EXCEPT !.issues = @ \o IF s.unpacking THEN <<"iterable follows unpacking">> ELSE <<>>]
         [] a[1] = "starstar" -> [s EXCEPT !.unpacking = TRUE]
         [] a[1] = "keyword" ->
              [s EXCEPT !.keyword = TRUE, !.names = @ \cup {a[2]},
                        !.issues = @ \o IF a[2] \in s.names THEN <<"keyword repeated">> ELSE <<>>]
         [] a[1] = "positional" -> [s EXCEPT !.issues = @ \o PositionalIssue(s)]
         [] a[1] = "comma" -> s

\* _ArglistRule; a single argument makes an arglist with a comma after it only.
ArglistRule(args) ==
  IF Len(args) < 2 THEN <<>>
  ELSE FoldLeft(NextArgument,
                [names |-> {}, keyword |-> FALSE, unpacking |-> FALSE, done |-> FALSE, issues |-> <<>>],
                args).issues

-----------------------------------------------------------------------------
(* _TryStmtRule: the clauses are "bare" or "typed".                          *)

TryStmtRule(clauses) ==
  FoldLeft(LAMBDA s, clause :
             IF clause = "bare" THEN [s EXCEPT !.default = TRUE]
             ELSE IF s.default THEN [s EXCEPT !.issues = Append(@, "default must be last")]
             ELSE s,
           [default |-> FALSE, issues |-> <<>>], clauses).issues

-----------------------------------------------------------------------------
(* Targets.  A target is [type, kids]: "name", "attribute", "subscript";    *)
(* "call" and "literal" stand for all that cannot be assigned to; (x) is a  *)
(* "paren" and [x] a "bracket"; "tuple", "list" and, without brackets,      *)
(* "exprs" have a comma or are empty; "star" is *x.  A form is the          *)
(* statement a target is in.                                                *)

Brackets == {"paren", "bracket", "tuple", "list"}

\* _STAR_EXPR_PARENTS; () and [] have no node of this kind.
StarExprParents == {"tuple", "list", "exprs"}

\* _check_assignment of a node below one of type parent, for the forms that
\* assign, delete and are named expressions.
RECURSIVE CheckAssignment(_, _, _)
CheckAssignment(node, parent, form) ==
  CASE node.type = "name" -> FALSE
    [] node.type \in {"attribute", "subscript"} -> form = "named"
    [] node.type \in {"call", "literal"} -> TRUE
    [] node.type = "star" ->
         \/ form = "del"
         \/ parent \notin StarExprParents \cup {"bracket"}
         \/ CheckAssignment(node.kids[1], "star", "assign")
    [] OTHER ->
         \/ form = "named" /\ node.type \in {"tuple", "list"} /\ node.kids # <<>>
         \/ \E i \in DOMAIN node.kids : CheckAssignment(node.kids[i], node.type, form)

\* _remove_parens
RECURSIVE RemoveParens(_)
RemoveParens(node) == IF node.type = "paren" THEN RemoveParens(node.kids[1]) ELSE node

IsPlace(node) == node.type \in {"name", "attribute", "subscript"}

\* _StarExprRule of all stars below a node.  deletes: check_delete_starred
\* climbs through brackets and lists only.
RECURSIVE StarExprRule(_, _, _)
StarExprRule(node, parent, deletes) ==
  \/ /\ node.type = "star"
     /\ parent \notin StarExprParents \cup {"bracket"} \/ deletes
  \/ \E i \in DOMAIN node.kids :
       StarExprRule(node.kids[i], node.type, deletes /\ node.type # "star")

Stars(node) == {i \in DOMAIN node.kids : node.kids[i].type = "star"}

\* More than one star, or too much before it
TooManyExpressions(node) ==
  /\ node.type \in StarExprParents
  /\ Cardinality(Stars(node)) > 1 \/ \E i \in Stars(node) : i - 1 >= StarLimit

\* Mistake: only the stars of the outermost list count.
StarExprParentTop(node) == TooManyExpressions(node)

\* _StarExprParentRule of all lists below a node of an expr_stmt
RECURSIVE StarExprParentRule(_)
StarExprParentRule(node) ==
  \/ TooManyExpressions(node)
  \/ \E i \in DOMAIN node.kids : StarExprParentRule(node.kids[i])

\* _AnnotatorRule, and the end of _ExprStmtRule for an augmented assignment
AnnotatorRule(target) == ~IsPlace(RemoveParens(target))
AugmentedIssue(target) == ~IsPlace(RemoveParens(target))

\* _ExprStmtRule; the target of an annotation is left to _AnnotatorRule.
ExprStmtRule(form, target) ==
  CASE form = "assign" -> CheckAssignment(target, "stmt", "assign")
    [] form = "aug" -> AugmentedIssue(target)
    [] form = "ann" -> FALSE

\* _ForStmtRule, _CompForRule and _WithItemRule
BoundIssue(target) == CheckAssignment(target, "stmt", "assign")

DelStmtRule(target) == CheckAssignment(target, "stmt", "del")

\* The end of _NamedExprRule
NamedExprRule(target) == CheckAssignment(target, "stmt", "named")

\* All rules that are called at a target or below it.
TargetIssue(form, target) ==
  \/ StarExprRule(target, "stmt", form = "del")
  \/ form \in {"assign", "aug", "ann"} /\ (StarExprParentRule(target) \/ ExprStmtRule(form, target))
  \/ form = "ann" /\ AnnotatorRule(target)
  \/ form \in {"for", "comp", "with"} /\ BoundIssue(target)
  \/ form = "del" /\ DelStmtRule(target)
  \/ form = "named" /\ NamedExprRule(target)

-----------------------------------------------------------------------------
(* For reference: what Python refuses.                                       *)

ParametersIllegal(params) ==
  LET star == SelectInSeq(params, LAMBDA p : p[1] \in {"args", "bare"})
      IsPositional(i) == star = 0 \/ i < star
      Named == {i \in DOMAIN params : params[i][1] \notin {"bare", "slash"}}
  IN \/ \E i, j \in Named : i < j /\ params[i][2] = params[j][2]
     \/ \E i, j \in DOMAIN params :
          i < j /\ IsPositional(j) /\ params[i][1] = "default" /\ params[j][1] = "plain"
     \/ \E i \in DOMAIN params :
          /\ params[i][1] = "bare"
          /\ i = Len(params) \/ params[i + 1][1] = "kwargs"

ArgumentsIllegal(args) ==
  \E i, j \in DOMAIN args :
    \/ i # j /\ args[i][1] = "generator"
    \/ i < j /\ args[i][1] = "keyword" /\ args[j] = args[i]
    \/ i < j /\ args[i][1] \in {"keyword", "starstar"} /\ args[j][1] = "positional"
    \/ i < j /\ args[i][1] = "starstar" /\ args[j][1] = "star"

ClausesIllegal(clauses) == \E i \in 1 .. Len(clauses) - 1 : clauses[i] = "bare"

\* A star is part of a list, at most once and not behind too many others,
\* although it passes outside of assignments: the finder counts below an
\* expr_stmt only.
RECURSIVE Assignable(_, _)
Assignable(target, form) ==
  LET Item(kid) == Assignable(IF kid.type = "star" THEN kid.kids[1] ELSE kid, form)
  IN CASE target.type \in StarExprParents \cup {"bracket"} ->
            /\ form = "assign" => /\ Cardinality(Stars(target)) <= 1
                                  /\ Stars(target) \subseteq 1 .. StarLimit
            /\ \A i \in DOMAIN target.kids : Item(target.kids[i])
       [] target.type = "paren" -> Assignable(target.kids[1], form)
       [] OTHER -> IsPlace(target)

RECURSIVE HasStar(_)
HasStar(target) ==
  target.type = "star" \/ \E i \in DOMAIN target.kids : HasStar(target.kids[i])

TargetIllegal(form, target) ==
  CASE form \in {"assign", "for", "comp", "with"} -> ~Assignable(target, form)
    [] form = "del" -> ~Assignable(target, form) \/ HasStar(target)
    [] form \in {"aug", "ann"} -> ~IsPlace(RemoveParens(target))
    [] form = "named" -> target.type # "name"
=============================================================================
