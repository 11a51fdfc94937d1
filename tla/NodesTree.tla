------------------------------ MODULE NodesTree ------------------------------
(***************************************************************************)
(* The tree under construction of the diff parser (_NodesTree in            *)
(* python/diff.py).  It collects groups of nodes, parsed or copied from the *)
(* old tree, and changes none of them before close.  A _NodesTreeNode is    *)
(*   [indentation, groups, kids, at]                                       *)
(* at: which group of its parent ends in the suite it stands for.  The      *)
(* working stack holds the open ones, and a node joins the kids of the one  *)
(* below it when it leaves the stack.  A group is                           *)
(*   [nodes, prefix, offset, endLine, newline]                             *)
(* the last two say where last_line_offset_leaf ends, and how.              *)
(***************************************************************************)
EXTENDS TreeParser

TreeNode(indentation, at) == [indentation |-> indentation, at |-> at, groups |-> <<>>, kids |-> <<>>]

\* _NodesTree.__init__
NewTree ==
  [stack |-> <<TreeNode(0, 0)>>, prefix |-> NoPrefix, remainder |-> NoPrefix, indents |-> <<0>>]

-----------------------------------------------------------------------------
(* The helpers of diff.py on the tree with the given root.                   *)

RECURSIVE SkipBack(_, _, _)
SkipBack(root, path, toks) ==
  IF path # None /\ IsErrorLeafOf(At(root, path), toks)
  THEN SkipBack(root, PreviousLeaf(root, path), toks)
  ELSE path

\* _ends_with_newline; an error_leaf counts as the token it is.
EndsWithNewline(root, path) == At(root, SkipBack(root, path, {"DEDENT"})).tok = "NEWLINE"

GetIndentation(node) == StartPos(node)[2]

Definition(node) == IF node.type = "decorated" THEN Last(node.children) ELSE node

\* _func_or_class_has_suite
HasSuite(node) ==
  Definition(node).type = "classdef" /\ Last(Definition(node).children).type = "suite"

IsFlowNode(node) == ~IsLeaf(node) /\ IsLeaf(node.children[1]) /\ node.children[1].tok = "while"

IsError(node) == node.type \in {"error_leaf", "error_node"}

\* _get_last_line
GetLastLine(root, path) ==
  LET last == LastLeafOf(root, path)
      leaf == At(root, last)
      next == At(root, NextLeaf(root, last))
  IN IF EndsWithNewline(root, last) THEN leaf.line
     ELSE LeafEndPos(leaf)[1]
            + (IF next.type = "ENDMARKER" /\ HasLineEnd(next.prefix) THEN 1 ELSE 0)

-----------------------------------------------------------------------------
(* Groups, and how far they reach.                                          *)

\* add_tree_nodes(prefix, nodes, offset, lastLeaf), where lastLeaf is a path
AddTreeNodes(treeNode, root, prefix, nodes, offset, lastLeaf) ==
  LET last == SkipBack(root, lastLeaf, IndentationTokens)
  IN [treeNode EXCEPT !.groups = Append(@,
        [nodes   |-> nodes,
         prefix  |-> prefix,
         offset  |-> offset,
         endLine |-> LeafEndPos(At(root, last))[1] + offset,
         newline |-> EndsWithNewline(root, last)])]

\* Mistake: a line that has only been begun does not count.
LinesEnded(treeNode, suffix) ==
  LET group == Last(treeNode.groups)
  IN IF treeNode.groups = <<>> THEN Len(suffix) - 1
     ELSE group.endLine + Len(suffix) - 1 - (IF group.newline \/ EndsInLineEnd(suffix) THEN 1 ELSE 0)

\* _NodesTreeNode.get_last_line
RECURSIVE LastLineOf(_, _)
LastLineOf(treeNode, suffix) ==
  LET group == Last(treeNode.groups)
      covered == IF treeNode.groups = <<>> THEN 0
                 ELSE group.endLine - (IF group.newline \/ EndsInLineEnd(suffix) THEN 1 ELSE 0)
      line == covered + Len(suffix) - 1 + (IF Last(suffix) > 0 THEN 1 ELSE 0)
      kid == LastLineOf(Last(treeNode.kids), suffix)
  IN IF treeNode.kids = <<>> \/ line >= kid THEN line ELSE kid

ParsedUntilLine(tree) == LastLineOf(Last(tree.stack), tree.prefix)

PopWorkingStack(stack) ==
  LET k == Len(stack) - 1
  IN [SubSeq(stack, 1, k) EXCEPT ![k].kids = Append(@, stack[k + 1])]

\* _update_insertion_node
RECURSIVE UpdateInsertionNode(_, _)
UpdateInsertionNode(stack, indentation) ==
  IF Last(stack).indentation < indentation \/ Len(stack) = 1 THEN stack
  ELSE UpdateInsertionNode(PopWorkingStack(stack), indentation)

SetTos(stack, treeNode) == Append(Front(stack), treeNode)

-----------------------------------------------------------------------------
(* add_parsed_nodes                                                          *)

\* _update_parsed_node_tos: a class whose suite is at the end may go on there.
RECURSIVE UpdateParsedNodeTos(_, _, _, _)
UpdateParsedNodeTos(stack, root, path, keywordIndents) ==
  LET node == At(root, path)
      last == Append(path, Len(node.children))
      defLeaf == StartPos(At(root, Front(path)))
      suite == AddTreeNodes(TreeNode(Last(keywordIndents[defLeaf]), Len(Last(stack).groups)),
                            root, NoPrefix, node.children, 0, LastLeafOf(root, last))
  IN IF node.type = "suite"
     THEN UpdateParsedNodeTos(Append(stack, suite), root, last, keywordIndents)
     ELSE IF HasSuite(node)
     THEN UpdateParsedNodeTos(stack, root, last, keywordIndents)
     ELSE stack

\* _remove_endmarker and add_parsed_nodes, for the tree of a partial parse
AddParsedNodes(tree, root, keywordIndents) ==
  LET end == LastLeaf(root)
      isEnd == end.type = "ENDMARKER"
      nodes == IF isEnd THEN Front(root.children) ELSE root.children
      split == isEnd /\ HasLineEnd(end.prefix)
      prefix == IF ~isEnd THEN NoPrefix ELSE IF split THEN UntilLineEnd(end.prefix) ELSE end.prefix
      remainder == IF split THEN Spaces(Last(end.prefix)) ELSE NoPrefix
      stack == UpdateInsertionNode(tree.stack, StartPos(nodes[1])[2])
      added == SetTos(stack, AddTreeNodes(Last(stack), root, tree.prefix, nodes, 0,
                                          LastLeafOf(root, <<Len(nodes)>>)))
  IN IF nodes = <<>>
     THEN [tree EXCEPT !.prefix = Join(@, prefix), !.remainder = remainder]
     ELSE [tree EXCEPT !.prefix = prefix, !.remainder = remainder,
             !.stack = UpdateParsedNodeTos(added, root, <<Len(nodes)>>, keywordIndents)]

-----------------------------------------------------------------------------
(* copy_nodes.  The nodes are children i .. of the node at path `parent` of  *)
(* the old tree; what is copied is always a run of them that begins at i.    *)

\* _get_matching_indent_nodes: the index of the last one
LastMatching(root, parent, i, isNewSuite, indents) ==
  LET children == At(root, parent).children
      first == IF isNewSuite THEN i + 1 ELSE i
      indent == GetIndentation(children[first])
      Matches(j) == \A k \in first .. j : GetIndentation(children[k]) = indent
  IN IF ~isNewSuite /\ ~Contains(indents, indent) THEN i - 1
     ELSE CHOOSE j \in first .. Len(children) :
            Matches(j) /\ (j < Len(children) => ~Matches(j + 1))

\* What the loop over the nodes stops at.
Ends(node, untilLine) ==
  \/ StartPos(node)[1] > untilLine
  \/ node.type = "ENDMARKER"
  \/ IsErrorLeafOf(node, {"DEDENT", "ERROR_DEDENT"})

BrokenSuite(node) ==
  ~IsLeaf(node) /\ IsError(Last(IF Definition(node).type = "classdef"
                                THEN Definition(node).children ELSE node.children))

\* The loop over the nodes: the index of the last one taken.
RECURSIVE TakeFrom(_, _, _, _, _)
TakeFrom(root, parent, i, last, untilLine) ==
  LET path == Append(parent, i)
      node == At(root, path)
  IN IF i > last \/ Ends(node, untilLine) THEN i - 1
     ELSE IF GetLastLine(root, path) > untilLine
     THEN IF HasSuite(node) THEN i ELSE i - 1
     ELSE IF BrokenSuite(node) THEN i - 1
     ELSE TakeFrom(root, parent, i + 1, last, untilLine)

\* Errors and flows at the end are left out, back to a node that ends a line.
RECURSIVE PopErrors(_, _, _)
PopErrors(root, children, range) ==
  LET i == range[1]
      j == range[2]
      EndsLine(k) == LastLeaf(children[k]).type = "NEWLINE"
      Back == {k \in i .. j - 1 : EndsLine(k) /\ \A l \in k + 1 .. j - 1 : ~EndsLine(l)}
  IN IF j < i THEN j
     ELSE IF IsError(children[j]) \/ IsFlowNode(children[j])
     THEN PopErrors(root, children, <<i, IF Back = {} THEN i - 1 ELSE CHOOSE k \in Back : TRUE>>)
     ELSE IF j > i /\ children[j - 1].type = "error_node"
     THEN PopErrors(root, children, <<i, j - 1>>)
     ELSE j

RECURSIVE SuitePath(_, _)
SuitePath(root, path) ==
  IF At(root, path).type = "suite" THEN path
  ELSE SuitePath(root, Append(path, Len(At(root, path).children)))

\* A copied group with its last node, as one more of the node on top.
CopiedGroup(c, treeNode, parent, i, j, prefix, lastLeaf) ==
  AddTreeNodes(treeNode, c.root, prefix, SubSeq(At(c.root, parent).children, i, j), c.offset, lastLeaf)

\* The prefix that is open after a copy that ends in this leaf.
PrefixAfter(root, lastLeaf) ==
  LET next == At(root, NextLeaf(root, lastLeaf)).prefix
  IN IF EndsWithNewline(root, lastLeaf) THEN NoPrefix
     ELSE IF HasLineEnd(next) THEN <<next[1], 0>>
     ELSE next

NothingCopied(stack, prefix, added) ==
  [count |-> 0, stack |-> stack, prefix |-> prefix, added |-> added]

CopiedFlat(c, stack, parent, i, j, prefix, added) ==
  LET lastLeaf == LastLeafOf(c.root, Append(parent, j))
  IN [count  |-> j - i + 1,
      stack  |-> SetTos(stack, CopiedGroup(c, Last(stack), parent, i, j, prefix, lastLeaf)),
      prefix |-> PrefixAfter(c.root, lastLeaf),
      added  |-> added]

\* Without the last node, when too little of its suite could be copied.
CopiedWithSuite(c, stack, parent, i, j, prefix, suite, inner) ==
  LET colon == LastLeafOf(c.root, Append(Front(suite), Last(suite) - 1))
      added == <<GetIndentation(At(c.root, suite).children[2])>> \o inner.added
  IN IF inner.count >= 2
     THEN [count  |-> j - i + 1,
           stack  |-> [inner.stack EXCEPT ![Len(stack)] =
                         [@ EXCEPT !.groups =
                            CopiedGroup(c, Last(stack), parent, i, j, prefix, colon).groups]],
           prefix |-> inner.prefix,
           added  |-> added]
     ELSE IF j = i THEN NothingCopied(stack, prefix, added)
     ELSE CopiedFlat(c, stack, parent, i, j - 1, prefix, added)

\* _copy_nodes: how many nodes, the working stack with them, the prefix that
\* is open, and the indents that come with them.
RECURSIVE CopyRun(_, _, _, _, _, _), CopyTaken(_, _, _, _, _, _)
CopyTaken(c, stack, parent, i, j, prefix) ==
  LET last == Append(parent, j)
      suite == SuitePath(c.root, last)
      open == TreeNode(GetIndentation(At(c.root, last)), Len(Last(stack).groups) + 1)
  IN IF j < i THEN NothingCopied(stack, prefix, <<>>)
     ELSE IF ~HasSuite(At(c.root, last)) THEN CopiedFlat(c, stack, parent, i, j, prefix, <<>>)
     ELSE CopiedWithSuite(c, stack, parent, i, j, prefix, suite,
                          CopyRun(c, Append(stack, open), suite, 1, NoPrefix, TRUE))

CopyRun(c, stack, parent, i, prefix, isNested) ==
  LET last == LastMatching(c.root, parent, i, isNested, c.indents)
      taken == TakeFrom(c.root, parent, i, last, c.untilLine)
  IN CopyTaken(c, stack, parent, i, PopErrors(c.root, At(c.root, parent).children, <<i, taken>>), prefix)

\* The tree with what was copied, or as it was.
AfterCopy(tree, indents, run) ==
  IF run.count = 0 THEN tree
  ELSE [stack |-> run.stack, prefix |-> run.prefix, remainder |-> NoPrefix,
        indents |-> indents \o run.added]

\* copy_nodes of the children of the node at path `parent`, from the i-th on
CopyNodes(tree, root, parent, i, untilLine, offset) ==
  LET node == At(root, parent).children[i]
      indentation == GetIndentation(node)
      indents == SelectSeq(tree.indents, LAMBDA n : n <= indentation)
      run == CopyRun([root |-> root, untilLine |-> untilLine, offset |-> offset, indents |-> indents],
                     UpdateInsertionNode(tree.stack, indentation), parent, i, tree.prefix, FALSE)
  IN IF IsError(node) THEN tree ELSE AfterCopy(tree, indents, run)

-----------------------------------------------------------------------------
(* close: now the nodes change.                                              *)

\* _update_positions
RECURSIVE UpdatePositions(_, _)
UpdatePositions(node, offset) ==
  IF IsLeaf(node) THEN [node EXCEPT !.line = @ + offset]
  ELSE [node EXCEPT !.children = [i \in DOMAIN @ |-> UpdatePositions(@[i], offset)]]

\* The prefix goes to the first leaf that is not one of indentation.
RECURSIVE PrependPrefix(_, _)
PrependPrefix(nodes, prefix) ==
  IF IsLeaf(nodes[1])
  THEN IF IsIndentationErrorLeaf(nodes[1])
       THEN <<nodes[1]>> \o PrependPrefix(Tail(nodes), prefix)
       ELSE <<[nodes[1] EXCEPT !.prefix = Join(prefix, @)]>> \o Tail(nodes)
  ELSE <<[nodes[1] EXCEPT !.children = PrependPrefix(@, prefix)]>> \o Tail(nodes)

\* The node with the children of the suite it ends in replaced.
RECURSIVE ReplaceSuite(_, _)
ReplaceSuite(node, children) ==
  IF node.type = "suite" THEN [node EXCEPT !.children = children]
  ELSE [node EXCEPT !.children = Append(Front(@), ReplaceSuite(Last(@), children))]

\* _NodesTreeNode.finish: the children of the node it stands for.  A group
\* that was cut off at a suite has its positions updated up to the colon only:
\* what follows is the suite, and the groups of that have offsets of their own.
RECURSIVE FinishNode(_)
FinishNode(treeNode) ==
  LET Group(g) ==
        LET group == treeNode.groups[g]
            moved == PrependPrefix([i \in DOMAIN group.nodes |->
                                      UpdatePositions(group.nodes[i], group.offset)], group.prefix)
            kids == SelectSeq(treeNode.kids, LAMBDA kid : kid.at = g)
        IN IF kids = <<>> THEN moved
           ELSE Append(Front(moved), ReplaceSuite(Last(moved), FinishNode(kids[1])))
  IN FoldLeft(LAMBDA nodes, g : nodes \o Group(g), <<>>, [g \in DOMAIN treeNode.groups |-> g])

\* All nodes off the stack.
RECURSIVE BaseNode(_)
BaseNode(stack) == IF Len(stack) = 1 THEN stack[1] ELSE BaseNode(PopWorkingStack(stack))

Close(tree) ==
  LET root == Node("file_input", FinishNode(BaseNode(tree.stack)))
      last == SkipBack(root, LastLeafPath(root), {"DEDENT"})
      from == IF root.children = <<>> THEN <<1, 0>> ELSE LeafEndPos(At(root, last))
      prefix == tree.prefix
  IN [root EXCEPT !.children = Append(@,
        [type   |-> "ENDMARKER", tok |-> "ENDMARKER",
         line   |-> from[1] + Len(prefix) - 1,
         col    |-> Last(prefix) + (IF HasLineEnd(prefix) THEN 0 ELSE from[2]),
         prefix |-> Join(prefix, tree.remainder)])]
=============================================================================
