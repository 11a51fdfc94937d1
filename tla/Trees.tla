------------------------------- MODULE Trees -------------------------------
(***************************************************************************)
(* The tree (tree.py) and the ways through it.  A leaf is                   *)
(*   [type, tok, line, col, prefix]                                        *)
(* and a node [type, children]; in place of references to parents, a node   *)
(* is known by its path from the root, the indices of the children on the   *)
(* way, and None is a path, too.  The type of a leaf is its token, unless   *)
(* it is an error_leaf.  A prefix is the widths of its lines.               *)
(***************************************************************************)
EXTENDS Integers, Sequences, SequencesExt

CONSTANT Width         \* token -> the width of its text, if that is one line

None == <<0>>

IsLeaf(n) == "children" \notin DOMAIN n

At(root, path) == FoldLeft(LAMBDA n, i : n.children[i], root, path)

RECURSIVE FirstLeafPath(_)
FirstLeafPath(n) == IF IsLeaf(n) THEN <<>> ELSE <<1>> \o FirstLeafPath(n.children[1])

RECURSIVE LastLeafPath(_)
LastLeafPath(n) ==
  IF IsLeaf(n) THEN <<>>
  ELSE LET k == Len(n.children) IN <<k>> \o LastLeafPath(n.children[k])

FirstLeaf(n) == At(n, FirstLeafPath(n))
LastLeaf(n) == At(n, LastLeafPath(n))

\* get_last_leaf of the node at a path
LastLeafOf(root, path) == path \o LastLeafPath(At(root, path))

\* get_next_leaf: up to the first node that has a next sibling, and down again.
RECURSIVE NextLeaf(_, _)
NextLeaf(root, path) ==
  IF path = <<>> THEN None
  ELSE LET sibling == Append(Front(path), Last(path) + 1)
       IN IF Last(path) = Len(At(root, Front(path)).children)
          THEN NextLeaf(root, Front(path))
          ELSE sibling \o FirstLeafPath(At(root, sibling))

RECURSIVE PreviousLeaf(_, _)
PreviousLeaf(root, path) ==
  IF path = <<>> THEN None
  ELSE IF Last(path) = 1 THEN PreviousLeaf(root, Front(path))
  ELSE LastLeafOf(root, Append(Front(path), Last(path) - 1))

-----------------------------------------------------------------------------
(* Positions are pairs of a line and a column.                              *)

StartPos(n) == LET leaf == FirstLeaf(n) IN <<leaf.line, leaf.col>>

LeafEndPos(leaf) ==
  IF leaf.tok = "NEWLINE" THEN <<leaf.line + 1, 0>> ELSE <<leaf.line, leaf.col + Width[leaf.tok]>>

EndPos(n) == LeafEndPos(LastLeaf(n))

AtOrBefore(p, q) == p[1] < q[1] \/ (p[1] = q[1] /\ p[2] <= q[2])

IsErrorLeafOf(n, toks) == n.type = "error_leaf" /\ n.tok \in toks

IndentationTokens == {"INDENT", "DEDENT", "ERROR_DEDENT"}

IsIndentationErrorLeaf(n) == IsErrorLeafOf(n, IndentationTokens)

\* PythonLeaf.get_start_pos_of_prefix passes over one leaf of indentation.
StartPosOfPrefix(root, path) ==
  LET p == PreviousLeaf(root, path)
      q == IF p # None /\ IsIndentationErrorLeaf(At(root, p)) THEN PreviousLeaf(root, p) ELSE p
      leaf == At(root, path)
  IN IF q = None
     THEN <<leaf.line - Len(leaf.prefix) + 1, 0>>
     ELSE LeafEndPos(At(root, q))

-----------------------------------------------------------------------------
\* Mistake: position < element.end_pos
FirstHalfBefore(element, position) == ~AtOrBefore(EndPos(element), position)

\* Which half binary_search goes on with.
InFirstHalf(element, position) == AtOrBefore(position, EndPos(element))

\* get_leaf_for_position(position, include_prefixes=True) below the node at path
RECURSIVE BinarySearch(_, _, _, _, _)
BinarySearch(root, path, position, lower, upper) ==
  LET Child(i) == At(root, Append(path, i))
      index == (lower + upper - 2) \div 2 + 1        \* the code counts from 0
  IN IF lower = upper
     THEN IF IsLeaf(Child(lower))
          THEN Append(path, lower)
          ELSE BinarySearch(root, Append(path, lower), position, 1, Len(Child(lower).children))
     ELSE IF InFirstHalf(Child(index), position)
          THEN BinarySearch(root, path, position, lower, index)
          ELSE BinarySearch(root, path, position, index + 1, upper)

LeafForPosition(root, position) ==
  BinarySearch(root, <<>>, position, 1, Len(root.children))

-----------------------------------------------------------------------------
(* For reference: all leaves below a node, in order, and their paths.        *)

RECURSIVE LeafPaths(_, _)
LeafPaths(root, path) ==
  IF IsLeaf(At(root, path)) THEN <<path>>
  ELSE FoldLeft(LAMBDA paths, i : paths \o LeafPaths(root, Append(path, i)), <<>>,
                [i \in DOMAIN At(root, path).children |-> i])

RECURSIVE Leaves(_)
Leaves(n) ==
  IF IsLeaf(n) THEN <<n>>
  ELSE FoldLeft(LAMBDA leaves, child : leaves \o Leaves(child), <<>>, n.children)
=============================================================================
