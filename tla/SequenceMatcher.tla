--------------------------- MODULE SequenceMatcher ---------------------------
(* difflib.SequenceMatcher of the standard library, as the diff parser uses  *)
(* it: which ranges of lines are equal, replaced, inserted or deleted.       *)
EXTENDS Integers, Sequences, SequencesExt

\* The blocks of equal elements of a[alo .. ahi] and b[blo .. bhi], as
\* <<i, j, size>>: the longest block first, of several the one with the least i,
\* then the least j; then what is to its left and to its right.
RECURSIVE MatchingBlocks(_, _, _, _, _, _)
MatchingBlocks(a, b, alo, ahi, blo, bhi) ==
  LET Equal(i, j, k) == \A n \in 0 .. k - 1 : a[i + n] = b[j + n]
      Blocks(k) == {ij \in (alo .. ahi - k + 1) \X (blo .. bhi - k + 1) : Equal(ij[1], ij[2], k)}
      size == CHOOSE k \in 0 .. ahi - alo + 1 :
                Blocks(k) # {} /\ (k = ahi - alo + 1 \/ Blocks(k + 1) = {})
      First(ij) == \A other \in Blocks(size) :
                     ij[1] < other[1] \/ (ij[1] = other[1] /\ ij[2] <= other[2])
      block == CHOOSE ij \in Blocks(size) : First(ij)
      i == block[1]
      j == block[2]
  IN IF alo > ahi \/ blo > bhi \/ size = 0 THEN <<>>
     ELSE MatchingBlocks(a, b, alo, i - 1, blo, j - 1)
            \o << <<i, j, size>> >>
            \o MatchingBlocks(a, b, i + size, ahi, j + size, bhi)

\* get_matching_blocks joins blocks that are next to each other.
Adjacent(p, q) == p[1] + p[3] = q[1] /\ p[2] + p[3] = q[2]

Joined(blocks) ==
  FoldLeft(LAMBDA done, q :
             IF done # <<>> /\ Adjacent(Last(done), q)
             THEN Append(Front(done), [Last(done) EXCEPT ![3] = @ + q[3]])
             ELSE Append(done, q),
           <<>>, blocks)

Opcode(tag, i1, i2, j1, j2) == [tag |-> tag, i1 |-> i1, i2 |-> i2, j1 |-> j1, j2 |-> j2]

\* get_opcodes; i1 and j1 count from 0 and i2 and j2 are exclusive, as in Python.
Opcodes(a, b) ==
  LET blocks == Joined(MatchingBlocks(a, b, 1, Len(a), 1, Len(b)))
      Between(i1, i2, j1, j2) ==
        CASE i1 < i2 /\ j1 < j2 -> <<Opcode("replace", i1, i2, j1, j2)>>
          [] i1 < i2 /\ j1 = j2 -> <<Opcode("delete", i1, i2, j1, j2)>>
          [] i1 = i2 /\ j1 < j2 -> <<Opcode("insert", i1, i2, j1, j2)>>
          [] OTHER              -> <<>>
      Add(r, q) ==
        LET i == q[1] - 1
            j == q[2] - 1
        IN [ops |-> r.ops \o Between(r.i, i, r.j, j)
                      \o <<Opcode("equal", i, i + q[3], j, j + q[3])>>,
            i |-> i + q[3], j |-> j + q[3]]
      all == FoldLeft(Add, [ops |-> <<>>, i |-> 0, j |-> 0], blocks)
  IN all.ops \o Between(all.i, Len(a), all.j, Len(b))
=============================================================================
