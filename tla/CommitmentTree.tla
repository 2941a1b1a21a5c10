--------------------------- MODULE CommitmentTree ---------------------------
(***************************************************************************)
(* The Merkle tree of nodes/src/merkle.rs: all nodes in one vector, row by *)
(* row from the leafs to the root, every row but the root's padded to an   *)
(* even width, and empty subtrees to the right of a row left out.  The     *)
(* rows of a tree are found in the vector by counting widths, which new,   *)
(* merge and path each do on their own.                                    *)
(*                                                                         *)
(* Nodes are free constructors; positions count from 0 as in the code, so  *)
(* node i of the vector is nodes[i + 1].                                   *)
(***************************************************************************)
EXTENDS Integers, SequencesExt

Combine(l, r) == <<"node", l, r>>

EmptyLeaf == <<"empty">>

EmptyRoot[h \in Nat] ==
  IF h = 0 THEN EmptyLeaf ELSE Combine(EmptyRoot[h - 1], EmptyRoot[h - 1])

TwoTo[k \in Nat] == IF k = 0 THEN 1 ELSE 2 * TwoTo[k - 1]

EvenUp(width) == width + (width % 2)

-----------------------------------------------------------------------------
\* One round of the loop of complete: a vector whose last row starts at start
\* and is width wide grows by its padding and by the row of height h + 1.
Row(t, h) ==
  LET padded == IF t.width % 2 = 1 THEN Append(t.nodes, EmptyRoot[h]) ELSE t.nodes
      width  == EvenUp(t.width)
      above  == [j \in 1..(width \div 2) |->
                   Combine(padded[t.start + 2 * j - 1], padded[t.start + 2 * j])]
  IN  [nodes |-> padded \o above, start |-> t.start + width, width |-> width \div 2]

Complete(depth, t, h, leafs) ==
  LET rows[i \in 0..depth] == IF i <= h THEN t ELSE Row(rows[i - 1], i - 1)
  IN  [nodes |-> rows[depth].nodes, leaf_count |-> leafs, depth |-> depth]

New(depth, leafs) ==
  Complete(depth, [nodes |-> leafs, start |-> 0, width |-> Len(leafs)], 0, Len(leafs))

RootOf(tree) ==
  IF tree.nodes = <<>> THEN EmptyRoot[tree.depth] ELSE Last(tree.nodes)

-----------------------------------------------------------------------------
\* The sibling of position p in a row that starts at start and is width wide.
\* A right child looks to its left even where the row has ended.
Sibling(tree, h, start, width, p) ==
  LET q == IF p % 2 = 0 THEN p + 1 ELSE p - 1
  IN  [node |-> IF q < width THEN tree.nodes[start + q + 1] ELSE EmptyRoot[h],
       right |-> p % 2 = 1]

\* mutant: rows are taken to be as wide as they are filled
StepUnpadded(tree, s, h) ==
  [path |-> Append(s.path, Sibling(tree, h, s.start, s.width, s.pos)),
   start |-> s.start + s.width, width |-> s.width \div 2, pos |-> s.pos \div 2]

PathStep(tree, s, h) ==
  LET width == EvenUp(s.width)
  IN  [path |-> Append(s.path, Sibling(tree, h, s.start, width, s.pos)),
       start |-> s.start + width, width |-> width \div 2, pos |-> s.pos \div 2]

AtLeaf(tree, pos) == [path |-> <<>>, start |-> 0, width |-> tree.leaf_count, pos |-> pos]

Path(tree, pos) ==
  LET walk[h \in 0..tree.depth] ==
        IF h = 0 THEN AtLeaf(tree, pos) ELSE PathStep(tree, walk[h - 1], h - 1)
  IN  walk[tree.depth].path

\* MerklePath::root: where a path leads from a leaf.
Parent(node, s) == IF s.right THEN Combine(s.node, node) ELSE Combine(node, s.node)

PathRoot(path, leaf) ==
  LET node[i \in 0..Len(path)] == IF i = 0 THEN leaf ELSE Parent(node[i - 1], path[i])
  IN  node[Len(path)]

-----------------------------------------------------------------------------
\* merge puts the rows of n - 1 full trees of one size, a power of two, and of
\* a last tree no larger side by side, up to the roots of the full ones.

Log2(n) == CHOOSE k \in 0..n : TwoTo[k] = n

\* mutant: the last tree's rows are taken as wide as they are filled
UnpaddedLast(m) == 0

\* The padding of the last tree's row, which its vector holds, is taken along
\* except beside the roots of the full trees.
LastPadding(m) == IF m.first_width > 1 THEN m.last_width % 2 ELSE 0

\* One round of the loop of merge, without its update of the positions.
MergedRow(subtrees, m) ==
  LET last_width == m.last_width + LastPadding(m)
  IN  [m EXCEPT !.last_width = last_width,
                !.width = @ + LastPadding(m),
                !.nodes = @
                  \o FlattenSeq([i \in 1..(Len(subtrees) - 1) |->
                       SubSeq(subtrees[i].nodes, m.first_start + 1,
                              m.first_start + m.first_width)])
                  \o SubSeq(Last(subtrees).nodes, m.last_start + 1,
                            m.last_start + last_width)]

RowAbove(m) ==
  [m EXCEPT !.first_start = @ + m.first_width, !.first_width = @ \div 2,
            !.last_start = @ + m.last_width, !.last_width = @ \div 2,
            !.start = @ + m.width, !.width = @ \div 2]

Merge(depth, subtrees) ==
  IF subtrees = <<>> THEN [nodes |-> <<>>, leaf_count |-> 0, depth |-> depth]
  ELSE IF Len(subtrees) = 1 THEN subtrees[1]
  ELSE
    LET size   == subtrees[1].leaf_count
        last   == Last(subtrees).leaf_count
        leafs  == (Len(subtrees) - 1) * size + last
        levels == Log2(size)
        start  == [nodes |-> <<>>, first_start |-> 0, first_width |-> size,
                   last_start |-> 0, last_width |-> last, start |-> 0, width |-> leafs]
        rounds[i \in 0..levels] ==
          MergedRow(subtrees, IF i = 0 THEN start ELSE RowAbove(rounds[i - 1]))
        top    == rounds[levels]
    IN  Complete(depth, [nodes |-> top.nodes, start |-> top.start, width |-> top.width],
                 levels, leafs)
=============================================================================
