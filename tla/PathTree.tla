------------------------------ MODULE PathTree ------------------------------
(***************************************************************************)
(* The tree of rows that `agent stats` prints (lib/path_tree.py and        *)
(* cli/stats/tree.py).  A path is a sequence of segments; a node's name is *)
(* the segments folded into it.  The order of siblings and the glyphs are  *)
(* left out: a line is a node with its depth.                              *)
(***************************************************************************)
EXTENDS Integers, FiniteSets, Sequences, FiniteSetsExt, SequencesExt, Folds

CONSTANTS
  CellLen,  \* CellLen[segment]: its width
  NoRow,    \* a structural node's row
  Self      \* SELF_ROW_NAME

Node(name, row, kids) == [name |-> name, row |-> row, kids |-> kids]
ONE(S) == CHOOSE x \in S : TRUE

\* build_path_tree's loop: the trie below a prefix.
RECURSIVE Trie(_, _, _)
Trie(name, prefix, paths) ==
  LET below == {p \in paths : Len(p) > Len(prefix) /\ IsPrefix(prefix, p)}
      heads == {p[Len(prefix) + 1] : p \in below}
  IN  Node(name, IF prefix # <<>> /\ prefix \in paths THEN prefix ELSE NoRow,
           {Trie(<<s>>, Append(prefix, s), below) : s \in heads})

\* _compress: a structural node with one child is folded into it, the root never.
RECURSIVE Folded(_), Compress(_)
Folded(n) ==
  IF n.row = NoRow /\ Cardinality(n.kids) = 1
  THEN Folded([ONE(n.kids) EXCEPT !.name = n.name \o @]) ELSE n
Compress(n) == [n EXCEPT !.kids = {Folded(Compress(k)) : k \in @}]

\* Mutant of SplitSelfRows: a row stays on the line above its subprojects.
SplitNoRows(n) == n

\* _split_self_rows: a row of a node with children moves to a child of its own.
RECURSIVE SplitSelfRows(_)
SplitSelfRows(n) ==
  LET kids == {SplitSelfRows(k) : k \in n.kids} IN
  IF n.row # NoRow /\ kids # {}
  THEN Node(n.name, NoRow, kids \cup {Node(<<Self>>, n.row, {})})
  ELSE [n EXCEPT !.kids = kids]

BuildPathTree(paths) == SplitSelfRows(Compress(Trie(<<>>, <<>>, paths)))

\* _aggregate and _count_rows: what a structural line reports of its subtree.
RECURSIVE Below(_)
Below(n) == (IF n.row = NoRow THEN {} ELSE {n.row}) \cup UNION {Below(k) : k \in n.kids}
RECURSIVE SubtreeSum(_, _)
SubtreeSum(n, value) ==
  (IF n.row = NoRow THEN 0 ELSE value[n.row]) +
  MapThenSumSet(LAMBDA k : SubtreeSum(k, value), n.kids)

\* walk_path_tree and flatten_tree, without the order.
RECURSIVE Lines(_, _)
Lines(n, depth) ==
  UNION {{[depth |-> depth, node |-> k]} \cup Lines(k, depth + 1) : k \in n.kids}

Width(line) ==
  LET name == line.node.name IN
  line.depth + (IF line.node.kids = {} THEN 0 ELSE 1) + Len(name) - 1
             + FoldSeq(LAMBDA s, w : w + CellLen[s], 0, name)
MaxLabelWidth(tree) == Max({0} \cup {Width(x) : x \in Lines(tree, 1)})

\* expand_widest_chain: a sibling group with a widest folded name gives back a
\* segment of each folded name, unless that makes the tree wider.
SplitFirst(k) ==
  IF Len(k.name) = 1 THEN k
  ELSE Node(<<Head(k.name)>>, NoRow, {[k EXCEPT !.name = Tail(@)]})
RECURSIVE SplitGroup(_, _)
SplitGroup(n, group) ==
  IF n = group THEN [n EXCEPT !.kids = {SplitFirst(k) : k \in @}]
  ELSE [n EXCEPT !.kids = {SplitGroup(k, group) : k \in @}]
RECURSIVE Parents(_, _)
Parents(n, x) == (IF x.node \in n.kids THEN {n} ELSE {}) \cup UNION {Parents(k, x) : k \in n.kids}
WidestFolded(tree) ==
  LET folded == {x \in Lines(tree, 1) : Len(x.node.name) > 1} IN
  {x \in folded : \A y \in folded : Width(y) <= Width(x)}
Expanded(tree) ==
  {t \in {SplitGroup(tree, ONE(Parents(tree, x))) : x \in WidestFolded(tree)} :
     MaxLabelWidth(t) <= MaxLabelWidth(tree)}
=============================================================================
