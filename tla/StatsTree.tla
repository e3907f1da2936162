----------------------------- MODULE StatsTree ------------------------------
(***************************************************************************)
(* The reports of Accounts as the tree that `agent stats` prints           *)
(* (build_project_tree, and the loop that narrows it, render).             *)
(***************************************************************************)
EXTENDS Accounts, PathTree

Roots == {ResolveGroup(p) : p \in registry}

\* render's loop: the tree is expanded until it fits or cannot be.
RECURSIVE Shrunk(_)
Shrunk(tree) == {tree} \cup UNION {Shrunk(t) : t \in Expanded(tree)}

\* The prefixes at which rows part or that are rows above other rows.
Forks ==
  {q \in UNION {{SubSeq(r, 1, n) : n \in 1..(Len(r) - 1)} : r \in Roots} :
     LET below == {r \in Roots : IsPrefix(q, r)} IN
     q \in below \/ Cardinality({r[Len(q) + 1] : r \in below}) > 1}

\* Every row is one line of the tree, a heading stands where rows part and adds up
\* what is below it, and giving back segments keeps the rows and the sums, never
\* widens a line and ends (build_path_tree, _aggregate, expand_widest_chain).
TreeShowsAll ==
  LET size     == [r \in Roots |-> 1 + Len(r)]
      Sum(R)   == MapThenSumSet(LAMBDA r : size[r], R)
      built    == BuildPathTree(Roots)
      Leaves(t) == {x \in Lines(t, 1) : x.node.row # NoRow}
      Heads(t)  == Lines(t, 1) \ Leaves(t)
  IN  /\ Cardinality(Heads(built)) = Cardinality(Forks)
      /\ \A t \in Shrunk(built) :
           /\ {x.node.row : x \in Leaves(t)} = Roots /\ Cardinality(Leaves(t)) = Cardinality(Roots)
           /\ \A x \in Leaves(t) : x.node.kids = {}
           /\ \A x \in Heads(t) : SubtreeSum(x.node, size) = Sum(Below(x.node))
           /\ SubtreeSum(t, size) = Sum(Roots)
           /\ MaxLabelWidth(t) <= MaxLabelWidth(built)
=============================================================================
