----------------------------- MODULE MCInstall ------------------------------
(***************************************************************************)
(* An install for TLC: an image of a project, a base, a recipe that        *)
(* changes with every version, and three hosts to begin with.              *)
(***************************************************************************)
EXTENDS Install

CONSTANTS a, b, f, u, x, p, q, d1, d2, d3

img(id, tag, recipe, parent, iter, baseId, name) ==
  [id |-> id, tag |-> tag, recipe |-> recipe, parent |-> parent, iter |-> iter,
   baseId |-> baseId, name |-> name]

MCKind == [c \in Commands |-> CASE c = a -> "run" [] c = b -> "headless"
                                [] c = f -> "full" [] c = u -> "update" [] c = x -> "cleanup"]
MCCrews == {{a, u, x}, {a, b}, {b, f}}
MCTarget == [c \in Commands |-> IF c = u THEN Base ELSE p]
MCDefault == [v \in Versions |-> <<d1, d2, d3>>[v]]
MCIteration == [v \in Versions |-> <<1, 2, 2>>[v]]
MCScripts == [v \in Versions |-> <<1, 2, 2>>[v]]

\* No image at all; images of a release that stamped nothing; a current base
\* with a project that has gone from the registry on it.
MCFound ==
  { {},
    {img(1, Base, 0, 0, NoLabel, NoLabel, NoLabel), img(2, p, 0, 1, NoLabel, NoLabel, NoLabel)},
    {img(1, Base, 1, 0, 1, NoLabel, Base), img(2, q, 1, 1, 1, 1, q)} }
=============================================================================
