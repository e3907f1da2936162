---------------------------- MODULE MCLogsViewer ----------------------------
(***************************************************************************)
(* Who owns what in TLC's instances of LogsViewer: two projects with a     *)
(* directory each, a session of the first that two providers served.       *)
(***************************************************************************)
EXTENDS LogsViewer

CONSTANTS p1, p2, h1, h2, k1, k2, k3, s1, s2, r1, r2, r3, b1, b2

Roots == [p \in Projects |-> IF p = p1 THEN 2 ELSE 1]
Owned == [p \in Projects |-> IF p = p1 THEN h1 ELSE h2]
Under == [k \in Keys |-> IF k = k3 THEN h2 ELSE h1]
Ids == [k \in Keys |-> IF k = k3 THEN s2 ELSE s1]
Ranks == [k \in Keys |-> CASE k = k1 -> 1 [] k = k2 -> 2 [] k = k3 -> 3]

\* One record per directory.
Spread == [r \in Records |-> CASE r = r1 -> k1 [] r = r2 -> k2 [] r = r3 -> k3]
InTurn == [r \in Records |-> CASE r = r1 -> 1 [] r = r2 -> 2 [] r = r3 -> 3]
Growing == [r \in Records |-> CASE r = r1 -> {b1} [] r = r2 -> {b1, b2} [] r = r3 -> {b2}]
=============================================================================
