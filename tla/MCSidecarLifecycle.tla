------------------------- MODULE MCSidecarLifecycle -------------------------
(* Instances of SidecarLifecycle for TLC.                                  *)
EXTENDS SidecarLifecycle

CONSTANTS l1, l2, l3, p1, p2

\* One provider for everybody, or the third launch on a provider of its own.
OneProvider == [i \in Launches |-> p1]
TwoProviders == [i \in Launches |-> IF i = l3 THEN p2 ELSE p1]
=============================================================================
