--------------------------- MODULE MCViewerDaemon ----------------------------
(* Instances of ViewerDaemon for TLC.                                       *)
EXTENDS ViewerDaemon

CONSTANTS c1, c2, c3

\* Two launchers, one of which waits for the viewer, and a stopper.
Mixed == [c \in Commands |-> CASE c = c1 -> "autostart" [] c = c2 -> "logs" [] c = c3 -> "stop"]
=============================================================================
