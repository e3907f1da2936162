--------------------------- MODULE MCLogPipeline ----------------------------
(***************************************************************************)
(* Who uses what in TLC's instances of LogPipeline.                        *)
(***************************************************************************)
EXTENDS LogPipeline

CONSTANTS s1, s2, r1, r2, r3, r4, c1, c2, c3, x, y

\* r4, if there is one, belongs to a session of its own.
Dirs == [r \in Records |-> IF r = r4 THEN s2 ELSE s1]
OwnId == [s \in Sessions |-> s]

\* Every record of s1 repeats the conversation so far; r4 shares a content.
Talk == [r \in Records |-> CASE r = r1 -> {c1} [] r = r2 -> {c1, c2}
                             [] r = r3 -> {c1, c2, c3} [] r = r4 -> {c2}]
TalkStrings == [c \in Contents |-> IF c = c1 THEN {x} ELSE {y}]
=============================================================================
