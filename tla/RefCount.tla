------------------------------ MODULE RefCount ------------------------------
(***************************************************************************)
(* What the sidecar subsystem promises to the agents, with the locks, the  *)
(* tickets and the registration files left out: every container has a set  *)
(* of users, it is up whenever somebody uses it, and it is taken down only *)
(* when nobody does ("last light out", per container).                     *)
(***************************************************************************)
CONSTANTS Launches, Containers

VARIABLES users, up

\* users[c]: the launches whose agent depends on c;  up: the running containers.
RefTypeOK ==
  /\ users \in [Containers -> SUBSET Launches]
  /\ up \subseteq Containers

RefInit ==
  /\ users = [c \in Containers |-> {}]
  /\ up \subseteq Containers

BringUp(c) ==
  /\ up' = up \cup {c}
  /\ UNCHANGED users

Attach(i, c) ==
  /\ c \in up
  /\ users' = [users EXCEPT ![c] = @ \cup {i}]
  /\ UNCHANGED up

\* A launch that dies leaves every container it used at once.
Detach(i, D) ==
  /\ users' = [c \in Containers |-> IF c \in D THEN users[c] \ {i} ELSE users[c]]
  /\ UNCHANGED up

TakeDown(c) ==
  /\ users[c] = {}
  /\ up' = up \ {c}
  /\ UNCHANGED users

RefNext ==
  \/ \E c \in Containers : BringUp(c) \/ TakeDown(c)
  \/ \E i \in Launches, c \in Containers : Attach(i, c)
  \/ \E i \in Launches, D \in SUBSET Containers : Detach(i, D)

RefSpec == RefInit /\ [][RefNext]_<<users, up>>

\* The promise: a container somebody uses is up.
UsedIsUp == \A c \in Containers : users[c] # {} => c \in up
=============================================================================
