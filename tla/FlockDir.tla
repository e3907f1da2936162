------------------------------ MODULE FlockDir ------------------------------
(***************************************************************************)
(* A directory of lock-held files, as lib/flock.py uses it.  A directory   *)
(* is a function from instance ids (the file names) to the state of the    *)
(* file of that name:                                                      *)
(*                                                                         *)
(*   "none"   there is no such file                                        *)
(*   "free"   the file exists and nobody holds its flock                   *)
(*   "held"   its owner holds the flock                                    *)
(*   "probe"  a reader holds the flock for the length of one probe         *)
(*                                                                         *)
(* The kernel half (open, flock, unlink, release on process death) is the  *)
(* external filelock library; what is modelled of it is what flock.py      *)
(* relies on, including that a lock taken on a file which was unlinked     *)
(* after it was opened does not count as acquired.                         *)
(***************************************************************************)

FileState == {"none", "free", "held", "probe"}

\* Opening a lock file creates it (O_CREAT) and leaves its lock alone.
Opened(s) == IF s = "none" THEN "free" ELSE s

\* The non-blocking flock of lock_and_hold: a file that a prober holds, or that
\* a prober has unlinked since it was opened, is not acquired.
Acquired(s) == IF s = "free" THEN "held" ELSE s

\* A probe: takes the lock if it is there to take.  Opening creates the file.
Probed(s) == IF s \in {"none", "free"} THEN "probe" ELSE s

\* The prober releases; the file stays on disk.
Unprobed(s) == IF s = "probe" THEN "free" ELSE s

\* clear_lock_handle: release the handle if there is one, then unlink the path
\* whoever holds it.
Cleared == "none"

\* The process holding the file dies: the kernel drops its flock and the file
\* stays on disk.
Dropped(s) == IF s = "held" THEN "free" ELSE s

\* Mutant of AnyLive: the walk treats every file it finds as stale.
AnyLiveNever(dir, excluded) == FALSE

\* any_live_locks, its answer: some file outside the excluded ones is locked.
AnyLive(dir, excluded) ==
  \E i \in DOMAIN dir \ excluded : dir[i] \in {"held", "probe"}

\* any_live_locks, its side effect: every file whose lock it could take is gone.
Reaped(dir, excluded) ==
  [i \in DOMAIN dir |-> IF i \notin excluded /\ dir[i] = "free"
                        THEN "none" ELSE dir[i]]
=============================================================================
