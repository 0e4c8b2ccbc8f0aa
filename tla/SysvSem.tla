------------------------------- MODULE SysvSem -------------------------------
(***************************************************************************)
(* System V semaphores as the programs under posix/ipc use them: semop     *)
(* with a single operation and the flag SEM_UNDO, on a set of semaphores.  *)
(*                                                                         *)
(* sem maps the number of a semaphore to its value.  adj maps a process    *)
(* and a semaphore to the adjustment the kernel applies to the value when  *)
(* the process ends, in whatever way it ends.                              *)
(***************************************************************************)
EXTENDS Integers

(* semop blocks until the value would not become negative. *)
SemReady(sem, k, n) == sem[k] + n >= 0

(* The value and the adjustment of process p after semop. *)
SemAfter(sem, k, n) == [sem EXCEPT ![k] = @ + n]
AdjAfter(adj, p, k, n) == [adj EXCEPT ![p][k] = @ - n]

(* The values after the end of process p. *)
SemUndone(sem, adj, p) == [k \in DOMAIN sem |-> sem[k] + adj[p][k]]
=============================================================================
