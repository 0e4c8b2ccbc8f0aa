--------------------------- MODULE ShmCountOutput ---------------------------
(***************************************************************************)
(* posix/ipc/shared-memory-count-output-semaphore.c: the counting of       *)
(* shared-memory-count.c with one more semaphore of one unit, which a      *)
(* process holds during all of its output.                                 *)
(***************************************************************************)
EXTENDS ShmCount

VARIABLES
    sem_out,        \* value of the output semaphore
    adj_out,        \* what SEM_UNDO has recorded for it
    removed_out     \* the clean-up run has removed it

outVars == <<sem_out, adj_out, removed_out>>
allVars == <<vars, outVars>>

(* setup_sem and setup_sem_out *)
OutInit ==
    /\ Init
    /\ sem_out = 1
    /\ adj_out = [p \in Procs |-> 0]
    /\ removed_out = FALSE

SemopOut(p, n, from, to) ==
    /\ Step(p, from, to)
    /\ ~removed_out
    /\ sem_out + n >= 0
    /\ sem_out' = sem_out + n
    /\ adj_out' = [adj_out EXCEPT ![p] = @ - n]
    /\ UNCHANGED <<input, pos, counter, shown, sem, adj, removed, reg, idx,
                   removed_out>>

(* The loop over the input, up to its end. *)
OutCount(p) ==
    /\ \/ ReserveWrite(p) \/ Load(p) \/ Store(p) \/ ReleaseWrite(p)
       \/ EndCountingThen(p, "reserve_out")
    /\ UNCHANGED outVars

(* The output: all of it while the process holds the output semaphore. *)
OutUnits_Fault == 0
OutUnits == 1

ReserveOut(p) == SemopOut(p, -OutUnits, "reserve_out", "show")

OutLoop(p) ==
    /\ ReserveRead(p) \/ ReadValue(p) \/ ReleaseReadThen(p, "release_out")
    /\ UNCHANGED outVars

ReleaseOut(p) == SemopOut(p, OutUnits, "release_out", "exit")

(* The end of a process, with the adjustments for both semaphore sets. *)
OutUndo(p) == sem_out + adj_out[p]

OutEnd(p) ==
    /\ sem_out' = OutUndo(p)
    /\ adj_out' = [adj_out EXCEPT ![p] = 0]
    /\ UNCHANGED removed_out

OutExit(p) == Exit(p) /\ OutEnd(p)
OutKill(p) == Kill(p) /\ OutEnd(p)

OutSemopFails(p) ==
    /\ \/ SemopFails(p)
       \/ /\ removed_out /\ pc[p] \in {"reserve_out", "release_out"}
          /\ End(p, "failed")
    /\ OutEnd(p)

(* cleanup removes one set after the other. *)
OutCleanup ==
    \/ Cleanup /\ UNCHANGED outVars
    \/ /\ removed /\ ~removed_out /\ removed_out' = TRUE
       /\ UNCHANGED <<vars, sem_out, adj_out>>

OutStep(p) ==
    \/ OutCount(p) \/ ReserveOut(p) \/ OutLoop(p) \/ ReleaseOut(p)
    \/ OutExit(p) \/ OutSemopFails(p)

OutNext ==
    \/ \E p \in Procs : OutStep(p) \/ OutKill(p)
    \/ OutCleanup

OutSpec == OutInit /\ [][OutNext]_allVars

(* The scheduler runs every process that can run. *)
OutFairSpec ==
    /\ OutSpec
    /\ \A p \in Procs : WF_allVars(OutStep(p))

-----------------------------------------------------------------------------
(* Properties *)

(* Every variable has its type. *)
OutTypeOK ==
    /\ DataTypeOK
    /\ pc \in [Procs -> PCs \cup {"reserve_out", "release_out"}]
    /\ sem_out \in 0 .. 1 /\ adj_out \in [Procs -> 0 .. 1]
    /\ removed_out \in BOOLEAN

(* The outputs are made one after the other, in the order of the counters  *)
(* they show: of any two processes one shows at least what the other shows *)
(* at every counter both have read.                                        *)
ShowsNoMore(p, q) ==
    \A c \in Slots :
        NULL \notin {shown[p][c], shown[q][c]} => shown[p][c] <= shown[q][c]

OutputsInOrder == \A p, q \in Procs : ShowsNoMore(p, q) \/ ShowsNoMore(q, p)
=============================================================================
