-------------------------- MODULE ShmCountSegmented --------------------------
(***************************************************************************)
(* posix/ipc/shared-memory-count-shorts-segmented-semaphore.c: the         *)
(* counting of shared-memory-count.c for 16 bit numbers.  A process takes  *)
(* one unit of semaphore 0, the data semaphore of every SEM_SIZE-th        *)
(* counter, before its output and never gives it back; only SEM_UNDO       *)
(* returns it when the process ends.  The result of giving back the unit   *)
(* of a read is not looked at.  The whole output is written at the end.    *)
(***************************************************************************)
EXTENDS ShmCount

(* The numbers are counted as bytes are, then one unit is taken. *)
SegCount(p) ==
    \/ ReserveWrite(p) \/ Load(p) \/ Store(p) \/ ReleaseWrite(p)
    \/ EndCountingThen(p, "reserve")

KeptUnits_Fault == 0
KeptUnits == 1

ReserveOutput(p) ==
    /\ pc[p] = "reserve"
    /\ Semop(p, 0, -KeptUnits, "show")
    /\ UNCHANGED <<input, pos, counter, shown, removed, reg, idx>>

AfterRead(p) == IF idx[p] + 1 < ALPHA_SIZE THEN "show" ELSE "exit"

(* Giving back fails unnoticed if the set has been removed. *)
SegReleaseRead(p) ==
    \/ ReleaseReadThen(p, "exit")
    \/ /\ removed /\ Step(p, "unshow", AfterRead(p))
       /\ idx' = [idx EXCEPT ![p] = @ + 1]
       /\ UNCHANGED <<input, pos, counter, shown, sem, adj, removed, reg>>

SegOutput(p) == ReserveOutput(p) \/ ReserveRead(p) \/ ReadValue(p) \/ SegReleaseRead(p)

SegSemopFails(p) ==
    /\ removed
    /\ pc[p] = "reserve" \/ (AtSemop(p) /\ pc[p] # "unshow")
    /\ End(p, "failed")

SegStep(p) == SegCount(p) \/ SegOutput(p) \/ Exit(p) \/ SegSemopFails(p)

SegNext ==
    \/ \E p \in Procs : SegStep(p) \/ Kill(p)
    \/ Cleanup

SegSpec == Init /\ [][SegNext]_vars

(* The scheduler runs every process that can run. *)
SegFairSpec == SegSpec /\ \A p \in Procs : WF_vars(SegStep(p))

-----------------------------------------------------------------------------
(* Properties *)

(* Every variable has its type. *)
SegTypeOK == DataTypeOK /\ pc \in [Procs -> PCs \cup {"reserve"}]

(* The usage text promises that the program counts the file and shows the  *)
(* accumulated output.  It does as long as some process that has not ended *)
(* can go on.                                                              *)
CanGoOn(p) == \/ pc[p] \in {"load", "store", "value", "exit"}
              \/ removed /\ pc[p] \notin Ended
              \/ pc[p] = "count" /\ (EndOfFile(p) \/ sem[SemOf(NextChar(p))] >= WriteUnits)
              \/ pc[p] \in {"release", "unshow"}
              \/ pc[p] = "reserve" /\ sem[0] >= KeptUnits
              \/ pc[p] = "show" /\ sem[SemOf(idx[p])] >= 1

ShowsOutput ==
    \/ \A p \in Procs : pc[p] \in Ended
    \/ \E p \in Procs : CanGoOn(p)

(* The unit a process keeps during its output makes the writers of the     *)
(* counters of semaphore 0 wait for the end of that process; what it shows *)
(* of these counters is therefore one consistent state of them, the state  *)
(* at the moment it took the unit.                                         *)
KeepsUnit(p) == pc[p] \in {"show", "value", "unshow", "exit"}

Frozen ==
    \A p \in Procs : KeepsUnit(p) /\ ~removed =>
        \A c \in Slots : SemOf(c) = 0 => counter'[c] = counter[c]
=============================================================================
