------------------------------ MODULE ShmCount ------------------------------
(***************************************************************************)
(* posix/ipc/shared-memory-count.c: several processes count the bytes of   *)
(* their standard inputs in one array of counters in shared memory.        *)
(*                                                                         *)
(* A set of SEM_SIZE semaphores, each of which starts with SEM_LIMIT       *)
(* units, serves as reader-writer locks: the counter of byte c belongs to  *)
(* semaphore c % SEM_SIZE, a process that increments takes all the units   *)
(* of that semaphore, one that reads the counter for its output takes one. *)
(* All operations carry SEM_UNDO, so that the units of a process that is   *)
(* killed come back.                                                       *)
(*                                                                         *)
(* The model begins after the set-up run of the program (option -s); the   *)
(* clean-up run (-c) may happen at any time.                               *)
(***************************************************************************)
EXTENDS SysvSem, Sequences, FiniteSets, FiniteSetsExt

CONSTANTS
    Procs,          \* the processes that count
    ALPHA_SIZE,     \* number of counters
    SEM_SIZE,       \* number of semaphores
    SEM_LIMIT,      \* units of a semaphore
    MaxInput,       \* bound on the length of all inputs together
    MaxKills        \* bound on the number of processes that are killed

ASSUME ShmCountAssumption ==
    /\ IsFiniteSet(Procs)
    /\ ALPHA_SIZE \in Nat \ {0} /\ SEM_SIZE \in Nat \ {0}
    /\ SEM_LIMIT \in Nat \ {0}
    /\ MaxInput \in Nat /\ MaxKills \in Nat

Slots  == 0 .. ALPHA_SIZE - 1
Sems   == 0 .. SEM_SIZE - 1
Inputs == UNION {[1 .. n -> Slots] : n \in 0 .. MaxInput}
NULL   == -1

VARIABLES
    input,      \* the standard input of each process
    pos,        \* how many bytes of it have been counted
    counter,    \* shm_data->counter
    shown,      \* the values read for the output, NULL if not read yet
    sem, adj,   \* the semaphore set and what SEM_UNDO has recorded
    removed,    \* the clean-up run has removed the set
    pc, reg,    \* control state; the register of counter[c]++
    idx         \* i of the output loop

vars == <<input, pos, counter, shown, sem, adj, removed, pc, reg, idx>>

(* The semaphore of a counter, the next byte of p, the one just counted.   *)
SemOf(c) == c % SEM_SIZE
NextChar(p) == input[p][pos[p] + 1]
LastChar(p) == input[p][pos[p]]

(* setup_sem *)
Init ==
    /\ input \in [Procs -> Inputs]
    /\ MapThenSumSet(LAMBDA p : Len(input[p]), Procs) <= MaxInput
    /\ pos = [p \in Procs |-> 0]
    /\ counter = [c \in Slots |-> 0]
    /\ shown = [p \in Procs |-> [c \in Slots |-> NULL]]
    /\ sem = [k \in Sems |-> SEM_LIMIT]
    /\ adj = [p \in Procs |-> [k \in Sems |-> 0]]
    /\ removed = FALSE
    /\ pc = [p \in Procs |-> "count"]
    /\ reg = [p \in Procs |-> 0]
    /\ idx = [p \in Procs |-> 0]

(* semop on one semaphore, by a process that goes on at next. *)
Semop(p, k, n, next) ==
    /\ ~removed
    /\ SemReady(sem, k, n)
    /\ sem' = SemAfter(sem, k, n)
    /\ adj' = AdjAfter(adj, p, k, n)
    /\ pc' = [pc EXCEPT ![p] = next]

Step(p, from, to) == pc[p] = from /\ pc' = [pc EXCEPT ![p] = to]

-----------------------------------------------------------------------------
(* Counting: the loop over the bytes read from standard input *)

(* A writer takes all units at once. *)
WriteUnits_Fault == SEM_LIMIT - 1
WriteUnits_Fault2 == 1
WriteUnits == SEM_LIMIT

ReserveWrite(p) ==
    /\ pc[p] = "count" /\ pos[p] < Len(input[p])
    /\ Semop(p, SemOf(NextChar(p)), -WriteUnits, "load")
    /\ UNCHANGED <<input, pos, counter, shown, removed, reg, idx>>

(* counter[c]++ is a read and a write of memory other processes share. *)
Load(p) ==
    /\ Step(p, "load", "store")
    /\ reg' = [reg EXCEPT ![p] = counter[NextChar(p)]]
    /\ UNCHANGED <<input, pos, counter, shown, sem, adj, removed, idx>>

Store(p) ==
    /\ Step(p, "store", "release")
    /\ counter' = [counter EXCEPT ![NextChar(p)] = reg[p] + 1]
    /\ pos' = [pos EXCEPT ![p] = @ + 1]
    /\ UNCHANGED <<input, shown, sem, adj, removed, reg, idx>>

ReleaseWrite(p) ==
    /\ pc[p] = "release"
    /\ Semop(p, SemOf(LastChar(p)), WriteUnits, "count")
    /\ UNCHANGED <<input, pos, counter, shown, removed, reg, idx>>

EndOfFile_Fault(p) == pos[p] + 1 >= Len(input[p])
EndOfFile(p) == pos[p] = Len(input[p])

EndCountingThen(p, then) ==
    /\ EndOfFile(p)
    /\ Step(p, "count", then)
    /\ UNCHANGED <<input, pos, counter, shown, sem, adj, removed, reg, idx>>

EndCounting(p) == EndCountingThen(p, "show")

-----------------------------------------------------------------------------
(* Output: the loop over all counters *)

ReserveRead(p) ==
    /\ pc[p] = "show"
    /\ Semop(p, SemOf(idx[p]), -1, "value")
    /\ UNCHANGED <<input, pos, counter, shown, removed, reg, idx>>

ReadValue(p) ==
    /\ Step(p, "value", "unshow")
    /\ shown' = [shown EXCEPT ![p][idx[p]] = counter[idx[p]]]
    /\ UNCHANGED <<input, pos, counter, sem, adj, removed, reg, idx>>

(* After the last counter the output ends; then says how the process goes  *)
(* on.                                                                     *)
ReleaseReadThen(p, then) ==
    /\ pc[p] = "unshow"
    /\ Semop(p, SemOf(idx[p]), 1,
             IF idx[p] + 1 < ALPHA_SIZE THEN "show" ELSE then)
    /\ idx' = [idx EXCEPT ![p] = @ + 1]
    /\ UNCHANGED <<input, pos, counter, shown, removed, reg>>

ReleaseRead(p) == ReleaseReadThen(p, "exit")

-----------------------------------------------------------------------------
(* The end of a process *)

(* What the kernel adds to the semaphores when the process ends. *)
Undo_Fault(p) == sem
Undo(p) == SemUndone(sem, adj, p)

End(p, how) ==
    /\ pc' = [pc EXCEPT ![p] = how]
    /\ sem' = Undo(p)
    /\ adj' = [adj EXCEPT ![p] = [k \in Sems |-> 0]]
    /\ UNCHANGED <<input, pos, counter, shown, removed, reg, idx>>

Ended == {"done", "killed", "failed"}

Exit(p) == pc[p] = "exit" /\ End(p, "done")

(* SIGKILL, SIGTERM or SIGINT: the program installs no handler. *)
Kill(p) ==
    /\ pc[p] \notin Ended
    /\ Cardinality({q \in Procs : pc[q] = "killed"}) < MaxKills
    /\ End(p, "killed")

(* A semop on a set that has been removed fails, also one that has been    *)
(* waiting; handle_error ends the process.                                 *)
AtSemop(p) ==
    \/ pc[p] \in {"release", "show", "unshow"}
    \/ pc[p] = "count" /\ ~EndOfFile(p)

SemopFails(p) == removed /\ AtSemop(p) /\ End(p, "failed")

(* The run with option -c. *)
Cleanup ==
    /\ ~removed /\ removed' = TRUE
    /\ UNCHANGED <<input, pos, counter, shown, sem, adj, pc, reg, idx>>

-----------------------------------------------------------------------------
CountStep(p) ==
    ReserveWrite(p) \/ Load(p) \/ Store(p) \/ ReleaseWrite(p) \/ EndCounting(p)

OutputStep(p) == ReserveRead(p) \/ ReadValue(p) \/ ReleaseRead(p)

ProcStep(p) == CountStep(p) \/ OutputStep(p) \/ Exit(p) \/ SemopFails(p)

Next ==
    \/ \E p \in Procs : ProcStep(p) \/ Kill(p)
    \/ Cleanup

Spec == Init /\ [][Next]_vars

(* The scheduler runs every process that can run. *)
FairSpec == Spec /\ \A p \in Procs : WF_vars(ProcStep(p))

-----------------------------------------------------------------------------
(* Properties *)

DataTypeOK ==
    /\ input \in [Procs -> Seq(Slots)]
    /\ \A p \in Procs : pos[p] \in 0 .. Len(input[p])
    /\ counter \in [Slots -> Nat]
    /\ shown \in [Procs -> [Slots -> Nat \cup {NULL}]]
    /\ sem \in [Sems -> 0 .. SEM_LIMIT]
    /\ adj \in [Procs -> [Sems -> 0 .. SEM_LIMIT]]
    /\ removed \in BOOLEAN
    /\ reg \in [Procs -> Nat]
    /\ idx \in [Procs -> 0 .. ALPHA_SIZE]

PCs == {"count", "load", "store", "release", "show", "value", "unshow", "exit"}
       \cup Ended

(* Every variable has its type: the units of a semaphore never exceed      *)
(* SEM_LIMIT and never become negative, the output loop stays within the   *)
(* array.                                                                  *)
TypeOK == DataTypeOK /\ pc \in [Procs -> PCs]

Writing(p, k) ==
    \/ pc[p] \in {"load", "store"} /\ SemOf(NextChar(p)) = k
    \/ pc[p] = "release" /\ SemOf(LastChar(p)) = k
Reading(p, k) == pc[p] \in {"value", "unshow"} /\ SemOf(idx[p]) = k

(* While a process is in the middle of an increment, no other process is   *)
(* between semop and semop at a counter of the same semaphore, be it to    *)
(* write or to read; several may read at the same time.                    *)
ReadersWriters ==
    \A p, q \in Procs, k \in Sems :
        p # q /\ Writing(p, k) => ~Writing(q, k) /\ ~Reading(q, k)

(* No unit of a semaphore is ever lost or gained: what is missing is held  *)
(* by the processes that are between semop and semop, also after processes *)
(* have been killed there.                                                 *)
Held(p, k) ==
    IF Writing(p, k) THEN WriteUnits ELSE IF Reading(p, k) THEN 1 ELSE 0

HeldUnits(k) == {u \in Procs \X (1 .. SEM_LIMIT) : u[2] <= Held(u[1], k)}

UnitsConserved ==
    \A k \in Sems : sem[k] + Cardinality(HeldUnits(k)) = SEM_LIMIT

(* What a process shows contains all of its own input.                     *)
OwnInputShown ==
    \A p \in Procs, c \in Slots :
        shown[p][c] # NULL =>
            shown[p][c] >= Cardinality({k \in DOMAIN input[p] : input[p][k] = c})

(* The counting and the output behave as if each took place in one step.   *)
Promise == INSTANCE CountSpec
ImplementsCount == Promise!Spec

(* Nobody waits for a semaphore for ever: not if processes are killed      *)
(* while they hold units, and not if the set is removed.                   *)
Termination == <>(\A p \in Procs : pc[p] \in Ended)
=============================================================================
