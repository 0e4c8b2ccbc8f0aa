------------------------------- MODULE ShmBulk -------------------------------
(***************************************************************************)
(* posix/ipc/shared-memory-count-simple.c and its variants: several        *)
(* processes count their inputs in memory of their own and then add the    *)
(* results to the counters in shared memory.  One semaphore of one unit is *)
(* held while a process adds its counters, one after the other, and prints *)
(* the totals.                                                             *)
(*                                                                         *)
(* "simple", and "shorts-simple" for pairs of bytes, use a System V        *)
(* semaphore with SEM_UNDO; "simple-posix" uses a POSIX semaphore, which   *)
(* nothing gives back when its holder is killed.  "shorts-simple-posix"    *)
(* keeps a copy of the totals when it has added its counters, releases the *)
(* semaphore, takes it once more and prints the copy.                      *)
(*                                                                         *)
(* What a process has counted before is a choice of Init.  stdout is the   *)
(* output all processes share: an entry for each total, and one for the    *)
(* last line of a process, which it writes without the semaphore.          *)
(*                                                                         *)
(* An operator X_Fault is a wrong variant of X that nothing uses.          *)
(***************************************************************************)
EXTENDS Integers, Sequences, FiniteSets

CONSTANTS
    Procs,          \* the processes that count
    ALPHA_SIZE,     \* number of counters
    Programs,       \* which of the programs may be run
    MaxCount,       \* bound on the count of one byte in one input
    MaxKills        \* bound on the number of processes that are killed

ASSUME ShmBulkAssumption ==
    /\ IsFiniteSet(Procs)
    /\ ALPHA_SIZE \in Nat \ {0}
    /\ Programs \subseteq {"simple", "simple-posix", "shorts-simple-posix"}
    /\ MaxCount \in Nat /\ MaxKills \in Nat

Slots == 0 .. ALPHA_SIZE - 1
NULL  == -1

VARIABLES
    program,    \* the program all processes run
    local,      \* local_data.counter of each process
    counter,    \* shm_data->counter
    sem,        \* the value of the semaphore
    adj,        \* what SEM_UNDO has recorded for each process
    removed,    \* the clean-up run has removed the semaphore
    pc, reg,    \* control state; the register of tcounter[i] += scounter[i]
    added,      \* i of the loop that adds
    copy,       \* the totals after the addition, if program copies them
    shown,      \* the totals each process has printed, NULL if not yet
    stdout      \* the lines printed: who, and what

vars == <<program, local, counter, sem, adj, removed, pc, reg, added, copy,
          shown, stdout>>

SEM_UNDO == program = "simple"
Copies   == program = "shorts-simple-posix"

(* After setup_sem; the inputs have been counted. *)
Init ==
    /\ program \in Programs
    /\ local \in [Procs -> [Slots -> 0 .. MaxCount]]
    /\ counter = [c \in Slots |-> 0]
    /\ sem = 1
    /\ adj = [p \in Procs |-> 0]
    /\ removed = FALSE
    /\ pc = [p \in Procs |-> "wait"]
    /\ reg = [p \in Procs |-> 0]
    /\ added = [p \in Procs |-> 0]
    /\ copy = [p \in Procs |-> [c \in Slots |-> NULL]]
    /\ shown = [p \in Procs |-> [c \in Slots |-> NULL]]
    /\ stdout = <<>>

Ended == {"done", "killed", "failed"}

(* semop, or sem_wait and sem_post *)
Semop(p, n, from, to) ==
    /\ pc[p] = from /\ ~removed
    /\ sem + n >= 0
    /\ sem' = sem + n
    /\ adj' = IF SEM_UNDO THEN [adj EXCEPT ![p] = @ - n] ELSE adj
    /\ pc' = [pc EXCEPT ![p] = to]

-----------------------------------------------------------------------------
(* The units taken and given back. *)
Take_Fault == 0
Take == 1
Give == 1

TakeUnit(p, from, to) ==
    /\ Semop(p, -Take, from, to)
    /\ UNCHANGED <<program, local, counter, removed, reg, added, copy, shown, stdout>>

GiveUnit(p, from, to) ==
    /\ Semop(p, Give, from, to)
    /\ UNCHANGED <<program, local, counter, removed, reg, added, copy, shown, stdout>>

Wait(p) == TakeUnit(p, "wait", "load")

(* tcounter[i] += scounter[i], a read and a write of shared memory, and    *)
(* scounter[i] = tcounter[i] in the program that copies.                   *)
Load(p) ==
    /\ pc[p] = "load"
    /\ reg' = [reg EXCEPT ![p] = counter[added[p]]]
    /\ pc' = [pc EXCEPT ![p] = "store"]
    /\ UNCHANGED <<program, local, counter, sem, adj, removed, added, copy,
                   shown, stdout>>

Total_Fault(p) == local[p][added[p]]
Total(p) == reg[p] + local[p][added[p]]

AfterAddition == IF Copies THEN "release" ELSE "print"

Store(p) ==
    /\ pc[p] = "store"
    /\ counter' = [counter EXCEPT ![added[p]] = Total(p)]
    /\ copy' = IF Copies THEN [copy EXCEPT ![p][added[p]] = Total(p)] ELSE copy
    /\ added' = [added EXCEPT ![p] = @ + 1]
    /\ pc' = [pc EXCEPT
                ![p] = IF added[p] + 1 < ALPHA_SIZE THEN "load" ELSE AfterAddition]
    /\ UNCHANGED <<program, local, sem, adj, removed, reg, shown, stdout>>

(* Between the addition and the output the semaphore is free.  It is the   *)
(* semaphore of the data that is taken again; the one that has been        *)
(* created for the output is not used.                                     *)
Release(p)    == GiveUnit(p, "release", "wait_output")
WaitOutput(p) == TakeUnit(p, "wait_output", "print")

(* The next total, of which the process prints all in their order. *)
NextShown(p) == CHOOSE c \in Slots :
    shown[p][c] = NULL /\ \A d \in Slots : d < c => shown[p][d] # NULL

Totals(p) == IF Copies THEN copy[p] ELSE counter

Line(p, what) == [by |-> p, what |-> what]

PrintTotal(p) ==
    LET c == NextShown(p) IN
    /\ pc[p] = "print"
    /\ shown' = [shown EXCEPT ![p][c] = Totals(p)[c]]
    /\ stdout' = Append(stdout, Line(p, "total"))
    /\ pc' = [pc EXCEPT ![p] = IF c + 1 < ALPHA_SIZE THEN "print" ELSE "post"]
    /\ UNCHANGED <<program, local, counter, sem, adj, removed, reg, added, copy>>

Post(p) == GiveUnit(p, "post", "exit")

-----------------------------------------------------------------------------
Undo_Fault(p) == sem
Undo(p) == sem + adj[p]

End(p, how) ==
    /\ pc' = [pc EXCEPT ![p] = how]
    /\ sem' = Undo(p)
    /\ adj' = [adj EXCEPT ![p] = 0]
    /\ UNCHANGED <<program, local, counter, removed, reg, added, copy, shown>>

(* printf("done\n") and exit, which writes what printf has left. *)
Exit(p) ==
    /\ pc[p] = "exit"
    /\ stdout' = Append(stdout, Line(p, "done"))
    /\ End(p, "done")

(* The program installs no signal handler. *)
Kill(p) ==
    /\ pc[p] \notin Ended
    /\ Cardinality({q \in Procs : pc[q] = "killed"}) < MaxKills
    /\ End(p, "killed") /\ UNCHANGED stdout

(* An operation on a removed System V semaphore fails; an open POSIX       *)
(* semaphore stays usable after sem_unlink.  handle_error writes its       *)
(* message to stdout and exits.                                            *)
SemopFails(p) ==
    /\ removed /\ pc[p] \in {"wait", "post"}
    /\ stdout' = Append(stdout, Line(p, "error"))
    /\ End(p, "failed")

(* The run with option -c. *)
Cleanup ==
    /\ SEM_UNDO
    /\ ~removed /\ removed' = TRUE
    /\ UNCHANGED <<program, local, counter, sem, adj, pc, reg, added, copy,
                   shown, stdout>>

ProcStep(p) ==
    \/ Wait(p) \/ Load(p) \/ Store(p) \/ Release(p) \/ WaitOutput(p)
    \/ PrintTotal(p) \/ Post(p) \/ Exit(p) \/ SemopFails(p)

Next == (\E p \in Procs : ProcStep(p) \/ Kill(p)) \/ Cleanup

Spec == Init /\ [][Next]_vars

(* The scheduler runs every process that can run. *)
FairSpec == Spec /\ \A p \in Procs : WF_vars(ProcStep(p))

-----------------------------------------------------------------------------
(* Properties *)

PCs == {"wait", "load", "store", "release", "wait_output", "print", "post",
        "exit"} \cup Ended

(* Every variable has its type. *)
TypeOK ==
    /\ program \in Programs
    /\ local \in [Procs -> [Slots -> 0 .. MaxCount]]
    /\ counter \in [Slots -> Nat]
    /\ sem \in 0 .. 1 /\ adj \in [Procs -> 0 .. 1]
    /\ removed \in BOOLEAN
    /\ pc \in [Procs -> PCs]
    /\ reg \in [Procs -> Nat]
    /\ added \in [Procs -> 0 .. ALPHA_SIZE]
    /\ copy \in [Procs -> [Slots -> Nat \cup {NULL}]]
    /\ shown \in [Procs -> [Slots -> Nat \cup {NULL}]]
    /\ stdout \in Seq([by : Procs, what : {"total", "done", "error"}])

\* How often the byte c occurs in the inputs of the processes S.
SumOf(S, c) == Cardinality({o \in S \X (1 .. MaxCount) : o[2] <= local[o[1]][c]})

(* The totals are what the processes have added, each of its counters      *)
(* once, up to where it has got; also if some have been killed.            *)
NoLostUpdate ==
    \A c \in Slots : counter[c] = SumOf({q \in Procs : added[q] > c}, c)

(* The totals a process prints belong together: they are the sums of the   *)
(* whole inputs of a set S of processes, its own among them.  Only of the  *)
(* processes K that have been killed halfway through their addition the    *)
(* totals hold what these had got to, and nothing of the counters after.   *)
Full == {q \in Procs : added[q] = ALPHA_SIZE}
Half == {q \in Procs : pc[q] = "killed" /\ added[q] \in 1 .. ALPHA_SIZE - 1}
Part(K, c) == {q \in K : added[q] > c}

WholeInputsShown ==
    \A p \in Full : \E S \in SUBSET Full, K \in SUBSET Half :
        /\ p \in S
        /\ \A c \in Slots :
              shown[p][c] # NULL => shown[p][c] = SumOf(S \cup Part(K, c), c)

(* The totals of two processes do not mingle on the common stdout.  What   *)
(* may fall between the totals of a process are the last lines of others,  *)
(* which they write without the semaphore and after which they write       *)
(* nothing more.                                                           *)
IsTotal(i) == stdout[i].what = "total"

BlocksWhole ==
    \A k \in 1 .. Len(stdout) : \A j \in 1 .. k - 1 :
        /\ ~IsTotal(j) => stdout[k].by # stdout[j].by
        /\ IsTotal(j) /\ stdout[j] # stdout[k] =>
               \A i \in 1 .. j - 1 : IsTotal(i) => stdout[i] # stdout[k]

(* What a process prints is the state of the totals when it had added its  *)
(* own input, although others may have added theirs since: of any two      *)
(* copies one is nowhere below the other, and it is above at least by the  *)
(* own input of its process.                                               *)
Copied(p) == Copies /\ added[p] = ALPHA_SIZE
Above(p, q) == \A c \in Slots : copy[p][c] >= copy[q][c] + local[p][c]

CopiesAreMoments ==
    \A p, q \in Procs :
        Copied(p) /\ Copied(q) /\ p # q => Above(p, q) \/ Above(q, p)

(* Everybody comes to an end, also if the process that holds the semaphore *)
(* is killed; only a POSIX semaphore stays taken then, and all that come   *)
(* after the dead process wait for ever.                                   *)
Holding(p) == pc[p] \in {"load", "store", "release", "print", "post"}
BlockedByDead ==
    /\ ~SEM_UNDO /\ sem = 0
    /\ \A p \in Procs : ~Holding(p)
    /\ \E p \in Procs : pc[p] = "killed"

EndsUnlessBlocked == <>((\A p \in Procs : pc[p] \in Ended) \/ BlockedByDead)
=============================================================================
