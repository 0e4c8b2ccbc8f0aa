------------------------------ MODULE CountSpec ------------------------------
(***************************************************************************)
(* What the counting programs with fine-grained locks promise: a byte is   *)
(* counted in one step, and a process shows a counter by looking at it     *)
(* once, after it has counted all of its own input.  It may end at any     *)
(* time.                                                                   *)
(***************************************************************************)
EXTENDS Integers, Sequences

CONSTANTS Procs, Slots

VARIABLES
    input,      \* the standard input of each process, never changed
    pos,        \* how many bytes of it each process has counted
    counter,    \* the counters in shared memory
    shown       \* the values each process has read for its output, or NULL

NULL == -1

vars == <<input, pos, counter, shown>>

Init ==
    /\ input \in [Procs -> Seq(Slots)]
    /\ pos = [p \in Procs |-> 0]
    /\ counter = [c \in Slots |-> 0]
    /\ shown = [p \in Procs |-> [c \in Slots |-> NULL]]

Count(p) ==
    /\ pos[p] < Len(input[p])
    /\ pos' = [pos EXCEPT ![p] = @ + 1]
    /\ counter' = [counter EXCEPT ![input[p][pos[p] + 1]] = @ + 1]
    /\ UNCHANGED <<input, shown>>

Show(p, c) ==
    /\ pos[p] = Len(input[p])
    /\ shown[p][c] = NULL
    /\ shown' = [shown EXCEPT ![p][c] = counter[c]]
    /\ UNCHANGED <<input, pos, counter>>

Next == \E p \in Procs : Count(p) \/ \E c \in Slots : Show(p, c)

Spec == Init /\ [][Next]_vars
=============================================================================
