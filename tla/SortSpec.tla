------------------------------ MODULE SortSpec -------------------------------
(***************************************************************************)
(* What a sort function of posix/lib promises its caller: when it returns, *)
(* the array holds the same elements in ascending order, and elements that *)
(* compare equal have kept their order if the algorithm is a stable one.   *)
(* It is one atomic step here; the sorts of the library take many.         *)
(***************************************************************************)
EXTENDS SortOrder, Functions

CONSTANTS
    nmemb,      \* number of elements, in Nat
    stable,     \* whether equal elements keep their order, in BOOLEAN
    Keys        \* what elements are compared by, integers

VARIABLES key, arr, status
vars == <<key, arr, status>>

Offsets  == 0 .. nmemb - 1
Elements == 1 .. nmemb

Init ==
    /\ key \in [Elements -> Keys]
    /\ arr = [x \in Offsets |-> x + 1]
    /\ status = "called"

Sorted(a) ==
    SortedOn(a, key, Offsets) /\ (stable => StableOn(a, key, Offsets))

Return ==
    /\ status = "called"
    /\ status' = "returned"
    /\ arr' \in {a \in Bijection(Offsets, Elements) : Sorted(a)}
    /\ UNCHANGED key

(* The process may be ended from within the sort, which then never returns. *)
Exit ==
    /\ status = "called"
    /\ status' = "exited"
    /\ UNCHANGED <<key, arr>>

Next == Return \/ Exit
Spec == Init /\ [][Next]_vars
=============================================================================
