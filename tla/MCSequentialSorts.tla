-------------------------- MODULE MCSequentialSorts --------------------------
(***************************************************************************)
(* All arrays of up to five elements with four keys, of which the coarse   *)
(* metric tells two pairs apart, and some longer ones in which a class of  *)
(* the flashsort is large enough for the heapsort.                         *)
(***************************************************************************)
EXTENDS SequentialSorts

Short == UNION { [1..n -> 0..3] : n \in 0..5 }

Long ==
    { [e \in 1..n |-> IF e = odd THEN 7 ELSE (a * e) % m] :
        n \in 9..11, odd \in {1, 6}, a \in 1..3, m \in {2, 5, 7} }

SomeInputs == Short \cup Long
=============================================================================
