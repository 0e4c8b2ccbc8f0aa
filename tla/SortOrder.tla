------------------------------ MODULE SortOrder ------------------------------
(***************************************************************************)
(* The vocabulary shared by the sorting modules: what it means for a part  *)
(* of an array to be in order, to be in stable order, and to hold the same *)
(* elements as before.                                                     *)
(*                                                                         *)
(* An array is a function on 0..n-1 whose values are element identities.   *)
(* The order the caller's compare function imposes is the order of the     *)
(* integers key[e]; elements with equal keys compare as 0.                 *)
(***************************************************************************)
EXTENDS Integers

(* The half-open range of offsets [lo, lo + len) of an array. *)
Cells(lo, len) == lo .. lo + len - 1

(* The value of the compare function for two elements, as a sign. *)
Compare(key, e, f) == key[e] - key[f]

(* The elements of arr at the offsets in R are in ascending order. *)
SortedOn(arr, key, R) ==
    \A x, y \in R : x < y => Compare(key, arr[x], arr[y]) <= 0

(* Elements that compare equal are in the order of their identities, which *)
(* is the order they had in the caller's array.                            *)
StableOn(arr, key, R) ==
    \A x, y \in R :
        x < y /\ Compare(key, arr[x], arr[y]) = 0 => arr[x] < arr[y]

(* No element occurs at two offsets of R. *)
DistinctOn(arr, R) == \A x, y \in R : arr[x] = arr[y] => x = y

(* The set of elements found at the offsets in R. *)
ElementsOn(arr, R) == {arr[x] : x \in R}
=============================================================================
