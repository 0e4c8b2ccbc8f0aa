--------------------------- MODULE SequentialSorts ---------------------------
(***************************************************************************)
(* The sorts of posix/lib: isort_r, hsort_r, ternary_hsort_r, msort_r and  *)
(* fsort_f.  One action is one turn of a loop that changes the array.  The *)
(* flashsort sorts its classes by calls of isort_r and hsort_r: call is    *)
(* the function that runs, on the len elements from offset lo.             *)
(*                                                                         *)
(* Elements are numbered by their offset in the array of the caller, so    *)
(* that equal elements can be told apart.                                  *)
(***************************************************************************)
EXTENDS SortOrder, FiniteSetsExt, SequencesExt

CONSTANTS
    Inputs,     \* the arrays to be sorted, sequences of keys
    Coarse      \* keys with the same quotient by it have the same metric

ASSUME InputsAssumption ==
    /\ Coarse \in Nat \ {0}
    /\ \A s \in Inputs : s \in Seq(Nat)

VARIABLES
    alg,    \* what the caller asked for
    exact,  \* whether the metric of fsort tells all keys apart
    key,    \* the key of each element
    arr,    \* the array
    call,   \* the function that runs, on
    lo,     \* the part of the array that begins here
    len,    \* and has as many elements
    at,     \* where the function is
    i,      \* its loop variable
    step,   \* length of the runs that msort merges
    root,   \* element that sinks, and
    max,    \* last offset of the heap it sinks in
    flash   \* the variables of fsort

vars == << alg, exact, key, arr, call, lo, len, at, i, step, root, max, flash >>

nmemb   == Len(key)
Offsets == 0..(nmemb - 1)
Less(e, f) == Compare(key, e, f) < 0

\* Elements are addressed from lo.
Elem(x) == arr[lo + x]
SwapIn(a, x, y) == [a EXCEPT ![x] = a[y], ![y] = a[x]]

NoFlash == [l |-> << >>, ll |-> << >>, j |-> 0, k |-> 0, nmove |-> 0, elem |-> 0, class |-> 0]

Init ==
    /\ alg \in {"isort", "hsort", "ternary_hsort", "msort", "fsort"}
    /\ exact \in BOOLEAN
    /\ key \in Inputs
    /\ arr = [x \in Offsets |-> x + 1]
    /\ call = alg /\ lo = 0 /\ len = nmemb
    /\ at = "enter" /\ i = 0 /\ step = 1 /\ root = 0 /\ max = 0
    /\ flash = NoFlash

\* Nothing changes but these.
Only(changed) ==
    /\ UNCHANGED << alg, exact, key >>
    /\ "arr" \notin changed => arr' = arr
    /\ "call" \notin changed => UNCHANGED << call, lo, len >>
    /\ "step" \notin changed => step' = step
    /\ "sink" \notin changed => UNCHANGED << root, max >>
    /\ "i" \notin changed => i' = i
    /\ "flash" \notin changed => flash' = flash

\* Return to the caller, which for a class of the flashsort is the flashsort.
Return ==
    IF call = alg
    THEN at' = "returned" /\ UNCHANGED << call, lo, len >>
    ELSE at' = "classes" /\ call' = alg /\ lo' = 0 /\ len' = nmemb

ReturnAtOnce ==
    /\ at = "enter" /\ len <= 1
    /\ Return /\ Only({"call"})

-----------------------------------------------------------------------------
(* isort_r: element i goes before the first one that is greater.           *)

IsortEnter ==
    /\ call = "isort" /\ at = "enter" /\ len > 1
    /\ at' = "insert" /\ i' = 1 /\ Only({"i"})

Greater(x) == { y \in 0..(x - 1) : Less(Elem(x), Elem(y)) }

Insert ==
    /\ call = "isort" /\ at = "insert" /\ i < len
    /\ LET j == Min(Greater(i))
       IN  arr' = IF Greater(i) = {} THEN arr
                  ELSE [x \in Offsets |->
                          IF x = lo + j THEN Elem(i)
                          ELSE IF x \in (lo + j + 1)..(lo + i) THEN arr[x - 1] ELSE arr[x]]
    /\ i' = i + 1
    /\ UNCHANGED at /\ Only({"arr", "i"})

IsortReturn ==
    /\ call = "isort" /\ at = "insert" /\ i = len
    /\ Return /\ Only({"call"})

-----------------------------------------------------------------------------
(* hsort_r and ternary_hsort_r: heaps in which an element has two or three *)
(* children.                                                               *)

Heaps == {"hsort", "ternary_hsort"}
Arity == IF call = "hsort" THEN 2 ELSE 3
Parent(x) == (x - 1) \div Arity
Children(x) == { y \in (Arity * x + 1)..(Arity * x + Arity) : y <= max }

\* The child that is swapped with root: the first of the greatest ones, if it
\* is greater than root.
Larger_Fault(x) ==
    { y \in Children(x) : Less(Elem(x), Elem(y)) /\ y <= Arity * x + 2 /\
                          \A z \in Children(x) : z > Arity * x + 2 \/ ~ Less(Elem(y), Elem(z)) }
Larger(x) ==
    { y \in Children(x) :
        /\ Less(Elem(x), Elem(y))
        /\ \A z \in Children(x) : ~ Less(Elem(y), Elem(z))
        /\ \A z \in Children(x) : z < y => Less(Elem(z), Elem(y)) }

HeapEnter ==
    /\ call \in Heaps /\ at = "enter" /\ len > 1
    /\ at' = "heapify"
    /\ i' = Parent(len - 1) /\ root' = Parent(len - 1) /\ max' = len - 1
    /\ Only({"i", "sink"})

SiftDown ==
    /\ at \in {"heapify", "extract"} /\ \E y \in Larger(root) :
         /\ arr' = SwapIn(arr, lo + root, lo + y)
         /\ root' = y
    /\ UNCHANGED << at, max >> /\ Only({"arr", "sink"})

Sunk == Larger(root) = {}

HeapifyNext ==
    /\ at = "heapify" /\ Sunk /\ i > 0
    /\ i' = i - 1 /\ root' = i - 1
    /\ UNCHANGED << at, max >> /\ Only({"i", "sink"})

\* The greatest element goes to the end of the heap.  i is end.
Extract ==
    /\ \/ at = "heapify" /\ Sunk /\ i = 0 /\ i' = len - 1
       \/ at = "extract" /\ Sunk /\ i > 1 /\ i' = i - 1
    /\ at' = "extract"
    /\ arr' = SwapIn(arr, lo, lo + i')
    /\ root' = 0 /\ max' = i' - 1
    /\ Only({"arr", "i", "sink"})

HeapReturn ==
    /\ at = "extract" /\ Sunk /\ i = 1
    /\ Return /\ Only({"call"})

-----------------------------------------------------------------------------
(* msort_r: neighbouring runs of step elements are merged; i is start_left.*)

\* The left element is taken unless the right one is less.  What is left of
\* both from p is merged.
Merged(left, right) ==
    LET rest[p \in (1..(Len(left) + 1)) \X (1..(Len(right) + 1))] ==
          LET x == p[1]
              y == p[2]
          IN  IF x > Len(left) THEN SubSeq(right, y, Len(right))
              ELSE IF y > Len(right) THEN SubSeq(left, x, Len(left))
              ELSE IF ~ Less(right[y], left[x]) THEN << left[x] >> \o rest[<< x + 1, y >>]
              ELSE << right[y] >> \o rest[<< x, y + 1 >>]
    IN  rest[<< 1, 1 >>]

Run(from, n) == [x \in 1..n |-> Elem(from + x - 1)]

MsortEnter ==
    /\ call = "msort" /\ at = "enter" /\ len > 1
    /\ at' = "merge" /\ i' = 0 /\ step' = 1 /\ Only({"i", "step"})

MergeRuns ==
    LET right == i + step
        n     == IF right + step > len THEN len - right ELSE step
        out   == Merged(Run(i, step), Run(right, n))
    IN  /\ call = "msort" /\ at = "merge" /\ right < len
        /\ arr' = [x \in Offsets |-> IF x \in Cells(lo + i, step + n) THEN out[x - lo - i + 1]
                                     ELSE arr[x]]
        /\ i' = i + 2 * step
        /\ UNCHANGED at /\ Only({"arr", "i"})

MsortNextStep_Fault ==
    /\ call = "msort" /\ at = "merge" /\ i + step >= len /\ 2 * step < len
    /\ i' = 0 /\ UNCHANGED at /\ Only({"i"})
MsortNextStep ==
    /\ call = "msort" /\ at = "merge" /\ i + step >= len /\ 2 * step < len
    /\ step' = 2 * step /\ i' = 0
    /\ UNCHANGED at /\ Only({"i", "step"})

MsortReturn ==
    /\ call = "msort" /\ at = "merge" /\ i + step >= len /\ 2 * step >= len
    /\ Return /\ Only({"call"})

-----------------------------------------------------------------------------
(* fsort_f.  The classes are those of a distribution of the metrics over   *)
(* lsize equal intervals; elements are moved along cycles to their class.  *)

lsize == Max({2, (42 * nmemb) \div 100 + 1})
Metric(e) == IF exact THEN key[e] ELSE key[e] \div Coarse

\* The first of the least and the first of the greatest elements
First(S) == CHOOSE x \in S : \A y \in S : x <= y
Least    == First({ x \in Offsets : \A y \in Offsets : ~ Less(arr[y], arr[x]) })
Greatest == First({ x \in Offsets : \A y \in Offsets : ~ Less(arr[x], arr[y]) })

\* calculate_k, over all metrics
Metrics == { Metric(e) : e \in 1..nmemb }
Class(e) ==
    LET k == ((lsize - 1) * (Metric(e) - Min(Metrics))) \div (Max(Metrics) - Min(Metrics))
    IN  IF k > lsize - 1 THEN lsize - 1 ELSE k

\* The number of elements in the classes up to k
UpTo(k) == Cardinality({ e \in 1..nmemb : Class(e) <= k })

FsortEnter ==
    /\ call = "fsort" /\ at = "enter" /\ len > 1
    /\ IF Compare(key, arr[Least], arr[Greatest]) = 0
       THEN Return /\ Only({"call"})
       \* A step of infinity times a distance of 0 is no number: the count goes
       \* to any place of the memory.
       ELSE IF Metric(arr[Least]) = Metric(arr[Greatest])
       THEN at' = "outside" /\ Only({})
       ELSE /\ flash' = [NoFlash EXCEPT
                           !.l  = [k \in 0..(lsize - 1) |-> UpTo(k)],
                           !.ll = [k \in 0..lsize |-> IF k = 0 THEN 0 ELSE UpTo(k - 1)],
                           !.k  = lsize - 1]
            /\ arr' = SwapIn(arr, 0, Greatest)
            /\ at' = "seek" /\ Only({"arr", "flash"})

\* The next cycle begins at the first element that may not be in its class.
Seek ==
    /\ at = "seek" /\ flash.nmove < nmemb - 1
    /\ IF flash.j < flash.l[flash.k]
       THEN flash' = [flash EXCEPT !.elem = arr[flash.j]] /\ at' = "move"
       ELSE IF flash.j + 1 = nmemb THEN at' = "outside" /\ UNCHANGED flash
       ELSE flash' = [flash EXCEPT !.j = @ + 1, !.k = Class(arr[flash.j + 1])] /\ UNCHANGED at
    /\ Only({"flash"})

\* The element in hand changes places with the last one of its class that has
\* not been placed yet, until the cycle comes back to where it began.
Move_Fault ==
    /\ at = "move"
    /\ IF flash.j = flash.l[flash.k]
       THEN at' = "seek" /\ Only({})
       ELSE LET x == flash.l[flash.k] - 1
            IN  IF x < 0 THEN at' = "outside" /\ Only({})
                ELSE /\ arr' = [arr EXCEPT ![x] = flash.elem]
                     /\ flash' = [flash EXCEPT !.elem = arr[x], !.k = Class(flash.elem),
                                               !.l[flash.k] = x, !.nmove = @ + 1]
                     /\ UNCHANGED at /\ Only({"arr", "flash"})
Move ==
    /\ at = "move"
    /\ IF flash.j = flash.l[flash.k]
       THEN at' = "seek" /\ Only({})
       ELSE LET k == Class(flash.elem)
                x == flash.l[k] - 1
            IN  IF x < 0 THEN at' = "outside" /\ Only({})
                ELSE /\ arr' = [arr EXCEPT ![x] = flash.elem]
                     /\ flash' = [flash EXCEPT !.elem = arr[x], !.k = k, !.l[k] = x,
                                               !.nmove = @ + 1]
                     /\ UNCHANGED at /\ Only({"arr", "flash"})

Placed ==
    /\ at = "seek" /\ flash.nmove >= nmemb - 1
    /\ at' = "classes" /\ Only({})

\* Every class with more than one element is sorted, a large one by hsort_r.
SortClass ==
    /\ call = "fsort" /\ at = "classes" /\ flash.class < lsize
    /\ LET k == flash.class
           n == flash.ll[k + 1] - flash.ll[k]
       IN  IF n > 1
           THEN /\ call' = IF n > 7 THEN "hsort" ELSE "isort"
                /\ lo' = flash.ll[k] /\ len' = n /\ at' = "enter"
           ELSE UNCHANGED << call, lo, len, at >>
    /\ flash' = [flash EXCEPT !.class = @ + 1]
    /\ Only({"call", "flash"})

FsortReturn ==
    /\ call = "fsort" /\ at = "classes" /\ flash.class = lsize
    /\ Return /\ Only({"call"})

-----------------------------------------------------------------------------
Next ==
    \/ ReturnAtOnce
    \/ IsortEnter \/ Insert \/ IsortReturn
    \/ HeapEnter \/ SiftDown \/ HeapifyNext \/ Extract \/ HeapReturn
    \/ MsortEnter \/ MergeRuns \/ MsortNextStep \/ MsortReturn
    \/ FsortEnter \/ Seek \/ Move \/ Placed \/ SortClass \/ FsortReturn

Spec     == Init /\ [][Next]_vars
FairSpec == Spec /\ WF_vars(Next)

-----------------------------------------------------------------------------
(* What a sort returns has the elements of the caller in order; those of   *)
(* isort and msort that compare equal have kept theirs.                    *)
ResultSorted ==
    at = "returned" =>
        /\ ElementsOn(arr, Offsets) = 1..nmemb
        /\ SortedOn(arr, key, Offsets)
        /\ alg \in {"isort", "msort"} => StableOn(arr, key, Offsets)

(* The flashsort stays within its arrays, unless its metric cannot tell    *)
(* the least element from the greatest; a cycle ends where it began, with  *)
(* the element that was taken out there, and no element is in two places.  *)
FlashInside ==
    /\ at = "outside" => Metric(arr[Least]) = Metric(arr[Greatest])
    /\ at = "seek" => ElementsOn(arr, Offsets) = 1..nmemb

(* Every sort comes to its end; in particular the search for the next      *)
(* cycle does, and so do the cycles.                                       *)
Ends == <>(at \in {"returned", "outside"})
=============================================================================
