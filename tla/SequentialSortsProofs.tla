----------------------- MODULE SequentialSortsProofs -----------------------
(***************************************************************************)
(* The sorts of posix/lib return the elements of the caller in order, for  *)
(* arrays of any length with any keys, and the flashsort stays within its  *)
(* arrays for metrics of any coarseness.                                   *)
(***************************************************************************)
EXTENDS SequentialSorts, NumberTheorems, SequenceTheorems, TLAPS

Fields     == {"l", "ll", "j", "k", "nmove", "elem", "class"}
Algorithms == {"isort", "hsort", "ternary_hsort", "msort", "fsort"}

TypeInv ==
    /\ alg \in Algorithms /\ call \in Algorithms
    /\ at \in {"enter", "insert", "heapify", "extract", "merge", "seek", "move", "classes",
               "outside", "returned"}
    /\ exact \in BOOLEAN
    /\ key \in Seq(Nat)
    /\ arr \in [Offsets -> 1..nmemb]
    /\ lo \in Nat /\ len \in Nat /\ lo + len <= nmemb
    /\ i \in Nat /\ step \in Nat \ {0} /\ root \in Nat /\ max \in Nat
    /\ DOMAIN flash = Fields

(* A sort that the flashsort calls sorts one of its classes; all others    *)
(* sort the whole array.                                                   *)
CallInv ==
    /\ call = alg => lo = 0 /\ len = nmemb
    /\ call # alg => /\ alg = "fsort" /\ call \in {"isort", "hsort"}
                     /\ at \in {"enter", "insert", "heapify", "extract"}
    /\ call = "fsort" => at \in {"enter", "seek", "move", "classes", "outside", "returned"}
    /\ at \in {"seek", "move", "classes", "outside"} => call = "fsort"
    /\ at = "insert" => call = "isort"
    /\ at \in {"heapify", "extract"} => call \in Heaps
    /\ at = "merge" => call = "msort"
    /\ at = "returned" => call = alg
    /\ at = "enter" /\ call = alg => arr = [x \in Offsets |-> x + 1]

(* No element is lost.  While the flashsort moves one in hand, this is     *)
(* part of SeekInv.                                                        *)
ElementsInv == at # "move" => ElementsOn(arr, Offsets) = 1..nmemb

(* What isort has seen is in order.  The flashsort changes the order of    *)
(* equal elements, so that only the isort of the caller is stable.         *)
IsortInv ==
    at = "insert" =>
        /\ i \in 1..len
        /\ SortedOn(arr, key, Cells(lo, i))
        /\ alg = "isort" => /\ StableOn(arr, key, Cells(lo, i))
                            /\ \A x \in Cells(0, i) : arr[x] <= i
                            /\ \A x \in i..(len - 1) : arr[x] = x + 1

(* The heap begins at this offset. *)
From == IF at = "heapify" THEN i ELSE 0

parent == [y \in 1..nmemb |-> Parent(y)]
keyAt  == [x \in 0..(len - 1) |-> key[Elem(x)]]

(* No element is greater than its parent, but perhaps the children of the  *)
(* one that sinks.  The heap has the least elements that are left; the     *)
(* others follow it in order.                                              *)
HeapInv ==
    at \in {"heapify", "extract"} =>
        /\ len > 1 /\ From <= root /\ root <= max
        /\ at = "heapify" => max = len - 1
        /\ at = "extract" => i \in 1..(len - 1) /\ max = i - 1
        /\ \A y \in 1..max :
               /\ parent[y] >= From /\ parent[y] # root => keyAt[y] <= keyAt[parent[y]]
               /\ parent[y] = root /\ root > 0 /\ parent[root] >= From =>
                      keyAt[y] <= keyAt[parent[root]]
        /\ at = "extract" =>
               \A x \in 0..(len - 1), y \in i..(len - 1) : x < y => keyAt[x] <= keyAt[y]

(* The order of msort: that of the keys, and of the array of the caller    *)
(* for elements with the same key.                                         *)
Before(e, f) == key[e] < key[f] \/ (key[e] = key[f] /\ e < f)

(* Where the runs of s elements begin. *)
Starts(s) == {m * s : m \in Nat}

(* The n elements from b on are in order, and those of the caller's array  *)
(* in the same place.                                                      *)
RunDone(b, n) ==
    /\ \A x, y \in Offsets : b <= x /\ x < y /\ y < b + n => Before(arr[x], arr[y])
    /\ \A x \in Offsets : b <= x /\ x < b + n => b < arr[x] /\ arr[x] <= b + n

MsortInv ==
    at = "merge" =>
        /\ len > 1 /\ i \in Starts(2 * step)
        /\ \A b \in Starts(2 * step) : b < i => RunDone(b, 2 * step)
        /\ \A b \in Starts(step) : b >= i => RunDone(b, step)

-----------------------------------------------------------------------------
(* The flashsort *)

Classes == 0..(lsize - 1)
class   == [e \in 1..nmemb |-> Class(e)]
upTo    == [k \in Classes |-> UpTo(k)]
ends    == [k \in 0..lsize |-> IF k = 0 THEN 0 ELSE upTo[k - 1]]

(* The metric tells some elements apart, and the classes have room for     *)
(* their elements.                                                         *)
Flashing == at \in {"seek", "move", "classes"} \/ call # alg
MetricInv ==
    Flashing =>
        /\ nmemb > 1 /\ Min(Metrics) < Max(Metrics)
        /\ flash.ll = ends

(* The cells of class c that have got their element, and all of them. *)
filled    == [c \in Classes |-> {x \in Offsets : flash.l[c] <= x /\ x < flash.ll[c + 1]}]
AllFilled == UNION {filled[c] : c \in Classes}

SeekInv ==
    at \in {"seek", "move"} =>
        /\ flash.l \in [Classes -> 0..nmemb]
        /\ flash.j \in Offsets /\ flash.k \in Classes /\ flash.class = 0
        /\ \A c \in Classes : flash.ll[c] <= flash.l[c] /\ flash.l[c] <= flash.ll[c + 1]
        /\ \A c \in Classes : \A x \in filled[c] : class[arr[x]] = c
        /\ \A x \in 0..(flash.j - 1) : x \in AllFilled
        /\ flash.nmove = Cardinality(AllFilled)
        /\ at = "seek" => flash.k = class[arr[flash.j]]
        /\ at = "move" =>
               \/ /\ flash.j = flash.l[flash.k] /\ flash.j \in filled[flash.k]
                  /\ ElementsOn(arr, Offsets) = 1..nmemb
               \/ /\ flash.j # flash.l[flash.k] /\ flash.j \notin AllFilled
                  /\ flash.elem \in 1..nmemb
                  /\ ElementsOn([arr EXCEPT ![flash.j] = flash.elem], Offsets) = 1..nmemb

(* Every element is in its class; those below the current one are in order.*)
Done == IF at = "classes" THEN flash.class ELSE flash.class - 1
ClassesInv ==
    at = "classes" \/ call # alg =>
        /\ flash.class \in 0..lsize
        /\ call # alg => /\ flash.class > 0
                         /\ lo = flash.ll[flash.class - 1] /\ lo + len = flash.ll[flash.class]
        /\ \A x \in Offsets : /\ flash.ll[class[arr[x]]] <= x
                              /\ x < flash.ll[class[arr[x]] + 1]
        /\ SortedOn(arr, key, 0..(flash.ll[Done] - 1))

IInv ==
    /\ TypeInv /\ CallInv /\ ElementsInv /\ IsortInv /\ HeapInv /\ MsortInv
    /\ MetricInv /\ SeekInv /\ ClassesInv /\ ResultSorted /\ FlashInside

-----------------------------------------------------------------------------
(* Elements and their keys *)

LEMMA Elements ==
    ASSUME TypeInv
    PROVE  /\ nmemb \in Nat /\ Offsets = 0..(nmemb - 1)
           /\ \A e \in 1..nmemb : key[e] \in Nat
           /\ \A x \in Offsets : arr[x] \in 1..nmemb /\ key[arr[x]] \in Nat
           /\ \A x \in Cells(lo, len) : x \in Offsets
           /\ \A x \in 0..(len - 1) : /\ lo + x \in Cells(lo, len) /\ lo + x \in Offsets
                                      /\ Elem(x) = arr[lo + x]
<1>1. /\ key \in Seq(Nat) /\ arr \in [Offsets -> 1..nmemb]
      /\ lo \in Nat /\ len \in Nat /\ lo + len <= nmemb
  BY DEF TypeInv
<1>2. nmemb \in Nat /\ Offsets = 0..(nmemb - 1) /\ \A e \in 1..nmemb : key[e] \in Nat
  BY <1>1 DEF nmemb, Offsets
<1>3. \A x \in Offsets : arr[x] \in 1..nmemb /\ key[arr[x]] \in Nat
  BY <1>1, <1>2
<1>4. \A x \in Cells(lo, len) : x \in Offsets
  BY <1>1, <1>2 DEF Cells
<1>5. \A x \in 0..(len - 1) : lo + x \in Cells(lo, len)
  BY <1>1 DEF Cells
<1>. QED
  BY <1>2, <1>3, <1>4, <1>5 DEF Elem

(* Two elements of which one is less. *)
LEMMA Comparison ==
    ASSUME NEW e, NEW f, key[e] \in Nat, key[f] \in Nat
    PROVE  Less(e, f) <=> key[e] < key[f]
BY DEF Less, Compare

(* What depends on the array of the caller and on the metric only. *)
LEMMA Unchanged ==
    ASSUME UNCHANGED << key, exact >>
    PROVE  /\ nmemb' = nmemb /\ Offsets' = Offsets /\ lsize' = lsize /\ Classes' = Classes
           /\ Metrics' = Metrics /\ class' = class /\ upTo' = upTo /\ ends' = ends
           /\ call' = call => parent' = parent
<1>1. nmemb' = nmemb /\ Offsets' = Offsets /\ lsize' = lsize /\ Classes' = Classes
  BY DEF nmemb, Offsets, lsize, Classes
<1>2. Metrics' = Metrics
  BY DEF Metrics, Metric, nmemb
<1>3. class' = class
  BY DEF class, Class, lsize, Metrics, Metric, nmemb
<1>4. upTo' = upTo
  BY DEF upTo, UpTo, Class, Classes, lsize, Metrics, Metric, nmemb
<1>5. call' = call => parent' = parent
  BY DEF parent, Parent, Arity, nmemb
<1>6. ends' = ends
  BY <1>1, <1>4 DEF ends
<1>. QED
  BY <1>1, <1>2, <1>3, <1>4, <1>5, <1>6

(* A set of elements has one with the least and one with the greatest key. *)
LEMMA LeastKey ==
    ASSUME TypeInv, NEW E \in SUBSET (1..nmemb), E # {}
    PROVE  \E e \in E : \A f \in E : key[e] <= key[f]
<1>. DEFINE B == {key[e] : e \in E}
<1>1. B \in SUBSET Nat /\ B # {}
  BY Elements
<1>2. \E m \in B : \A k \in B : m <= k
  <2>. HIDE DEF B
  <2>. QED
    BY <1>1, LeastOf
<1>. QED
  BY <1>2

LEMMA Bounded ==
    ASSUME NEW f, NEW n \in Nat, \A e \in 1..n : f[e] \in Nat
    PROVE  \E b \in Nat : \A e \in 1..n : f[e] <= b
<1>. DEFINE S == {m \in 0..n : \E b \in Nat : \A e \in 1..m : f[e] <= b} \cup {m \in Nat : m > n}
<1>1. 0 \in S
  OBVIOUS
<1>2. ASSUME NEW m \in Nat, m \in S PROVE m + 1 \in S
  <2>1. CASE m + 1 > n
    BY <2>1
  <2>2. CASE m + 1 <= n
    <3>1. PICK b \in Nat : \A e \in 1..m : f[e] <= b
      BY <1>2, <2>2
    <3>2. f[m + 1] \in Nat
      BY <2>2
    <3>3. PICK c \in Nat : c >= b /\ c >= f[m + 1]
      BY <3>2
    <3>4. \A e \in 1..(m + 1) : f[e] <= c
      <4>1. ASSUME NEW e \in 1..(m + 1) PROVE f[e] <= c
        <5>1. CASE e = m + 1
          BY <3>3, <5>1
        <5>2. CASE e \in 1..m
          <6>1. f[e] <= b /\ f[e] \in Nat
            BY <2>2, <3>1, <5>2
          <6>. QED
            BY <3>3, <6>1
        <5>. QED
          BY <5>1, <5>2
      <4>. QED
        BY <4>1
    <3>. QED
      BY <2>2, <3>4
  <2>. QED
    BY <2>1, <2>2
<1>3. n \in S
  <2>. HIDE DEF S
  <2>. QED
    BY <1>1, <1>2, InductiveSet
<1>. QED
  BY <1>3

LEMMA GreatestKey ==
    ASSUME TypeInv, NEW E \in SUBSET (1..nmemb), E # {}
    PROVE  \E e \in E : \A f \in E : key[f] <= key[e]
<1>. DEFINE B == {key[e] : e \in E}
<1>1. PICK b \in Nat : \A e \in 1..nmemb : key[e] <= b
  BY Elements, Bounded
<1>2. B \in SUBSET (0..b) /\ B # {}
  <2>1. \A e \in E : key[e] \in 0..b
    BY <1>1, Elements
  <2>. QED
    BY <2>1
<1>3. \E m \in B : \A k \in B : k <= m
  <2>. HIDE DEF B
  <2>. QED
    BY <1>2, GreatestOf
<1>. QED
  BY <1>3

-----------------------------------------------------------------------------
(* Metrics and classes *)

LEMMA NumberOfClasses == ASSUME TypeInv PROVE lsize \in Nat /\ lsize >= 2
<1>. DEFINE q == (42 * nmemb) \div 100 + 1
<1>1. q \in Nat
  BY Elements
<1>2. Max({2, q}) \in {2, q} /\ \A y \in {2, q} : Max({2, q}) >= y
  <2>1. \E x \in {2, q} : \A y \in {2, q} : x >= y
    BY <1>1
  <2>. QED
    BY <2>1 DEF Max
<1>. QED
  BY <1>1, <1>2 DEF lsize

LEMMA MetricType ==
    ASSUME TypeInv
    PROVE  /\ \A e \in 1..nmemb : Metric(e) \in Nat
           /\ \A e, f \in 1..nmemb : key[e] <= key[f] => Metric(e) <= Metric(f)
<1>1. ASSUME NEW e \in 1..nmemb PROVE Metric(e) \in Nat
  <2>1. key[e] \in Nat /\ Coarse \in Nat \ {0}
    BY Elements, InputsAssumption
  <2>2. key[e] \div Coarse \in Nat
    BY <2>1
  <2>. QED
    BY <2>1, <2>2 DEF Metric
<1>2. ASSUME NEW e \in 1..nmemb, NEW f \in 1..nmemb, key[e] <= key[f]
      PROVE  Metric(e) <= Metric(f)
  <2>1. key[e] \in Nat /\ key[f] \in Nat /\ Coarse \in Nat \ {0}
    BY Elements, InputsAssumption
  <2>2. key[e] \div Coarse <= key[f] \div Coarse
    BY <1>2, <2>1
  <2>. QED
    BY <1>2, <2>2 DEF Metric
<1>. QED
  BY <1>1, <1>2

LEMMA MetricBounds ==
    ASSUME TypeInv, nmemb > 0
    PROVE  /\ Min(Metrics) \in Nat /\ Max(Metrics) \in Nat
           /\ Min(Metrics) \in Metrics /\ Max(Metrics) \in Metrics
           /\ \A e \in 1..nmemb : Min(Metrics) <= Metric(e) /\ Metric(e) <= Max(Metrics)
<1>1. Metrics \in SUBSET Nat /\ Metrics # {}
  BY Elements, MetricType DEF Metrics
<1>2. Min(Metrics) \in Metrics /\ \A m \in Metrics : Min(Metrics) <= m
  <2>1. \E m \in Metrics : \A k \in Metrics : m <= k
    BY <1>1, LeastOf
  <2>. QED
    BY <2>1 DEF Min
<1>3. Max(Metrics) \in Metrics /\ \A m \in Metrics : Max(Metrics) >= m
  <2>1. PICK e \in 1..nmemb : \A f \in 1..nmemb : key[f] <= key[e]
    <3>1. 1..nmemb # {}
      BY Elements
    <3>. QED
      BY <3>1, GreatestKey
  <2>2. \A m \in Metrics : Metric(e) >= m
    BY <2>1, MetricType DEF Metrics
  <2>3. \E m \in Metrics : \A k \in Metrics : m >= k
    BY <2>2 DEF Metrics
  <2>. QED
    BY <2>3 DEF Max
<1>. QED
  BY <1>1, <1>2, <1>3 DEF Metrics

(* The class of an element does not fall with its key, and the greatest    *)
(* metric has the last class.                                              *)
LEMMA ClassType ==
    ASSUME TypeInv, nmemb > 0, Min(Metrics) < Max(Metrics)
    PROVE  /\ class \in [1..nmemb -> Classes]
           /\ \A e, f \in 1..nmemb : class[e] < class[f] => key[e] < key[f]
           /\ \A e \in 1..nmemb : Metric(e) = Max(Metrics) => class[e] = lsize - 1
<1>. DEFINE d == Max(Metrics) - Min(Metrics)
            n == lsize - 1
            a(e) == n * (Metric(e) - Min(Metrics))
<1>1. d \in Nat \ {0} /\ n \in Nat
  BY MetricBounds, NumberOfClasses
<1>2. \A e \in 1..nmemb : a(e) \in Nat
  BY <1>1, MetricBounds, MetricType
<1>3. \A e \in 1..nmemb : class[e] = IF a(e) \div d > n THEN n ELSE a(e) \div d
  BY DEF class, Class
<1>4. ASSUME NEW e \in 1..nmemb PROVE class[e] \in Classes
  <2>1. a(e) \div d \in Nat
    BY <1>1, <1>2
  <2>. QED
    BY <1>1, <1>3, <2>1, NumberOfClasses DEF Classes
<1>5. ASSUME NEW e \in 1..nmemb, NEW f \in 1..nmemb, class[e] < class[f]
      PROVE  key[e] < key[f]
  <2>. SUFFICES ASSUME key[f] <= key[e] PROVE class[f] <= class[e]
    BY <1>4, <1>5, Elements, NumberOfClasses DEF Classes
  <2>1. a(f) <= a(e)
    BY <1>1, MetricType, MetricBounds
  <2>2. a(f) \div d <= a(e) \div d /\ a(f) \div d \in Nat /\ a(e) \div d \in Nat
    <3>. HIDE DEF a, d
    <3>. QED
      BY <1>1, <1>2, <2>1
  <2>. QED
    BY <1>1, <1>3, <2>2
<1>6. ASSUME NEW e \in 1..nmemb, Metric(e) = Max(Metrics) PROVE class[e] = lsize - 1
  <2>1. a(e) = n * d
    BY <1>6
  <2>2. (n * d) \div d = n
    <3>. HIDE DEF d, n
    <3>. QED
      BY <1>1
  <2>. QED
    BY <1>1, <1>3, <2>1, <2>2
<1>. QED
  BY <1>3, <1>4, <1>5, <1>6 DEF class

(* The elements of a class. *)
Members(c) == {e \in 1..nmemb : class[e] = c}

LEMMA Distribution ==
    ASSUME TypeInv, nmemb > 0, Min(Metrics) < Max(Metrics)
    PROVE  /\ ends \in [0..lsize -> 0..nmemb]
           /\ ends[0] = 0 /\ ends[lsize] = nmemb
           /\ \A c, d \in 0..lsize : c <= d => ends[c] <= ends[d]
           /\ \A c \in Classes : IsFiniteSet(Members(c)) /\ Cardinality(Members(c)) = ends[c + 1] - ends[c]
           /\ \A c \in Classes : ends[c + 1] = UpTo(c)
<1>. DEFINE U(c) == {e \in 1..nmemb : class[e] < c}
<1>1. nmemb \in Nat /\ lsize \in Nat /\ lsize >= 2
  BY Elements, NumberOfClasses
<1>2. IsFiniteSet(1..nmemb) /\ Cardinality(1..nmemb) = nmemb
  BY <1>1, FS_Interval
<1>3. ASSUME NEW c \in Int
      PROVE  IsFiniteSet(U(c)) /\ Cardinality(U(c)) \in 0..nmemb
  <2>1. U(c) \in SUBSET (1..nmemb)
    OBVIOUS
  <2>. HIDE DEF U
  <2>. QED
    BY <1>1, <1>2, <2>1, FS_Subset, FS_CardinalityType
<1>4. \A c \in Classes : UpTo(c) = Cardinality(U(c + 1))
  <2>1. ASSUME NEW c \in Classes PROVE {e \in 1..nmemb : Class(e) <= c} = U(c + 1)
    BY <1>1, ClassType DEF class, Classes
  <2>. QED
    BY <2>1 DEF UpTo
<1>5. U(0) = {} /\ U(lsize) = 1..nmemb
  BY <1>1, ClassType DEF Classes
<1>6. \A c \in 0..lsize : ends[c] = Cardinality(U(c))
  <2>1. ASSUME NEW c \in 0..lsize PROVE ends[c] = Cardinality(U(c))
    <3>1. CASE c = 0
      <4>1. ends[c] = 0 /\ Cardinality({}) = 0
        BY <1>1, <3>1, FS_EmptySet DEF ends
      <4>. QED
        BY <1>5, <3>1, <4>1
    <3>2. CASE c # 0
      <4>1. c - 1 \in Classes /\ c - 1 + 1 = c
        BY <1>1, <3>2 DEF Classes
      <4>2. ends[c] = UpTo(c - 1)
        BY <3>2, <4>1 DEF ends, upTo
      <4>3. UpTo(c - 1) = Cardinality(U(c - 1 + 1))
        BY <1>4, <4>1
      <4>. QED
        BY <4>1, <4>2, <4>3
    <3>. QED
      BY <3>1, <3>2
  <2>. QED
    BY <2>1
<1>7. ends \in [0..lsize -> 0..nmemb]
  <2>1. \A c \in 0..lsize : ends[c] \in 0..nmemb
    <3>. HIDE DEF U
    <3>1. \A c \in 0..lsize : c \in Int
      BY <1>1
    <3>2. \A c \in 0..lsize : Cardinality(U(c)) \in 0..nmemb
      BY <1>3, <3>1
    <3>. QED
      BY <1>6, <3>2
  <2>. QED
    BY <2>1 DEF ends
<1>8. ends[0] = 0 /\ ends[lsize] = nmemb
  <2>1. ends[lsize] = Cardinality(U(lsize)) /\ ends[0] = 0
    BY <1>1, <1>6 DEF ends
  <2>. QED
    BY <1>2, <1>5, <2>1
<1>9. ASSUME NEW c \in 0..lsize, NEW d \in 0..lsize, c <= d PROVE ends[c] <= ends[d]
  <2>1. U(c) \in SUBSET U(d)
    BY <1>1, <1>9, ClassType DEF Classes
  <2>2. IsFiniteSet(U(d))
    BY <1>3
  <2>3. Cardinality(U(c)) <= Cardinality(U(d))
    <3>. HIDE DEF U
    <3>. QED
      BY <2>1, <2>2, FS_Subset
  <2>. QED
    BY <1>6, <2>3
<1>10. ASSUME NEW c \in Classes
       PROVE  IsFiniteSet(Members(c)) /\ Cardinality(Members(c)) = ends[c + 1] - ends[c]
  <2>1. c \in 0..lsize /\ c + 1 \in 0..lsize /\ c \in Int
    BY <1>1 DEF Classes
  <2>2. Members(c) = U(c + 1) \ U(c) /\ U(c + 1) \cap U(c) = U(c)
    BY <1>1, <2>1, ClassType DEF Classes, Members
  <2>3. /\ IsFiniteSet(U(c + 1) \ U(c))
        /\ Cardinality(U(c + 1) \ U(c)) = Cardinality(U(c + 1)) - Cardinality(U(c + 1) \cap U(c))
    <3>1. IsFiniteSet(U(c + 1))
      BY <1>3, <2>1
    <3>. HIDE DEF U
    <3>. QED
      BY <3>1, FS_Difference
  <2>. QED
    BY <1>6, <2>1, <2>2, <2>3
<1>11. ASSUME NEW c \in Classes, NEW d \in 0..lsize, d = c + 1 PROVE ends[d] = UpTo(c)
  <2>1. d # 0 /\ d - 1 = c
    BY <1>1, <1>11 DEF Classes
  <2>2. ends[d] = upTo[d - 1]
    BY <2>1 DEF ends
  <2>3. upTo[c] = UpTo(c)
    BY DEF upTo
  <2>. QED
    BY <2>1, <2>2, <2>3
<1>12. \A c \in Classes : c + 1 \in 0..lsize
  BY <1>1 DEF Classes
<1>. QED
  BY <1>7, <1>8, <1>9, <1>10, <1>11, <1>12

(* What the flashsort knows while it runs. *)
LEMMA Knowledge ==
    ASSUME TypeInv, MetricInv, Flashing
    PROVE  /\ nmemb \in Nat \ {0} /\ lsize \in Nat /\ lsize >= 2 /\ Classes = 0..(lsize - 1)
           /\ flash.ll = ends /\ ends \in [0..lsize -> 0..nmemb]
           /\ ends[0] = 0 /\ ends[lsize] = nmemb
           /\ \A c, d \in 0..lsize : c <= d => ends[c] <= ends[d]
           /\ class \in [1..nmemb -> Classes]
           /\ \A e, f \in 1..nmemb : class[e] < class[f] => key[e] < key[f]
<1>1. Min(Metrics) < Max(Metrics) /\ flash.ll = ends
  BY DEF MetricInv
<1>2. nmemb > 0
  BY Elements DEF MetricInv
<1>. QED
  BY <1>1, <1>2, Elements, NumberOfClasses, ClassType, Distribution DEF Classes

(* No cell is in two classes. *)
LEMMA Apart ==
    ASSUME TypeInv, MetricInv, Flashing, NEW c \in Classes, NEW d \in Classes, NEW x \in Int,
           ends[c] <= x, x < ends[c + 1], ends[d] <= x, x < ends[d + 1]
    PROVE  c = d
<1>1. /\ lsize \in Nat /\ Classes = 0..(lsize - 1)
      /\ ends \in [0..lsize -> 0..nmemb] /\ nmemb \in Nat
      /\ \A v, w \in 0..lsize : v <= w => ends[v] <= ends[w]
  BY Knowledge
<1>2. /\ c \in 0..lsize /\ c + 1 \in 0..lsize /\ d \in 0..lsize /\ d + 1 \in 0..lsize
      /\ c \in Int /\ d \in Int
  BY <1>1
<1>3. ends[c] \in Int /\ ends[c + 1] \in Int /\ ends[d] \in Int /\ ends[d + 1] \in Int
  BY <1>1, <1>2
<1>4. ~ (c < d)
  <2>. SUFFICES ASSUME c + 1 <= d PROVE FALSE
    BY <1>2
  <2>1. ends[c + 1] <= ends[d]
    BY <1>1, <1>2
  <2>. QED
    BY <1>3, <2>1
<1>5. ~ (d < c)
  <2>. SUFFICES ASSUME d + 1 <= c PROVE FALSE
    BY <1>2
  <2>1. ends[d + 1] <= ends[c]
    BY <1>1, <1>2
  <2>. QED
    BY <1>3, <2>1
<1>. QED
  BY <1>2, <1>4, <1>5

-----------------------------------------------------------------------------
(* The sort that runs changes the order of its elements only. *)

Rearranged ==
    /\ arr' \in [Offsets -> 1..nmemb]
    /\ \A x \in Offsets \ Cells(lo, len) : arr'[x] = arr[x]
    /\ \A x \in Cells(lo, len) : \E y \in Cells(lo, len) : arr'[x] = arr[y]
    /\ \A y \in Cells(lo, len) : \E x \in Cells(lo, len) : arr'[x] = arr[y]

Sorting == {"enter", "insert", "heapify", "extract", "merge"}

LEMMA RearrangedElements ==
    ASSUME TypeInv, Rearranged, ElementsOn(arr, Offsets) = 1..nmemb
    PROVE  ElementsOn(arr', Offsets) = 1..nmemb
<1>1. \A x \in Offsets : arr'[x] \in 1..nmemb
  BY DEF Rearranged
<1>2. ASSUME NEW e \in 1..nmemb PROVE \E x \in Offsets : arr'[x] = e
  <2>1. PICK y \in Offsets : arr[y] = e
    BY DEF ElementsOn
  <2>. QED
    BY <2>1, Elements DEF Rearranged
<1>. QED
  BY <1>1, <1>2 DEF ElementsOn

LEMMA SortStep ==
    ASSUME IInv, Rearranged, UNCHANGED << alg, exact, key, call, lo, len, flash >>,
           at \in Sorting, at' \in Sorting
    PROVE  /\ ElementsInv' /\ MetricInv' /\ SeekInv' /\ ClassesInv'
           /\ ResultSorted' /\ FlashInside'
<1>1. TypeInv /\ ElementsInv /\ MetricInv /\ ClassesInv
  BY DEF IInv
<1>2. ElementsInv'
  <2>1. ElementsOn(arr, Offsets) = 1..nmemb
    BY <1>1 DEF ElementsInv, Sorting
  <2>2. ElementsOn(arr', Offsets) = 1..nmemb
    BY <1>1, <2>1, RearrangedElements
  <2>. QED
    BY <2>2, Unchanged DEF ElementsInv
<1>3. MetricInv'
  BY <1>1, Unchanged DEF MetricInv, Flashing, Sorting
<1>4. SeekInv' /\ ResultSorted' /\ FlashInside'
  BY DEF SeekInv, ResultSorted, FlashInside, Sorting
<1>5. ClassesInv'
  <2>. SUFFICES ASSUME call # alg PROVE ClassesInv'
    BY DEF ClassesInv, Sorting
  <2>. DEFINE k == flash.class - 1
  <2>1. /\ k \in 0..(lsize - 1) /\ flash.class = k + 1 /\ Done = k
        /\ lo = ends[k] /\ lo + len = ends[k + 1]
        /\ \A x \in Offsets : ends[class[arr[x]]] <= x /\ x < ends[class[arr[x]] + 1]
        /\ SortedOn(arr, key, 0..(ends[k] - 1))
    <3>1. Flashing /\ lsize \in Nat /\ flash.ll = ends
      BY <1>1, Knowledge DEF Flashing
    <3>2. k \in 0..(lsize - 1) /\ flash.class = k + 1 /\ Done = k
      BY <1>1, <3>1 DEF ClassesInv, Done, Sorting
    <3>. QED
      BY <1>1, <3>1, <3>2 DEF ClassesInv
  <2>. HIDE DEF k
  <2>2. \A c, d \in 0..lsize : c <= d => ends[c] <= ends[d]
    BY <1>1, Knowledge DEF Flashing
  <2>3. class \in [1..nmemb -> 0..(lsize - 1)] /\ lsize \in Nat /\ ends \in [0..lsize -> 0..nmemb]
    BY <1>1, Knowledge DEF Flashing
  <2>4. ASSUME NEW x \in Offsets
        PROVE  ends[class[arr'[x]]] <= x /\ x < ends[class[arr'[x]] + 1]
    <3>1. CASE x \notin Cells(lo, len)
      BY <2>1, <3>1 DEF Rearranged
    <3>2. CASE x \in Cells(lo, len)
      <4>1. PICK y \in Cells(lo, len) : arr'[x] = arr[y]
        BY <3>2 DEF Rearranged
      <4>2. y \in Offsets /\ arr[y] \in 1..nmemb
        BY <1>1, Elements
      <4>. DEFINE c == class[arr[y]]
      <4>3. c \in 0..(lsize - 1)
        BY <2>3, <4>2
      <4>4. ends[c] <= y /\ y < ends[c + 1]
        BY <2>1, <4>2
      <4>. HIDE DEF c
      <4>5. y \in Int /\ ends[k] <= y /\ y < ends[k + 1] /\ ends[k] <= x /\ x < ends[k + 1]
        <5>1. lo \in Nat /\ len \in Nat
          BY <1>1 DEF TypeInv
        <5>2. lo = ends[k] /\ lo + len = ends[k + 1]
          BY <2>1
        <5>3. y \in lo..(lo + len - 1) /\ x \in lo..(lo + len - 1)
          BY <3>2 DEF Cells
        <5>4. y \in Int /\ lo <= y /\ y < lo + len /\ lo <= x /\ x < lo + len
          BY <5>1, <5>3
        <5>. QED
          BY <5>2, <5>4
      <4>7. c = k
        BY <1>1, <2>1, <4>3, <4>4, <4>5, Apart DEF Classes, Flashing
      <4>. QED
        BY <4>1, <4>5, <4>7 DEF c
    <3>. QED
      BY <3>1, <3>2
  <2>5. SortedOn(arr', key, 0..(ends[k] - 1))
    <3>1. \A x \in 0..(ends[k] - 1) : x \in Offsets \ Cells(lo, len)
      BY <1>1, <2>1, <2>3, Elements DEF Cells
    <3>2. \A x \in 0..(ends[k] - 1) : arr'[x] = arr[x]
      BY <3>1 DEF Rearranged
    <3>. QED
      BY <2>1, <3>2 DEF SortedOn
  <2>6. Done' = k
    BY <2>1 DEF Done, Sorting, k
  <2>7. flash.ll = ends /\ flash.ll' = ends
    BY <1>1, Knowledge DEF Flashing
  <2>. QED
    BY <1>1, <2>1, <2>4, <2>5, <2>6, <2>7, Unchanged DEF ClassesInv, Sorting
<1>. QED
  BY <1>2, <1>3, <1>4, <1>5

LEMMA Untouched == ASSUME TypeInv, arr' = arr PROVE Rearranged
<1>1. \A x \in Cells(lo, len) : x \in Offsets
  BY Elements
<1>. QED
  BY <1>1 DEF Rearranged, TypeInv

(* The sort of the whole array keeps what the caller asked for. *)
LEMMA Whole == ASSUME CallInv, alg # "fsort" PROVE call = alg /\ lo = 0 /\ len = nmemb
BY DEF CallInv

-----------------------------------------------------------------------------
(* isort *)

LEMMA IsortEnterStep == ASSUME IInv, IsortEnter PROVE IInv'
<1>1. /\ call = "isort" /\ at = "enter" /\ len > 1 /\ at' = "insert" /\ i' = 1 /\ arr' = arr
      /\ UNCHANGED << alg, exact, key, call, lo, len, flash, step, root, max >>
  BY DEF IsortEnter, Only
<1>2. /\ ElementsInv' /\ MetricInv' /\ SeekInv' /\ ClassesInv'
      /\ ResultSorted' /\ FlashInside'
  BY <1>1, Untouched, SortStep DEF Sorting, IInv
<1>3. TypeInv /\ CallInv
  BY DEF IInv
<1>4. nmemb' = nmemb /\ Offsets' = Offsets
  BY <1>1, Unchanged
<1>5. TypeInv' /\ CallInv' /\ HeapInv' /\ MsortInv'
  BY <1>1, <1>3, <1>4 DEF TypeInv, CallInv, HeapInv, MsortInv, Heaps
<1>6. IsortInv'
  <2>1. \A x, y \in Cells(lo, 1) : ~ (x < y)
    BY <1>3 DEF Cells, TypeInv
  <2>2. SortedOn(arr, key, Cells(lo, 1)) /\ StableOn(arr, key, Cells(lo, 1)) /\ 1 \in 1..len
    BY <1>1, <1>3, <2>1 DEF SortedOn, StableOn, TypeInv
  <2>3. alg = "isort" => lo = 0 /\ len = nmemb /\ \A x \in 0..(len - 1) : arr[x] = x + 1
    BY <1>1, <1>3, Elements DEF CallInv
  <2>4. alg = "isort" => /\ \A x \in Cells(0, 1) : arr[x] <= 1
                         /\ \A x \in 1..(len - 1) : arr[x] = x + 1
    BY <1>1, <1>3, <2>3 DEF Cells, TypeInv
  <2>. QED
    BY <1>1, <2>2, <2>4 DEF IsortInv
<1>. QED
  BY <1>2, <1>5, <1>6 DEF IInv

(* Where element i goes. *)
Place == lo + (IF Greater(i) = {} THEN i ELSE Min(Greater(i)))

LEMMA PlaceType ==
    ASSUME IInv, at = "insert", i < len
    PROVE  /\ Place \in Cells(lo, i + 1)
           /\ \A x \in lo..(Place - 1) : key[arr[x]] <= key[arr[lo + i]]
           /\ \A x \in Place..(lo + i - 1) : key[arr[lo + i]] < key[arr[x]]
<1>1. TypeInv /\ i \in 1..len /\ lo \in Nat /\ len \in Nat
  BY DEF IInv, IsortInv, TypeInv
<1>2. \A y \in 0..i : lo + y \in Offsets /\ Elem(y) = arr[lo + y] /\ key[arr[lo + y]] \in Nat
  <2>1. \A y \in 0..i : y \in 0..(len - 1)
    BY <1>1
  <2>. QED
    BY <1>1, <2>1, Elements
<1>3. \A y \in 0..(i - 1) : y \in Greater(i) <=> key[arr[lo + i]] < key[arr[lo + y]]
  BY <1>1, <1>2, Comparison DEF Greater
<1>4. Greater(i) \in SUBSET (0..(i - 1))
  BY DEF Greater
<1>5. CASE Greater(i) = {}
  <2>1. Place = lo + i
    BY <1>5 DEF Place
  <2>2. ASSUME NEW x \in lo..(lo + i - 1) PROVE key[arr[x]] <= key[arr[lo + i]]
    <3>1. x - lo \in 0..(i - 1) /\ lo + (x - lo) = x /\ i \in 0..i
      BY <1>1
    <3>2. ~ (key[arr[lo + i]] < key[arr[lo + (x - lo)]])
      BY <1>3, <1>5, <3>1
    <3>. QED
      BY <1>1, <1>2, <3>1, <3>2
  <2>. QED
    BY <1>1, <2>1, <2>2 DEF Cells
<1>6. CASE Greater(i) # {}
  <2>. DEFINE j == Min(Greater(i))
  <2>1. j \in Greater(i) /\ \A y \in Greater(i) : j <= y
    <3>1. Greater(i) \in SUBSET Nat
      BY <1>1, <1>4
    <3>2. \E m \in Greater(i) : \A y \in Greater(i) : m <= y
      BY <1>6, <3>1, LeastOf
    <3>. QED
      BY <3>2 DEF Min
  <2>2. Place = lo + j
    BY <1>6 DEF Place
  <2>. HIDE DEF j
  <2>3. j \in 0..(i - 1)
    BY <1>4, <2>1
  <2>4. ASSUME NEW x \in lo..(lo + j - 1) PROVE key[arr[x]] <= key[arr[lo + i]]
    <3>1. x - lo \in 0..(i - 1) /\ lo + (x - lo) = x /\ x - lo < j /\ i \in 0..i
      BY <1>1, <2>3
    <3>2. x - lo \notin Greater(i)
      BY <2>1, <2>3, <3>1
    <3>. QED
      BY <1>1, <1>2, <1>3, <3>1, <3>2
  <2>5. ASSUME NEW x \in (lo + j)..(lo + i - 1) PROVE key[arr[lo + i]] < key[arr[x]]
    <3>1. key[arr[lo + i]] < key[arr[lo + j]]
      BY <1>3, <2>1, <2>3
    <3>3. key[arr[lo + i]] \in Nat /\ key[arr[lo + j]] \in Nat /\ key[arr[x]] \in Nat
      <4>1. x - lo \in 0..i /\ lo + (x - lo) = x /\ i \in 0..i /\ j \in 0..i
        BY <1>1, <2>3
      <4>. QED
        BY <1>2, <4>1
    <3>2. key[arr[lo + j]] <= key[arr[x]]
      <4>1. lo + j \in Cells(lo, i) /\ x \in Cells(lo, i)
        BY <1>1, <2>3 DEF Cells
      <4>2. SortedOn(arr, key, Cells(lo, i))
        BY DEF IInv, IsortInv
      <4>3. lo + j < x => key[arr[lo + j]] - key[arr[x]] <= 0
        BY <4>1, <4>2 DEF SortedOn, Compare
      <4>. QED
        BY <1>1, <2>3, <3>3, <4>3
    <3>. QED
      BY <3>1, <3>2, <3>3
  <2>. QED
    BY <1>1, <2>2, <2>3, <2>4, <2>5 DEF Cells
<1>. QED
  BY <1>5, <1>6

LEMMA InsertStep == ASSUME IInv, Insert PROVE IInv'
<1>1. /\ call = "isort" /\ at = "insert" /\ i < len /\ at' = at /\ i' = i + 1
      /\ UNCHANGED << alg, exact, key, call, lo, len, flash, step, root, max >>
  BY DEF Insert, Only
<1>2. TypeInv /\ CallInv /\ i \in 1..len /\ i \in Nat /\ lo \in Nat /\ len \in Nat
  BY <1>1 DEF IInv, IsortInv, TypeInv
<1>a. SortedOn(arr, key, Cells(lo, i)) /\ arr \in [Offsets -> 1..nmemb]
  BY <1>1 DEF IInv, IsortInv, TypeInv
<1>. DEFINE a == Place
            b == lo + i
<1>3. /\ a \in lo..b
      /\ \A x \in lo..(a - 1) : key[arr[x]] <= key[arr[b]]
      /\ \A x \in a..(b - 1) : key[arr[b]] < key[arr[x]]
  BY <1>1, <1>2, PlaceType DEF Cells
<1>4. \A x \in 0..i : lo + x \in Offsets /\ lo + x \in Cells(lo, len)
  <2>1. \A x \in 0..i : x \in 0..(len - 1)
    BY <1>1, <1>2
  <2>. QED
    BY <1>2, <2>1, Elements
<1>b. \A x \in Offsets : x \in Int
  <2>1. nmemb \in Nat /\ Offsets = 0..(nmemb - 1)
    BY <1>2, Elements
  <2>. QED
    BY <2>1
<1>5. arr' = [x \in Offsets |-> IF x = a THEN arr[b]
                               ELSE IF x \in (a + 1)..b THEN arr[x - 1] ELSE arr[x]]
  <2>1. CASE Greater(i) = {}
    <3>1. arr' = arr /\ a = b
      BY <2>1 DEF Insert, Place
    <3>. QED
      BY <1>2, <1>a, <3>1
  <2>2. CASE Greater(i) # {}
    <3>1. a = lo + Min(Greater(i)) /\ Elem(i) = arr[b]
      BY <2>2 DEF Place, Elem
    <3>2. arr' = [x \in Offsets |->
                    IF x = lo + Min(Greater(i)) THEN Elem(i)
                    ELSE IF x \in (lo + Min(Greater(i)) + 1)..(lo + i) THEN arr[x - 1] ELSE arr[x]]
      BY <2>2 DEF Insert
    <3>. QED
      BY <3>1, <3>2
  <2>. QED
    BY <2>1, <2>2
<1>. HIDE DEF a, b
<1>6. /\ a \in Int /\ b \in Nat /\ lo \in Nat /\ i \in Nat /\ b = lo + i /\ lo <= a /\ a <= b /\ b < lo + len
      /\ \A x \in lo..b : x \in Offsets /\ x \in Cells(lo, len) /\ arr[x] \in 1..nmemb /\ key[arr[x]] \in Nat
  <2>1. b = lo + i
    BY DEF b
  <2>2. ASSUME NEW x \in lo..b PROVE x \in Offsets /\ x \in Cells(lo, len)
    <3>1. x - lo \in 0..i /\ lo + (x - lo) = x
      BY <1>2, <2>1
    <3>. QED
      BY <1>4, <3>1
  <2>. QED
    BY <1>1, <1>2, <1>3, <2>1, <2>2, Elements
<1>7. /\ arr'[a] = arr[b]
      /\ \A x \in (a + 1)..b : arr'[x] = arr[x - 1]
      /\ \A x \in Offsets : x < a \/ x > b => arr'[x] = arr[x]
      /\ arr' \in [Offsets -> 1..nmemb]
  <2>1. a \in Offsets /\ b \in Offsets
    <3>1. a \in lo..b /\ b \in lo..b
      BY <1>6
    <3>. QED
      BY <1>6, <3>1
  <2>2. ASSUME NEW x \in (a + 1)..b PROVE x \in Offsets /\ x # a /\ arr[x - 1] \in 1..nmemb
    <3>1. x \in lo..b /\ x - 1 \in lo..b /\ x # a
      BY <1>6
    <3>. QED
      BY <1>6, <3>1
  <2>3. \A x \in Offsets : x < a \/ x > b => x # a /\ x \notin (a + 1)..b
    BY <1>6, <1>b
  <2>4. \A x \in Offsets : arr[x] \in 1..nmemb
    BY <1>a
  <2>5. arr' \in [Offsets -> 1..nmemb]
    <3>1. arr[b] \in 1..nmemb
      BY <2>1, <2>4
    <3>. QED
      BY <1>5, <2>2, <2>4, <3>1
  <2>. QED
    BY <1>5, <2>1, <2>2, <2>3, <2>5
<1>8. Rearranged
  <2>1. ASSUME NEW x \in Offsets \ Cells(lo, len) PROVE arr'[x] = arr[x]
    <3>1. x \in Int /\ x \notin lo..b
      BY <1>6, <1>b
    <3>a. x < a \/ x > b
      BY <1>6, <3>1
    <3>. QED
      BY <1>7, <3>a
  <2>2. ASSUME NEW x \in Cells(lo, len) PROVE \E y \in Cells(lo, len) : arr'[x] = arr[y]
    <3>1. x \in Offsets /\ x \in Int
      BY <1>2, <1>b, Elements
    <3>2. CASE x < a \/ x > b
      BY <1>7, <3>1, <3>2
    <3>3. CASE x = a
      <4>1. b \in lo..b
        BY <1>6
      <4>. QED
        BY <1>6, <1>7, <3>3, <4>1
    <3>4. CASE x \in (a + 1)..b
      <4>1. x - 1 \in lo..b
        BY <1>6, <3>4
      <4>. QED
        BY <1>6, <1>7, <3>4, <4>1
    <3>. QED
      BY <1>6, <3>1, <3>2, <3>3, <3>4
  <2>3. ASSUME NEW y \in Cells(lo, len) PROVE \E x \in Cells(lo, len) : arr'[x] = arr[y]
    <3>1. y \in Offsets /\ y \in Int
      BY <1>2, <1>b, Elements
    <3>2. CASE y < a \/ y > b
      BY <1>7, <3>1, <3>2
    <3>3. CASE y = b
      <4>1. a \in lo..b
        BY <1>6
      <4>. QED
        BY <1>6, <1>7, <3>3, <4>1
    <3>4. CASE y \in a..(b - 1)
      <4>1. PICK x \in (a + 1)..b : x - 1 = y
        BY <1>6, <3>4
      <4>2. arr'[x] = arr[y] /\ x \in lo..b
        BY <1>6, <1>7, <4>1
      <4>. QED
        BY <1>6, <4>2
    <3>. QED
      BY <1>6, <3>1, <3>2, <3>3, <3>4
  <2>. QED
    BY <1>7, <2>1, <2>2, <2>3 DEF Rearranged
<1>9. /\ ElementsInv' /\ MetricInv' /\ SeekInv' /\ ClassesInv'
      /\ ResultSorted' /\ FlashInside'
  BY <1>1, <1>8, SortStep DEF Sorting
<1>10. TypeInv' /\ CallInv' /\ HeapInv' /\ MsortInv'
  BY <1>1, <1>2, <1>7, Unchanged DEF TypeInv, CallInv, HeapInv, MsortInv, Heaps
<1>c. \A x \in lo..b : key[arr[x]] \in Nat
  BY <1>6
<1>d. b \in Nat /\ lo \in Nat /\ a \in Int /\ lo <= a /\ a <= b
  BY <1>6
<1>e. /\ arr'[a] = arr[b]
      /\ \A x \in (a + 1)..b : arr'[x] = arr[x - 1]
      /\ \A x \in lo..b : x < a => arr'[x] = arr[x]
  BY <1>6, <1>7
<1>11. \A x, y \in lo..(b - 1) : x < y => key[arr[x]] <= key[arr[y]]
  <2>1. Cells(lo, i) = lo..(b - 1)
    BY <1>6, <1>2 DEF Cells
  <2>2. \A x, y \in lo..(b - 1) : x < y => key[arr[x]] - key[arr[y]] <= 0
    BY <1>a, <2>1 DEF SortedOn, Compare
  <2>3. \A x \in lo..(b - 1) : key[arr[x]] \in Nat
    BY <1>c, <1>d
  <2>. QED
    BY <2>2, <2>3
<1>12. ASSUME NEW x \in lo..b, NEW y \in lo..b, x < y
       PROVE  /\ key[arr'[x]] - key[arr'[y]] <= 0
              /\ \/ key[arr'[x]] < key[arr'[y]]
                 \/ y = a /\ arr'[x] = arr[x] /\ arr'[y] = arr[b] /\ x < b
                 \/ \E v, w \in lo..(b - 1) : v < w /\ arr'[x] = arr[v] /\ arr'[y] = arr[w]
  <2>1. CASE y < a
    <3>1. x \in lo..(b - 1) /\ y \in lo..(b - 1) /\ arr'[x] = arr[x] /\ arr'[y] = arr[y]
      BY <1>d, <1>e, <1>12, <2>1
    <3>. QED
      BY <1>c, <1>11, <1>12, <3>1
  <2>2. CASE y = a
    <3>1. x \in lo..(a - 1) /\ arr'[x] = arr[x] /\ arr'[y] = arr[b] /\ x < b /\ b \in lo..b
      BY <1>d, <1>e, <1>12, <2>2
    <3>2. key[arr[x]] <= key[arr[b]] /\ key[arr[x]] \in Nat /\ key[arr[b]] \in Nat
      BY <1>3, <1>c, <3>1
    <3>. QED
      BY <2>2, <3>1, <3>2
  <2>3. CASE y > a
    <3>1. arr'[y] = arr[y - 1] /\ y - 1 \in a..(b - 1) /\ y - 1 \in lo..(b - 1)
      <4>1. y \in (a + 1)..b /\ y - 1 \in a..(b - 1) /\ y - 1 \in lo..(b - 1)
        BY <1>d, <2>3
      <4>. QED
        BY <1>e, <4>1
    <3>2. CASE x < a
      <4>1. arr'[x] = arr[x] /\ x \in lo..(b - 1) /\ x < y - 1
        BY <1>d, <1>e, <2>3, <3>2
      <4>. QED
        BY <1>c, <1>d, <1>11, <3>1, <4>1
    <3>3. CASE x = a
      <4>1. arr'[x] = arr[b] /\ key[arr[b]] < key[arr[y - 1]]
        BY <1>3, <1>e, <3>1, <3>3
      <4>2. b \in lo..b /\ y - 1 \in lo..b
        BY <1>d, <3>1
      <4>3. key[arr[b]] \in Nat /\ key[arr[y - 1]] \in Nat
        BY <1>c, <4>2
      <4>. QED
        BY <3>1, <4>1, <4>3
    <3>4. CASE x > a
      <4>1. arr'[x] = arr[x - 1] /\ x - 1 \in lo..(b - 1) /\ x - 1 < y - 1
        <5>1. x \in (a + 1)..b /\ x - 1 \in lo..(b - 1) /\ x - 1 < y - 1
          BY <1>d, <1>12, <3>4
        <5>. QED
          BY <1>e, <5>1
      <4>2. x - 1 \in lo..b /\ y - 1 \in lo..b
        BY <1>d, <3>1, <4>1
      <4>. QED
        BY <1>c, <1>11, <3>1, <4>1, <4>2
    <3>. QED
      BY <1>d, <3>2, <3>3, <3>4
  <2>. QED
    BY <1>d, <2>1, <2>2, <2>3
<1>13. Cells(lo, i + 1) = lo..b
  BY <1>6, <1>2 DEF Cells
<1>14. SortedOn(arr', key, Cells(lo, i + 1))
  BY <1>12, <1>13 DEF SortedOn, Compare
<1>15. ASSUME alg = "isort"
       PROVE  /\ StableOn(arr', key, Cells(lo, i + 1))
              /\ \A x \in Cells(0, i + 1) : arr'[x] <= i + 1
              /\ \A x \in (i + 1)..(len - 1) : arr'[x] = x + 1
  <2>1. /\ lo = 0 /\ len = nmemb /\ b = i /\ StableOn(arr, key, Cells(lo, i))
        /\ \A x \in Cells(0, i) : arr[x] <= i
        /\ \A x \in i..(len - 1) : arr[x] = x + 1
    BY <1>1, <1>2, <1>6, <1>15 DEF IInv, IsortInv, CallInv
  <2>2. Cells(lo, i) = 0..(i - 1) /\ Cells(lo, i + 1) = 0..i /\ arr[i] = i + 1
    BY <1>1, <1>2, <2>1 DEF Cells
  <2>3. ASSUME NEW x \in 0..i, NEW y \in 0..i, x < y, key[arr'[x]] - key[arr'[y]] = 0
        PROVE  arr'[x] < arr'[y]
    <3>1. x \in lo..b /\ y \in lo..b /\ arr'[x] \in 1..nmemb /\ arr'[y] \in 1..nmemb
      BY <1>6, <1>7, <2>1
    <3>2. key[arr'[x]] \in Nat /\ key[arr'[y]] \in Nat
      BY <1>2, <3>1, Elements
    <3>3. ~ (key[arr'[x]] < key[arr'[y]])
      BY <2>3, <3>2
    <3>4. CASE y = a /\ arr'[x] = arr[x] /\ arr'[y] = arr[b] /\ x < b
      <4>0. x \in 0..(i - 1)
        BY <1>2, <2>1, <3>4
      <4>1. arr[x] <= i /\ arr[b] = i + 1
        BY <2>1, <2>2, <4>0
      <4>. QED
        BY <1>2, <3>1, <3>4, <4>1
    <3>5. CASE \E v, w \in lo..(b - 1) : v < w /\ arr'[x] = arr[v] /\ arr'[y] = arr[w]
      <4>1. PICK v \in 0..(i - 1), w \in 0..(i - 1) :
                    v < w /\ arr'[x] = arr[v] /\ arr'[y] = arr[w]
        BY <2>1, <3>5
      <4>. QED
        BY <2>1, <2>2, <2>3, <4>1 DEF StableOn, Compare
    <3>. QED
      BY <1>12, <2>3, <3>1, <3>3, <3>4, <3>5
  <2>4. ASSUME NEW x \in 0..i PROVE arr'[x] <= i + 1
    <3>1. ASSUME NEW y \in 0..i PROVE arr[y] <= i + 1 /\ arr[y] \in Int
      <4>1. arr[y] \in 1..nmemb /\ nmemb \in Nat
        BY <1>2, <1>6, <2>1, Elements
      <4>2. y \in 0..(i - 1) \/ y = i
        BY <1>2
      <4>. QED
        BY <1>2, <2>1, <2>2, <4>1, <4>2
    <3>2. x \in lo..b /\ x - 1 \in Int
      BY <2>1
    <3>3. arr'[x] = arr[x] \/ arr'[x] = arr[b] \/ (x > a /\ arr'[x] = arr[x - 1])
      BY <1>6, <1>7, <3>2
    <3>. QED
      BY <1>6, <2>1, <3>1, <3>3
  <2>5. ASSUME NEW x \in (i + 1)..(len - 1) PROVE arr'[x] = x + 1
    <3>1. x \in Offsets /\ x > b /\ x \in i..(len - 1)
      BY <1>2, <2>1, Elements
    <3>. QED
      BY <1>7, <2>1, <3>1
  <2>. QED
    BY <2>1, <2>2, <2>3, <2>4, <2>5 DEF StableOn, Compare, Cells
<1>16. IsortInv'
  <2>1. i + 1 \in 1..len
    BY <1>1, <1>2
  <2>. QED
    BY <1>1, <1>14, <1>15, <2>1 DEF IsortInv
<1>. QED
  BY <1>9, <1>10, <1>16 DEF IInv

-----------------------------------------------------------------------------
(* One more class is in order. *)
LEMMA ClassesInOrder ==
    ASSUME TypeInv, MetricInv, Flashing, NEW k \in Classes,
           \A x \in Offsets : ends[class[arr[x]]] <= x /\ x < ends[class[arr[x]] + 1],
           SortedOn(arr, key, 0..(ends[k] - 1)),
           SortedOn(arr, key, ends[k]..(ends[k + 1] - 1))
    PROVE  SortedOn(arr, key, 0..(ends[k + 1] - 1))
<1>1. /\ nmemb \in Nat /\ lsize \in Nat /\ Classes = 0..(lsize - 1)
      /\ ends \in [0..lsize -> 0..nmemb]
      /\ \A v, w \in 0..lsize : v <= w => ends[v] <= ends[w]
      /\ class \in [1..nmemb -> Classes]
      /\ \A e, f \in 1..nmemb : class[e] < class[f] => key[e] < key[f]
  BY Knowledge
<1>2. Offsets = 0..(nmemb - 1) /\ \A x \in Offsets : arr[x] \in 1..nmemb /\ key[arr[x]] \in Nat
  BY Elements
<1>3. k \in 0..lsize /\ k + 1 \in 0..lsize
  BY <1>1
<1>4. ends[k] \in 0..nmemb /\ ends[k + 1] \in 0..nmemb
  BY <1>1, <1>3
<1>a. nmemb \in Nat /\ Offsets = 0..(nmemb - 1) /\ lsize \in Nat
  BY <1>1, <1>2
<1>5. \A x \in 0..(ends[k + 1] - 1) : x \in Offsets /\ x \in Nat
  BY <1>4, <1>a
<1>6. ASSUME NEW x \in 0..(ends[k + 1] - 1), NEW y \in 0..(ends[k + 1] - 1), x < y
      PROVE  Compare(key, arr[x], arr[y]) <= 0
  <2>1. CASE y < ends[k]
    <3>1. x \in 0..(ends[k] - 1) /\ y \in 0..(ends[k] - 1)
      BY <1>4, <1>6, <2>1
    <3>. QED
      BY <1>6, <3>1 DEF SortedOn
  <2>2. CASE x >= ends[k]
    <3>1. x \in ends[k]..(ends[k + 1] - 1) /\ y \in ends[k]..(ends[k + 1] - 1)
      BY <1>4, <1>6, <2>2
    <3>. QED
      BY <1>6, <3>1 DEF SortedOn
  <2>3. CASE x < ends[k] /\ ends[k] <= y
    <3>. DEFINE c == class[arr[x]]
                d == class[arr[y]]
    <3>1. c \in 0..(lsize - 1) /\ d \in 0..(lsize - 1)
      BY <1>1, <1>2, <1>5
    <3>a. c \in 0..lsize /\ d + 1 \in 0..lsize
      BY <1>a, <3>1
    <3>2. ends[c] <= x /\ y < ends[d + 1]
      BY <1>5
    <3>. HIDE DEF c, d
    <3>3. c < k
      <4>. SUFFICES ASSUME k <= c PROVE FALSE
        BY <1>3, <3>1
      <4>1. ends[k] <= ends[c]
        BY <1>1, <1>3, <3>a
      <4>2. ends[c] \in 0..nmemb
        BY <1>1, <3>a
      <4>. QED
        BY <1>4, <2>3, <3>2, <4>1, <4>2
    <3>4. k <= d
      <4>. SUFFICES ASSUME d + 1 <= k PROVE FALSE
        BY <1>3, <3>1
      <4>1. ends[d + 1] <= ends[k] /\ ends[d + 1] \in Int
        BY <1>1, <1>3, <3>a
      <4>. QED
        BY <1>4, <2>3, <3>2, <4>1
    <3>5. class[arr[x]] < class[arr[y]]
      BY <1>3, <3>1, <3>3, <3>4 DEF c, d
    <3>6. key[arr[x]] < key[arr[y]] /\ key[arr[x]] \in Nat /\ key[arr[y]] \in Nat
      BY <1>1, <1>2, <1>5, <3>5
    <3>. QED
      BY <3>6 DEF Compare
  <2>. QED
    BY <1>4, <2>1, <2>2, <2>3
<1>. QED
  BY <1>6 DEF SortedOn

(* A sort that returns has put its elements in order. *)
LEMMA ReturnStep ==
    ASSUME IInv, Return, at \in Sorting \cup {"classes"},
           UNCHANGED << alg, exact, key, arr, flash, i, step, root, max >>,
           SortedOn(arr, key, Cells(lo, len)),
           alg \in {"isort", "msort"} => StableOn(arr, key, Cells(lo, len))
    PROVE  IInv'
<1>1. /\ TypeInv /\ CallInv /\ ElementsInv /\ MetricInv /\ ClassesInv
      /\ arr \in [Offsets -> 1..nmemb]
  BY DEF IInv, TypeInv
<1>2. nmemb' = nmemb /\ Offsets' = Offsets /\ class' = class /\ ends' = ends /\ lsize' = lsize
  BY Unchanged
<1>3. nmemb \in Nat /\ Offsets = 0..(nmemb - 1)
  BY <1>1, Elements
<1>4. CASE call = alg
  <2>1. at' = "returned" /\ UNCHANGED << call, lo, len >>
    BY <1>4 DEF Return
  <2>2. ElementsOn(arr, Offsets) = 1..nmemb
    BY <1>1 DEF ElementsInv, Sorting
  <2>3. lo = 0 /\ len = nmemb /\ Cells(lo, len) = Offsets
    BY <1>1, <1>3, <1>4 DEF CallInv, Cells
  <2>4. TypeInv' /\ CallInv' /\ ElementsInv'
    BY <1>1, <1>2, <1>4, <2>1, <2>2, <2>3 DEF TypeInv, CallInv, ElementsInv
  <2>5. IsortInv' /\ HeapInv' /\ MsortInv' /\ SeekInv' /\ FlashInside'
    BY <2>1 DEF IsortInv, HeapInv, MsortInv, SeekInv, FlashInside
  <2>6. MetricInv' /\ ClassesInv'
    BY <1>4, <2>1 DEF MetricInv, ClassesInv, Flashing
  <2>7. ResultSorted'
    BY <1>2, <2>1, <2>2, <2>3 DEF ResultSorted
  <2>. QED
    BY <2>4, <2>5, <2>6, <2>7 DEF IInv
<1>5. CASE call # alg
  <2>. DEFINE k == flash.class - 1
  <2>1. at' = "classes" /\ call' = alg /\ lo' = 0 /\ len' = nmemb /\ alg = "fsort" /\ at # "classes"
    BY <1>1, <1>5 DEF Return, CallInv
  <2>2. ElementsOn(arr, Offsets) = 1..nmemb
    BY <1>1, <1>5 DEF ElementsInv, CallInv
  <2>3. Flashing /\ lsize \in Nat /\ flash.ll = ends /\ ends \in [0..lsize -> 0..nmemb]
    BY <1>1, <1>5, Knowledge DEF Flashing
  <2>4. k \in 0..(lsize - 1) /\ flash.class = k + 1 /\ Done = k
    BY <1>1, <1>5, <2>1, <2>3 DEF ClassesInv, Done
  <2>5. /\ lo = ends[k] /\ lo + len = ends[k + 1]
        /\ \A x \in Offsets : ends[class[arr[x]]] <= x /\ x < ends[class[arr[x]] + 1]
        /\ SortedOn(arr, key, 0..(ends[k] - 1))
    BY <1>1, <1>5, <2>3, <2>4 DEF ClassesInv
  <2>. HIDE DEF k
  <2>6. /\ ends[k] \in 0..nmemb /\ ends[k + 1] \in 0..nmemb /\ k \in Nat /\ k < lsize
        /\ \A x \in 0..(ends[k + 1] - 1) : x \in Offsets /\ x \in Int
    BY <1>3, <2>3, <2>4
  <2>7. Cells(lo, len) = ends[k]..(ends[k + 1] - 1)
    <3>1. lo = ends[k] /\ lo + len = ends[k + 1]
      BY <2>5
    <3>2. lo + len - 1 = ends[k + 1] - 1
      <4>1. lo \in Nat /\ len \in Nat
        BY <1>1 DEF TypeInv
      <4>. QED
        BY <3>1, <4>1
    <3>3. Cells(lo, len) = lo..(lo + len - 1)
      BY DEF Cells
    <3>. QED
      BY <3>1, <3>2, <3>3, Zenon
  <2>8. SortedOn(arr, key, 0..(ends[k + 1] - 1))
    BY <1>1, <2>3, <2>4, <2>5, <2>7, ClassesInOrder DEF Classes
  <2>9. Done' = k + 1
    BY <2>1, <2>4 DEF Done
  <2>10. ClassesInv'
    <3>1. flash'.class \in 0..lsize /\ flash'.ll = ends
      BY <2>3, <2>4, <2>6
    <3>. QED
      BY <1>2, <2>1, <2>3, <2>5, <2>8, <2>9, <3>1 DEF ClassesInv
  <2>11. TypeInv' /\ CallInv' /\ ElementsInv'
    BY <1>1, <1>2, <1>3, <2>1, <2>2 DEF TypeInv, CallInv, ElementsInv, Algorithms
  <2>12. IsortInv' /\ HeapInv' /\ MsortInv' /\ SeekInv' /\ FlashInside' /\ ResultSorted'
    BY <2>1 DEF IsortInv, HeapInv, MsortInv, SeekInv, FlashInside, ResultSorted
  <2>13. MetricInv'
    BY <1>1, <2>3, Unchanged DEF MetricInv
  <2>. QED
    BY <2>10, <2>11, <2>12, <2>13 DEF IInv
<1>. QED
  BY <1>4, <1>5

LEMMA ReturnAtOnceStep == ASSUME IInv, ReturnAtOnce PROVE IInv'
<1>1. /\ at = "enter" /\ len <= 1 /\ Return
      /\ UNCHANGED << alg, exact, key, arr, flash, i, step, root, max >>
  BY DEF ReturnAtOnce, Only
<1>2. \A x, y \in Cells(lo, len) : ~ (x < y)
  BY <1>1 DEF Cells, IInv, TypeInv
<1>. QED
  BY <1>1, <1>2, ReturnStep DEF SortedOn, StableOn, Sorting

LEMMA IsortReturnStep == ASSUME IInv, IsortReturn PROVE IInv'
<1>1. /\ call = "isort" /\ at = "insert" /\ i = len /\ Return
      /\ UNCHANGED << alg, exact, key, arr, flash, i, step, root, max >>
  BY DEF IsortReturn, Only
<1>2. alg # "msort"
  BY <1>1 DEF IInv, CallInv
<1>3. /\ SortedOn(arr, key, Cells(lo, len))
      /\ alg = "isort" => StableOn(arr, key, Cells(lo, len))
  BY <1>1 DEF IInv, IsortInv
<1>. QED
  BY <1>1, <1>2, <1>3, ReturnStep DEF Sorting

-----------------------------------------------------------------------------
(* hsort and ternary_hsort *)

LEMMA ParentType ==
    ASSUME TypeInv, call \in Heaps
    PROVE  /\ \A y \in 1..nmemb : parent[y] \in 0..(y - 1)
           /\ \A y, z \in 1..nmemb : y <= z => parent[y] <= parent[z]
           /\ \A y \in 1..nmemb : parent[y] = Parent(y)
           /\ \A x \in Nat, y \in Nat : y \in Children(x) <=> y \in 1..max /\ Parent(y) = x
<1>1. nmemb \in Nat /\ max \in Nat
  BY Elements DEF TypeInv
<1>2. \A y \in 1..nmemb : parent[y] = Parent(y)
  BY DEF parent
<1>3. CASE call = "hsort"
  <2>1. Arity = 2
    BY <1>3 DEF Arity
  <2>2. \A y \in 1..nmemb : Parent(y) = (y - 1) \div 2
    BY <2>1 DEF Parent
  <2>3. \A x \in Nat, y \in Nat : y \in Children(x) <=> y \in 1..max /\ Parent(y) = x
    BY <1>1, <2>1 DEF Parent, Children
  <2>4. /\ \A y \in 1..nmemb : (y - 1) \div 2 \in 0..(y - 1)
        /\ \A y, z \in 1..nmemb : y <= z => (y - 1) \div 2 <= (z - 1) \div 2
    BY <1>1
  <2>. QED
    BY <1>2, <2>2, <2>3, <2>4
<1>4. CASE call = "ternary_hsort"
  <2>1. Arity = 3
    BY <1>4 DEF Arity
  <2>2. \A y \in 1..nmemb : Parent(y) = (y - 1) \div 3
    BY <2>1 DEF Parent
  <2>3. \A x \in Nat, y \in Nat : y \in Children(x) <=> y \in 1..max /\ Parent(y) = x
    BY <1>1, <2>1 DEF Parent, Children
  <2>4. /\ \A y \in 1..nmemb : (y - 1) \div 3 \in 0..(y - 1)
        /\ \A y, z \in 1..nmemb : y <= z => (y - 1) \div 3 <= (z - 1) \div 3
    BY <1>1
  <2>. QED
    BY <1>2, <2>2, <2>3, <2>4
<1>. QED
  BY <1>3, <1>4 DEF Heaps

LEMMA KeyAtType ==
    ASSUME TypeInv
    PROVE  /\ \A x \in 0..(len - 1) : /\ keyAt[x] \in Nat /\ Elem(x) \in 1..nmemb
                                      /\ keyAt[x] = key[Elem(x)] /\ keyAt[x] = key[arr[lo + x]]
           /\ \A x, y \in 0..(len - 1) : Less(Elem(x), Elem(y)) <=> keyAt[x] < keyAt[y]
<1>1. ASSUME NEW x \in 0..(len - 1)
      PROVE  /\ keyAt[x] \in Nat /\ Elem(x) \in 1..nmemb
             /\ keyAt[x] = key[Elem(x)] /\ keyAt[x] = key[arr[lo + x]]
  BY Elements DEF keyAt
<1>. QED
  BY <1>1, Comparison

(* What holds while a heap is in use. *)
LEMMA HeapFacts ==
    ASSUME IInv, at \in {"heapify", "extract"}
    PROVE  /\ TypeInv /\ CallInv /\ call \in Heaps /\ From \in Nat /\ root \in From..max /\ max \in 0..(len - 1)
           /\ root \in Nat /\ max \in Nat /\ len \in Nat /\ lo \in Nat /\ nmemb \in Nat /\ len <= nmemb
           /\ \A x \in 0..max : keyAt[x] \in Nat
           /\ \A y \in 1..max : parent[y] \in 0..(y - 1)
<1>1. TypeInv /\ CallInv /\ HeapInv
  BY DEF IInv
<1>2. call \in Heaps /\ i \in Nat /\ root \in Nat /\ max \in Nat /\ len \in Nat /\ lo \in Nat /\ lo + len <= nmemb
  BY <1>1 DEF CallInv, TypeInv
<1>3. From \in Nat /\ root \in From..max /\ max \in 0..(len - 1)
  BY <1>1, <1>2 DEF From, HeapInv
<1>4. nmemb \in Nat /\ len <= nmemb
  BY <1>1, <1>2, Elements
<1>5. ASSUME NEW x \in 0..max PROVE keyAt[x] \in Nat
  <2>1. x \in 0..(len - 1)
    BY <1>2, <1>3
  <2>. QED
    BY <1>1, <2>1, KeyAtType
<1>6. ASSUME NEW y \in 1..max PROVE parent[y] \in 0..(y - 1)
  <2>1. y \in 1..nmemb
    BY <1>2, <1>3, <1>4
  <2>. QED
    BY <1>1, <1>2, <2>1, ParentType
<1>. QED
  BY <1>1, <1>2, <1>3, <1>4, <1>5, <1>6

(* The greatest child of the element that sinks, if there is a greater one.*)
LEMMA LargerType ==
    ASSUME IInv, at \in {"heapify", "extract"}
    PROVE  /\ \A s \in Larger(root) :
                  /\ s \in 1..max /\ parent[s] = root /\ root < s /\ keyAt[root] < keyAt[s]
                  /\ \A z \in 1..max : parent[z] = root => keyAt[z] <= keyAt[s]
           /\ Larger(root) = {} => \A z \in 1..max : parent[z] = root => keyAt[z] <= keyAt[root]
<1>1. /\ TypeInv /\ call \in Heaps /\ root \in 0..max /\ max \in 0..(len - 1)
      /\ root \in Nat /\ max \in Nat /\ len \in Nat /\ nmemb \in Nat /\ len <= nmemb
      /\ \A x \in 0..max : keyAt[x] \in Nat
      /\ \A y \in 1..max : parent[y] \in 0..(y - 1)
  BY HeapFacts
<1>2. \A y : y \in Children(root) <=> y \in 1..max /\ parent[y] = root
  <2>1. \A y \in Children(root) : y \in Nat
    BY <1>1 DEF Children, Arity
  <2>2. \A y \in 1..max : y \in 1..nmemb /\ y \in Nat
    BY <1>1
  <2>. QED
    BY <1>1, <2>1, <2>2, ParentType
<1>3. \A x, y \in 0..max : Less(Elem(x), Elem(y)) <=> keyAt[x] < keyAt[y]
  <2>1. \A x \in 0..max : x \in 0..(len - 1)
    BY <1>1
  <2>. QED
    BY <1>1, <2>1, KeyAtType
<1>4. \A y \in Children(root) : y \in 0..max /\ y \in 1..max
  BY <1>1, <1>2
<1>5. ASSUME NEW s \in Larger(root)
      PROVE  /\ s \in 1..max /\ parent[s] = root /\ root < s /\ keyAt[root] < keyAt[s]
             /\ \A z \in 1..max : parent[z] = root => keyAt[z] <= keyAt[s]
  <2>1. /\ s \in Children(root) /\ Less(Elem(root), Elem(s))
        /\ \A z \in Children(root) : ~ Less(Elem(s), Elem(z))
    BY DEF Larger
  <2>2. s \in 1..max /\ s \in 0..max /\ parent[s] = root /\ root < s /\ keyAt[root] < keyAt[s]
    BY <1>1, <1>2, <1>3, <1>4, <2>1
  <2>3. ASSUME NEW z \in 1..max, parent[z] = root PROVE keyAt[z] <= keyAt[s]
    <3>1. z \in Children(root) /\ z \in 0..max
      BY <1>2, <1>4, <2>3
    <3>2. ~ (keyAt[s] < keyAt[z])
      BY <1>3, <2>1, <2>2, <3>1
    <3>. QED
      BY <1>1, <2>2, <3>1, <3>2
  <2>. QED
    BY <2>2, <2>3
<1>6. ASSUME Larger(root) = {}, NEW z \in 1..max, parent[z] = root
      PROVE  keyAt[z] <= keyAt[root]
  <2>. SUFFICES ASSUME keyAt[root] < keyAt[z] PROVE FALSE
    BY <1>1
  <2>. DEFINE E == {Elem(y) : y \in Children(root)}
  <2>1. z \in Children(root)
    BY <1>2, <1>6
  <2>a. \A y \in Children(root) : Elem(y) \in 1..nmemb /\ keyAt[y] = key[Elem(y)] /\ y \in Nat
    <3>1. \A y \in Children(root) : y \in 0..(len - 1) /\ y \in Nat
      BY <1>1, <1>4
    <3>. QED
      BY <1>1, <3>1, KeyAtType
  <2>2. \E e \in E : \A f \in E : key[f] <= key[e]
    <3>1. E \in SUBSET (1..nmemb) /\ E # {}
      BY <2>1, <2>a
    <3>. HIDE DEF E
    <3>. QED
      BY <1>1, <3>1, GreatestKey
  <2>3. PICK g \in Children(root) : \A y \in Children(root) : keyAt[y] <= keyAt[g]
    BY <2>2, <2>a
  <2>. DEFINE G == {y \in Children(root) : keyAt[y] = keyAt[g]}
  <2>4. PICK s \in G : \A y \in G : s <= y
    <3>1. G \in SUBSET Nat /\ G # {}
      BY <2>a
    <3>. HIDE DEF G
    <3>. QED
      BY <3>1, LeastOf
  <2>5. s \in Children(root) /\ keyAt[s] = keyAt[g] /\ s \in 0..max
    BY <1>4, <2>4
  <2>6. keyAt[root] < keyAt[s]
    <3>1. keyAt[z] <= keyAt[s] /\ z \in 0..max
      BY <1>4, <2>1, <2>3, <2>5
    <3>. QED
      BY <1>1, <2>5, <3>1
  <2>7. ASSUME NEW y \in Children(root) PROVE ~ Less(Elem(s), Elem(y))
    <3>1. keyAt[y] <= keyAt[s] /\ y \in 0..max
      BY <1>4, <2>3, <2>5
    <3>. QED
      BY <1>1, <1>3, <2>5, <3>1
  <2>8. ASSUME NEW y \in Children(root), y < s PROVE Less(Elem(y), Elem(s))
    <3>1. y \notin G
      BY <1>1, <1>4, <2>4, <2>5, <2>8
    <3>2. keyAt[y] <= keyAt[s] /\ y \in 0..max /\ keyAt[y] # keyAt[s]
      BY <1>4, <2>3, <2>5, <3>1
    <3>3. keyAt[y] < keyAt[s]
      BY <1>1, <2>5, <3>2
    <3>. QED
      BY <1>3, <2>5, <3>2, <3>3
  <2>9. s \in Larger(root)
    BY <1>1, <1>3, <2>5, <2>6, <2>7, <2>8 DEF Larger
  <2>. QED
    BY <1>6, <2>9
<1>. QED
  BY <1>5, <1>6

(* Two elements change places. *)
LEMMA Swapping ==
    ASSUME TypeInv, NEW v \in 0..(len - 1), NEW w \in 0..(len - 1), v # w,
           arr' = SwapIn(arr, lo + v, lo + w), UNCHANGED << key, lo, len >>
    PROVE  /\ Rearranged
           /\ keyAt'[v] = keyAt[w] /\ keyAt'[w] = keyAt[v]
           /\ \A x \in 0..(len - 1) : x # v /\ x # w => keyAt'[x] = keyAt[x]
<1>1. /\ arr \in [Offsets -> 1..nmemb] /\ lo \in Nat /\ len \in Nat
      /\ lo + v \in Offsets /\ lo + w \in Offsets
      /\ lo + v \in Cells(lo, len) /\ lo + w \in Cells(lo, len) /\ lo + v # lo + w
      /\ \A x \in Cells(lo, len) : x \in Offsets
  <2>1. arr \in [Offsets -> 1..nmemb] /\ lo \in Nat /\ len \in Nat
    BY DEF TypeInv
  <2>2. lo + v # lo + w
    BY <2>1
  <2>. QED
    BY <2>1, <2>2, Elements
<1>a. \A x \in 0..(len - 1) : lo + x \in Offsets
  BY Elements
<1>2. /\ arr'[lo + v] = arr[lo + w] /\ arr'[lo + w] = arr[lo + v]
      /\ \A x \in Offsets : x # lo + v /\ x # lo + w => arr'[x] = arr[x]
      /\ arr' \in [Offsets -> 1..nmemb]
  BY <1>1 DEF SwapIn
<1>3. Rearranged
  BY <1>1, <1>2 DEF Rearranged
<1>4. \A x \in 0..(len - 1) : keyAt'[x] = key[arr'[lo + x]] /\ keyAt[x] = key[arr[lo + x]]
  BY DEF keyAt, Elem
<1>5. ASSUME NEW x \in 0..(len - 1), x # v, x # w PROVE keyAt'[x] = keyAt[x]
  <2>1. lo + x \in Offsets /\ lo + x # lo + v /\ lo + x # lo + w
    BY <1>1, <1>a, <1>5
  <2>. QED
    BY <1>2, <1>4, <2>1
<1>6. keyAt'[v] = keyAt[w] /\ keyAt'[w] = keyAt[v]
  BY <1>2, <1>4
<1>. QED
  BY <1>3, <1>5, <1>6

(* The heap is in order below its first element once that has sunk. *)
LEMMA SunkHeap ==
    ASSUME IInv, at \in {"heapify", "extract"}, Sunk
    PROVE  \A y \in 1..max : parent[y] >= From => keyAt[y] <= keyAt[parent[y]]
<1>1. /\ \A y \in 1..max : parent[y] >= From /\ parent[y] # root => keyAt[y] <= keyAt[parent[y]]
      /\ \A y \in 1..max : parent[y] = root => keyAt[y] <= keyAt[root]
  BY LargerType DEF IInv, HeapInv, Sunk
<1>. QED
  BY <1>1

(* The first element of a heap is the greatest: the least offset of a      *)
(* greater one would have a parent that is less than it.                   *)
LEMMA TopGreatest ==
    ASSUME IInv, at \in {"heapify", "extract"}, Sunk, From = 0
    PROVE  \A y \in 0..max : keyAt[y] <= keyAt[0]
<1>. DEFINE B == {y \in 0..max : ~ (keyAt[y] <= keyAt[0])}
<1>1. /\ max \in Nat /\ \A y \in 1..max : parent[y] \in 0..(y - 1)
      /\ \A y \in 0..max : keyAt[y] \in Nat
  BY HeapFacts
<1>. SUFFICES ASSUME B # {} PROVE FALSE
  OBVIOUS
<1>2. PICK y \in B : \A z \in B : y <= z
  <2>1. B \in SUBSET Nat
    BY <1>1
  <2>. HIDE DEF B
  <2>. QED
    BY <2>1, LeastOf
<1>3. y \in 1..max /\ y \in 0..max
  BY <1>1
<1>. DEFINE p == parent[y]
<1>4. p \in 0..(y - 1)
  BY <1>1, <1>3
<1>5. keyAt[y] <= keyAt[p]
  BY <1>3, <1>4, SunkHeap
<1>6. p \in 0..max /\ p \notin B
  BY <1>1, <1>2, <1>3, <1>4
<1>. HIDE DEF p
<1>7. keyAt[p] <= keyAt[0] /\ keyAt[p] \in Nat /\ keyAt[0] \in Nat /\ keyAt[y] \in Nat
  BY <1>1, <1>3, <1>6
<1>. QED
  BY <1>5, <1>7

LEMMA HeapEnterStep == ASSUME IInv, HeapEnter PROVE IInv'
<1>1. /\ call \in Heaps /\ at = "enter" /\ len > 1 /\ at' = "heapify" /\ arr' = arr
      /\ i' = Parent(len - 1) /\ root' = Parent(len - 1) /\ max' = len - 1
      /\ UNCHANGED << alg, exact, key, call, lo, len, flash, step >>
  BY DEF HeapEnter, Only
<1>2. /\ ElementsInv' /\ MetricInv' /\ SeekInv' /\ ClassesInv'
      /\ ResultSorted' /\ FlashInside'
  BY <1>1, Untouched, SortStep DEF Sorting, IInv
<1>3. TypeInv /\ CallInv /\ len \in Nat /\ nmemb \in Nat /\ len <= nmemb
  BY Elements DEF IInv, TypeInv
<1>. DEFINE p == parent[len - 1]
<1>4. /\ i' = p /\ root' = p /\ p \in 0..(len - 2) /\ parent' = parent
      /\ \A y \in 1..(len - 1) : parent[y] \in 0..(y - 1) /\ parent[y] <= p
  <2>1. len - 1 \in 1..nmemb /\ \A y \in 1..(len - 1) : y \in 1..nmemb /\ y <= len - 1
    BY <1>1, <1>3
  <2>2. parent[len - 1] = Parent(len - 1) /\ parent[len - 1] \in 0..(len - 1 - 1)
    BY <1>1, <1>3, <2>1, ParentType
  <2>3. \A y \in 1..(len - 1) : parent[y] \in 0..(y - 1) /\ parent[y] <= p
    BY <1>1, <1>3, <2>1, ParentType
  <2>. QED
    BY <1>1, <1>3, <2>2, <2>3, Unchanged
<1>. HIDE DEF p
<1>5. TypeInv' /\ CallInv' /\ IsortInv' /\ MsortInv'
  <2>1. nmemb' = nmemb /\ Offsets' = Offsets
    BY <1>1, Unchanged
  <2>2. i' \in Nat /\ root' \in Nat /\ max' \in Nat
    BY <1>1, <1>3, <1>4
  <2>. QED
    BY <1>1, <1>3, <2>1, <2>2 DEF TypeInv, CallInv, IsortInv, MsortInv, Heaps
<1>6. HeapInv'
  <2>1. From' = p
    BY <1>1, <1>4 DEF From
  <2>2. ASSUME NEW y \in 1..(len - 1), parent[y] >= p PROVE parent[y] = p
    BY <1>3, <1>4, <2>2
  <2>3. ~ (p > 0 /\ parent[p] >= p)
    BY <1>1, <1>3, <1>4
  <2>. QED
    BY <1>1, <1>3, <1>4, <2>1, <2>2, <2>3 DEF HeapInv
<1>. QED
  BY <1>2, <1>5, <1>6 DEF IInv

LEMMA SiftDownStep == ASSUME IInv, SiftDown PROVE IInv'
<1>1. PICK s \in Larger(root) : arr' = SwapIn(arr, lo + root, lo + s) /\ root' = s
  BY DEF SiftDown
<1>2. /\ at \in {"heapify", "extract"} /\ at' = at /\ max' = max
      /\ UNCHANGED << alg, exact, key, call, lo, len, flash, i, step >>
  BY DEF SiftDown, Only
<1>3. /\ TypeInv /\ CallInv /\ call \in Heaps /\ root \in 0..max /\ max \in 0..(len - 1)
      /\ From \in Nat /\ From <= root /\ root \in Nat /\ max \in Nat /\ len \in Nat
      /\ \A x \in 0..max : keyAt[x] \in Nat
      /\ \A y \in 1..max : parent[y] \in 0..(y - 1)
  BY <1>2, HeapFacts
<1>4. /\ s \in 1..max /\ parent[s] = root /\ root < s /\ keyAt[root] < keyAt[s]
      /\ \A z \in 1..max : parent[z] = root => keyAt[z] <= keyAt[s]
  BY <1>2, LargerType
<1>5. /\ len > 1
      /\ at = "heapify" => max = len - 1
      /\ at = "extract" => i \in 1..(len - 1) /\ max = i - 1
      /\ \A y \in 1..max : parent[y] >= From /\ parent[y] # root => keyAt[y] <= keyAt[parent[y]]
      /\ \A y \in 1..max : parent[y] = root /\ root > 0 /\ parent[root] >= From =>
                               keyAt[y] <= keyAt[parent[root]]
      /\ at = "extract" => \A x \in 0..(len - 1), y \in i..(len - 1) : x < y => keyAt[x] <= keyAt[y]
  BY <1>2 DEF IInv, HeapInv
<1>6. /\ Rearranged
      /\ keyAt'[root] = keyAt[s] /\ keyAt'[s] = keyAt[root]
      /\ \A x \in 0..(len - 1) : x # root /\ x # s => keyAt'[x] = keyAt[x]
  <2>1. root \in 0..(len - 1) /\ s \in 0..(len - 1) /\ root # s
    BY <1>3, <1>4
  <2>. QED
    BY <1>1, <1>2, <1>3, <2>1, Swapping
<1>7. /\ ElementsInv' /\ MetricInv' /\ SeekInv' /\ ClassesInv'
      /\ ResultSorted' /\ FlashInside'
  BY <1>2, <1>6, SortStep DEF Sorting
<1>8. TypeInv' /\ CallInv' /\ IsortInv' /\ MsortInv'
  <2>1. nmemb' = nmemb /\ Offsets' = Offsets /\ root' \in Nat
    BY <1>1, <1>2, <1>3, <1>4, Unchanged
  <2>2. arr' \in [Offsets -> 1..nmemb]
    BY <1>6 DEF Rearranged
  <2>. QED
    BY <1>2, <1>3, <2>1, <2>2 DEF TypeInv, CallInv, IsortInv, MsortInv, Heaps
<1>9. parent' = parent /\ From' = From
  BY <1>2, Unchanged DEF From
<1>10. ASSUME NEW y \in 1..max, parent[y] >= From, parent[y] # s
       PROVE  keyAt'[y] <= keyAt'[parent[y]]
  <2>. DEFINE p == parent[y]
  <2>1. p \in 0..(y - 1) /\ p \in 0..max /\ p \in 0..(len - 1) /\ y \in 0..max /\ y \in 0..(len - 1)
    BY <1>3
  <2>2. p # root => keyAt[y] <= keyAt[p]
    BY <1>5, <1>10
  <2>3. p = root => keyAt[y] <= keyAt[s]
    BY <1>4
  <2>4. y = root => keyAt[s] <= keyAt[p]
    BY <1>4, <1>5, <1>10
  <2>5. p # s
    BY <1>10
  <2>6. y = s => p = root
    BY <1>4
  <2>7. keyAt[y] \in Nat /\ keyAt[p] \in Nat /\ keyAt[s] \in Nat /\ keyAt[root] \in Nat
    BY <1>3, <1>4, <2>1
  <2>. HIDE DEF p
  <2>8. CASE y = s
    BY <1>4, <1>6, <2>6, <2>7, <2>8 DEF p
  <2>9. CASE y = root
    <3>1. p # root /\ keyAt'[p] = keyAt[p]
      BY <1>3, <1>6, <2>1, <2>5, <2>9
    <3>. QED
      BY <1>6, <2>4, <2>9, <3>1 DEF p
  <2>10. CASE y # s /\ y # root
    <3>1. keyAt'[y] = keyAt[y]
      BY <1>6, <2>1, <2>10
    <3>2. CASE p = root
      BY <1>6, <2>3, <3>1, <3>2 DEF p
    <3>3. CASE p # root
      <4>1. keyAt'[p] = keyAt[p]
        BY <1>6, <2>1, <2>5, <3>3
      <4>. QED
        BY <2>2, <3>1, <3>3, <4>1 DEF p
    <3>. QED
      BY <3>2, <3>3
  <2>. QED
    BY <2>8, <2>9, <2>10
<1>11. ASSUME NEW y \in 1..max, parent[y] = s PROVE keyAt'[y] <= keyAt'[parent[s]]
  <2>1. s < y /\ y \in 0..(len - 1) /\ y # root /\ y # s
    BY <1>3, <1>4, <1>11
  <2>2. keyAt[y] <= keyAt[s]
    BY <1>3, <1>4, <1>5, <1>11
  <2>. QED
    BY <1>4, <1>6, <2>1, <2>2
<1>12. ASSUME at = "extract", NEW x \in 0..(len - 1), NEW y \in i..(len - 1), x < y
       PROVE  keyAt'[x] <= keyAt'[y]
  <2>1. y \in 0..(len - 1) /\ root < y /\ s < y /\ keyAt'[y] = keyAt[y]
    BY <1>3, <1>4, <1>5, <1>6, <1>12
  <2>2. root \in 0..(len - 1) /\ s \in 0..(len - 1)
    BY <1>3, <1>4
  <2>3. keyAt[x] <= keyAt[y] /\ keyAt[root] <= keyAt[y] /\ keyAt[s] <= keyAt[y]
    BY <1>5, <1>12, <2>1, <2>2
  <2>. QED
    BY <1>6, <2>1, <2>3
<1>13. HeapInv'
  <2>1. From <= s /\ s <= max
    BY <1>3, <1>4
  <2>. QED
    BY <1>1, <1>2, <1>5, <1>9, <1>10, <1>11, <1>12, <2>1 DEF HeapInv
<1>. QED
  BY <1>7, <1>8, <1>13 DEF IInv

LEMMA HeapifyNextStep == ASSUME IInv, HeapifyNext PROVE IInv'
<1>1. /\ at = "heapify" /\ Sunk /\ i > 0 /\ i' = i - 1 /\ root' = i - 1 /\ at' = at /\ max' = max
      /\ arr' = arr /\ UNCHANGED << alg, exact, key, call, lo, len, flash, step >>
  BY DEF HeapifyNext, Only
<1>2. /\ ElementsInv' /\ MetricInv' /\ SeekInv' /\ ClassesInv'
      /\ ResultSorted' /\ FlashInside'
  BY <1>1, Untouched, SortStep DEF Sorting, IInv
<1>3. /\ TypeInv /\ CallInv /\ call \in Heaps /\ root \in 0..max /\ max \in 0..(len - 1)
      /\ From = i /\ i \in Nat /\ i <= root /\ root \in Nat /\ max \in Nat /\ len \in Nat
      /\ \A y \in 1..max : parent[y] \in 0..(y - 1)
  <2>1. From = i
    BY <1>1 DEF From
  <2>. QED
    BY <1>1, <2>1, HeapFacts
<1>4. TypeInv' /\ CallInv' /\ IsortInv' /\ MsortInv'
  <2>1. nmemb' = nmemb /\ Offsets' = Offsets /\ i' \in Nat /\ root' \in Nat
    BY <1>1, <1>3, Unchanged
  <2>. QED
    BY <1>1, <1>3, <2>1 DEF TypeInv, CallInv, IsortInv, MsortInv, Heaps
<1>5. parent' = parent /\ keyAt' = keyAt /\ From' = i - 1
  BY <1>1, Unchanged DEF From, keyAt, Elem
<1>6. len > 1 /\ max = len - 1
  BY <1>1 DEF IInv, HeapInv
<1>7. ASSUME NEW y \in 1..max, parent[y] >= i - 1, parent[y] # i - 1
      PROVE  keyAt[y] <= keyAt[parent[y]]
  <2>1. parent[y] >= i
    BY <1>3, <1>7
  <2>. QED
    BY <1>1, <1>3, <2>1, SunkHeap
<1>8. ~ (i - 1 > 0 /\ parent[i - 1] >= i - 1)
  BY <1>1, <1>3
<1>9. HeapInv'
  <2>1. i - 1 <= i - 1 /\ i - 1 <= max
    BY <1>1, <1>3
  <2>. QED
    BY <1>1, <1>5, <1>6, <1>7, <1>8, <2>1 DEF HeapInv
<1>. QED
  BY <1>2, <1>4, <1>9 DEF IInv

LEMMA ExtractStep == ASSUME IInv, Extract PROVE IInv'
<1>1. /\ at \in {"heapify", "extract"} /\ Sunk /\ at' = "extract"
      /\ arr' = SwapIn(arr, lo, lo + i') /\ root' = 0 /\ max' = i' - 1
      /\ UNCHANGED << alg, exact, key, call, lo, len, flash, step >>
  BY DEF Extract, Only
<1>2. /\ TypeInv /\ CallInv /\ call \in Heaps /\ max \in 0..(len - 1)
      /\ max \in Nat /\ len \in Nat /\ lo \in Nat
      /\ \A x \in 0..max : keyAt[x] \in Nat
      /\ \A y \in 1..max : parent[y] \in 0..(y - 1)
  BY <1>1, HeapFacts
<1>3. /\ i' = max /\ max > 0 /\ From = 0 /\ len > 1
      /\ at = "heapify" => max = len - 1
      /\ at = "extract" => /\ i = max + 1
                           /\ \A x \in 0..(len - 1), y \in i..(len - 1) : x < y => keyAt[x] <= keyAt[y]
  <2>1. i \in Nat
    BY <1>2 DEF TypeInv
  <2>2. /\ len > 1
        /\ at = "heapify" => max = len - 1
        /\ at = "extract" => /\ i \in 1..(len - 1) /\ max = i - 1
                             /\ \A x \in 0..(len - 1), y \in i..(len - 1) : x < y => keyAt[x] <= keyAt[y]
    BY <1>1 DEF IInv, HeapInv
  <2>3. \/ at = "heapify" /\ i = 0 /\ i' = len - 1
        \/ at = "extract" /\ i > 1 /\ i' = i - 1
    BY DEF Extract
  <2>. QED
    BY <1>2, <2>1, <2>2, <2>3 DEF From
<1>4. /\ Rearranged
      /\ keyAt'[0] = keyAt[max] /\ keyAt'[max] = keyAt[0]
      /\ \A x \in 0..(len - 1) : x # 0 /\ x # max => keyAt'[x] = keyAt[x]
  <2>1. 0 \in 0..(len - 1) /\ max \in 0..(len - 1) /\ 0 # max /\ lo + 0 = lo
    BY <1>2, <1>3
  <2>2. arr' = SwapIn(arr, lo + 0, lo + max)
    BY <1>1, <1>3, <2>1
  <2>. QED
    BY <1>1, <1>2, <2>1, <2>2, Swapping
<1>5. /\ ElementsInv' /\ MetricInv' /\ SeekInv' /\ ClassesInv'
      /\ ResultSorted' /\ FlashInside'
  BY <1>1, <1>4, SortStep DEF Sorting
<1>6. TypeInv' /\ CallInv' /\ IsortInv' /\ MsortInv'
  <2>1. nmemb' = nmemb /\ Offsets' = Offsets /\ root' \in Nat /\ max' \in Nat /\ i' \in Nat
    BY <1>1, <1>2, <1>3, Unchanged
  <2>2. arr' \in [Offsets -> 1..nmemb]
    BY <1>4 DEF Rearranged
  <2>. QED
    BY <1>1, <1>2, <2>1, <2>2 DEF TypeInv, CallInv, IsortInv, MsortInv, Heaps
<1>7. parent' = parent /\ From' = 0
  BY <1>1, Unchanged DEF From
<1>8. ASSUME NEW y \in 1..(max - 1), parent[y] # 0 PROVE keyAt'[y] <= keyAt'[parent[y]]
  <2>. DEFINE p == parent[y]
  <2>1. p \in 0..(y - 1) /\ p # 0 /\ p # max /\ p \in 0..(len - 1) /\ p \in Nat
        /\ y \in 0..(len - 1) /\ y # 0 /\ y # max /\ y \in 1..max
    BY <1>2, <1>8
  <2>2. keyAt[y] <= keyAt[p]
    BY <1>1, <1>3, <2>1, SunkHeap
  <2>. HIDE DEF p
  <2>. QED
    BY <1>4, <2>1, <2>2 DEF p
<1>9. ASSUME NEW x \in 0..(len - 1), NEW y \in max..(len - 1), x < y
      PROVE  keyAt'[x] <= keyAt'[y]
  <2>1. 0 \in 0..(len - 1) /\ max \in 0..(len - 1) /\ y \in 0..(len - 1) /\ y # 0
    BY <1>2, <1>3
  <2>2. CASE y = max
    <3>1. \A z \in 0..max : keyAt[z] <= keyAt[0]
      BY <1>1, <1>3, TopGreatest
    <3>2. x \in 0..max /\ x # max /\ max \in 0..max
      BY <1>2, <1>9, <2>2
    <3>. QED
      BY <1>4, <2>2, <3>1, <3>2
  <2>3. CASE y # max
    <3>1. at = "extract" /\ y \in i..(len - 1) /\ max < y
      BY <1>1, <1>2, <1>3, <2>3
    <3>2. keyAt[x] <= keyAt[y] /\ keyAt[0] <= keyAt[y] /\ keyAt[max] <= keyAt[y]
      BY <1>2, <1>3, <1>9, <2>1, <3>1
    <3>3. keyAt'[y] = keyAt[y]
      BY <1>4, <2>1, <2>3
    <3>. QED
      BY <1>4, <3>2, <3>3
  <2>. QED
    BY <2>2, <2>3
<1>10. HeapInv'
  <2>1. max \in 1..(len - 1) /\ 0 <= max - 1 /\ ~ (0 > 0)
    BY <1>2, <1>3
  <2>. QED
    BY <1>1, <1>3, <1>7, <1>8, <1>9, <2>1 DEF HeapInv
<1>. QED
  BY <1>5, <1>6, <1>10 DEF IInv

LEMMA HeapReturnStep == ASSUME IInv, HeapReturn PROVE IInv'
<1>1. /\ at = "extract" /\ i = 1 /\ Return
      /\ UNCHANGED << alg, exact, key, arr, flash, i, step, root, max >>
  BY DEF HeapReturn, Only
<1>2. TypeInv /\ CallInv /\ lo \in Nat /\ len \in Nat /\ call \in Heaps
  BY <1>1, HeapFacts
<1>3. \A x \in 0..(len - 1), y \in 1..(len - 1) : x < y => keyAt[x] <= keyAt[y]
  BY <1>1 DEF IInv, HeapInv
<1>4. ASSUME NEW x \in Cells(lo, len), NEW y \in Cells(lo, len), x < y
      PROVE  Compare(key, arr[x], arr[y]) <= 0
  <2>1. PICK v \in 0..(len - 1) : x = lo + v
    <3>1. x - lo \in 0..(len - 1) /\ x = lo + (x - lo)
      BY <1>2 DEF Cells
    <3>. QED
      BY <3>1
  <2>2. PICK w \in 0..(len - 1) : y = lo + w
    <3>1. y - lo \in 0..(len - 1) /\ y = lo + (y - lo)
      BY <1>2 DEF Cells
    <3>. QED
      BY <3>1
  <2>3. v < w /\ w \in 1..(len - 1)
    BY <1>2, <1>4, <2>1, <2>2
  <2>4. keyAt[v] = key[arr[x]] /\ keyAt[w] = key[arr[y]] /\ keyAt[v] \in Nat /\ keyAt[w] \in Nat
    BY <1>2, <2>1, <2>2, KeyAtType
  <2>. QED
    BY <1>3, <2>3, <2>4 DEF Compare
<1>5. alg \notin {"isort", "msort"}
  BY <1>2 DEF CallInv, Heaps
<1>. QED
  BY <1>1, <1>4, <1>5, ReturnStep DEF SortedOn, Sorting

-----------------------------------------------------------------------------
(* Merging *)

MergeDomain(l, r)        == (1..(Len(l) + 1)) \X (1..(Len(r) + 1))
MergeBody(l, r, rest, p) ==
    IF p[1] > Len(l) THEN SubSeq(r, p[2], Len(r))
    ELSE IF p[2] > Len(r) THEN SubSeq(l, p[1], Len(l))
    ELSE IF ~ Less(r[p[2]], l[p[1]]) THEN << l[p[1]] >> \o rest[<< p[1] + 1, p[2] >>]
    ELSE << r[p[2]] >> \o rest[<< p[1], p[2] + 1 >>]
MergeRest(l, r) ==
    CHOOSE rest : rest = [p \in MergeDomain(l, r) |-> MergeBody(l, r, rest, p)]

(* How many elements are left from p. *)
Remaining(l, r, p) == (Len(l) + 1 - p[1]) + (Len(r) + 1 - p[2])

LEMMA MergedRest == \A l, r : Merged(l, r) = MergeRest(l, r)[<< 1, 1 >>]
BY DEF Merged, MergeRest, MergeDomain, MergeBody

LEMMA RemainingType ==
    ASSUME NEW l, NEW r, Len(l) \in Nat, Len(r) \in Nat, NEW p \in MergeDomain(l, r)
    PROVE  /\ p[1] \in 1..(Len(l) + 1) /\ p[2] \in 1..(Len(r) + 1) /\ p = << p[1], p[2] >>
           /\ Remaining(l, r, p) \in Nat
           /\ p[1] <= Len(l) => /\ << p[1] + 1, p[2] >> \in MergeDomain(l, r)
                                /\ Remaining(l, r, << p[1] + 1, p[2] >>) < Remaining(l, r, p)
           /\ p[2] <= Len(r) => /\ << p[1], p[2] + 1 >> \in MergeDomain(l, r)
                                /\ Remaining(l, r, << p[1], p[2] + 1 >>) < Remaining(l, r, p)
<1>2. p[1] \in 1..(Len(l) + 1) /\ p[2] \in 1..(Len(r) + 1) /\ p = << p[1], p[2] >>
  BY DEF MergeDomain
<1>3. PICK x \in 1..(Len(l) + 1), y \in 1..(Len(r) + 1) : p = << x, y >>
  BY <1>2
<1>4. p[1] = x /\ p[2] = y
  BY <1>3
<1>5. x <= Len(l) => << x + 1, y >> \in MergeDomain(l, r)
  BY DEF MergeDomain
<1>6. y <= Len(r) => << x, y + 1 >> \in MergeDomain(l, r)
  BY DEF MergeDomain
<1>7. \A u, v : Remaining(l, r, << u, v >>) = (Len(l) + 1 - u) + (Len(r) + 1 - v)
  BY DEF Remaining
<1>8. Remaining(l, r, p) \in Nat
  BY <1>3, <1>7
<1>9. /\ Remaining(l, r, << x + 1, y >>) < Remaining(l, r, p)
      /\ Remaining(l, r, << x, y + 1 >>) < Remaining(l, r, p)
  <2>1. /\ Remaining(l, r, p) = (Len(l) + 1 - x) + (Len(r) + 1 - y)
        /\ Remaining(l, r, << x + 1, y >>) = (Len(l) + 1 - (x + 1)) + (Len(r) + 1 - y)
        /\ Remaining(l, r, << x, y + 1 >>) = (Len(l) + 1 - x) + (Len(r) + 1 - (y + 1))
    BY <1>3, <1>7
  <2>. QED
    BY <2>1
<1>. QED
  BY <1>2, <1>4, <1>5, <1>6, <1>8, <1>9

(* The body looks at fewer elements. *)
LEMMA MergeBodySame ==
    ASSUME NEW l, NEW r, Len(l) \in Nat, Len(r) \in Nat, NEW p \in MergeDomain(l, r),
           NEW f, NEW g,
           \A q \in MergeDomain(l, r) : Remaining(l, r, q) < Remaining(l, r, p) => f[q] = g[q]
    PROVE  MergeBody(l, r, f, p) = MergeBody(l, r, g, p)
<1>2. p[1] <= Len(l) => f[<< p[1] + 1, p[2] >>] = g[<< p[1] + 1, p[2] >>]
  BY RemainingType
<1>3. p[2] <= Len(r) => f[<< p[1], p[2] + 1 >>] = g[<< p[1], p[2] + 1 >>]
  BY RemainingType
<1>1. p[1] \in 1..(Len(l) + 1) /\ p[2] \in 1..(Len(r) + 1)
  BY RemainingType
<1>4. p[1] \in Nat /\ p[2] \in Nat
  BY <1>1
<1>5. CASE p[1] > Len(l)
  BY <1>5 DEF MergeBody
<1>6. CASE p[1] <= Len(l) /\ p[2] > Len(r)
  BY <1>4, <1>6 DEF MergeBody
<1>7. CASE p[1] <= Len(l) /\ p[2] <= Len(r)
  BY <1>2, <1>3, <1>4, <1>7 DEF MergeBody
<1>. QED
  BY <1>4, <1>5, <1>6, <1>7

(* The recursive definition is one: it has a solution. *)
LEMMA MergeRestDef ==
    ASSUME NEW l, NEW r, Len(l) \in Nat, Len(r) \in Nat
    PROVE  \A p \in MergeDomain(l, r) : MergeRest(l, r)[p] = MergeBody(l, r, MergeRest(l, r), p)
<1>. DEFINE D == MergeDomain(l, r)
            R(p) == Remaining(l, r, p)
            B(f, p) == MergeBody(l, r, f, p)
            S == {n \in Nat : \E f : \A p \in D : R(p) <= n => f[p] = B(f, p)}
<1>1. \A p \in D : R(p) \in Nat /\ R(p) <= Len(l) + Len(r)
  <2>1. ASSUME NEW p \in D PROVE R(p) \in Nat /\ R(p) <= Len(l) + Len(r)
    <3>1. p[1] \in 1..(Len(l) + 1) /\ p[2] \in 1..(Len(r) + 1)
      BY RemainingType
    <3>2. R(p) \in Nat
      BY RemainingType
    <3>. QED
      BY <3>1, <3>2 DEF Remaining
  <2>. QED
    BY <2>1
<1>2. ASSUME NEW f, NEW g, NEW p \in D, \A q \in D : R(q) < R(p) => f[q] = g[q]
      PROVE  B(f, p) = B(g, p)
  BY <1>2, MergeBodySame
<1>. HIDE DEF R, B
<1>3. ASSUME NEW n \in Int, NEW f, \A p \in D : R(p) <= n => f[p] = B(f, p)
      PROVE  \E g : \A p \in D : R(p) <= n + 1 => g[p] = B(g, p)
  <2>. DEFINE g == [p \in D |-> IF R(p) <= n THEN f[p] ELSE B(f, p)]
  <2>1. ASSUME NEW p \in D, R(p) <= n + 1 PROVE g[p] = B(g, p)
    <3>1. ASSUME NEW q \in D, R(q) < R(p) PROVE f[q] = g[q]
      BY <1>1, <2>1, <3>1
    <3>2. B(f, p) = B(g, p)
      <4>. HIDE DEF g
      <4>. QED
        BY <1>2, <3>1
    <3>3. g[p] = B(f, p)
      BY <1>3
    <3>. QED
      BY <3>2, <3>3
  <2>. HIDE DEF g
  <2>. QED
    BY <2>1
<1>4. 0 \in S
  <2>1. \A p \in D : ~ (R(p) <= -1)
    BY <1>1
  <2>2. \E g : \A p \in D : R(p) <= -1 + 1 => g[p] = B(g, p)
    BY <1>3, <2>1
  <2>. QED
    BY <2>2
<1>5. ASSUME NEW n \in Nat, n \in S PROVE n + 1 \in S
  <2>1. PICK f : \A p \in D : R(p) <= n => f[p] = B(f, p)
    BY <1>5
  <2>2. \E g : \A p \in D : R(p) <= n + 1 => g[p] = B(g, p)
    BY <1>3, <2>1
  <2>. QED
    BY <2>2
<1>6. \A n \in Nat : n \in S
  <2>. HIDE DEF S
  <2>. QED
    BY <1>4, <1>5, InductiveSet
<1>7. PICK f : \A p \in D : f[p] = B(f, p)
  <2>1. Len(l) + Len(r) \in Nat
    OBVIOUS
  <2>2. PICK f : \A p \in D : R(p) <= Len(l) + Len(r) => f[p] = B(f, p)
    BY <1>6, <2>1
  <2>. QED
    BY <1>1, <2>2
<1>. DEFINE h == [p \in D |-> f[p]]
<1>8. \A p \in D : B(f, p) = B(h, p)
  <2>1. \A q \in D : f[q] = h[q]
    OBVIOUS
  <2>. HIDE DEF h
  <2>. QED
    BY <1>2, <2>1
<1>9. h = [p \in D |-> B(h, p)]
  <2>1. \A p \in D : f[p] = B(h, p)
    BY <1>7, <1>8
  <2>. QED
    BY <2>1
<1>10. MergeRest(l, r) = [p \in D |-> B(MergeRest(l, r), p)]
  <2>. HIDE DEF h, D
  <2>. QED
    BY <1>9 DEF MergeRest, D, B
<1>. QED
  BY <1>10 DEF B

(* The sequence m has n elements, those of E, in order. *)
InOrder(m, E, n) ==
    /\ m \in Seq(1..nmemb) /\ Len(m) = n
    /\ \A j, k \in 1..n : j < k => Before(m[j], m[k])
    /\ E = {m[j] : j \in 1..n}

(* The elements of l from x on. *)
RestOf(l, x) == {l[j] : j \in x..Len(l)}

LEMMA BeforeAll ==
    ASSUME TypeInv, NEW a \in 1..nmemb, NEW s, NEW E, NEW n \in Nat,
           InOrder(s, E, n), \A e \in E : Before(a, e)
    PROVE  InOrder(<< a >> \o s, E \cup {a}, n + 1)
<1>. DEFINE m == << a >> \o s
<1>1. s \in Seq(1..nmemb) /\ Len(s) = n /\ E = {s[j] : j \in 1..n}
  BY DEF InOrder
<1>2. << a >> \in Seq(1..nmemb) /\ Len(<< a >>) = 1 /\ << a >>[1] = a
  OBVIOUS
<1>3. /\ m \in Seq(1..nmemb) /\ Len(m) = 1 + n
      /\ \A j \in 1..(1 + n) : m[j] = IF j <= 1 THEN a ELSE s[j - 1]
  <2>. HIDE DEF m
  <2>1. /\ m \in Seq(1..nmemb) /\ Len(m) = Len(<< a >>) + Len(s)
        /\ \A j \in 1..(Len(<< a >>) + Len(s)) :
               m[j] = IF j <= Len(<< a >>) THEN << a >>[j] ELSE s[j - Len(<< a >>)]
    BY <1>1, <1>2, ConcatProperties DEF m
  <2>2. \A j \in 1..(1 + n) : j <= 1 => j = 1
    OBVIOUS
  <2>. QED
    BY <1>1, <1>2, <2>1, <2>2
<1>. HIDE DEF m
<1>4. m[1] = a /\ \A j \in 2..(n + 1) : m[j] = s[j - 1] /\ j - 1 \in 1..n
  BY <1>3
<1>5. \A j \in 1..n : m[j + 1] = s[j] /\ j + 1 \in 2..(n + 1)
  <2>1. ASSUME NEW j \in 1..n, NEW k \in 2..(n + 1), k = j + 1 PROVE m[k] = s[j]
    <3>1. k - 1 = j
      BY <2>1
    <3>. QED
      BY <1>4, <3>1
  <2>. QED
    BY <2>1
<1>6. ASSUME NEW j \in 1..(n + 1), NEW k \in 1..(n + 1), j < k PROVE Before(m[j], m[k])
  <2>1. k \in 2..(n + 1) /\ m[k] = s[k - 1] /\ k - 1 \in 1..n
    BY <1>4, <1>6
  <2>2. CASE j = 1
    BY <1>1, <1>4, <2>1, <2>2
  <2>3. CASE j # 1
    <3>1. j \in 2..(n + 1) /\ m[j] = s[j - 1] /\ j - 1 \in 1..n /\ j - 1 < k - 1
      BY <1>4, <1>6, <2>3
    <3>. QED
      BY <2>1, <3>1 DEF InOrder
  <2>. QED
    BY <2>2, <2>3
<1>7. E \cup {a} = {m[j] : j \in 1..(n + 1)}
  <2>1. ASSUME NEW j \in 1..(n + 1) PROVE m[j] \in E \cup {a}
    <3>1. j = 1 \/ j \in 2..(n + 1)
      OBVIOUS
    <3>. QED
      BY <1>1, <1>4, <3>1
  <2>2. ASSUME NEW e \in E \cup {a} PROVE \E j \in 1..(n + 1) : m[j] = e
    <3>1. CASE e = a
      <4>1. 1 \in 1..(n + 1)
        OBVIOUS
      <4>. QED
        BY <1>4, <3>1, <4>1
    <3>2. CASE e \in E
      <4>1. PICK j \in 1..n : s[j] = e
        BY <1>1, <3>2
      <4>2. j + 1 \in 1..(n + 1) /\ m[j + 1] = e
        BY <1>5, <4>1
      <4>. QED
        BY <4>2
    <3>. QED
      BY <3>1, <3>2
  <2>. QED
    BY <2>1, <2>2
<1>8. InOrder(m, E \cup {a}, n + 1)
  <2>1. Len(m) = n + 1
    BY <1>3
  <2>. QED
    BY <1>3, <1>6, <1>7, <2>1 DEF InOrder
<1>. QED
  BY <1>8 DEF m

LEMMA RestInOrder ==
    ASSUME NEW l, NEW E, NEW n \in Nat, InOrder(l, E, n), NEW x \in 1..(n + 1)
    PROVE  InOrder(SubSeq(l, x, Len(l)), RestOf(l, x), n + 1 - x)
<1>. DEFINE m == SubSeq(l, x, n)
<1>a. l \in Seq(1..nmemb) /\ Len(l) = n
  BY DEF InOrder
<1>1. Len(l) = n /\ \A j \in 1..n : l[j] \in 1..nmemb
  BY <1>a, ElementOfSeq
<1>2. /\ m \in Seq(1..nmemb) /\ Len(m) = (IF x <= n THEN n - x + 1 ELSE 0)
      /\ \A j \in 1..(n - x + 1) : m[j] = l[x + j - 1]
  <2>1. \A j \in x..n : l[j] \in 1..nmemb
    BY <1>1
  <2>2. x \in Int /\ n \in Int
    OBVIOUS
  <2>. DEFINE W == 1..nmemb
  <2>. HIDE DEF W, m
  <2>b. \A S, s, v, w : v \in Int /\ w \in Int /\ (\A j \in v..w : s[j] \in S) =>
          /\ SubSeq(s, v, w) \in Seq(S)
          /\ Len(SubSeq(s, v, w)) = IF v <= w THEN w - v + 1 ELSE 0
          /\ \A j \in 1..(w - v + 1) : SubSeq(s, v, w)[j] = s[v + j - 1]
    BY SubSeqProperties
  <2>3. /\ SubSeq(l, x, n) \in Seq(W)
        /\ Len(SubSeq(l, x, n)) = IF x <= n THEN n - x + 1 ELSE 0
        /\ \A j \in 1..(n - x + 1) : SubSeq(l, x, n)[j] = l[x + j - 1]
    BY <2>1, <2>2, <2>b DEF W
  <2>. QED
    BY <2>3 DEF m, W
<1>. HIDE DEF m
<1>3. Len(m) = n + 1 - x
  BY <1>2
<1>4. \A j \in 1..(n + 1 - x) : m[j] = l[x + j - 1] /\ x + j - 1 \in x..n
  BY <1>2
<1>5. ASSUME NEW j \in 1..(n + 1 - x), NEW k \in 1..(n + 1 - x), j < k
      PROVE  Before(m[j], m[k])
  <2>1. x + j - 1 \in 1..n /\ x + k - 1 \in 1..n /\ x + j - 1 < x + k - 1
    BY <1>5
  <2>. QED
    BY <1>4, <2>1 DEF InOrder
<1>6. RestOf(l, x) = {m[j] : j \in 1..(n + 1 - x)}
  <2>1. ASSUME NEW j \in x..n PROVE \E k \in 1..(n + 1 - x) : m[k] = l[j]
    <3>1. PICK k \in 1..(n + 1 - x) : x + k - 1 = j
      <4>1. j - x + 1 \in 1..(n + 1 - x) /\ x + (j - x + 1) - 1 = j
        OBVIOUS
      <4>. QED
        BY <4>1
    <3>. QED
      BY <1>4, <3>1
  <2>2. \A k \in 1..(n + 1 - x) : \E j \in x..n : m[k] = l[j]
    BY <1>4
  <2>3. RestOf(l, x) = {l[j] : j \in x..n}
    BY <1>1 DEF RestOf
  <2>. QED
    BY <2>1, <2>2, <2>3
<1>7. InOrder(m, RestOf(l, x), n + 1 - x)
  BY <1>2, <1>3, <1>5, <1>6 DEF InOrder
<1>. QED
  BY <1>1, <1>7 DEF m

(* What the next element of l has before it. *)
LEMMA NextInOrder ==
    ASSUME NEW l, NEW E, NEW n \in Nat, InOrder(l, E, n), NEW x \in 1..n
    PROVE  /\ l[x] \in 1..nmemb /\ l[x] \in E
           /\ RestOf(l, x) = RestOf(l, x + 1) \cup {l[x]} /\ RestOf(l, x) \subseteq E
           /\ \A e \in RestOf(l, x + 1) : Before(l[x], e)
<1>a. l \in Seq(1..nmemb) /\ Len(l) = n /\ E = {l[j] : j \in 1..n}
  BY DEF InOrder
<1>1. Len(l) = n /\ E = {l[j] : j \in 1..n} /\ l[x] \in 1..nmemb
  BY <1>a, ElementOfSeq
<1>2. x..n = (x + 1)..n \cup {x} /\ x..n \subseteq 1..n
  OBVIOUS
<1>3. \A j \in (x + 1)..n : Before(l[x], l[j])
  BY DEF InOrder
<1>. QED
  BY <1>1, <1>2, <1>3 DEF RestOf

(* What is merged is in order, and keeps the order of equal elements. *)
LEMMA MergeInOrder ==
    ASSUME TypeInv, NEW l, NEW r, NEW E, NEW F, NEW n \in Nat, NEW k \in Nat,
           InOrder(l, E, n), InOrder(r, F, k), \A e \in E, f \in F : e < f
    PROVE  InOrder(Merged(l, r), E \cup F, n + k)
<1>. DEFINE D == MergeDomain(l, r)
            R(p) == Remaining(l, r, p)
            rest == MergeRest(l, r)
            P(p) == InOrder(rest[p], RestOf(l, p[1]) \cup RestOf(r, p[2]), R(p))
            S == {m \in Nat : \A p \in D : R(p) <= m => P(p)}
<1>1. Len(l) = n /\ Len(r) = k /\ E = {l[j] : j \in 1..n} /\ F = {r[j] : j \in 1..k}
  BY DEF InOrder
<1>2. \A p \in D : rest[p] = MergeBody(l, r, rest, p)
  BY <1>1, MergeRestDef
<1>3. RestOf(l, n + 1) = {} /\ RestOf(r, k + 1) = {}
  BY <1>1 DEF RestOf
<1>4. \A j \in 1..n : /\ l[j] \in 1..nmemb /\ l[j] \in E
                      /\ RestOf(l, j) = RestOf(l, j + 1) \cup {l[j]} /\ RestOf(l, j) \subseteq E
                      /\ \A e \in RestOf(l, j + 1) : Before(l[j], e)
  BY NextInOrder
<1>5. \A j \in 1..k : /\ r[j] \in 1..nmemb /\ r[j] \in F
                      /\ RestOf(r, j) = RestOf(r, j + 1) \cup {r[j]} /\ RestOf(r, j) \subseteq F
                      /\ \A e \in RestOf(r, j + 1) : Before(r[j], e)
  BY NextInOrder
<1>6. \A x \in 1..(n + 1) : InOrder(SubSeq(l, x, Len(l)), RestOf(l, x), n + 1 - x)
  BY RestInOrder
<1>7. \A x \in 1..(k + 1) : InOrder(SubSeq(r, x, Len(r)), RestOf(r, x), k + 1 - x)
  BY RestInOrder
<1>8. ASSUME NEW m \in Int, \A p \in D : R(p) <= m => P(p), NEW p \in D, R(p) <= m + 1
      PROVE  P(p)
  <2>1. PICK x \in 1..(n + 1), y \in 1..(k + 1) : p = << x, y >>
    BY <1>1 DEF MergeDomain
  <2>2. p[1] = x /\ p[2] = y /\ R(p) = (n + 1 - x) + (k + 1 - y)
    BY <1>1, <2>1 DEF Remaining
  <2>a. rest[p] = IF x > n THEN SubSeq(r, y, Len(r))
                  ELSE IF y > k THEN SubSeq(l, x, Len(l))
                  ELSE IF ~ Less(r[y], l[x]) THEN << l[x] >> \o rest[<< x + 1, y >>]
                  ELSE << r[y] >> \o rest[<< x, y + 1 >>]
    <3>1. rest[p] = MergeBody(l, r, rest, p)
      BY <1>2
    <3>2. MergeBody(l, r, rest, << x, y >>) =
                  IF x > n THEN SubSeq(r, y, Len(r))
                  ELSE IF y > k THEN SubSeq(l, x, Len(l))
                  ELSE IF ~ Less(r[y], l[x]) THEN << l[x] >> \o rest[<< x + 1, y >>]
                  ELSE << r[y] >> \o rest[<< x, y + 1 >>]
      <4>. HIDE DEF rest
      <4>. QED
        BY <1>1 DEF MergeBody
    <3>. QED
      BY <2>1, <3>1, <3>2
  <2>3. CASE x > n
    <3>1. x = n + 1 /\ R(p) = k + 1 - y /\ rest[p] = SubSeq(r, y, Len(r))
      <4>1. x = n + 1
        BY <2>3
      <4>2. R(p) = k + 1 - y
        BY <2>2, <4>1
      <4>. HIDE DEF R, rest
      <4>. QED
        BY <2>3, <2>a, <4>1, <4>2
    <3>2. RestOf(l, x) \cup RestOf(r, y) = RestOf(r, y)
      BY <1>3, <3>1
    <3>. QED
      BY <1>7, <2>2, <3>1, <3>2
  <2>4. CASE x <= n /\ y > k
    <3>1. y = k + 1 /\ R(p) = n + 1 - x /\ rest[p] = SubSeq(l, x, Len(l))
      <4>1. y = k + 1
        BY <2>4
      <4>2. R(p) = n + 1 - x
        BY <2>2, <4>1
      <4>. HIDE DEF R, rest
      <4>. QED
        BY <2>4, <2>a, <4>1, <4>2
    <3>2. RestOf(l, x) \cup RestOf(r, y) = RestOf(l, x)
      BY <1>3, <3>1
    <3>. QED
      BY <1>6, <2>2, <3>1, <3>2
  <2>5. CASE x <= n /\ y <= k /\ ~ Less(r[y], l[x])
    <3>. DEFINE q == << x + 1, y >>
    <3>1. q \in D /\ R(q) = (n + 1 - (x + 1)) + (k + 1 - y) /\ q[1] = x + 1 /\ q[2] = y
      BY <1>1, <2>5 DEF MergeDomain, Remaining
    <3>2. rest[p] = << l[x] >> \o rest[q]
      BY <2>5, <2>a
    <3>. HIDE DEF q
    <3>3. R(q) <= m /\ R(p) = R(q) + 1 /\ R(q) \in Nat
      <4>. HIDE DEF R
      <4>. QED
        BY <1>8, <2>2, <2>5, <3>1
    <3>4. InOrder(rest[q], RestOf(l, x + 1) \cup RestOf(r, y), R(q))
      BY <1>8, <3>1, <3>3
    <3>5. x \in 1..n /\ y \in 1..k
      BY <2>5
    <3>6. ASSUME NEW e \in RestOf(l, x + 1) \cup RestOf(r, y) PROVE Before(l[x], e)
      <4>1. CASE e \in RestOf(l, x + 1)
        BY <1>4, <3>5, <4>1
      <4>2. CASE e \in RestOf(r, y)
        <5>1. l[x] < e /\ e \in F /\ r[y] \in 1..nmemb
          BY <1>4, <1>5, <3>5, <4>2
        <5>2. F \subseteq 1..nmemb
          BY <1>1, <1>5
        <5>3. key[l[x]] \in Nat /\ key[r[y]] \in Nat /\ key[e] \in Nat
          BY <1>4, <3>5, <5>1, <5>2, Elements
        <5>4. key[l[x]] <= key[r[y]]
          BY <2>5, <5>3, Comparison
        <5>5. e = r[y] \/ Before(r[y], e)
          BY <1>5, <3>5, <4>2
        <5>6. key[r[y]] <= key[e]
          BY <5>3, <5>5 DEF Before
        <5>. QED
          BY <5>1, <5>3, <5>4, <5>6 DEF Before
      <4>. QED
        BY <4>1, <4>2
    <3>7. l[x] \in 1..nmemb
      BY <1>4, <3>5
    <3>8. InOrder(<< l[x] >> \o rest[q], (RestOf(l, x + 1) \cup RestOf(r, y)) \cup {l[x]}, R(q) + 1)
      <4>. HIDE DEF rest, R
      <4>. QED
        BY <3>3, <3>4, <3>6, <3>7, BeforeAll
    <3>9. (RestOf(l, x + 1) \cup RestOf(r, y)) \cup {l[x]} = RestOf(l, x) \cup RestOf(r, y)
      BY <1>4, <3>5
    <3>. QED
      <4>. HIDE DEF rest, R
      <4>. QED
        BY <2>2, <3>2, <3>3, <3>8, <3>9
  <2>6. CASE x <= n /\ y <= k /\ Less(r[y], l[x])
    <3>. DEFINE q == << x, y + 1 >>
    <3>1. q \in D /\ R(q) = (n + 1 - x) + (k + 1 - (y + 1)) /\ q[1] = x /\ q[2] = y + 1
      BY <1>1, <2>6 DEF MergeDomain, Remaining
    <3>2. rest[p] = << r[y] >> \o rest[q]
      BY <2>6, <2>a
    <3>. HIDE DEF q
    <3>3. R(q) <= m /\ R(p) = R(q) + 1 /\ R(q) \in Nat
      <4>. HIDE DEF R
      <4>. QED
        BY <1>8, <2>2, <2>6, <3>1
    <3>4. InOrder(rest[q], RestOf(l, x) \cup RestOf(r, y + 1), R(q))
      BY <1>8, <3>1, <3>3
    <3>5. x \in 1..n /\ y \in 1..k
      BY <2>6
    <3>6. ASSUME NEW e \in RestOf(l, x) \cup RestOf(r, y + 1) PROVE Before(r[y], e)
      <4>1. CASE e \in RestOf(r, y + 1)
        BY <1>5, <3>5, <4>1
      <4>2. CASE e \in RestOf(l, x)
        <5>1. e \in E /\ r[y] \in 1..nmemb /\ l[x] \in 1..nmemb
          BY <1>4, <1>5, <3>5, <4>2
        <5>2. E \subseteq 1..nmemb
          BY <1>1, <1>4
        <5>3. key[l[x]] \in Nat /\ key[r[y]] \in Nat /\ key[e] \in Nat
          BY <5>1, <5>2, Elements
        <5>4. key[r[y]] < key[l[x]]
          BY <2>6, <5>3, Comparison
        <5>5. e = l[x] \/ Before(l[x], e)
          BY <1>4, <3>5, <4>2
        <5>6. key[l[x]] <= key[e]
          BY <5>3, <5>5 DEF Before
        <5>. QED
          BY <5>3, <5>4, <5>6 DEF Before
      <4>. QED
        BY <4>1, <4>2
    <3>7. r[y] \in 1..nmemb
      BY <1>5, <3>5
    <3>8. InOrder(<< r[y] >> \o rest[q], (RestOf(l, x) \cup RestOf(r, y + 1)) \cup {r[y]}, R(q) + 1)
      <4>. HIDE DEF rest, R
      <4>. QED
        BY <3>3, <3>4, <3>6, <3>7, BeforeAll
    <3>9. (RestOf(l, x) \cup RestOf(r, y + 1)) \cup {r[y]} = RestOf(l, x) \cup RestOf(r, y)
      BY <1>5, <3>5
    <3>. QED
      <4>. HIDE DEF rest, R
      <4>. QED
        BY <2>2, <3>2, <3>3, <3>8, <3>9
  <2>. QED
    BY <2>3, <2>4, <2>5, <2>6
<1>9. \A p \in D : R(p) \in Nat
  BY <1>1, RemainingType
<1>. HIDE DEF P, R, D
<1>10. 0 \in S
  <2>1. \A p \in D : R(p) <= -1 => P(p)
    BY <1>9
  <2>2. \A p \in D : R(p) <= -1 + 1 => P(p)
    BY <1>8, <2>1
  <2>. QED
    BY <2>2
<1>11. \A m \in Nat : m \in S => m + 1 \in S
  BY <1>8
<1>12. \A m \in Nat : m \in S
  <2>. HIDE DEF S
  <2>. QED
    BY <1>10, <1>11, InductiveSet
<1>13. << 1, 1 >> \in D /\ R(<< 1, 1 >>) = n + k
  BY <1>1 DEF D, R, MergeDomain, Remaining
<1>14. P(<< 1, 1 >>)
  <2>1. n + k \in Nat /\ R(<< 1, 1 >>) <= n + k
    BY <1>13
  <2>. QED
    BY <1>12, <1>13, <2>1
<1>15. RestOf(l, 1) = E /\ RestOf(r, 1) = F
  BY <1>1 DEF RestOf
<1>16. InOrder(rest[<< 1, 1 >>], RestOf(l, 1) \cup RestOf(r, 1), n + k)
  <2>1. << 1, 1 >>[1] = 1 /\ << 1, 1 >>[2] = 1
    OBVIOUS
  <2>. HIDE DEF rest
  <2>. QED
    BY <1>13, <1>14, <2>1 DEF P
<1>. QED
  BY <1>15, <1>16, MergedRest

-----------------------------------------------------------------------------
(* msort *)

LEMMA Multiples ==
    ASSUME NEW s \in Nat \ {0}
    PROVE  /\ Starts(s) \subseteq Nat /\ 0 \in Starts(s)
           /\ \A b \in Starts(s) : b + s \in Starts(s)
           /\ \A b, c \in Starts(s) : b < c => b + s <= c
           /\ \A b \in Starts(2 * s) : b \in Starts(s) /\ b + s \in Starts(s)
<1>1. \A m \in Nat : m * s \in Nat
  OBVIOUS
<1>2. 0 * s = 0
  OBVIOUS
<1>3. \A m \in Nat : m * s + s = (m + 1) * s /\ m * (2 * s) = (2 * m) * s
  OBVIOUS
<1>4. ASSUME NEW b \in Starts(s), NEW c \in Starts(s), b < c PROVE b + s <= c
  <2>1. PICK m \in Nat, n \in Nat : b = m * s /\ c = n * s
    BY DEF Starts
  <2>2. m < n
    <3>. SUFFICES ASSUME n <= m PROVE FALSE
      OBVIOUS
    <3>1. PICK d \in Nat : m = n + d
      <4>1. m - n \in Nat /\ m = n + (m - n)
        OBVIOUS
      <4>. QED
        BY <4>1
    <3>2. m * s = n * s + d * s /\ d * s \in Nat /\ n * s \in Nat
      BY <3>1
    <3>. QED
      BY <1>4, <2>1, <3>2
  <2>3. PICK d \in Nat : n = m + 1 + d
    <3>1. n - (m + 1) \in Nat /\ n = m + 1 + (n - (m + 1))
      BY <2>2
    <3>. QED
      BY <3>1
  <2>4. n * s = m * s + s + d * s /\ d * s \in Nat /\ m * s \in Nat
    BY <2>3
  <2>. QED
    BY <2>1, <2>4
<1>5. ASSUME NEW b \in Starts(2 * s) PROVE b \in Starts(s) /\ b + s \in Starts(s)
  <2>1. PICK m \in Nat : b = m * (2 * s)
    BY DEF Starts
  <2>2. b = (2 * m) * s /\ b + s = (2 * m + 1) * s /\ 2 * m \in Nat /\ 2 * m + 1 \in Nat
    BY <2>1
  <2>. QED
    BY <2>2 DEF Starts
<1>6. \A b \in Starts(s) : b + s \in Starts(s)
  <2>1. ASSUME NEW b \in Starts(s) PROVE b + s \in Starts(s)
    <3>1. PICK m \in Nat : b = m * s
      BY DEF Starts
    <3>2. b + s = (m + 1) * s /\ m + 1 \in Nat
      BY <1>3, <3>1
    <3>. QED
      BY <3>2 DEF Starts
  <2>. QED
    BY <2>1
<1>7. Starts(s) \subseteq Nat /\ 0 \in Starts(s)
  <2>1. 0 \in Starts(s)
    BY <1>2 DEF Starts
  <2>. QED
    BY <1>1, <2>1 DEF Starts
<1>. QED
  BY <1>4, <1>5, <1>6, <1>7

(* The runs of array a. *)
RunOf(a, b, n) ==
    /\ \A x, y \in Offsets : b <= x /\ x < y /\ y < b + n => Before(a[x], a[y])
    /\ \A x \in Offsets : b <= x /\ x < b + n => b < a[x] /\ a[x] <= b + n

LEMMA MergeStep ==
    ASSUME IInv, Rearranged, UNCHANGED << alg, exact, key, call, lo, len, flash, root, max >>,
           alg = "msort", at \in {"enter", "merge"}, at' = "merge",
           i' \in Nat, step' \in Nat \ {0}, len > 1, i' \in Starts(2 * step'),
           \A b \in Starts(2 * step') : b < i' => RunOf(arr', b, 2 * step'),
           \A b \in Starts(step') : b >= i' => RunOf(arr', b, step')
    PROVE  IInv'
<1>1. /\ ElementsInv' /\ MetricInv' /\ SeekInv' /\ ClassesInv'
      /\ ResultSorted' /\ FlashInside'
  BY SortStep DEF Sorting
<1>2. TypeInv /\ CallInv /\ call = "msort"
  BY Whole DEF IInv
<1>3. nmemb' = nmemb /\ Offsets' = Offsets
  BY Unchanged
<1>4. TypeInv' /\ CallInv' /\ IsortInv' /\ HeapInv'
  BY <1>2, <1>3 DEF TypeInv, CallInv, IsortInv, HeapInv, Rearranged
<1>5. MsortInv'
  BY <1>3 DEF MsortInv, RunDone, RunOf, Before
<1>. QED
  BY <1>1, <1>4, <1>5 DEF IInv

LEMMA MsortEnterStep == ASSUME IInv, MsortEnter PROVE IInv'
<1>1. /\ call = "msort" /\ at = "enter" /\ len > 1 /\ at' = "merge" /\ i' = 0 /\ step' = 1
      /\ arr' = arr
      /\ UNCHANGED << alg, exact, key, call, lo, len, flash, root, max >>
  BY DEF MsortEnter, Only
<1>2. TypeInv /\ CallInv /\ alg = "msort" /\ Offsets = 0..(nmemb - 1)
  BY <1>1, Elements DEF IInv, CallInv
<1>3. Rearranged
  BY <1>1, <1>2, Untouched
<1>4. \A x \in Offsets : arr[x] = x + 1 /\ x \in Nat
  <2>1. arr = [x \in Offsets |-> x + 1]
    BY <1>1, <1>2 DEF CallInv
  <2>2. nmemb \in Nat
    BY <1>2, Elements
  <2>. QED
    BY <1>2, <2>1, <2>2
<1>5. ASSUME NEW b \in Starts(1) PROVE RunOf(arr', b, 1)
  <2>1. b \in Nat
    BY Multiples
  <2>2. \A x \in Offsets : b <= x /\ x < b + 1 => x = b
    BY <1>4, <2>1
  <2>3. \A x, y \in Offsets : ~ (b <= x /\ x < y /\ y < b + 1)
    BY <1>4, <2>1
  <2>4. \A x \in Offsets : b <= x /\ x < b + 1 => b < arr'[x] /\ arr'[x] <= b + 1
    BY <1>1, <1>4, <2>1, <2>2
  <2>5. \A x, y \in Offsets : b <= x /\ x < y /\ y < b + 1 => Before(arr'[x], arr'[y])
    BY <2>3
  <2>. QED
    BY <2>4, <2>5 DEF RunOf
<1>6. 0 \in Starts(2 * 1) /\ Starts(2 * 1) \subseteq Nat
  BY Multiples
<1>7. /\ i' \in Nat /\ step' \in Nat \ {0} /\ i' \in Starts(2 * step')
      /\ \A b \in Starts(2 * step') : b < i' => RunOf(arr', b, 2 * step')
      /\ \A b \in Starts(step') : b >= i' => RunOf(arr', b, step')
  BY <1>1, <1>5, <1>6
<1>. QED
  BY <1>1, <1>2, <1>3, <1>7, MergeStep

(* What msort knows of its runs. *)
LEMMA Runs ==
    ASSUME IInv, call = "msort", at = "merge"
    PROVE  /\ TypeInv /\ alg = "msort" /\ lo = 0 /\ len = nmemb /\ len > 1
           /\ nmemb \in Nat /\ i \in Nat /\ step \in Nat \ {0} /\ Offsets = 0..(nmemb - 1)
           /\ i \in Starts(2 * step)
           /\ \A b \in Starts(2 * step) : b < i => RunOf(arr, b, 2 * step)
           /\ \A b \in Starts(step) : b >= i => RunOf(arr, b, step)
<1>1. TypeInv /\ CallInv /\ MsortInv
  BY DEF IInv
<1>2. alg = "msort"
  BY <1>1 DEF CallInv
<1>. QED
  BY <1>1, <1>2, Elements DEF TypeInv, CallInv, MsortInv, RunDone, RunOf

(* The last run of the array is as good as a longer one. *)
LEMMA LastRun ==
    ASSUME IInv, call = "msort", at = "merge", i + step >= len
    PROVE  \A b \in Starts(2 * step) : RunOf(arr, b, 2 * step)
<1>1. ASSUME NEW b \in Starts(2 * step) PROVE RunOf(arr, b, 2 * step)
  <2>1. CASE b < i
    BY <2>1, Runs
  <2>2. CASE ~ (b < i)
    <3>1. b \in Starts(step) /\ b \in Nat
      BY Runs, Multiples
    <3>2. RunOf(arr, b, step) /\ b >= i
      BY <2>2, <3>1, Runs
    <3>3. len = nmemb /\ Offsets = 0..(nmemb - 1) /\ nmemb \in Nat /\ i \in Nat /\ step \in Nat
      BY Runs
    <3>a. i <= b
      BY <3>1, <3>2, <3>3
    <3>b. \A x \in Offsets : x \in Nat /\ x < b + step
      BY <3>1, <3>3, <3>a
    <3>c. \A x \in Offsets : arr[x] \in 1..nmemb
      BY Runs, Elements
    <3>4. \A x \in Offsets : x \in Nat /\ x < b + step /\ arr[x] \in Nat
      BY <3>3, <3>b, <3>c
    <3>. QED
      BY <3>1, <3>2, <3>3, <3>4 DEF RunOf
  <2>. QED
    BY <2>1, <2>2
<1>. QED
  BY <1>1

LEMMA MsortNextStepStep == ASSUME IInv, MsortNextStep PROVE IInv'
<1>1. /\ call = "msort" /\ at = "merge" /\ i + step >= len /\ at' = at
      /\ i' = 0 /\ step' = 2 * step /\ arr' = arr
      /\ UNCHANGED << alg, exact, key, call, lo, len, flash, root, max >>
  BY DEF MsortNextStep, Only
<1>2. TypeInv /\ alg = "msort" /\ len > 1 /\ step \in Nat \ {0}
  BY <1>1, Runs
<1>3. Rearranged
  BY <1>1, <1>2, Untouched
<1>4. \A b \in Starts(2 * step) : RunOf(arr', b, 2 * step)
  BY <1>1, LastRun
<1>5. 2 * step \in Nat \ {0}
  BY <1>2
<1>6. 0 \in Starts(2 * (2 * step)) /\ Starts(2 * (2 * step)) \subseteq Nat
  <2>1. 2 * (2 * step) \in Nat \ {0}
    BY <1>2
  <2>. QED
    BY <2>1, Multiples
<1>7. /\ i' \in Nat /\ step' \in Nat \ {0} /\ i' \in Starts(2 * step')
      /\ \A b \in Starts(2 * step') : b < i' => RunOf(arr', b, 2 * step')
      /\ \A b \in Starts(step') : b >= i' => RunOf(arr', b, step')
  BY <1>1, <1>4, <1>5, <1>6
<1>. QED
  BY <1>1, <1>2, <1>3, <1>7, MergeStep

LEMMA MsortReturnStep == ASSUME IInv, MsortReturn PROVE IInv'
<1>1. /\ call = "msort" /\ at = "merge" /\ i + step >= len /\ 2 * step >= len /\ Return
      /\ UNCHANGED << alg, exact, key, arr, flash, i, step, root, max >>
  BY DEF MsortReturn, Only
<1>2. /\ TypeInv /\ alg = "msort" /\ lo = 0 /\ len = nmemb /\ step \in Nat \ {0}
      /\ nmemb \in Nat /\ Offsets = 0..(nmemb - 1)
  BY <1>1, Runs
<1>3. 2 * step \in Nat \ {0}
  BY <1>2
<1>4. RunOf(arr, 0, 2 * step)
  <2>1. 0 \in Starts(2 * step)
    BY <1>3, Multiples
  <2>. QED
    BY <1>1, <2>1, LastRun
<1>5. \A x, y \in Offsets : x < y => Before(arr[x], arr[y])
  <2>1. \A x, y \in Offsets : 0 <= x /\ y < 0 + 2 * step
    BY <1>1, <1>2, <1>3
  <2>. QED
    BY <1>4, <2>1 DEF RunOf
<1>6. Cells(lo, len) = Offsets
  BY <1>2 DEF Cells
<1>7. \A x \in Offsets : key[arr[x]] \in Nat
  BY <1>2, Elements
<1>8. SortedOn(arr, key, Offsets) /\ StableOn(arr, key, Offsets)
  BY <1>5, <1>7 DEF SortedOn, StableOn, Compare, Before
<1>. QED
  BY <1>1, <1>6, <1>8, ReturnStep DEF Sorting

LEMMA MergeRunsStep == ASSUME IInv, MergeRuns PROVE IInv'
<1>. DEFINE right == i + step
            n     == IF right + step > len THEN len - right ELSE step
            out   == Merged(Run(i, step), Run(right, n))
            E     == {arr[x] : x \in i..(right - 1)}
            F     == {arr[x] : x \in right..(right + n - 1)}
            end   == right + n
<1>1. /\ call = "msort" /\ at = "merge" /\ right < len /\ at' = at /\ i' = i + 2 * step
      /\ arr' = [x \in Offsets |-> IF x \in Cells(lo + i, step + n) THEN out[x - lo - i + 1]
                                   ELSE arr[x]]
      /\ UNCHANGED << alg, exact, key, call, lo, len, flash, root, max, step >>
  BY DEF MergeRuns, Only
<1>2. /\ TypeInv /\ alg = "msort" /\ lo = 0 /\ len = nmemb /\ len > 1
      /\ nmemb \in Nat /\ i \in Nat /\ step \in Nat \ {0} /\ Offsets = 0..(nmemb - 1)
      /\ i \in Starts(2 * step)
      /\ \A b \in Starts(2 * step) : b < i => RunOf(arr, b, 2 * step)
      /\ \A b \in Starts(step) : b >= i => RunOf(arr, b, step)
  BY <1>1, Runs
<1>3. /\ n \in Nat \ {0} /\ n <= step /\ end <= nmemb /\ right \in Nat /\ end \in Nat /\ i < right
      /\ right < end /\ (end = nmemb \/ end = i + 2 * step) /\ end <= i + 2 * step
  BY <1>1, <1>2
<1>4. right \in Starts(step) /\ i \in Starts(step)
  BY <1>2, Multiples
<1>5. RunOf(arr, i, step) /\ RunOf(arr, right, step)
  BY <1>2, <1>3, <1>4
<1>. HIDE DEF right, n, end
<1>6. right = i + step /\ end = right + n
  BY DEF right, end
<1>7. \A x \in i..(end - 1) : x \in Offsets /\ arr[x] \in 1..nmemb
  <2>1. \A x \in i..(end - 1) : x \in Offsets
    BY <1>2, <1>3
  <2>. QED
    BY <1>2, <2>1, Elements
<1>8. InOrder(Run(i, step), E, step)
  <2>. DEFINE m == Run(i, step)
  <2>1. m = [x \in 1..step |-> arr[i + x - 1]]
    BY <1>2 DEF Run, Elem
  <2>2. \A x \in 1..step : i + x - 1 \in i..(end - 1) /\ i + x - 1 < i + step /\ i + x - 1 >= i
    BY <1>2, <1>3, <1>6
  <2>3. \A x \in 1..step : arr[i + x - 1] \in 1..nmemb
    BY <1>7, <2>2
  <2>4. m \in Seq(1..nmemb) /\ Len(m) = step
    BY <1>2, <2>1, <2>3
  <2>5. ASSUME NEW x \in 1..step, NEW y \in 1..step, x < y PROVE Before(m[x], m[y])
    <3>1. i + x - 1 < i + y - 1
      BY <1>2, <2>5
    <3>2. i + x - 1 \in Offsets /\ i + y - 1 \in Offsets
      BY <1>7, <2>2
    <3>3. Before(arr[i + x - 1], arr[i + y - 1])
      BY <1>5, <2>2, <3>1, <3>2 DEF RunOf
    <3>. HIDE DEF m
    <3>. QED
      BY <2>1, <3>3
  <2>6. E = {m[x] : x \in 1..step}
    <3>1. \A x \in i..(right - 1) : \E y \in 1..step : i + y - 1 = x
      <4>1. \A x \in i..(right - 1) : x - i + 1 \in 1..step /\ i + (x - i + 1) - 1 = x
        BY <1>2, <1>6
      <4>. QED
        BY <4>1
    <3>2. \A y \in 1..step : i + y - 1 \in i..(right - 1)
      BY <1>2, <1>6
    <3>. HIDE DEF m
    <3>. QED
      BY <2>1, <3>1, <3>2
  <2>. HIDE DEF m, E
  <2>7. InOrder(m, E, step)
    BY <2>4, <2>5, <2>6 DEF InOrder
  <2>. QED
    BY <2>7 DEF m
<1>9. InOrder(Run(right, n), F, n)
  <2>. DEFINE m == Run(right, n)
  <2>1. m = [x \in 1..n |-> arr[right + x - 1]]
    BY <1>2, <1>3 DEF Run, Elem
  <2>2. \A x \in 1..n : /\ right + x - 1 \in i..(end - 1)
                        /\ right + x - 1 < right + step /\ right + x - 1 >= right
    BY <1>2, <1>3, <1>6
  <2>3. \A x \in 1..n : arr[right + x - 1] \in 1..nmemb
    BY <1>7, <2>2
  <2>4. m \in Seq(1..nmemb) /\ Len(m) = n
    BY <1>3, <2>1, <2>3
  <2>5. ASSUME NEW x \in 1..n, NEW y \in 1..n, x < y PROVE Before(m[x], m[y])
    <3>1. right + x - 1 < right + y - 1
      BY <1>3, <2>5
    <3>2. right + x - 1 \in Offsets /\ right + y - 1 \in Offsets
      BY <1>7, <2>2
    <3>3. Before(arr[right + x - 1], arr[right + y - 1])
      BY <1>5, <2>2, <3>1, <3>2 DEF RunOf
    <3>. HIDE DEF m
    <3>. QED
      BY <2>1, <3>3
  <2>6. F = {m[x] : x \in 1..n}
    <3>1. \A x \in right..(right + n - 1) : \E y \in 1..n : right + y - 1 = x
      <4>1. \A x \in right..(right + n - 1) : x - right + 1 \in 1..n /\ right + (x - right + 1) - 1 = x
        BY <1>3
      <4>. QED
        BY <4>1
    <3>2. \A y \in 1..n : right + y - 1 \in right..(right + n - 1)
      BY <1>3
    <3>. HIDE DEF m
    <3>. QED
      BY <2>1, <3>1, <3>2
  <2>. HIDE DEF m, F
  <2>7. InOrder(m, F, n)
    BY <2>4, <2>5, <2>6 DEF InOrder
  <2>. QED
    BY <2>7 DEF m
<1>10. /\ \A e \in E : i < e /\ e <= right /\ e \in Nat
       /\ \A e \in F : right < e /\ e <= right + step /\ e \in Nat
  <2>1. \A x \in i..(right - 1) : x \in Offsets /\ i <= x /\ x < i + step /\ arr[x] \in Nat
    BY <1>2, <1>3, <1>6, <1>7
  <2>2. \A x \in right..(right + n - 1) : x \in Offsets /\ right <= x /\ x < right + step /\ arr[x] \in Nat
    BY <1>2, <1>3, <1>6, <1>7
  <2>. QED
    BY <1>5, <1>6, <2>1, <2>2 DEF RunOf
<1>11. InOrder(out, E \cup F, step + n)
  <2>. HIDE DEF E, F
  <2>1. \A e \in E, f \in F : e < f
    BY <1>3, <1>10
  <2>2. step \in Nat /\ n \in Nat
    BY <1>2, <1>3
  <2>. QED
    BY <1>2, <1>8, <1>9, <2>1, <2>2, MergeInOrder
<1>12. E \cup F = {arr[x] : x \in i..(end - 1)}
  <2>1. i..(end - 1) = i..(right - 1) \cup right..(right + n - 1)
    BY <1>2, <1>3, <1>6
  <2>. QED
    BY <2>1
<1>. HIDE DEF out, E, F
<1>13. /\ \A x \in 1..(step + n) : out[x] \in E \cup F /\ out[x] \in 1..nmemb
       /\ \A x, y \in 1..(step + n) : x < y => Before(out[x], out[y])
       /\ E \cup F = {out[x] : x \in 1..(step + n)}
  <2>1. /\ E \cup F = {out[x] : x \in 1..(step + n)}
        /\ \A x, y \in 1..(step + n) : x < y => Before(out[x], out[y])
    BY <1>11 DEF InOrder
  <2>. QED
    BY <1>7, <1>12, <2>1
<1>14. /\ \A x \in i..(end - 1) : arr'[x] = out[x - i + 1] /\ x - i + 1 \in 1..(step + n)
       /\ \A x \in Offsets : x \notin i..(end - 1) => arr'[x] = arr[x]
  <2>1. Cells(lo + i, step + n) = i..(end - 1)
    BY <1>2, <1>3, <1>6 DEF Cells
  <2>2. arr' = [x \in Offsets |-> IF x \in i..(end - 1) THEN out[x - lo - i + 1] ELSE arr[x]]
    BY <1>1, <2>1
  <2>3. \A x \in i..(end - 1) : x - lo - i + 1 = x - i + 1 /\ x - i + 1 \in 1..(step + n)
    BY <1>2, <1>3, <1>6
  <2>4. \A x \in i..(end - 1) : arr'[x] = out[x - lo - i + 1]
    BY <1>7, <2>2
  <2>. QED
    BY <2>2, <2>3, <2>4
<1>15. \A x \in 1..(step + n) : i + x - 1 \in i..(end - 1) /\ (i + x - 1) - i + 1 = x
  BY <1>2, <1>3, <1>6
<1>16. Rearranged
  <2>1. Cells(lo, len) = Offsets
    BY <1>2 DEF Cells
  <2>2. ASSUME NEW x \in Offsets PROVE \E y \in Offsets : arr'[x] = arr[y]
    <3>1. CASE x \in i..(end - 1)
      <4>1. arr'[x] \in E \cup F
        BY <1>13, <1>14, <3>1
      <4>. QED
        BY <1>7, <1>12, <4>1
    <3>2. CASE x \notin i..(end - 1)
      BY <1>14, <3>2
    <3>. QED
      BY <3>1, <3>2
  <2>3. ASSUME NEW y \in Offsets PROVE \E x \in Offsets : arr'[x] = arr[y]
    <3>1. CASE y \in i..(end - 1)
      <4>1. PICK x \in 1..(step + n) : arr[y] = out[x]
        BY <1>12, <1>13, <3>1
      <4>. DEFINE z == i + x - 1
      <4>2. z \in i..(end - 1) /\ z - i + 1 = x
        BY <1>15
      <4>. HIDE DEF z
      <4>3. arr'[z] = arr[y] /\ z \in Offsets
        BY <1>7, <1>14, <4>1, <4>2
      <4>. QED
        BY <4>3
    <3>2. CASE y \notin i..(end - 1)
      BY <1>14, <3>2
    <3>. QED
      BY <3>1, <3>2
  <2>4. arr' \in [Offsets -> 1..nmemb]
    <3>1. \A x \in Offsets : arr'[x] \in 1..nmemb
      BY <1>2, <2>2, Elements
    <3>. QED
      BY <1>1, <3>1
  <2>. QED
    BY <2>1, <2>2, <2>3, <2>4 DEF Rearranged
<1>17. \A x \in Offsets : x \in Nat /\ x < nmemb
  BY <1>2
<1>18. RunOf(arr', i, 2 * step)
  <2>1. \A x \in Offsets : i <= x /\ x < i + 2 * step => x \in i..(end - 1)
    BY <1>2, <1>3, <1>17
  <2>2. ASSUME NEW x \in i..(end - 1), NEW y \in i..(end - 1), x < y PROVE Before(arr'[x], arr'[y])
    <3>1. x - i + 1 < y - i + 1
      BY <1>2, <1>3, <2>2
    <3>. QED
      BY <1>13, <1>14, <3>1
  <2>3. ASSUME NEW x \in i..(end - 1) PROVE i < arr'[x] /\ arr'[x] <= i + 2 * step
    <3>1. arr'[x] \in E \cup F
      BY <1>13, <1>14
    <3>. QED
      BY <1>2, <1>3, <1>6, <1>10, <3>1
  <2>4. \A x, y \in Offsets : i <= x /\ x < y /\ y < i + 2 * step => x < i + 2 * step /\ i <= y
    BY <1>2, <1>17
  <2>. QED
    BY <2>1, <2>2, <2>3, <2>4 DEF RunOf
<1>19. ASSUME NEW b \in Nat, NEW m \in Nat, RunOf(arr, b, m), b + m <= i \/ i + 2 * step <= b
       PROVE  RunOf(arr', b, m)
  <2>1. \A x \in Offsets : b <= x /\ x < b + m => x \notin i..(end - 1)
    BY <1>2, <1>3, <1>17, <1>19
  <2>2. \A x \in Offsets : b <= x /\ x < b + m => arr'[x] = arr[x]
    BY <1>14, <2>1
  <2>3. \A x, y \in Offsets : b <= x /\ x < y /\ y < b + m => x < b + m /\ b <= y
    BY <1>17
  <2>. QED
    BY <1>19, <2>2, <2>3 DEF RunOf
<1>20. 2 * step \in Nat \ {0} /\ Starts(step) \subseteq Nat /\ Starts(2 * step) \subseteq Nat
  <2>1. 2 * step \in Nat \ {0}
    BY <1>2
  <2>. QED
    BY <1>2, <2>1, Multiples
<1>21. i' \in Starts(2 * step') /\ i' \in Nat
  BY <1>1, <1>2, <1>20, Multiples
<1>22. ASSUME NEW b \in Starts(2 * step'), b < i' PROVE RunOf(arr', b, 2 * step')
  <2>1. b \in Starts(2 * step) /\ b \in Nat /\ b < i + 2 * step /\ step' = step
    BY <1>1, <1>20, <1>22
  <2>2. ~ (i < b)
    <3>1. i < b => i + 2 * step <= b
      BY <1>2, <1>20, <2>1, Multiples
    <3>. QED
      BY <1>2, <2>1, <3>1
  <2>3. CASE b = i
    BY <1>18, <2>1, <2>3
  <2>4. CASE b < i
    <3>1. b + 2 * step <= i
      BY <1>2, <1>20, <2>1, <2>4, Multiples
    <3>2. RunOf(arr, b, 2 * step)
      BY <1>2, <2>1, <2>4
    <3>. QED
      BY <1>19, <1>20, <2>1, <3>1, <3>2
  <2>. QED
    BY <1>2, <2>1, <2>2, <2>3, <2>4
<1>23. ASSUME NEW b \in Starts(step'), b >= i' PROVE RunOf(arr', b, step')
  <2>1. b \in Starts(step) /\ b \in Nat /\ i + 2 * step <= b /\ step' = step /\ b >= i
    BY <1>1, <1>2, <1>20, <1>23
  <2>2. RunOf(arr, b, step)
    BY <1>2, <2>1
  <2>. QED
    BY <1>2, <1>19, <2>1, <2>2
<1>. QED
  BY <1>1, <1>2, <1>16, <1>21, <1>22, <1>23, MergeStep

-----------------------------------------------------------------------------
(* The flashsort *)

Placing == at \in {"seek", "move"}

(* What the flashsort knows of the cells while it moves elements. *)
LEMMA ClassCells ==
    ASSUME IInv, Placing
    PROVE  /\ TypeInv /\ MetricInv /\ SeekInv /\ Flashing
           /\ flash.l \in [Classes -> 0..nmemb] /\ flash.ll = ends
           /\ \A c \in Classes : /\ ends[c] \in 0..nmemb /\ ends[c + 1] \in 0..nmemb
                                 /\ flash.l[c] \in 0..nmemb
                                 /\ ends[c] <= flash.l[c] /\ flash.l[c] <= ends[c + 1]
                                 /\ filled[c] = flash.l[c]..(ends[c + 1] - 1)
           /\ \A c \in Classes : \A x \in filled[c] : class[arr[x]] = c /\ x \in AllFilled
           /\ \A x \in AllFilled : /\ x \in Offsets
                                   /\ \E c \in Classes : x \in filled[c]
           /\ IsFiniteSet(AllFilled) /\ flash.nmove = Cardinality(AllFilled)
           /\ nmemb \in Nat \ {0} /\ Offsets = 0..(nmemb - 1)
<1>1. TypeInv /\ MetricInv /\ SeekInv /\ Flashing
  BY DEF IInv, Flashing, Placing
<1>2. /\ nmemb \in Nat \ {0} /\ lsize \in Nat /\ Classes = 0..(lsize - 1)
      /\ flash.ll = ends /\ ends \in [0..lsize -> 0..nmemb]
  BY <1>1, Knowledge
<1>3. Offsets = 0..(nmemb - 1)
  BY <1>1, Elements
<1>4. /\ flash.l \in [Classes -> 0..nmemb]
      /\ \A c \in Classes : flash.ll[c] <= flash.l[c] /\ flash.l[c] <= flash.ll[c + 1]
      /\ \A c \in Classes : \A x \in filled[c] : class[arr[x]] = c
      /\ flash.nmove = Cardinality(AllFilled)
  BY <1>1 DEF SeekInv, Placing
<1>5. \A c \in Classes : c \in 0..lsize /\ c + 1 \in 0..lsize
  BY <1>2
<1>6. \A c \in Classes : /\ ends[c] \in 0..nmemb /\ ends[c + 1] \in 0..nmemb
                         /\ flash.l[c] \in 0..nmemb
                         /\ ends[c] <= flash.l[c] /\ flash.l[c] <= ends[c + 1]
  BY <1>2, <1>4, <1>5
<1>7. \A c \in Classes : filled[c] = {x \in Offsets : flash.l[c] <= x /\ x < ends[c + 1]}
  BY <1>2 DEF filled
<1>8. \A c \in Classes : filled[c] = flash.l[c]..(ends[c + 1] - 1)
  <2>1. ASSUME NEW c \in Classes PROVE filled[c] = flash.l[c]..(ends[c + 1] - 1)
    <3>1. flash.l[c] \in 0..nmemb /\ ends[c + 1] \in 0..nmemb /\ nmemb \in Nat
      BY <1>2, <1>6
    <3>2. {x \in Offsets : flash.l[c] <= x /\ x < ends[c + 1]} = flash.l[c]..(ends[c + 1] - 1)
      BY <1>3, <3>1
    <3>. QED
      BY <1>7, <3>2
  <2>. QED
    BY <2>1
<1>9. \A x \in AllFilled : x \in Offsets /\ \E c \in Classes : x \in filled[c]
  BY <1>7 DEF AllFilled
<1>10. \A c \in Classes : \A x \in filled[c] : x \in AllFilled
  BY DEF AllFilled
<1>11. IsFiniteSet(AllFilled)
  <2>1. IsFiniteSet(0..(nmemb - 1))
    BY <1>2, FS_Interval
  <2>2. AllFilled \in SUBSET (0..(nmemb - 1))
    BY <1>3, <1>9
  <2>. QED
    BY <2>1, <2>2, FS_Subset
<1>. QED
  BY <1>1, <1>2, <1>3, <1>4, <1>6, <1>8, <1>9, <1>10, <1>11

(* As long as a cell has not got its element, the class of the element     *)
(* that is there has room: its first cell has not got its element either.  *)
LEMMA Room ==
    ASSUME IInv, Placing, NEW a \in [Offsets -> 1..nmemb], ElementsOn(a, Offsets) = 1..nmemb,
           \A y \in AllFilled : a[y] = arr[y], NEW x \in Offsets, x \notin AllFilled,
           NEW k, k = class[a[x]]
    PROVE  /\ k \in Classes /\ ends[k] < flash.l[k]
           /\ ends[k] \in Offsets /\ ends[k] \notin AllFilled
<1>1. /\ TypeInv /\ MetricInv /\ Flashing
      /\ nmemb \in Nat \ {0} /\ Offsets = 0..(nmemb - 1)
      /\ \A c \in Classes : /\ ends[c] \in 0..nmemb /\ ends[c + 1] \in 0..nmemb
                            /\ flash.l[c] \in 0..nmemb
                            /\ ends[c] <= flash.l[c] /\ flash.l[c] <= ends[c + 1]
                            /\ filled[c] = flash.l[c]..(ends[c + 1] - 1)
      /\ \A c \in Classes : \A y \in filled[c] : class[arr[y]] = c /\ y \in AllFilled
      /\ \A y \in AllFilled : y \in Offsets /\ \E c \in Classes : y \in filled[c]
  BY ClassCells
<1>2. k \in Classes
  <2>1. class \in [1..nmemb -> Classes]
    BY <1>1, Knowledge
  <2>. QED
    BY <2>1
<1>. DEFINE M == Members(k)
            G == filled[k]
            g == [y \in G |-> a[y]]
<1>3. IsFiniteSet(M) /\ Cardinality(M) = ends[k + 1] - ends[k]
  <2>1. nmemb > 0 /\ Min(Metrics) < Max(Metrics)
    BY <1>1 DEF MetricInv
  <2>. QED
    BY <1>1, <1>2, <2>1, Distribution
<1>4. Cardinality(G) = ends[k + 1] - flash.l[k]
  <2>1. /\ ends[k + 1] \in Int /\ flash.l[k] \in Int /\ flash.l[k] <= ends[k + 1]
        /\ G = flash.l[k]..(ends[k + 1] - 1)
    BY <1>1, <1>2
  <2>2. Cardinality(flash.l[k]..(ends[k + 1] - 1)) =
            IF flash.l[k] > ends[k + 1] - 1 THEN 0 ELSE ends[k + 1] - 1 - flash.l[k] + 1
    <3>1. \A u, v \in Int : Cardinality(u..v) = IF u > v THEN 0 ELSE v - u + 1
      BY FS_Interval
    <3>2. ends[k + 1] - 1 \in Int
      BY <2>1
    <3>. QED
      BY <2>1, <3>1, <3>2
  <2>. HIDE DEF G
  <2>. QED
    BY <2>1, <2>2
<1>5. \A y, z \in Offsets : a[y] = a[z] => y = z
  <2>1. IsFiniteSet(Offsets) /\ Cardinality(Offsets) = Cardinality(1..nmemb)
    <3>1. IsFiniteSet(0..(nmemb - 1)) /\ Cardinality(0..(nmemb - 1)) = nmemb
      BY <1>1, FS_Interval
    <3>2. Cardinality(1..nmemb) = nmemb
      BY <1>1, FS_Interval
    <3>. QED
      BY <1>1, <3>1, <3>2
  <2>2. a \in Surjection(Offsets, 1..nmemb)
    BY DEF ElementsOn, Surjection
  <2>3. a \in Injection(Offsets, 1..nmemb)
    BY <2>1, <2>2, FS_SurjSameCardinalityImpliesInj
  <2>. QED
    BY <2>3 DEF Injection, IsInjective
<1>6. \A y \in G : y \in Offsets /\ y # x /\ a[y] \in M \ {a[x]}
  <2>1. \A y \in G : y \in AllFilled /\ y \in Offsets /\ class[arr[y]] = k
    BY <1>1, <1>2
  <2>2. \A y \in G : y # x /\ a[y] = arr[y] /\ a[y] \in 1..nmemb
    BY <2>1
  <2>. QED
    BY <1>5, <2>1, <2>2 DEF Members
<1>7. g \in Injection(G, M \ {a[x]})
  <2>1. \A y \in G : g[y] = a[y] /\ y \in Offsets /\ g[y] \in M \ {a[x]}
    BY <1>6
  <2>2. DOMAIN g = G /\ g = [y \in G |-> g[y]]
    OBVIOUS
  <2>. HIDE DEF M, G, g
  <2>3. g \in [G -> M \ {a[x]}]
    BY <2>1, <2>2
  <2>4. \A y, z \in G : g[y] = g[z] => y = z
    BY <1>5, <2>1
  <2>. QED
    BY <2>2, <2>3, <2>4 DEF Injection, IsInjective
<1>8. a[x] \in M
  BY DEF Members
<1>9. IsFiniteSet(M \ {a[x]}) /\ Cardinality(M \ {a[x]}) = Cardinality(M) - 1
  <2>. HIDE DEF M
  <2>. QED
    BY <1>3, <1>8, FS_RemoveElement
<1>10. Cardinality(G) <= Cardinality(M) - 1
  <2>. HIDE DEF M, G, g
  <2>. QED
    BY <1>7, <1>9, FS_Injection
<1>11. ends[k] < flash.l[k]
  <2>1. ends[k] \in Int /\ ends[k + 1] \in Int /\ flash.l[k] \in Int
    BY <1>1, <1>2
  <2>. HIDE DEF M, G
  <2>. QED
    BY <1>3, <1>4, <1>10, <2>1
<1>12. ends[k] \in Offsets /\ ends[k] < ends[k + 1]
  <2>1. /\ ends[k] \in 0..nmemb /\ ends[k + 1] \in 0..nmemb /\ flash.l[k] \in 0..nmemb
        /\ flash.l[k] <= ends[k + 1]
    BY <1>1, <1>2
  <2>2. nmemb \in Nat /\ Offsets = 0..(nmemb - 1)
    BY <1>1
  <2>. QED
    BY <1>11, <2>1, <2>2
<1>13. ends[k] \notin AllFilled
  <2>. SUFFICES ASSUME ends[k] \in AllFilled PROVE FALSE
    OBVIOUS
  <2>1. PICK c \in Classes : ends[k] \in filled[c]
    BY <1>1
  <2>a. /\ ends[c + 1] \in 0..nmemb /\ flash.l[c] \in 0..nmemb /\ ends[c] \in 0..nmemb
        /\ ends[c] <= flash.l[c] /\ ends[k] \in flash.l[c]..(ends[c + 1] - 1)
    BY <1>1, <2>1
  <2>2. ends[c] <= ends[k] /\ ends[k] < ends[c + 1] /\ flash.l[c] <= ends[k] /\ ends[k] \in Int
    BY <2>a
  <2>b. ends[k] <= ends[k] /\ ends[k] < ends[k + 1]
    BY <1>12, <2>2
  <2>c. TypeInv /\ MetricInv /\ Flashing
    BY <1>1
  <2>3. c = k
    BY <1>2, <2>2, <2>b, <2>c, Apart
  <2>. QED
    BY <1>1, <1>2, <1>11, <2>2, <2>3
<1>. QED
  BY <1>2, <1>11, <1>12, <1>13

(* What has to hold again while elements are moved. *)
LEMMA PlacingStep ==
    ASSUME TypeInv, CallInv, alg = "fsort", call = "fsort",
           nmemb > 1, Min(Metrics) < Max(Metrics),
           UNCHANGED << alg, exact, key, call, lo, len, i, step, root, max >>,
           arr' \in [Offsets -> 1..nmemb], at' \in {"seek", "move"},
           DOMAIN flash' = Fields, flash'.ll = ends,
           flash'.l \in [Classes -> 0..nmemb], flash'.j \in Offsets, flash'.k \in Classes,
           flash'.class = 0,
           \A c \in Classes : ends[c] <= flash'.l[c] /\ flash'.l[c] <= ends[c + 1],
           \A c \in Classes : \A x \in filled'[c] : class[arr'[x]] = c,
           \A x \in 0..(flash'.j - 1) : x \in AllFilled',
           flash'.nmove = Cardinality(AllFilled'),
           at' = "seek" => /\ flash'.k = class[arr'[flash'.j]]
                           /\ ElementsOn(arr', Offsets) = 1..nmemb,
           at' = "move" =>
               \/ /\ flash'.j = flash'.l[flash'.k] /\ flash'.j \in filled'[flash'.k]
                  /\ ElementsOn(arr', Offsets) = 1..nmemb
               \/ /\ flash'.j # flash'.l[flash'.k] /\ flash'.j \notin AllFilled'
                  /\ flash'.elem \in 1..nmemb
                  /\ ElementsOn([arr' EXCEPT ![flash'.j] = flash'.elem], Offsets) = 1..nmemb
    PROVE  IInv'
<1>1. /\ nmemb' = nmemb /\ Offsets' = Offsets /\ class' = class /\ ends' = ends
      /\ Classes' = Classes /\ Metrics' = Metrics
  BY Unchanged
<1>2. TypeInv' /\ CallInv'
  BY <1>1 DEF TypeInv, CallInv
<1>3. ElementsInv' /\ FlashInside'
  BY <1>1 DEF ElementsInv, FlashInside
<1>4. IsortInv' /\ HeapInv' /\ MsortInv' /\ ResultSorted' /\ ClassesInv'
  BY DEF IsortInv, HeapInv, MsortInv, ResultSorted, ClassesInv
<1>5. MetricInv'
  BY <1>1 DEF MetricInv
<1>6. SeekInv'
  BY <1>1 DEF SeekInv
<1>. QED
  BY <1>2, <1>3, <1>4, <1>5, <1>6 DEF IInv

(* What the cells of the classes depend on. *)
LEMMA SameCells ==
    ASSUME UNCHANGED << key, exact >>, flash'.l = flash.l, flash'.ll = flash.ll
    PROVE  filled' = filled /\ AllFilled' = AllFilled
<1>1. filled' = filled
  BY Unchanged DEF filled
<1>. QED
  BY <1>1, Unchanged DEF AllFilled

(* What the flashsort knows of its loop variables. *)
LEMMA Position ==
    ASSUME IInv, Placing
    PROVE  /\ TypeInv /\ CallInv /\ alg = "fsort" /\ call = "fsort"
           /\ nmemb > 1 /\ Min(Metrics) < Max(Metrics)
           /\ arr \in [Offsets -> 1..nmemb] /\ DOMAIN flash = Fields
           /\ flash.j \in Offsets /\ flash.k \in Classes /\ flash.class = 0
           /\ \A x \in 0..(flash.j - 1) : x \in AllFilled
           /\ class \in [1..nmemb -> Classes]
           /\ at = "seek" => /\ flash.k = class[arr[flash.j]]
                             /\ ElementsOn(arr, Offsets) = 1..nmemb
           /\ at = "move" =>
               \/ /\ flash.j = flash.l[flash.k] /\ flash.j \in filled[flash.k]
                  /\ ElementsOn(arr, Offsets) = 1..nmemb
               \/ /\ flash.j # flash.l[flash.k] /\ flash.j \notin AllFilled
                  /\ flash.elem \in 1..nmemb
                  /\ ElementsOn([arr EXCEPT ![flash.j] = flash.elem], Offsets) = 1..nmemb
<1>1. TypeInv /\ CallInv /\ MetricInv /\ SeekInv /\ Flashing /\ FlashInside
  BY DEF IInv, Flashing, Placing
<1>2. alg = "fsort" /\ call = "fsort"
  BY <1>1 DEF CallInv, Placing
<1>3. nmemb > 1 /\ Min(Metrics) < Max(Metrics)
  BY <1>1 DEF MetricInv
<1>4. class \in [1..nmemb -> Classes]
  BY <1>1, Knowledge
<1>5. arr \in [Offsets -> 1..nmemb] /\ DOMAIN flash = Fields
  BY <1>1 DEF TypeInv
<1>6. at = "seek" => ElementsOn(arr, Offsets) = 1..nmemb
  BY <1>1 DEF FlashInside
<1>. QED
  BY <1>1, <1>2, <1>3, <1>4, <1>5, <1>6 DEF SeekInv, Placing

(* An element that is taken out is not in its class yet; when the class of *)
(* the current one is full, so are all cells up to there.                  *)
LEMMA SeekStep == ASSUME IInv, Seek PROVE IInv'
<1>. DEFINE j == flash.j
            k == flash.k
<1>1. /\ at = "seek" /\ flash.nmove < nmemb - 1 /\ arr' = arr
      /\ UNCHANGED << alg, exact, key, call, lo, len, i, step, root, max >>
  BY DEF Seek, Only
<1>2. /\ TypeInv /\ CallInv /\ alg = "fsort" /\ call = "fsort"
      /\ nmemb > 1 /\ Min(Metrics) < Max(Metrics)
      /\ arr \in [Offsets -> 1..nmemb] /\ DOMAIN flash = Fields
      /\ j \in Offsets /\ k \in Classes /\ flash.class = 0
      /\ \A x \in 0..(j - 1) : x \in AllFilled
      /\ class \in [1..nmemb -> Classes]
      /\ k = class[arr[j]] /\ ElementsOn(arr, Offsets) = 1..nmemb
  BY <1>1, Position DEF Placing
<1>3. /\ flash.l \in [Classes -> 0..nmemb] /\ flash.ll = ends
      /\ \A c \in Classes : /\ ends[c] \in 0..nmemb /\ ends[c + 1] \in 0..nmemb
                            /\ flash.l[c] \in 0..nmemb
                            /\ ends[c] <= flash.l[c] /\ flash.l[c] <= ends[c + 1]
                            /\ filled[c] = flash.l[c]..(ends[c + 1] - 1)
      /\ \A c \in Classes : \A x \in filled[c] : class[arr[x]] = c /\ x \in AllFilled
      /\ \A x \in AllFilled : /\ x \in Offsets
                              /\ \E c \in Classes : x \in filled[c]
      /\ flash.nmove = Cardinality(AllFilled)
      /\ nmemb \in Nat \ {0} /\ Offsets = 0..(nmemb - 1)
  BY <1>1, ClassCells DEF Placing
<1>. HIDE DEF j, k
<1>4. CASE j < flash.l[k]
  <2>1. flash' = [flash EXCEPT !.elem = arr[j]] /\ at' = "move"
    BY <1>4 DEF Seek, j, k
  <2>2. /\ DOMAIN flash' = Fields /\ flash'.ll = ends /\ flash'.l = flash.l /\ flash'.j = j
        /\ flash'.k = k /\ flash'.class = 0 /\ flash'.nmove = flash.nmove /\ flash'.elem = arr[j]
    BY <1>2, <1>3, <2>1 DEF Fields, j, k
  <2>3. filled' = filled /\ AllFilled' = AllFilled
    BY <1>1, <1>3, <2>2, SameCells
  <2>4. j \notin AllFilled
    <3>. SUFFICES ASSUME j \in AllFilled PROVE FALSE
      OBVIOUS
    <3>1. PICK c \in Classes : j \in filled[c]
      BY <1>3
    <3>2. c = k
      BY <1>2, <1>3, <3>1
    <3>3. j \in flash.l[k]..(ends[k + 1] - 1)
      BY <1>2, <1>3, <3>1, <3>2
    <3>4. flash.l[k] \in 0..nmemb /\ nmemb \in Nat
      BY <1>2, <1>3
    <3>. QED
      BY <1>4, <3>3, <3>4
  <2>5. [arr EXCEPT ![j] = arr[j]] = arr /\ arr[j] \in 1..nmemb /\ j # flash.l[k]
    BY <1>2, <1>3, <1>4
  <2>6. /\ flash'.j # flash'.l[flash'.k] /\ flash'.j \notin AllFilled' /\ flash'.elem \in 1..nmemb
        /\ ElementsOn([arr' EXCEPT ![flash'.j] = flash'.elem], Offsets) = 1..nmemb
    BY <1>1, <1>2, <2>2, <2>3, <2>4, <2>5
  <2>7. /\ \A c \in Classes : ends[c] <= flash'.l[c] /\ flash'.l[c] <= ends[c + 1]
        /\ \A c \in Classes : \A x \in filled'[c] : class[arr'[x]] = c
        /\ \A x \in 0..(flash'.j - 1) : x \in AllFilled'
        /\ flash'.nmove = Cardinality(AllFilled')
    BY <1>1, <1>2, <1>3, <2>2, <2>3
  <2>8. /\ flash'.l \in [Classes -> 0..nmemb] /\ flash'.j \in Offsets /\ flash'.k \in Classes
    BY <1>2, <1>3, <2>2
  <2>. QED
    BY <1>1, <1>2, <2>1, <2>2, <2>6, <2>7, <2>8, PlacingStep
<1>5. CASE ~ (j < flash.l[k])
  <2>1. j \in AllFilled
    <3>. SUFFICES ASSUME j \notin AllFilled PROVE FALSE
      OBVIOUS
    <3>1. /\ ends[k] < flash.l[k] /\ ends[k] \in Offsets /\ ends[k] \notin AllFilled
      BY <1>1, <1>2, Room DEF Placing
    <3>2. ends[k] \in Int /\ j \in Int /\ flash.l[k] \in Int
      BY <1>2, <1>3
    <3>3. ends[k] \in 0..(j - 1)
      BY <1>3, <1>5, <3>1, <3>2
    <3>. QED
      BY <1>2, <3>1, <3>3
  <2>2. \A x \in 0..j : x \in AllFilled
    BY <1>2, <1>3, <2>1
  <2>3. j + 1 # nmemb
    <3>. SUFFICES ASSUME j + 1 = nmemb PROVE FALSE
      OBVIOUS
    <3>1. Offsets = 0..j
      <4>1. j \in Int /\ j = nmemb - 1
        <5>1. j \in 0..(nmemb - 1) /\ nmemb \in Nat
          BY <1>2, <1>3
        <5>. QED
          BY <5>1
      <4>. QED
        BY <1>3, <4>1
    <3>2. AllFilled = 0..(nmemb - 1)
      BY <1>3, <2>2, <3>1
    <3>3. Cardinality(0..(nmemb - 1)) = nmemb
      BY <1>3, FS_Interval
    <3>. QED
      BY <1>1, <1>3, <3>2, <3>3
  <2>4. flash' = [flash EXCEPT !.j = @ + 1, !.k = Class(arr[j + 1])] /\ at' = "seek"
    BY <1>1, <1>5, <2>3 DEF Seek, j, k
  <2>5. j + 1 \in Offsets /\ (j + 1) - 1 = j
    BY <1>2, <1>3, <2>3
  <2>6. Class(arr[j + 1]) = class[arr[j + 1]] /\ class[arr[j + 1]] \in Classes
    BY <1>2, <2>5 DEF class
  <2>7. /\ DOMAIN flash' = Fields /\ flash'.ll = ends /\ flash'.l = flash.l /\ flash'.j = j + 1
        /\ flash'.k = class[arr[j + 1]] /\ flash'.class = 0 /\ flash'.nmove = flash.nmove
    BY <1>2, <1>3, <2>4, <2>6 DEF Fields, j
  <2>8. filled' = filled /\ AllFilled' = AllFilled
    BY <1>1, <1>3, <2>7, SameCells
  <2>. QED
    BY <1>1, <1>2, <1>3, <2>2, <2>4, <2>5, <2>6, <2>7, <2>8, PlacingStep
<1>. QED
  BY <1>4, <1>5

(* The element in hand finds room in its class. *)
LEMMA MoveStep == ASSUME IInv, Move PROVE IInv'
<1>. DEFINE j == flash.j
            k == flash.k
<1>1. /\ at = "move"
      /\ UNCHANGED << alg, exact, key, call, lo, len, i, step, root, max >>
  BY DEF Move, Only
<1>2. /\ TypeInv /\ CallInv /\ alg = "fsort" /\ call = "fsort"
      /\ nmemb > 1 /\ Min(Metrics) < Max(Metrics)
      /\ arr \in [Offsets -> 1..nmemb] /\ DOMAIN flash = Fields
      /\ j \in Offsets /\ k \in Classes /\ flash.class = 0
      /\ \A x \in 0..(j - 1) : x \in AllFilled
      /\ class \in [1..nmemb -> Classes]
      /\ \/ /\ j = flash.l[k] /\ j \in filled[k]
            /\ ElementsOn(arr, Offsets) = 1..nmemb
         \/ /\ j # flash.l[k] /\ j \notin AllFilled
            /\ flash.elem \in 1..nmemb
            /\ ElementsOn([arr EXCEPT ![j] = flash.elem], Offsets) = 1..nmemb
  BY <1>1, Position DEF Placing
<1>3. /\ flash.l \in [Classes -> 0..nmemb] /\ flash.ll = ends
      /\ \A c \in Classes : /\ ends[c] \in 0..nmemb /\ ends[c + 1] \in 0..nmemb
                            /\ flash.l[c] \in 0..nmemb
                            /\ ends[c] <= flash.l[c] /\ flash.l[c] <= ends[c + 1]
                            /\ filled[c] = flash.l[c]..(ends[c + 1] - 1)
      /\ \A c \in Classes : \A x \in filled[c] : class[arr[x]] = c /\ x \in AllFilled
      /\ \A x \in AllFilled : /\ x \in Offsets
                              /\ \E c \in Classes : x \in filled[c]
      /\ IsFiniteSet(AllFilled) /\ flash.nmove = Cardinality(AllFilled)
      /\ nmemb \in Nat \ {0} /\ Offsets = 0..(nmemb - 1)
      /\ MetricInv /\ Flashing
  BY <1>1, ClassCells DEF Placing
<1>. HIDE DEF j, k
<1>4. CASE j = flash.l[k]
  <2>1. arr' = arr /\ flash' = flash /\ at' = "seek"
    BY <1>4 DEF Move, Only, j, k
  <2>2. j \in filled[k] /\ ElementsOn(arr, Offsets) = 1..nmemb
    BY <1>2, <1>4
  <2>3. k = class[arr[j]]
    BY <1>2, <1>3, <2>2
  <2>4. filled' = filled /\ AllFilled' = AllFilled
    BY <1>1, <2>1, SameCells
  <2>5. flash'.j = j /\ flash'.k = k
    BY <2>1 DEF j, k
  <2>6. /\ \A c \in Classes : ends[c] <= flash'.l[c] /\ flash'.l[c] <= ends[c + 1]
        /\ \A c \in Classes : \A x \in filled'[c] : class[arr'[x]] = c
        /\ \A x \in 0..(flash'.j - 1) : x \in AllFilled'
        /\ flash'.nmove = Cardinality(AllFilled')
    BY <1>2, <1>3, <2>1, <2>4, <2>5
  <2>7. /\ DOMAIN flash' = Fields /\ flash'.ll = ends /\ flash'.class = 0
        /\ flash'.l \in [Classes -> 0..nmemb] /\ flash'.j \in Offsets /\ flash'.k \in Classes
        /\ flash'.k = class[arr'[flash'.j]] /\ ElementsOn(arr', Offsets) = 1..nmemb
        /\ arr' \in [Offsets -> 1..nmemb]
    BY <1>2, <1>3, <2>1, <2>2, <2>3, <2>5
  <2>. QED
    BY <1>1, <1>2, <2>1, <2>6, <2>7, PlacingStep
<1>5. CASE j # flash.l[k]
  <2>. DEFINE elem == flash.elem
              a == [arr EXCEPT ![j] = elem]
              d == class[elem]
              x == flash.l[d] - 1
  <2>1. /\ j \notin AllFilled /\ elem \in 1..nmemb /\ ElementsOn(a, Offsets) = 1..nmemb
    BY <1>2, <1>5
  <2>2. a \in [Offsets -> 1..nmemb] /\ a[j] = elem /\ \A y \in AllFilled : a[y] = arr[y]
    BY <1>2, <1>3, <2>1
  <2>3. d \in Classes /\ ends[d] < flash.l[d]
    <3>. HIDE DEF a, elem, d
    <3>1. d = class[a[j]]
      BY <2>2 DEF d
    <3>. QED
      BY <1>1, <1>2, <2>1, <2>2, <3>1, Room DEF Placing
  <2>4. Class(elem) = d
    BY <2>1 DEF class
  <2>. HIDE DEF d, elem
  <2>5. /\ flash.l[d] \in 0..nmemb /\ ends[d] \in 0..nmemb /\ ends[d + 1] \in 0..nmemb
        /\ flash.l[d] <= ends[d + 1] /\ filled[d] = flash.l[d]..(ends[d + 1] - 1)
    BY <1>3, <2>3
  <2>6. x \in Offsets /\ ~ (x < 0) /\ ends[d] <= x /\ x < ends[d + 1] /\ x \in 0..nmemb
        /\ x + 1 = flash.l[d]
    BY <1>3, <2>3, <2>5
  <2>7. /\ arr' = [arr EXCEPT ![x] = elem]
        /\ flash' = [flash EXCEPT !.elem = arr[x], !.k = d, !.l[d] = x, !.nmove = @ + 1]
        /\ at' = "move"
    BY <1>1, <1>5, <2>4, <2>6 DEF Move, j, k, elem
  <2>. HIDE DEF x
  <2>8. /\ DOMAIN flash' = Fields /\ flash'.ll = ends /\ flash'.j = j /\ flash'.k = d
        /\ flash'.class = 0 /\ flash'.nmove = flash.nmove + 1 /\ flash'.elem = arr[x]
        /\ flash'.l = [flash.l EXCEPT ![d] = x]
    BY <1>2, <1>3, <2>7 DEF Fields, j
  <2>9. flash'.l \in [Classes -> 0..nmemb] /\ flash'.l[d] = x
        /\ \A c \in Classes : c # d => flash'.l[c] = flash.l[c]
    BY <1>3, <2>3, <2>6, <2>8
  <2>10. x \notin AllFilled
    <3>. SUFFICES ASSUME x \in AllFilled PROVE FALSE
      OBVIOUS
    <3>1. PICK c \in Classes : x \in filled[c]
      BY <1>3
    <3>2. /\ ends[c] <= flash.l[c] /\ x \in flash.l[c]..(ends[c + 1] - 1)
          /\ ends[c] \in 0..nmemb /\ flash.l[c] \in 0..nmemb /\ ends[c + 1] \in 0..nmemb
      BY <1>3, <3>1
    <3>3. ends[c] <= x /\ x < ends[c + 1] /\ x \in Int /\ flash.l[c] <= x
      BY <1>3, <3>2
    <3>4. c = d
      BY <1>2, <1>3, <2>3, <2>6, <3>3, Apart
    <3>. QED
      BY <1>3, <2>5, <2>6, <3>3, <3>4
  <2>11. \A c \in Classes : filled'[c] = IF c = d THEN filled[d] \cup {x} ELSE filled[c]
    <3>1. filled' = [c \in Classes |-> {y \in Offsets : flash'.l[c] <= y /\ y < flash'.ll[c + 1]}]
      BY <1>1, Unchanged DEF filled
    <3>2. \A c \in Classes : filled[c] = {y \in Offsets : flash.l[c] <= y /\ y < ends[c + 1]}
      BY <1>3 DEF filled
    <3>3. \A c \in Classes : filled'[c] = {y \in Offsets : flash'.l[c] <= y /\ y < ends[c + 1]}
      BY <2>8, <3>1
    <3>4. {y \in Offsets : x <= y /\ y < ends[d + 1]}
              = {y \in Offsets : flash.l[d] <= y /\ y < ends[d + 1]} \cup {x}
      BY <1>3, <2>5, <2>6
    <3>5. filled'[d] = filled[d] \cup {x}
      BY <2>3, <2>9, <3>2, <3>3, <3>4
    <3>6. \A c \in Classes : c # d => filled'[c] = filled[c]
      BY <2>9, <3>2, <3>3
    <3>. QED
      BY <3>5, <3>6
  <2>12. AllFilled' = AllFilled \cup {x}
    <3>1. AllFilled' = UNION {filled'[c] : c \in Classes}
      BY <1>1, Unchanged DEF AllFilled
    <3>2. AllFilled = UNION {filled[c] : c \in Classes}
      BY DEF AllFilled
    <3>3. \A y : y \in AllFilled' <=> \E c \in Classes : y \in filled'[c]
      BY <3>1
    <3>4. \A y : y \in AllFilled <=> \E c \in Classes : y \in filled[c]
      BY <3>2
    <3>. QED
      BY <2>3, <2>11, <3>3, <3>4
  <2>13. flash'.nmove = Cardinality(AllFilled')
    <3>1. Cardinality(AllFilled \cup {x}) = Cardinality(AllFilled) + 1
      BY <1>3, <2>10, FS_AddElement
    <3>. QED
      BY <1>3, <2>8, <2>12, <3>1
  <2>14. /\ arr' \in [Offsets -> 1..nmemb] /\ arr'[x] = elem
         /\ \A y \in Offsets : y # x => arr'[y] = arr[y]
    BY <1>2, <2>1, <2>6, <2>7 DEF elem
  <2>15. \A c \in Classes : \A y \in filled'[c] : class[arr'[y]] = c
    <3>1. ASSUME NEW c \in Classes, NEW y \in filled'[c] PROVE class[arr'[y]] = c
      <4>1. CASE y = x /\ c = d
        BY <2>14, <4>1 DEF d
      <4>2. CASE y \in filled[c]
        <5>1. y \in AllFilled /\ y \in Offsets /\ class[arr[y]] = c
          BY <1>3, <4>2
        <5>2. y # x
          BY <2>10, <5>1
        <5>. QED
          BY <2>14, <5>1, <5>2
      <4>. QED
        BY <2>11, <3>1, <4>1, <4>2
    <3>. QED
      BY <3>1
  <2>16. \A c \in Classes : ends[c] <= flash'.l[c] /\ flash'.l[c] <= ends[c + 1]
    <3>1. x <= ends[d + 1]
      BY <1>3, <2>5, <2>6
    <3>. QED
      BY <1>3, <2>6, <2>9, <3>1
  <2>17. \A y \in 0..(flash'.j - 1) : y \in AllFilled'
    BY <1>2, <2>8, <2>12
  <2>18. CASE x = j
    <3>1. arr' = a
      BY <2>7, <2>18
    <3>2. j \in filled'[d]
      BY <2>3, <2>11, <2>18
    <3>3. flash'.j = flash'.l[flash'.k] /\ flash'.j \in filled'[flash'.k]
      BY <2>8, <2>9, <2>18, <3>2
    <3>4. ElementsOn(arr', Offsets) = 1..nmemb
      BY <2>1, <3>1
    <3>5. flash'.j \in Offsets /\ flash'.k \in Classes
      BY <1>2, <2>3, <2>8
    <3>. QED
      BY <1>1, <1>2, <2>7, <2>8, <2>9, <2>13, <2>14, <2>15, <2>16, <2>17, <3>3, <3>4, <3>5,
         PlacingStep
  <2>19. CASE x # j
    <3>. DEFINE b == [arr' EXCEPT ![j] = arr[x]]
    <3>1. /\ \A y \in Offsets : y # x /\ y # j => a[y] = arr[y] /\ b[y] = arr[y]
          /\ a[j] = elem /\ a[x] = arr[x] /\ b[j] = arr[x] /\ b[x] = elem
      BY <1>2, <2>6, <2>14, <2>19
    <3>2. \A y \in Offsets : \E z \in Offsets : b[z] = a[y]
      <4>. HIDE DEF a, b
      <4>. QED
        BY <1>2, <2>6, <3>1
    <3>3. \A y \in Offsets : \E z \in Offsets : a[z] = b[y]
      <4>. HIDE DEF a, b
      <4>. QED
        BY <1>2, <2>6, <3>1
    <3>4. ElementsOn(b, Offsets) = ElementsOn(a, Offsets)
      <4>. HIDE DEF a, b
      <4>. QED
        BY <3>2, <3>3 DEF ElementsOn
    <3>5. j \notin AllFilled'
      BY <2>1, <2>12, <2>19
    <3>6. arr[x] \in 1..nmemb
      BY <1>2, <2>6
    <3>7. /\ flash'.j # flash'.l[flash'.k] /\ flash'.j \notin AllFilled'
          /\ flash'.elem \in 1..nmemb
          /\ ElementsOn([arr' EXCEPT ![flash'.j] = flash'.elem], Offsets) = 1..nmemb
      <4>1. b = [arr' EXCEPT ![flash'.j] = flash'.elem]
        BY <2>8
      <4>. HIDE DEF a, b
      <4>. QED
        BY <2>1, <2>8, <2>9, <2>19, <3>4, <3>5, <3>6, <4>1
    <3>8. flash'.j \in Offsets /\ flash'.k \in Classes
      BY <1>2, <2>3, <2>8
    <3>. HIDE DEF a, b
    <3>. QED
      BY <1>1, <1>2, <2>7, <2>8, <2>9, <2>13, <2>14, <2>15, <2>16, <2>17, <3>7, <3>8,
         PlacingStep
  <2>. QED
    BY <2>18, <2>19
<1>. QED
  BY <1>4, <1>5

(* Once all elements but one have been moved, the last one is in its class *)
(* as well.                                                                *)
LEMMA PlacedStep == ASSUME IInv, Placed PROVE IInv'
<1>1. /\ at = "seek" /\ flash.nmove >= nmemb - 1 /\ at' = "classes" /\ arr' = arr /\ flash' = flash
      /\ UNCHANGED << alg, exact, key, call, lo, len, i, step, root, max >>
  BY DEF Placed, Only
<1>2. /\ TypeInv /\ CallInv /\ alg = "fsort" /\ call = "fsort"
      /\ nmemb > 1 /\ Min(Metrics) < Max(Metrics)
      /\ arr \in [Offsets -> 1..nmemb] /\ flash.class = 0
      /\ class \in [1..nmemb -> Classes] /\ ElementsOn(arr, Offsets) = 1..nmemb
  BY <1>1, Position DEF Placing
<1>3. /\ flash.ll = ends
      /\ \A c \in Classes : /\ ends[c] \in 0..nmemb /\ ends[c + 1] \in 0..nmemb
                            /\ flash.l[c] \in 0..nmemb
                            /\ ends[c] <= flash.l[c] /\ flash.l[c] <= ends[c + 1]
                            /\ filled[c] = flash.l[c]..(ends[c + 1] - 1)
      /\ \A c \in Classes : \A x \in filled[c] : class[arr[x]] = c /\ x \in AllFilled
      /\ \A x \in AllFilled : /\ x \in Offsets
                              /\ \E c \in Classes : x \in filled[c]
      /\ IsFiniteSet(AllFilled) /\ flash.nmove = Cardinality(AllFilled)
      /\ nmemb \in Nat \ {0} /\ Offsets = 0..(nmemb - 1)
  BY <1>1, ClassCells DEF Placing
<1>4. ASSUME NEW x \in Offsets PROVE ends[class[arr[x]]] <= x /\ x < ends[class[arr[x]] + 1]
  <2>1. CASE x \in AllFilled
    <3>1. PICK c \in Classes : x \in filled[c]
      BY <1>3, <2>1
    <3>2. class[arr[x]] = c
      BY <1>3, <3>1
    <3>3. /\ ends[c] \in 0..nmemb /\ ends[c + 1] \in 0..nmemb /\ flash.l[c] \in 0..nmemb
          /\ ends[c] <= flash.l[c] /\ x \in flash.l[c]..(ends[c + 1] - 1)
      BY <1>3, <3>1
    <3>4. ends[c] <= x /\ x < ends[c + 1]
      BY <1>3, <3>3
    <3>. QED
      BY <3>2, <3>4
  <2>2. CASE x \notin AllFilled
    <3>. DEFINE k == class[arr[x]]
                p == ends[k]
    <3>1. k \in Classes /\ p < flash.l[k] /\ p \in Offsets /\ p \notin AllFilled
      BY <1>1, <1>2, <2>2, Room DEF Placing
    <3>2. p = x
      <4>. HIDE DEF p, k
      <4>. SUFFICES ASSUME p # x PROVE FALSE
        OBVIOUS
      <4>1. IsFiniteSet(Offsets) /\ Cardinality(Offsets) = nmemb
        <5>1. IsFiniteSet(0..(nmemb - 1)) /\ Cardinality(0..(nmemb - 1)) = nmemb
          BY <1>3, FS_Interval
        <5>. QED
          BY <1>3, <5>1
      <4>2. IsFiniteSet(Offsets \ {p}) /\ Cardinality(Offsets \ {p}) = nmemb - 1
        BY <3>1, <4>1, FS_RemoveElement
      <4>3. /\ IsFiniteSet((Offsets \ {p}) \ {x})
            /\ Cardinality((Offsets \ {p}) \ {x}) = Cardinality(Offsets \ {p}) - 1
        BY <4>2, FS_RemoveElement
      <4>4. AllFilled \in SUBSET ((Offsets \ {p}) \ {x})
        BY <1>3, <2>2, <3>1
      <4>5. Cardinality(AllFilled) <= Cardinality((Offsets \ {p}) \ {x})
        BY <4>3, <4>4, FS_Subset
      <4>6. Cardinality(AllFilled) \in Nat
        BY <1>3, FS_CardinalityType
      <4>. QED
        BY <1>1, <1>3, <4>2, <4>3, <4>5, <4>6
    <3>3. x < flash.l[k] /\ flash.l[k] <= ends[k + 1]
          /\ flash.l[k] \in 0..nmemb /\ ends[k + 1] \in 0..nmemb /\ x \in Int
      BY <1>3, <3>1, <3>2
    <3>4. x < ends[k + 1]
      BY <1>3, <3>3
    <3>5. ends[k] <= x
      BY <1>3, <3>2, <3>3
    <3>. QED
      BY <3>4, <3>5
  <2>. QED
    BY <2>1, <2>2
<1>5. /\ nmemb' = nmemb /\ Offsets' = Offsets /\ class' = class /\ ends' = ends /\ lsize' = lsize
      /\ Metrics' = Metrics
  BY <1>1, Unchanged
<1>6. TypeInv' /\ CallInv' /\ ElementsInv'
  BY <1>1, <1>2, <1>5 DEF TypeInv, CallInv, ElementsInv
<1>7. IsortInv' /\ HeapInv' /\ MsortInv' /\ ResultSorted' /\ SeekInv' /\ FlashInside'
  BY <1>1 DEF IsortInv, HeapInv, MsortInv, ResultSorted, SeekInv, FlashInside
<1>8. MetricInv'
  BY <1>1, <1>2, <1>3, <1>5 DEF MetricInv
<1>9. ClassesInv'
  <2>1. lsize \in Nat /\ ends[0] = 0
    BY <1>1, Knowledge, ClassCells DEF Placing
  <2>2. flash'.class = 0 /\ 0 \in 0..lsize /\ flash'.ll = ends /\ Done' = 0
    BY <1>1, <1>2, <1>3, <2>1 DEF Done
  <2>3. SortedOn(arr, key, 0..(ends[0] - 1))
    BY <2>1 DEF SortedOn
  <2>. QED
    BY <1>1, <1>2, <1>4, <1>5, <2>2, <2>3 DEF ClassesInv
<1>. QED
  BY <1>6, <1>7, <1>8, <1>9 DEF IInv

LEMMA SortClassStep == ASSUME IInv, SortClass PROVE IInv'
<1>. DEFINE k == flash.class
<1>1. /\ call = "fsort" /\ at = "classes" /\ k < lsize /\ arr' = arr
      /\ flash' = [flash EXCEPT !.class = @ + 1]
      /\ UNCHANGED << alg, exact, key, i, step, root, max >>
  BY DEF SortClass, Only
<1>2. TypeInv /\ CallInv /\ MetricInv /\ ClassesInv /\ ElementsInv /\ Flashing /\ alg = "fsort"
  BY <1>1 DEF IInv, Flashing, CallInv
<1>3. /\ nmemb \in Nat \ {0} /\ lsize \in Nat /\ Classes = 0..(lsize - 1)
      /\ flash.ll = ends /\ ends \in [0..lsize -> 0..nmemb]
      /\ \A c, d \in 0..lsize : c <= d => ends[c] <= ends[d]
      /\ nmemb > 1 /\ Min(Metrics) < Max(Metrics) /\ DOMAIN flash = Fields
      /\ arr \in [Offsets -> 1..nmemb] /\ Offsets = 0..(nmemb - 1)
  BY <1>2, Knowledge, Elements DEF MetricInv, TypeInv
<1>4. k \in 0..(lsize - 1) /\ k \in Classes /\ k \in 0..lsize /\ k + 1 \in 0..lsize
  <2>1. k \in 0..lsize
    BY <1>1, <1>2 DEF ClassesInv
  <2>. QED
    BY <1>1, <1>3, <2>1
<1>5. ends[k] \in 0..nmemb /\ ends[k + 1] \in 0..nmemb /\ ends[k] <= ends[k + 1]
  BY <1>3, <1>4
<1>6. /\ \A x \in Offsets : ends[class[arr[x]]] <= x /\ x < ends[class[arr[x]] + 1]
      /\ SortedOn(arr, key, 0..(ends[k] - 1))
  BY <1>1, <1>2, <1>3 DEF ClassesInv, Done
<1>7. ElementsOn(arr, Offsets) = 1..nmemb
  BY <1>1, <1>2 DEF ElementsInv
<1>8. /\ flash'.class = k + 1 /\ flash'.ll = ends /\ DOMAIN flash' = Fields
  BY <1>1, <1>3 DEF Fields
<1>9. /\ nmemb' = nmemb /\ Offsets' = Offsets /\ class' = class /\ ends' = ends /\ lsize' = lsize
      /\ Metrics' = Metrics
  BY <1>1, Unchanged
<1>. DEFINE n == ends[k + 1] - ends[k]
<1>10. /\ n > 1 => /\ call' = IF n > 7 THEN "hsort" ELSE "isort"
                   /\ lo' = ends[k] /\ len' = n /\ at' = "enter"
       /\ ~ (n > 1) => UNCHANGED << call, lo, len, at >>
  BY <1>3 DEF SortClass
<1>. HIDE DEF k
<1>11. CASE n > 1
  <2>1. call' \in {"hsort", "isort"} /\ lo' = ends[k] /\ len' = n /\ at' = "enter"
    BY <1>10, <1>11
  <2>2. lo' \in Nat /\ len' \in Nat /\ lo' + len' <= nmemb /\ lo' + len' = ends[k + 1]
    <3>1. ends[k] \in Nat /\ n \in Nat /\ ends[k] + n = ends[k + 1] /\ ends[k + 1] <= nmemb
      BY <1>3, <1>5, <1>11
    <3>. QED
      BY <2>1, <3>1
  <2>3. TypeInv'
    BY <1>1, <1>2, <1>8, <1>9, <2>1, <2>2 DEF TypeInv, Algorithms
  <2>4. CallInv' /\ ElementsInv'
    BY <1>1, <1>2, <1>7, <1>9, <2>1 DEF CallInv, ElementsInv
  <2>5. IsortInv' /\ HeapInv' /\ MsortInv' /\ ResultSorted' /\ SeekInv' /\ FlashInside'
    BY <2>1 DEF IsortInv, HeapInv, MsortInv, ResultSorted, SeekInv, FlashInside
  <2>6. MetricInv'
    BY <1>3, <1>8, <1>9 DEF MetricInv
  <2>7. ClassesInv'
    <3>1. (k + 1) - 1 = k /\ k + 1 > 0
      BY <1>4
    <3>2. Done' = k
      BY <1>8, <2>1, <3>1 DEF Done
    <3>3. lo' = flash'.ll[flash'.class - 1] /\ lo' + len' = flash'.ll[flash'.class]
      BY <1>8, <2>1, <2>2, <3>1
    <3>4. flash'.class \in 0..lsize /\ flash'.class > 0
      BY <1>4, <1>8, <3>1
    <3>. QED
      BY <1>1, <1>6, <1>8, <1>9, <3>2, <3>3, <3>4 DEF ClassesInv
  <2>. QED
    BY <2>3, <2>4, <2>5, <2>6, <2>7 DEF IInv
<1>12. CASE ~ (n > 1)
  <2>1. UNCHANGED << call, lo, len, at >>
    BY <1>10, <1>12
  <2>2. TypeInv' /\ CallInv' /\ ElementsInv'
    BY <1>1, <1>2, <1>7, <1>8, <1>9, <2>1 DEF TypeInv, CallInv, ElementsInv
  <2>3. IsortInv' /\ HeapInv' /\ MsortInv' /\ ResultSorted' /\ SeekInv' /\ FlashInside'
    BY <1>1, <2>1 DEF IsortInv, HeapInv, MsortInv, ResultSorted, SeekInv, FlashInside
  <2>4. MetricInv'
    BY <1>3, <1>8, <1>9 DEF MetricInv
  <2>5. SortedOn(arr, key, ends[k]..(ends[k + 1] - 1))
    <3>a. ends[k] \in Int /\ ends[k + 1] \in Int /\ ends[k + 1] - ends[k] <= 1
      BY <1>3, <1>5, <1>12
    <3>1. \A x, y \in ends[k]..(ends[k + 1] - 1) : ~ (x < y)
      BY <3>a
    <3>. QED
      BY <3>1 DEF SortedOn
  <2>6. SortedOn(arr, key, 0..(ends[k + 1] - 1))
    BY <1>2, <1>4, <1>6, <2>5, ClassesInOrder
  <2>7. ClassesInv'
    <3>1. Done' = k + 1
      BY <1>1, <1>8, <2>1 DEF Done
    <3>. QED
      BY <1>1, <1>2, <1>4, <1>6, <1>8, <1>9, <2>1, <2>6, <3>1 DEF ClassesInv, CallInv
  <2>. QED
    BY <2>2, <2>3, <2>4, <2>7 DEF IInv
<1>. QED
  BY <1>11, <1>12

LEMMA FsortReturnStep == ASSUME IInv, FsortReturn PROVE IInv'
<1>1. /\ call = "fsort" /\ at = "classes" /\ flash.class = lsize /\ Return
      /\ UNCHANGED << alg, exact, key, arr, flash, i, step, root, max >>
  BY DEF FsortReturn, Only
<1>2. TypeInv /\ CallInv /\ MetricInv /\ ClassesInv /\ Flashing /\ alg = "fsort"
  BY <1>1 DEF IInv, Flashing, CallInv
<1>3. lo = 0 /\ len = nmemb /\ nmemb \in Nat
  BY <1>1, <1>2, Elements DEF CallInv
<1>4. ends[lsize] = nmemb /\ flash.ll = ends
  BY <1>2, Knowledge
<1>5. SortedOn(arr, key, 0..(nmemb - 1))
  BY <1>1, <1>2, <1>4 DEF ClassesInv, Done
<1>6. Cells(lo, len) = 0..(nmemb - 1)
  BY <1>3 DEF Cells
<1>. QED
  BY <1>1, <1>2, <1>5, <1>6, ReturnStep

(* The least and the greatest element *)
LEMMA Extremes ==
    ASSUME TypeInv, nmemb > 0
    PROVE  /\ Least \in Offsets /\ Greatest \in Offsets
           /\ \A x \in Offsets : key[arr[Least]] <= key[arr[x]] /\ key[arr[x]] <= key[arr[Greatest]]
<1>1. nmemb \in Nat /\ Offsets = 0..(nmemb - 1)
  BY Elements
<1>2. \A x \in Offsets : arr[x] \in 1..nmemb /\ key[arr[x]] \in Nat
  BY Elements
<1>3. \A x, y \in Offsets : Less(arr[x], arr[y]) <=> key[arr[x]] < key[arr[y]]
  BY <1>2, Comparison
<1>. DEFINE E == {arr[x] : x \in Offsets}
            A == {x \in Offsets : \A y \in Offsets : ~ Less(arr[y], arr[x])}
            B == {x \in Offsets : \A y \in Offsets : ~ Less(arr[x], arr[y])}
<1>4. E \in SUBSET (1..nmemb) /\ E # {}
  <2>1. 0 \in Offsets
    BY <1>1
  <2>. QED
    BY <1>2, <2>1
<1>5. A # {}
  <2>1. \E e \in E : \A f \in E : key[e] <= key[f]
    <3>. HIDE DEF E
    <3>. QED
      BY <1>4, LeastKey
  <2>2. PICK x \in Offsets : \A y \in Offsets : key[arr[x]] <= key[arr[y]]
    BY <2>1
  <2>. QED
    BY <1>2, <1>3, <2>2
<1>6. B # {}
  <2>1. \E e \in E : \A f \in E : key[f] <= key[e]
    <3>. HIDE DEF E
    <3>. QED
      BY <1>4, GreatestKey
  <2>2. PICK x \in Offsets : \A y \in Offsets : key[arr[y]] <= key[arr[x]]
    BY <2>1
  <2>. QED
    BY <1>2, <1>3, <2>2
<1>7. ASSUME NEW S \in SUBSET Offsets, S # {} PROVE First(S) \in S
  <2>1. S \in SUBSET Nat
    BY <1>1
  <2>2. \E x \in S : \A y \in S : x <= y
    BY <1>7, <2>1, LeastOf
  <2>. QED
    BY <2>2 DEF First
<1>8. Least \in A /\ Greatest \in B
  <2>1. A \in SUBSET Offsets /\ B \in SUBSET Offsets
    OBVIOUS
  <2>2. Least = First(A) /\ Greatest = First(B)
    BY DEF Least, Greatest
  <2>. HIDE DEF A, B
  <2>. QED
    BY <1>5, <1>6, <1>7, <2>1, <2>2
<1>. QED
  BY <1>2, <1>3, <1>8

LEMMA FsortEnterStep == ASSUME IInv, FsortEnter PROVE IInv'
<1>1. /\ call = "fsort" /\ at = "enter" /\ len > 1
      /\ UNCHANGED << alg, exact, key, i, step, root, max >>
  BY DEF FsortEnter, Only
<1>2. TypeInv /\ CallInv /\ ElementsInv /\ alg = "fsort" /\ lo = 0 /\ len = nmemb
  BY <1>1 DEF IInv, CallInv
<1>3. nmemb \in Nat /\ nmemb > 1 /\ Offsets = 0..(nmemb - 1) /\ ElementsOn(arr, Offsets) = 1..nmemb
      /\ arr \in [Offsets -> 1..nmemb]
  BY <1>1, <1>2, Elements DEF ElementsInv, TypeInv
<1>4. \A x \in Offsets : arr[x] \in 1..nmemb /\ key[arr[x]] \in Nat
  BY <1>2, Elements
<1>5. /\ Least \in Offsets /\ Greatest \in Offsets
      /\ \A x \in Offsets : key[arr[Least]] <= key[arr[x]] /\ key[arr[x]] <= key[arr[Greatest]]
  BY <1>2, <1>3, Extremes
<1>6. /\ nmemb' = nmemb /\ Offsets' = Offsets /\ class' = class /\ ends' = ends /\ lsize' = lsize
      /\ Classes' = Classes
  BY <1>1, Unchanged
<1>7. CASE Compare(key, arr[Least], arr[Greatest]) = 0
  <2>1. Return /\ UNCHANGED << arr, flash >>
    BY <1>7 DEF FsortEnter, Only
  <2>2. SortedOn(arr, key, Cells(lo, len))
    <3>1. Cells(lo, len) = Offsets
      BY <1>2, <1>3 DEF Cells
    <3>2. key[arr[Least]] = key[arr[Greatest]]
      BY <1>4, <1>5, <1>7 DEF Compare
    <3>3. \A x, y \in Offsets : key[arr[x]] = key[arr[y]]
      BY <1>4, <1>5, <3>2
    <3>. QED
      BY <1>4, <3>1, <3>3 DEF SortedOn, Compare
  <2>. QED
    BY <1>1, <1>2, <2>1, <2>2, ReturnStep DEF Sorting
<1>8. CASE /\ Compare(key, arr[Least], arr[Greatest]) # 0
           /\ Metric(arr[Least]) = Metric(arr[Greatest])
  <2>1. at' = "outside" /\ UNCHANGED << arr, call, lo, len, flash >>
    BY <1>8 DEF FsortEnter, Only
  <2>2. TypeInv' /\ CallInv' /\ ElementsInv'
    BY <1>1, <1>2, <1>3, <1>6, <2>1 DEF TypeInv, CallInv, ElementsInv
  <2>3. /\ IsortInv' /\ HeapInv' /\ MsortInv' /\ ResultSorted' /\ SeekInv'
    BY <2>1 DEF IsortInv, HeapInv, MsortInv, ResultSorted, SeekInv
  <2>4. MetricInv' /\ ClassesInv'
    BY <1>1, <1>2, <2>1 DEF MetricInv, ClassesInv, Flashing
  <2>5. FlashInside'
    <3>1. Least' = Least /\ Greatest' = Greatest
      BY <1>1, <1>6, <2>1 DEF Least, Greatest, Less
    <3>. QED
      BY <1>1, <1>8, <2>1, <3>1 DEF FlashInside, Metric
  <2>. QED
    BY <2>2, <2>3, <2>4, <2>5 DEF IInv
<1>9. CASE /\ Compare(key, arr[Least], arr[Greatest]) # 0
           /\ Metric(arr[Least]) # Metric(arr[Greatest])
  <2>1. /\ flash' = [NoFlash EXCEPT
                       !.l  = [k \in 0..(lsize - 1) |-> UpTo(k)],
                       !.ll = [k \in 0..lsize |-> IF k = 0 THEN 0 ELSE UpTo(k - 1)],
                       !.k  = lsize - 1]
        /\ arr' = SwapIn(arr, 0, Greatest)
        /\ at' = "seek" /\ UNCHANGED << call, lo, len >>
    BY <1>9 DEF FsortEnter, Only
  <2>2. lsize \in Nat /\ lsize >= 2 /\ Classes = 0..(lsize - 1)
    BY <1>2, NumberOfClasses DEF Classes
  <2>3. /\ DOMAIN flash' = Fields /\ flash'.l = [k \in Classes |-> UpTo(k)]
        /\ flash'.ll = [k \in 0..lsize |-> IF k = 0 THEN 0 ELSE UpTo(k - 1)]
        /\ flash'.j = 0 /\ flash'.k = lsize - 1 /\ flash'.class = 0 /\ flash'.nmove = 0
    BY <2>1, <2>2 DEF NoFlash, Fields
  <2>4. flash'.ll = ends
    <3>1. ASSUME NEW k \in 0..lsize, k # 0 PROVE UpTo(k - 1) = upTo[k - 1]
      <4>1. k - 1 \in Classes
        BY <2>2, <3>1
      <4>. QED
        BY <4>1 DEF upTo
    <3>2. ends = [k \in 0..lsize |-> IF k = 0 THEN 0 ELSE UpTo(k - 1)]
      BY <3>1 DEF ends
    <3>. QED
      BY <2>3, <3>2
  <2>5. /\ \A e \in 1..nmemb : Min(Metrics) <= Metric(e) /\ Metric(e) <= Max(Metrics)
        /\ \A e \in 1..nmemb : Metric(e) \in Nat
        /\ Min(Metrics) \in Nat /\ Max(Metrics) \in Nat
    BY <1>2, <1>3, MetricBounds, MetricType
  <2>6. Min(Metrics) < Max(Metrics)
    BY <1>4, <1>5, <1>9, <2>5
  <2>7. Metric(arr[Greatest]) = Max(Metrics)
    <3>1. \A e \in 1..nmemb : Metric(e) <= Metric(arr[Greatest])
      <4>1. \A e \in 1..nmemb : \E x \in Offsets : arr[x] = e
        BY <1>3 DEF ElementsOn
      <4>2. \A e \in 1..nmemb : key[e] <= key[arr[Greatest]]
        BY <1>5, <4>1
      <4>. QED
        BY <1>2, <1>4, <1>5, <4>2, MetricType
    <3>2. PICK e \in 1..nmemb : Metric(e) = Max(Metrics)
      <4>1. Max(Metrics) \in Metrics
        BY <1>2, <1>3, MetricBounds
      <4>. QED
        BY <4>1 DEF Metrics
    <3>. QED
      BY <1>4, <1>5, <2>5, <3>1, <3>2
  <2>8. /\ ends \in [0..lsize -> 0..nmemb] /\ \A c \in Classes : ends[c + 1] = UpTo(c)
        /\ \A c, d \in 0..lsize : c <= d => ends[c] <= ends[d]
        /\ class[arr[Greatest]] = lsize - 1
    BY <1>2, <1>3, <1>4, <1>5, <2>6, <2>7, Distribution, ClassType
  <2>9. \A c \in Classes : c \in 0..lsize /\ c + 1 \in 0..lsize /\ c <= c + 1
    BY <2>2
  <2>10. \A c \in Classes : /\ flash'.l[c] = ends[c + 1] /\ ends[c + 1] \in 0..nmemb
                            /\ ends[c] <= ends[c + 1]
    BY <2>3, <2>8, <2>9
  <2>11. flash'.l \in [Classes -> 0..nmemb]
    BY <2>3, <2>8, <2>10
  <2>12. \A c \in Classes : filled'[c] = {}
    <3>1. filled' = [c \in Classes |-> {y \in Offsets : flash'.l[c] <= y /\ y < flash'.ll[c + 1]}]
      BY <1>6 DEF filled
    <3>2. \A c \in Classes : filled'[c] = {y \in Offsets : ends[c + 1] <= y /\ y < ends[c + 1]}
      BY <2>4, <2>10, <3>1
    <3>3. ASSUME NEW c \in Classes, NEW y \in Offsets
          PROVE  ~ (ends[c + 1] <= y /\ y < ends[c + 1])
      <4>1. ends[c + 1] \in Int /\ y \in Int
        BY <1>3, <2>10
      <4>. QED
        BY <4>1
    <3>4. ASSUME NEW c \in Classes PROVE filled'[c] = {}
      <4>1. filled'[c] = {y \in Offsets : ends[c + 1] <= y /\ y < ends[c + 1]}
        BY <3>2
      <4>. QED
        BY <3>3, <4>1
    <3>. QED
      BY <3>4
  <2>13. AllFilled' = {} /\ flash'.nmove = Cardinality(AllFilled')
    <3>1. AllFilled' = {}
      BY <1>6, <2>12 DEF AllFilled
    <3>. QED
      BY <2>3, <3>1, FS_EmptySet
  <2>14. /\ 0 \in Offsets
         /\ arr' = [arr EXCEPT ![0] = arr[Greatest], ![Greatest] = arr[0]]
    BY <1>3, <2>1 DEF SwapIn
  <2>15. /\ arr' \in [Offsets -> 1..nmemb] /\ arr'[0] = arr[Greatest] /\ arr'[Greatest] = arr[0]
         /\ \A x \in Offsets : x # 0 /\ x # Greatest => arr'[x] = arr[x]
    BY <1>3, <1>4, <1>5, <2>14
  <2>16. ElementsOn(arr', Offsets) = 1..nmemb
    <3>1. \A x \in Offsets : \E y \in Offsets : arr'[y] = arr[x]
      BY <1>5, <2>14, <2>15
    <3>2. \A e \in 1..nmemb : \E x \in Offsets : arr[x] = e
      BY <1>3 DEF ElementsOn
    <3>3. \A e \in 1..nmemb : \E x \in Offsets : arr'[x] = e
      BY <3>1, <3>2
    <3>4. \A x \in Offsets : arr'[x] \in 1..nmemb
      BY <2>15
    <3>. QED
      BY <3>3, <3>4 DEF ElementsOn
  <2>17. /\ \A c \in Classes : ends[c] <= flash'.l[c] /\ flash'.l[c] <= ends[c + 1]
         /\ \A c \in Classes : \A x \in filled'[c] : class[arr'[x]] = c
         /\ \A x \in 0..(flash'.j - 1) : x \in AllFilled'
    BY <2>3, <2>10, <2>12
  <2>18. /\ flash'.j \in Offsets /\ flash'.k \in Classes /\ flash'.k = class[arr'[flash'.j]]
    BY <2>2, <2>3, <2>8, <2>14, <2>15
  <2>. QED
    BY <1>1, <1>2, <1>3, <2>1, <2>3, <2>4, <2>6, <2>11, <2>13, <2>15, <2>16, <2>17, <2>18,
       PlacingStep
<1>. QED
  BY <1>7, <1>8, <1>9

-----------------------------------------------------------------------------
(* The theorems *)

LEMMA InitIInv == ASSUME Init PROVE IInv
<1>1. /\ alg \in Algorithms /\ exact \in BOOLEAN /\ key \in Inputs
      /\ arr = [x \in Offsets |-> x + 1] /\ call = alg /\ lo = 0 /\ len = nmemb
      /\ at = "enter" /\ i = 0 /\ step = 1 /\ root = 0 /\ max = 0 /\ flash = NoFlash
  BY DEF Init, Algorithms
<1>2. key \in Seq(Nat) /\ nmemb \in Nat /\ Offsets = 0..(nmemb - 1)
  <2>1. key \in Seq(Nat)
    BY <1>1, InputsAssumption
  <2>. QED
    BY <2>1 DEF nmemb, Offsets
<1>3. arr \in [Offsets -> 1..nmemb]
  BY <1>1, <1>2
<1>4. TypeInv
  <2>1. DOMAIN flash = Fields
    BY <1>1 DEF NoFlash, Fields
  <2>. QED
    BY <1>1, <1>2, <1>3, <2>1 DEF TypeInv
<1>5. CallInv
  BY <1>1 DEF CallInv
<1>6. ElementsInv
  <2>1. ASSUME NEW e \in 1..nmemb PROVE \E x \in Offsets : arr[x] = e
    <3>1. e - 1 \in Offsets /\ (e - 1) + 1 = e
      BY <1>2
    <3>. QED
      BY <1>1, <3>1
  <2>. QED
    BY <1>3, <2>1 DEF ElementsInv, ElementsOn
<1>7. IsortInv /\ HeapInv /\ MsortInv /\ SeekInv /\ ResultSorted /\ FlashInside
  BY <1>1 DEF IsortInv, HeapInv, MsortInv, SeekInv, ResultSorted, FlashInside
<1>8. MetricInv /\ ClassesInv
  BY <1>1 DEF MetricInv, ClassesInv, Flashing
<1>. QED
  BY <1>4, <1>5, <1>6, <1>7, <1>8 DEF IInv

LEMMA StutterStep == ASSUME IInv, UNCHANGED vars PROVE IInv'
<1>1. UNCHANGED << alg, exact, key, arr, call, lo, len, at, i, step, root, max, flash >>
  BY DEF vars
<1>2. /\ nmemb' = nmemb /\ Offsets' = Offsets /\ class' = class /\ ends' = ends /\ lsize' = lsize
      /\ Classes' = Classes /\ Metrics' = Metrics /\ parent' = parent
  BY <1>1, Unchanged
<1>3. TypeInv' /\ CallInv' /\ ElementsInv' /\ IsortInv'
  BY <1>1, <1>2 DEF IInv, TypeInv, CallInv, ElementsInv, IsortInv
<1>4. keyAt' = keyAt /\ From' = From
  BY <1>1 DEF keyAt, From, Elem
<1>5. HeapInv'
  BY <1>1, <1>2, <1>4 DEF IInv, HeapInv
<1>6. MsortInv'
  BY <1>1, <1>2 DEF IInv, MsortInv, RunDone, Before
<1>7. MetricInv' /\ ClassesInv'
  <2>1. Done' = Done
    BY <1>1 DEF Done
  <2>. QED
    BY <1>1, <1>2, <2>1 DEF IInv, MetricInv, ClassesInv, Flashing
<1>8. SeekInv'
  <2>1. filled' = filled /\ AllFilled' = AllFilled
    BY <1>1, SameCells
  <2>. QED
    BY <1>1, <1>2, <2>1 DEF IInv, SeekInv
<1>9. ResultSorted' /\ FlashInside'
  <2>1. Least' = Least /\ Greatest' = Greatest
    BY <1>1, <1>2 DEF Least, Greatest, Less
  <2>. QED
    BY <1>1, <1>2, <2>1 DEF IInv, ResultSorted, FlashInside, Metric
<1>. QED
  BY <1>3, <1>5, <1>6, <1>7, <1>8, <1>9 DEF IInv

LEMMA NextIInv == ASSUME IInv, [Next]_vars PROVE IInv'
<1>1. CASE UNCHANGED vars
  BY <1>1, StutterStep
<1>2. CASE ReturnAtOnce \/ IsortEnter \/ Insert \/ IsortReturn
  BY <1>2, ReturnAtOnceStep, IsortEnterStep, InsertStep, IsortReturnStep
<1>3. CASE HeapEnter \/ SiftDown \/ HeapifyNext \/ Extract \/ HeapReturn
  BY <1>3, HeapEnterStep, SiftDownStep, HeapifyNextStep, ExtractStep, HeapReturnStep
<1>4. CASE MsortEnter \/ MergeRuns \/ MsortNextStep \/ MsortReturn
  BY <1>4, MsortEnterStep, MergeRunsStep, MsortNextStepStep, MsortReturnStep
<1>5. CASE FsortEnter \/ Seek \/ Move \/ Placed \/ SortClass \/ FsortReturn
  BY <1>5, FsortEnterStep, SeekStep, MoveStep, PlacedStep, SortClassStep, FsortReturnStep
<1>. QED
  BY <1>1, <1>2, <1>3, <1>4, <1>5 DEF Next

(* The invariant of all sorts holds for every array, with any keys, and    *)
(* for metrics of any coarseness.                                          *)
THEOREM Invariant == Spec => []IInv
<1>1. Init => IInv
  BY InitIInv
<1>2. IInv /\ [Next]_vars => IInv'
  BY NextIInv
<1>. QED
  BY <1>1, <1>2, PTL DEF Spec

(* isort_r, hsort_r, ternary_hsort_r, msort_r and fsort_f return the       *)
(* elements of the caller, in order; isort_r and msort_r keep the order of *)
(* elements that compare equal.                                            *)
THEOREM Sorted == Spec => []ResultSorted
<1>1. IInv => ResultSorted
  BY DEF IInv
<1>. QED
  BY <1>1, Invariant, PTL

(* The cycles and the search of fsort_f stay within the array: an element  *)
(* always finds room in its class, and no element is lost.  Only a metric  *)
(* that cannot tell the least element from the greatest leads outside.     *)
THEOREM Inside == Spec => []FlashInside
<1>1. IInv => FlashInside
  BY DEF IInv
<1>. QED
  BY <1>1, Invariant, PTL
=============================================================================
