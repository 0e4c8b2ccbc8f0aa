----------------------------- MODULE PsortProofs -----------------------------
(***************************************************************************)
(* Proofs about Psort for every array length, every number of threads and  *)
(* every compare function: the type invariant, that the rounds of the      *)
(* merge tree never mix, that the threads never access the array or the    *)
(* descriptors in conflict, and that Psort implements SortSpec.            *)
(*                                                                         *)
(* The inductive invariant has three layers.  ControlInv speaks about the  *)
(* control states, the rounds and the barrier only, and is inductive by    *)
(* itself.  GeometryInv says which part of the array each descriptor       *)
(* stands for, in terms of the offsets the partition loop chose; a step of *)
(* one thread preserves it because ControlInv keeps the other threads in   *)
(* the same round.  ContentInv says what is in the segments.               *)
(***************************************************************************)
EXTENDS Psort, FiniteSetTheorems, SequenceTheorems, TLAPS

-----------------------------------------------------------------------------
(* Layer 1: control *)

PCs == {"none", "start", "sort", "barrier", "wait", "merge", "copy", "retire",
        "done"}

ControlType ==
    /\ mpc \in {"enter", "partition", "create", "join", "finish",
                "returned", "exited"}
    /\ part \in [i : Threads, ptr : Int, rest_len : Int, rest_count : Int]
    /\ pc \in [Threads -> PCs]
    /\ step \in [Threads -> Nat \ {0}]
    /\ arrived \subseteq Threads
    /\ released \subseteq Threads

(* What the control state of the calling thread says about the others. *)
MainInv ==
    /\ mpc \in {"enter", "partition"} => \A t \in Threads : pc[t] = "none"
    /\ mpc \in {"enter", "partition"} => part.rest_count = thread_count - part.i
    /\ mpc = "create" => \A t \in Threads : pc[t] = "none" <=> t >= part.i
    /\ mpc = "join" => \A t \in Threads : pc[t] # "none"
    /\ mpc = "join" => \A t \in Threads : t < part.i => pc[t] = "done"
    /\ mpc = "finish" => \A t \in Threads : pc[t] = "done"
    /\ mpc = "returned" => \A t \in Threads : pc[t] \in {"none", "done"}

(* What the control state of a thread says about its round. *)
RoundInv ==
    \A t \in Threads :
        /\ pc[t] \in {"none", "start", "sort"} => step[t] = 1
        /\ pc[t] \in {"barrier", "wait", "merge", "copy", "retire"} =>
               step[t] < thread_count
        /\ pc[t] = "done" => step[t] >= thread_count
        /\ step[t] < 2 * thread_count
        /\ pc[t] \in {"copy", "retire"} => Merges(t)

BarrierInv ==
    /\ arrived \cap released = {}
    /\ \A t \in Threads : t \in arrived \cup released <=> pc[t] = "wait"

ControlInv ==
    ControlType /\ MainInv /\ RoundInv /\ BarrierInv /\ BarrierLockstep

-----------------------------------------------------------------------------
(* Layer 2: the geometry of the segments *)

(* The offsets at which the partition loop cut the array. *)
IsCut(O) ==
    /\ O \in [0 .. thread_count -> 0 .. nmemb]
    /\ O[0] = 0 /\ O[thread_count] = nmemb
    /\ \A a, b \in 0 .. thread_count : a <= b => O[a] <= O[b]

Upto(x) == IF x < thread_count THEN x ELSE thread_count

(* Segment k covers the pieces k .. k + w - 1 of the cut. *)
Covers(O, k, w) ==
    segments[k] = [base |-> O[k], nmemb |-> O[Upto(k + w)] - O[k]]

(* The segments a thread owns in its round: before the barrier its own, if *)
(* its index is a multiple of the distance, behind the barrier also the    *)
(* one it is going to merge.                                               *)
OwnsInv(O, t) ==
    /\ ~Behind(t) /\ t % step[t] = 0 => Covers(O, t, step[t])
    /\ Behind(t) /\ t % (2 * step[t]) = 0 =>
           IF pc[t] = "retire" THEN Covers(O, t, 2 * step[t])
           ELSE /\ Covers(O, t, step[t])
                /\ Other(t) < thread_count => Covers(O, Other(t), step[t])

(* The locals of a thread agree with the descriptors it read. *)
LocalsInv(t) ==
    /\ pc[t] = "sort" => own[t] = segments[t]
    /\ pc[t] = "copy" =>
           /\ mrg[t].left = segments[t].base /\ mrg[t].m = segments[t].nmemb
           /\ mrg[t].right = segments[Other(t)].base
           /\ mrg[t].n = segments[Other(t)].nmemb
           /\ mrg[t].i \in 0 .. mrg[t].m /\ mrg[t].j \in 0 .. mrg[t].n
           /\ Len(out[t]) = mrg[t].i + mrg[t].j
    /\ pc[t] # "copy" => out[t] = <<>>

(* While the partition loop runs, the descriptors it has filled in are     *)
(* consecutive and what is left of the array begins at ptr.                *)
PartitionInv ==
    LET i == part.i IN
    mpc = "partition" =>
        /\ part.ptr \in 0 .. nmemb /\ part.rest_len = nmemb - part.ptr
        /\ part.rest_count = thread_count - i
        /\ i = 0 => part.ptr = 0
        /\ i > 0 => segments[0].base = 0 /\ SegmentEnd(i - 1) = part.ptr
        /\ \A k \in Threads : k < i =>
               segments[k].base >= 0 /\ segments[k].nmemb >= 0
        /\ \A k \in Threads : k + 1 < i => SegmentEnd(k) = segments[k + 1].base
        /\ \A k, l \in Threads : k < l /\ l < i => SegmentEnd(k) <= segments[l].base
        /\ \A k \in Threads : k < i => SegmentEnd(k) <= part.ptr

Geometry == 
    mpc \notin {"enter", "partition"} /\ nmemb > 1 =>
        \E O \in [0 .. thread_count -> 0 .. nmemb] :
            IsCut(O) /\ \A t \in Threads : OwnsInv(O, t)

EnterInv ==
    /\ mpc = "enter" => part = [i |-> 0, ptr |-> 0, rest_len |-> nmemb,
                                rest_count |-> thread_count]
    /\ mpc = "returned" /\ nmemb <= 1 => \A t \in Threads : pc[t] = "none"
    /\ mpc \notin {"enter", "returned"} => nmemb > 1

GeometryInv ==
    EnterInv /\ PartitionInv /\ Geometry /\ \A t \in Threads : LocalsInv(t)

(* The inductive invariant *)
IInv == TypeOK /\ ControlInv /\ GeometryInv

-----------------------------------------------------------------------------
(* Facts about numbers and threads *)

USE DEF Threads

(* As many threads as there are at all are all the threads. *)
LEMMA AllThreads ==
    ASSUME NEW S \in SUBSET Threads, Cardinality(S) = thread_count
    PROVE  S = Threads
<1>1. IsFiniteSet(Threads) /\ Cardinality(Threads) = thread_count
  BY FS_Interval, PsortAssumption
<1>. QED
  BY <1>1, FS_Subset

(* A multiple of 2s is one of s, and its distance to the next multiple of  *)
(* 2s is 2s; t + s is a multiple of s but not of 2s.                       *)
LEMMA Multiple ==
    ASSUME NEW x \in Nat, NEW d \in Nat \ {0}, x % d = 0
    PROVE  \E q \in Nat : x = d * q
<1>1. x \div d \in Nat
  OBVIOUS
<1>2. x = d * (x \div d) + (x % d)
  OBVIOUS
<1>. QED
  BY <1>1, <1>2

LEMMA Remainder ==
    ASSUME NEW q \in Nat, NEW d \in Nat \ {0}, NEW r \in 0 .. d - 1
    PROVE  (d * q + r) % d = r
  OBVIOUS

LEMMA Halves ==
    ASSUME NEW t \in Nat, NEW s \in Nat \ {0}, t % (2 * s) = 0
    PROVE  t % s = 0 /\ (t + s) % s = 0 /\ (t + s) % (2 * s) # 0
<1>1. PICK q \in Nat : t = (2 * s) * q
  BY Multiple
<1>2. t = s * (2 * q) + 0 /\ t + s = s * (2 * q + 1) + 0 /\ 2 * q + 1 \in Nat
  BY <1>1
<1>3. (t + s) % (2 * s) = s
  BY <1>1, Remainder
<1>4. t % s = 0
  BY <1>2, Remainder
<1>5. (t + s) % s = 0
  BY <1>2, Remainder
<1>. QED
  BY <1>3, <1>4, <1>5

LEMMA Apart ==
    ASSUME NEW t \in Nat, NEW u \in Nat, NEW d \in Nat \ {0},
           t % d = 0, u % d = 0, t < u
    PROVE  t + d <= u
<1>1. PICK q \in Nat : t = d * q
  BY Multiple
<1>2. PICK r \in Nat : u = d * r
  BY Multiple
<1>3. q + 1 <= r
  <2>1. SUFFICES ASSUME r <= q PROVE FALSE
    OBVIOUS
  <2>2. d * r <= d * q
    BY <2>1
  <2>. QED
    BY <2>2, <1>1, <1>2
<1>4. d * (q + 1) <= d * r
  BY <1>3
<1>. QED
  BY <1>4, <1>1, <1>2

-----------------------------------------------------------------------------
(* The control layer *)

LEMMA ControlInit == Init => ControlInv
  BY PsortAssumption DEF Init, ControlInv, ControlType, MainInv, RoundInv,
     BarrierInv, BarrierLockstep, Behind, PCs

(* Every step preserves the control layer. *)
LEMMA ControlStep == ControlInv /\ [Next]_vars => ControlInv'
<1>. SUFFICES ASSUME ControlInv, [Next]_vars PROVE ControlInv'
  OBVIOUS
<1>. USE PsortAssumption DEF ControlInv, ControlType, PCs
<1>1. ASSUME MainStep PROVE ControlInv'
  <2>1. CASE PsortEnter
    <3>1. ControlType'
      BY <2>1 DEF PsortEnter, barrierVars, ControlType
    <3>2. MainInv'
      BY <2>1 DEF PsortEnter, barrierVars, MainInv
    <3>3. RoundInv'
      BY <2>1 DEF PsortEnter, barrierVars, RoundInv, Merges, Other
    <3>4. BarrierInv'
      BY <2>1 DEF PsortEnter, barrierVars, BarrierInv
    <3>5. BarrierLockstep'
      BY <2>1 DEF PsortEnter, barrierVars, BarrierLockstep, Behind
    <3>. QED
      BY <3>1, <3>2, <3>3, <3>4, <3>5
  <2>2. CASE Partition
    <3>a. part.rest_count \in Nat \ {0} /\ part.rest_len \in Int
      <4>1. part.rest_count = thread_count - part.i /\ part.i \in Threads
        BY <2>2 DEF Partition, MainInv
      <4>. QED
        BY <4>1
    <3>b. LenPerThread \in Int
      BY <3>a DEF LenPerThread
    <3>c. /\ UNCHANGED <<pc, step, arrived, released>>
          /\ \A t \in Threads : pc[t] = "none"
          /\ part.i \in Threads /\ part.rest_count = thread_count - part.i
      BY <2>2 DEF Partition, barrierVars, MainInv
    <3>d. ASSUME part.i + 1 = thread_count PROVE ControlType' /\ MainInv'
      <4>1. mpc' = "create" /\ part' = [part EXCEPT !.i = 0]
        BY <2>2, <3>d DEF Partition
      <4>a. /\ 0 \in Threads
            /\ part \in [i : Threads, ptr : Int, rest_len : Int, rest_count : Int]
        BY PsortAssumption
      <4>2. part' \in [i : Threads, ptr : Int, rest_len : Int, rest_count : Int]
        BY ONLY <4>1, <4>a
      <4>3. mpc' = "create" /\ part'.i = 0 /\ \A t \in Threads : pc'[t] = "none"
        BY <3>c, <4>1
      <4>4. MainInv'
        BY <4>3 DEF MainInv
      <4>5. ControlType'
        BY <3>c, <4>1, <4>2 DEF ControlType
      <4>. QED
        BY <4>4, <4>5
    <3>e. ASSUME part.i + 1 # thread_count PROVE ControlType' /\ MainInv'
      <4>1. /\ mpc' = "partition"
            /\ part' = [i |-> part.i + 1, ptr |-> part.ptr + LenPerThread,
                        rest_len |-> part.rest_len - LenPerThread,
                        rest_count |-> part.rest_count - 1]
        BY <2>2, <3>e DEF Partition
      <4>2. /\ part.i + 1 \in Threads /\ part.rest_count \in Int
            /\ part.ptr \in Int /\ part.rest_len \in Int
        BY <3>c, <3>e
      <4>3. part' \in [i : Threads, ptr : Int, rest_len : Int, rest_count : Int]
        BY SMTT(30), <3>b, <4>1, <4>2
      <4>4. part'.rest_count = thread_count - part'.i
        BY <3>c, <4>1, <4>2
      <4>5. mpc' = "partition" /\ \A t \in Threads : pc'[t] = "none"
        BY <3>c, <4>1
      <4>6. MainInv'
        BY <4>4, <4>5 DEF MainInv
      <4>7. ControlType'
        BY <3>c, <4>3, <4>5 DEF ControlType
      <4>. QED
        BY <4>6, <4>7
    <3>1. ControlType' /\ MainInv'
      BY <3>d, <3>e
    <3>3. RoundInv'
      BY <2>2 DEF Partition, LenPerThread, barrierVars, RoundInv, Merges, Other
    <3>4. BarrierInv'
      BY <2>2 DEF Partition, LenPerThread, barrierVars, BarrierInv
    <3>5. BarrierLockstep'
      BY <2>2 DEF Partition, LenPerThread, barrierVars, BarrierLockstep, Behind
    <3>. QED
      BY <3>1, <3>3, <3>4, <3>5
  <2>3. CASE CreateThread
    <3>. DEFINE i == part.i
    <3>a. /\ i \in Threads /\ pc[i] = "none" /\ i \notin arrived \cup released
          /\ pc' = [pc EXCEPT ![i] = "start"]
          /\ UNCHANGED <<step, arrived, released>>
      BY <2>3 DEF CreateThread, barrierVars, MainInv, BarrierInv
    <3>. HIDE DEF i
    <3>1. ControlType'
      BY SMTT(30), <2>3 DEF CreateThread, barrierVars, ControlType
    <3>2. MainInv'
      BY <2>3 DEF CreateThread, barrierVars, MainInv
    <3>3. RoundInv'
      BY <3>a DEF RoundInv, Merges, Other
    <3>4. BarrierInv'
      BY <3>a DEF BarrierInv
    <3>5. BarrierLockstep'
      BY SMTT(30), <3>a DEF BarrierLockstep, Behind
    <3>. QED
      BY <3>1, <3>2, <3>3, <3>4, <3>5
  <2>4. CASE CreateThreadFails
    <3>1. ControlType'
      BY <2>4 DEF CreateThreadFails, barrierVars, ControlType
    <3>2. MainInv'
      BY <2>4 DEF CreateThreadFails, barrierVars, MainInv
    <3>3. RoundInv'
      BY <2>4 DEF CreateThreadFails, barrierVars, RoundInv, Merges, Other
    <3>4. BarrierInv'
      BY <2>4 DEF CreateThreadFails, barrierVars, BarrierInv
    <3>5. BarrierLockstep'
      BY <2>4 DEF CreateThreadFails, barrierVars, BarrierLockstep, Behind
    <3>. QED
      BY <3>1, <3>2, <3>3, <3>4, <3>5
  <2>5. CASE JoinThread
    <3>1. ControlType'
      BY SMTT(30), <2>5 DEF JoinThread, Joinable, barrierVars, ControlType
    <3>. DEFINE i == part.i
    <3>a. /\ mpc = "join" /\ pc' = pc /\ i \in Threads /\ pc[i] = "done"
          /\ \A t \in Threads : t < i => pc[t] = "done"
          /\ IF i + 1 = thread_count THEN mpc' = "finish"
             ELSE mpc' = "join" /\ part'.i = i + 1
      BY <2>5 DEF JoinThread, Joinable, MainInv
    <3>. HIDE DEF i
    <3>2. MainInv'
      BY SMTT(30), <3>a DEF MainInv
    <3>3. RoundInv'
      BY <2>5 DEF JoinThread, Joinable, barrierVars, RoundInv, Merges, Other
    <3>4. BarrierInv'
      BY <2>5 DEF JoinThread, Joinable, barrierVars, BarrierInv
    <3>5. BarrierLockstep'
      BY <2>5 DEF JoinThread, Joinable, barrierVars, BarrierLockstep, Behind
    <3>. QED
      BY <3>1, <3>2, <3>3, <3>4, <3>5
  <2>6. CASE Finish
    <3>1. ControlType'
      BY <2>6 DEF Finish, barrierVars, ControlType
    <3>2. MainInv'
      BY <2>6 DEF Finish, barrierVars, MainInv
    <3>3. RoundInv'
      BY <2>6 DEF Finish, barrierVars, RoundInv, Merges, Other
    <3>4. BarrierInv'
      BY <2>6 DEF Finish, barrierVars, BarrierInv
    <3>5. BarrierLockstep'
      BY <2>6 DEF Finish, barrierVars, BarrierLockstep, Behind
    <3>. QED
      BY <3>1, <3>2, <3>3, <3>4, <3>5
  <2>. QED
    BY <1>1, <2>1, <2>2, <2>3, <2>4, <2>5, <2>6 DEF MainStep
<1>2. ASSUME NEW t \in Threads, ThreadStep(t) PROVE ControlInv'
  <2>1. CASE ThreadStart(t)
    <3>1. ControlType'
      BY <2>1 DEF ThreadStart, Running, mainVars, barrierVars, ControlType
    <3>2. MainInv'
      BY <2>1 DEF ThreadStart, Running, mainVars, barrierVars, MainInv
    <3>3. RoundInv'
      BY <2>1 DEF ThreadStart, Running, mainVars, barrierVars, RoundInv, Merges, Other
    <3>4. BarrierInv'
      BY <2>1 DEF ThreadStart, Running, mainVars, barrierVars, BarrierInv
    <3>5. BarrierLockstep'
      BY SMTT(30), <2>1 DEF ThreadStart, Running, mainVars, barrierVars, BarrierLockstep, Behind
    <3>. QED
      BY <3>1, <3>2, <3>3, <3>4, <3>5
  <2>2. CASE SortSegment(t)
    <3>1. ControlType'
      BY <2>2 DEF SortSegment, Running, NextRound, mainVars, barrierVars, ControlType
    <3>2. MainInv'
      BY <2>2 DEF SortSegment, Running, NextRound, mainVars, barrierVars, MainInv
    <3>3. RoundInv'
      BY <2>2 DEF SortSegment, Running, NextRound, mainVars, barrierVars, RoundInv, Merges, Other
    <3>4. BarrierInv'
      BY <2>2 DEF SortSegment, Running, NextRound, mainVars, barrierVars, BarrierInv
    <3>5. BarrierLockstep'
      BY SMTT(30), <2>2 DEF SortSegment, Running, NextRound, mainVars, barrierVars, BarrierLockstep, Behind
    <3>. QED
      BY <3>1, <3>2, <3>3, <3>4, <3>5
  <2>3. CASE BarrierArrive(t)
    <3>1. ControlType'
      BY <2>3 DEF BarrierArrive, Running, mainVars, ControlType
    <3>2. MainInv'
      BY <2>3 DEF BarrierArrive, Running, mainVars, MainInv
    <3>3. RoundInv'
      BY <2>3 DEF BarrierArrive, Running, mainVars, RoundInv, Merges, Other
    <3>4. BarrierInv'
      BY <2>3 DEF BarrierArrive, Running, mainVars, BarrierInv
    <3>5. BarrierLockstep'
      <4>1. CASE Cardinality(arrived \cup {t}) = thread_count
        <5>1. arrived \cup {t} = Threads
          BY <4>1, AllThreads
        <5>2. \A u \in Threads : ~Behind(u)
          BY <5>1, <2>3 DEF BarrierArrive, BarrierInv, Behind
        <5>a. step' = step /\ released' = released \cup Threads
          BY <5>1, <4>1, <2>3 DEF BarrierArrive, BarrierCount
        <5>b. released' = Threads
          BY <5>a DEF ControlType
        <5>c. pc' = [pc EXCEPT ![t] = "wait"]
          BY <2>3 DEF BarrierArrive
        <5>d. \A u \in Threads : u # t => pc[u] = "wait"
          BY <5>1 DEF BarrierInv
        <5>e. \A u \in Threads : pc'[u] = "wait"
          BY <5>c, <5>d DEF ControlType
        <5>3. /\ step' = step /\ released' = Threads
              /\ \A u \in Threads : pc'[u] = "wait"
          BY <5>a, <5>b, <5>e
        <5>4. \A u \in Threads : Behind(u)'
          BY <5>3 DEF Behind
        <5>. QED
          BY <5>2, <5>3, <5>4 DEF BarrierLockstep
      <4>2. CASE Cardinality(arrived \cup {t}) # thread_count
        <5>1. \A u \in Threads : Behind(u)' <=> Behind(u)
          BY <4>2, <2>3 DEF BarrierArrive, BarrierCount, BarrierInv, Behind
        <5>. QED
          BY <5>1, <2>3 DEF BarrierArrive, BarrierLockstep
      <4>. QED
        BY <4>1, <4>2
    <3>. QED
      BY <3>1, <3>2, <3>3, <3>4, <3>5
  <2>4. CASE BarrierLeave(t)
    <3>1. ControlType'
      BY <2>4 DEF BarrierLeave, BarrierReturns, Continues, Running, mainVars, ControlType
    <3>2. MainInv'
      BY <2>4 DEF BarrierLeave, BarrierReturns, Continues, Running, mainVars, MainInv
    <3>3. RoundInv'
      BY <2>4 DEF BarrierLeave, BarrierReturns, Continues, Running, mainVars, RoundInv, Merges, Other
    <3>4. BarrierInv'
      BY <2>4 DEF BarrierLeave, BarrierReturns, Continues, Running, mainVars, BarrierInv
    <3>5. BarrierLockstep'
      BY SMTT(30), <2>4 DEF BarrierLeave, BarrierReturns, Continues, Running, mainVars, BarrierLockstep, Behind
    <3>. QED
      BY <3>1, <3>2, <3>3, <3>4, <3>5
  <2>5. CASE MergeSkip(t)
    <3>1. ControlType'
      BY SMTT(30), <2>5 DEF MergeSkip, NextRound, Running, mainVars, barrierVars, ControlType
    <3>2. MainInv'
      BY <2>5 DEF MergeSkip, NextRound, Running, mainVars, barrierVars, MainInv
    <3>3. RoundInv'
      BY SMTT(30), <2>5 DEF MergeSkip, NextRound, Running, mainVars, barrierVars, RoundInv, Merges, Other
    <3>4. BarrierInv'
      BY <2>5 DEF MergeSkip, NextRound, Running, mainVars, barrierVars, BarrierInv
    <3>5. BarrierLockstep'
      BY SMTT(30), <2>5 DEF MergeSkip, NextRound, Running, mainVars, barrierVars, BarrierLockstep, Behind
    <3>. QED
      BY <3>1, <3>2, <3>3, <3>4, <3>5
  <2>6. CASE MergeBegin(t)
    <3>1. ControlType'
      BY <2>6 DEF MergeBegin, Running, mainVars, barrierVars, ControlType
    <3>2. MainInv'
      BY <2>6 DEF MergeBegin, Running, mainVars, barrierVars, MainInv
    <3>3. RoundInv'
      BY <2>6 DEF MergeBegin, Running, mainVars, barrierVars, RoundInv, Merges, Other
    <3>4. BarrierInv'
      BY <2>6 DEF MergeBegin, Running, mainVars, barrierVars, BarrierInv
    <3>5. BarrierLockstep'
      BY SMTT(30), <2>6 DEF MergeBegin, Running, mainVars, barrierVars, BarrierLockstep, Behind
    <3>. QED
      BY <3>1, <3>2, <3>3, <3>4, <3>5
  <2>7. CASE MergeTakeLeft(t)
    <3>1. ControlType'
      BY <2>7 DEF MergeTakeLeft, Merging, Running, mainVars, barrierVars, ControlType
    <3>2. MainInv'
      BY <2>7 DEF MergeTakeLeft, Merging, Running, mainVars, barrierVars, MainInv
    <3>3. RoundInv'
      BY <2>7 DEF MergeTakeLeft, Merging, Running, mainVars, barrierVars, RoundInv, Merges, Other
    <3>4. BarrierInv'
      BY <2>7 DEF MergeTakeLeft, Merging, Running, mainVars, barrierVars, BarrierInv
    <3>5. BarrierLockstep'
      BY <2>7 DEF MergeTakeLeft, Merging, Running, mainVars, barrierVars, BarrierLockstep, Behind
    <3>. QED
      BY <3>1, <3>2, <3>3, <3>4, <3>5
  <2>8. CASE MergeTakeRight(t)
    <3>1. ControlType'
      BY <2>8 DEF MergeTakeRight, Merging, Running, mainVars, barrierVars, ControlType
    <3>2. MainInv'
      BY <2>8 DEF MergeTakeRight, Merging, Running, mainVars, barrierVars, MainInv
    <3>3. RoundInv'
      BY <2>8 DEF MergeTakeRight, Merging, Running, mainVars, barrierVars, RoundInv, Merges, Other
    <3>4. BarrierInv'
      BY <2>8 DEF MergeTakeRight, Merging, Running, mainVars, barrierVars, BarrierInv
    <3>5. BarrierLockstep'
      BY <2>8 DEF MergeTakeRight, Merging, Running, mainVars, barrierVars, BarrierLockstep, Behind
    <3>. QED
      BY <3>1, <3>2, <3>3, <3>4, <3>5
  <2>9. CASE MergeTakeRest(t)
    <3>1. ControlType'
      BY <2>9 DEF MergeTakeRest, Merging, Running, mainVars, barrierVars, ControlType
    <3>2. MainInv'
      BY <2>9 DEF MergeTakeRest, Merging, Running, mainVars, barrierVars, MainInv
    <3>3. RoundInv'
      BY <2>9 DEF MergeTakeRest, Merging, Running, mainVars, barrierVars, RoundInv, Merges, Other
    <3>4. BarrierInv'
      BY <2>9 DEF MergeTakeRest, Merging, Running, mainVars, barrierVars, BarrierInv
    <3>5. BarrierLockstep'
      BY <2>9 DEF MergeTakeRest, Merging, Running, mainVars, barrierVars, BarrierLockstep, Behind
    <3>. QED
      BY <3>1, <3>2, <3>3, <3>4, <3>5
  <2>10. CASE MergeStore(t)
    <3>1. ControlType'
      BY <2>10 DEF MergeStore, Running, mainVars, barrierVars, ControlType
    <3>2. MainInv'
      BY <2>10 DEF MergeStore, Running, mainVars, barrierVars, MainInv
    <3>3. RoundInv'
      BY <2>10 DEF MergeStore, Running, mainVars, barrierVars, RoundInv, Merges, Other
    <3>4. BarrierInv'
      BY <2>10 DEF MergeStore, Running, mainVars, barrierVars, BarrierInv
    <3>5. BarrierLockstep'
      BY <2>10 DEF MergeStore, Running, mainVars, barrierVars, BarrierLockstep, Behind
    <3>. QED
      BY <3>1, <3>2, <3>3, <3>4, <3>5
  <2>11. CASE MergeRetire(t)
    <3>1. ControlType'
      BY SMTT(30), <2>11 DEF MergeRetire, NextRound, Running, mainVars, barrierVars, ControlType
    <3>2. MainInv'
      BY <2>11 DEF MergeRetire, NextRound, Running, mainVars, barrierVars, MainInv
    <3>3. RoundInv'
      BY SMTT(30), <2>11 DEF MergeRetire, NextRound, Running, mainVars, barrierVars, RoundInv, Merges, Other
    <3>4. BarrierInv'
      BY <2>11 DEF MergeRetire, NextRound, Running, mainVars, barrierVars, BarrierInv
    <3>5. BarrierLockstep'
      BY SMTT(30), <2>11 DEF MergeRetire, NextRound, Running, mainVars, barrierVars, BarrierLockstep, Behind
    <3>. QED
      BY <3>1, <3>2, <3>3, <3>4, <3>5
  <2>. QED
    BY <1>2, <2>1, <2>2, <2>3, <2>4, <2>5, <2>6, <2>7, <2>8, <2>9, <2>10, <2>11 DEF ThreadStep, MergeStep
<1>3. CASE UNCHANGED vars
  BY <1>3 DEF vars, MainInv, RoundInv, BarrierInv, BarrierLockstep, Behind,
     Merges, Other
<1>. QED
  BY <1>1, <1>2, <1>3 DEF Next

(* Threads on the same side of the barrier are in the same round, those    *)
(* past their merge exactly one round ahead of the others: the rounds of   *)
(* psort_thread_run never mix, for any number of threads.                  *)
THEOREM Lockstep == Spec => []BarrierLockstep
<1>1. ControlInv => BarrierLockstep
  BY DEF ControlInv
<1>. QED
  BY <1>1, ControlInit, ControlStep, PTL DEF Spec

-----------------------------------------------------------------------------
(* The geometry layer *)

(* A thread that runs does so after the partition loop, on an array that   *)
(* is worth sorting.                                                       *)
LEMMA ThreadPhase ==
    ASSUME ControlInv, EnterInv, NEW t \in Threads, pc[t] # "none",
           UNCHANGED mainVars
    PROVE  /\ mpc \notin {"enter", "partition"} /\ nmemb > 1
           /\ EnterInv' /\ PartitionInv'
<1>1. mpc \notin {"enter", "partition"}
  BY DEF ControlInv, MainInv
<1>2. ~(nmemb <= 1)
  BY <1>1, PsortAssumption DEF EnterInv
<1>3. nmemb > 1
  BY <1>2, PsortAssumption
<1>. QED
  BY <1>1, <1>2, <1>3 DEF mainVars, EnterInv, PartitionInv

(* A step that changes neither descriptors nor rounds nor anybody's side   *)
(* of the barrier preserves the geometry.                                  *)
LEMMA GeometryFrame ==
    ASSUME Geometry, mpc \notin {"enter", "partition"},
           segments' = segments, step' = step,
           \A t \in Threads : /\ Behind(t)' <=> Behind(t)
                              /\ pc'[t] = "retire" <=> pc[t] = "retire"
    PROVE  Geometry'
<1>1. SUFFICES ASSUME nmemb > 1 PROVE Geometry'
  BY DEF Geometry
<1>2. PICK O \in [0 .. thread_count -> 0 .. nmemb] :
          IsCut(O) /\ \A t \in Threads : OwnsInv(O, t)
  BY <1>1 DEF Geometry
<1>3. ASSUME NEW t \in Threads PROVE OwnsInv(O, t)'
  BY <1>2 DEF OwnsInv, Covers, Other
<1>. QED
  BY <1>2, <1>3 DEF Geometry

(* The locals of a thread that neither moves nor has its descriptors       *)
(* changed stay in agreement with them.                                    *)
LEMMA LocalsFrame ==
    ASSUME NEW u \in Threads, LocalsInv(u),
           pc'[u] = pc[u], own'[u] = own[u], mrg'[u] = mrg[u],
           out'[u] = out[u], step'[u] = step[u],
           pc[u] \in {"sort", "copy"} => segments'[u] = segments[u],
           pc[u] = "copy" => segments'[Other(u)] = segments[Other(u)]
    PROVE  LocalsInv(u)'
<1>1. Other(u)' = Other(u)
  BY DEF Other
<1>2. pc[u] = "sort" => own'[u] = segments'[u]
  BY DEF LocalsInv
<1>3. pc[u] # "copy" => out'[u] = <<>>
  BY DEF LocalsInv
<1>4. ASSUME pc[u] = "copy"
      PROVE  /\ segments'[u] = segments[u]
             /\ segments'[Other(u)'] = segments[Other(u)]
  BY <1>1, <1>4
<1>. QED
  BY <1>2, <1>3, <1>4 DEF LocalsInv

LEMMA MainGeometry == IInv /\ MainStep => GeometryInv'
<1>. SUFFICES ASSUME IInv, MainStep PROVE GeometryInv'
  OBVIOUS
<1>. USE DEF IInv, GeometryInv
<1>1. CASE PsortEnter
  <2>1. EnterInv'
    BY <1>1, PsortAssumption DEF PsortEnter, EnterInv, ControlInv, MainInv
  <2>2. PartitionInv'
    BY <1>1, PsortAssumption DEF PsortEnter, PartitionInv, EnterInv
  <2>3. Geometry'
    BY <1>1, PsortAssumption DEF PsortEnter, Geometry
  <2>4. ASSUME NEW u \in Threads PROVE LocalsInv(u)'
    BY <1>1, LocalsFrame DEF PsortEnter
  <2>. QED
    BY <2>1, <2>2, <2>3, <2>4
<1>3. CASE CreateThread
  <2>1. EnterInv' /\ PartitionInv'
    BY <1>3 DEF CreateThread, EnterInv, PartitionInv
  <2>2. /\ part.i \in Threads /\ pc[part.i] = "none"
        /\ pc' = [pc EXCEPT ![part.i] = "start"]
        /\ UNCHANGED <<segments, own, step, mrg, out, released>>
        /\ mpc \notin {"enter", "partition"} /\ pc \in [Threads -> PCs]
    BY <1>3 DEF CreateThread, ControlInv, ControlType, MainInv, barrierVars
  <2>3. \A t \in Threads : /\ Behind(t)' <=> Behind(t)
                           /\ pc'[t] = "retire" <=> pc[t] = "retire"
    BY <2>2 DEF Behind
  <2>4. Geometry'
    BY <2>2, <2>3, GeometryFrame
  <2>5. ASSUME NEW u \in Threads PROVE LocalsInv(u)'
    <3>1. CASE u = part.i
      BY <3>1, <2>2 DEF LocalsInv
    <3>2. CASE u # part.i
      BY <3>2, <2>2, LocalsFrame
    <3>. QED
      BY <3>1, <3>2
  <2>. QED
    BY <2>1, <2>4, <2>5
<1>4. CASE CreateThreadFails \/ JoinThread \/ Finish
  <2>1. EnterInv' /\ PartitionInv'
    BY <1>4, PsortAssumption DEF CreateThreadFails, JoinThread, Finish, EnterInv, PartitionInv
  <2>2. /\ UNCHANGED <<pc, segments, own, step, mrg, out, released>>
        /\ mpc \notin {"enter", "partition"}
    BY <1>4 DEF CreateThreadFails, JoinThread, Finish, barrierVars
  <2>3. \A t \in Threads : /\ Behind(t)' <=> Behind(t)
                           /\ pc'[t] = "retire" <=> pc[t] = "retire"
    BY <2>2 DEF Behind
  <2>4. Geometry'
    BY <2>2, <2>3, GeometryFrame
  <2>5. ASSUME NEW u \in Threads PROVE LocalsInv(u)'
    BY <2>2, LocalsFrame
  <2>. QED
    BY <2>1, <2>4, <2>5
<1>2. CASE Partition
  <2>a. PICK i \in Threads : i = part.i
    BY DEF ControlInv, ControlType
  <2>1. /\ mpc = "partition" /\ nmemb > 1 /\ nmemb \in Nat
        /\ \A t \in Threads : pc[t] = "none" /\ step[t] = 1
        /\ UNCHANGED <<pc, own, step, mrg, out, released>>
        /\ pc \in [Threads -> PCs] /\ segments \in [Threads -> Run]
    BY <1>2, PsortAssumption DEF Partition, ControlInv, ControlType, MainInv, RoundInv,
       barrierVars, EnterInv, TypeOK
  <2>2. /\ part.ptr \in 0 .. nmemb /\ part.rest_len = nmemb - part.ptr
        /\ part.rest_count = thread_count - i
    BY <2>a, <2>1 DEF PartitionInv
  <2>3. PICK len \in 0 .. nmemb - part.ptr :
            len = LenPerThread /\ (i + 1 = thread_count => len = nmemb - part.ptr)
    <3>1. \A a \in Nat, b \in Nat \ {0} : a \div b \in 0 .. a /\ a \div 1 = a
      OBVIOUS
    <3>2. thread_count - i \in Nat \ {0} /\ (i + 1 = thread_count => thread_count - i = 1)
      BY <2>1, PsortAssumption
    <3>3. nmemb - part.ptr \in Nat
      BY <2>1, <2>2
    <3>. QED
      BY <3>1, <3>2, <3>3, <2>2 DEF LenPerThread
  <2>4. segments' = [segments EXCEPT ![i] = [base |-> part.ptr, nmemb |-> len]]
    BY <1>2, <2>a, <2>3 DEF Partition
  <2>b. /\ segments'[i] = [base |-> part.ptr, nmemb |-> len]
        /\ \A k \in Threads : k # i => segments'[k] = segments[k]
    BY <2>1, <2>4
  <2>c. segments'[i].base = part.ptr /\ segments'[i].nmemb = len
    BY <2>b
  <2>5. ASSUME NEW u \in Threads PROVE LocalsInv(u)'
    BY <2>1, LocalsFrame
  <2>8. /\ i = 0 => part.ptr = 0
        /\ i > 0 => segments[0].base = 0 /\ SegmentEnd(i - 1) = part.ptr
        /\ \A k \in Threads : k < i =>
               segments[k].base \in Nat /\ segments[k].nmemb \in Nat
        /\ \A k \in Threads : k + 1 < i => SegmentEnd(k) = segments[k + 1].base
        /\ \A k, l \in Threads : k < l /\ l < i => SegmentEnd(k) <= segments[l].base
        /\ \A k \in Threads : k < i => SegmentEnd(k) <= part.ptr
    <3>1. segments \in [Threads -> Run] /\ nmemb \in Nat
      BY PsortAssumption DEF TypeOK
    <3>2. \A k \in Threads : segments[k].base \in Int /\ segments[k].nmemb \in Nat
      BY <3>1 DEF Run
    <3>. QED
      BY <2>a, <2>1, <3>2 DEF PartitionInv
  <2>6. CASE i + 1 # thread_count
    <3>1. /\ mpc' = "partition" /\ part'.i = i + 1 /\ part'.ptr = part.ptr + len
          /\ part'.rest_len = part.rest_len - len
          /\ part'.rest_count = part.rest_count - 1
      BY <1>2, <2>a, <2>3, <2>6 DEF Partition
    <3>2. EnterInv' /\ Geometry'
      BY <3>1, <2>1 DEF EnterInv, Geometry
    <3>3. /\ segments'[i].base = part.ptr /\ segments'[i].nmemb = len
          /\ \A k \in Threads : k < i => segments'[k] = segments[k]
      BY <2>b, <2>c
    <3>4. /\ SegmentEnd(i)' = segments'[i].base + segments'[i].nmemb
          /\ \A k \in Threads : k < i => SegmentEnd(k)' = SegmentEnd(k)
      BY <3>3 DEF SegmentEnd
    <3>5. /\ part'.ptr \in 0 .. nmemb /\ part'.rest_len = nmemb - part'.ptr
          /\ part'.rest_count = thread_count - (i + 1)
      BY <3>1, <2>1, <2>2, <2>3, PsortAssumption
    <3>a. /\ i \in Nat /\ part.ptr \in Int /\ len \in Nat
          /\ 0 \in Threads /\ (i > 0 => i - 1 \in Threads)
          /\ \A k \in Threads : k \in Nat
      BY <2>1, <2>2, <2>3, PsortAssumption
    <3>b. /\ \A k \in Threads : k < i => SegmentEnd(k) \in Int
          /\ SegmentEnd(i)' = part.ptr + len
      <4>1. \A k \in Threads : k < i => SegmentEnd(k) \in Int
        BY <2>8 DEF SegmentEnd
      <4>. QED
        BY <4>1, <3>3, <3>4
    <3>6. segments'[0].base = 0
      <4>1. CASE i = 0
        BY <4>1, <3>3, <2>8
      <4>2. CASE i > 0
        BY <4>2, <3>3, <3>a, <2>8
      <4>. QED
        BY <4>1, <4>2, <3>a
    <3>7. \A k \in Threads : k < i + 1 =>
              segments'[k].base >= 0 /\ segments'[k].nmemb >= 0
      BY <3>3, <2>1, <2>2, <2>3, <2>8
    <3>8. \A k \in Threads : k + 1 < i + 1 => SegmentEnd(k)' = segments'[k + 1].base
      <4>1. ASSUME NEW k \in Threads, k + 1 < i
            PROVE  SegmentEnd(k)' = segments'[k + 1].base
        <5>1. k < i /\ k + 1 \in Threads
          BY <4>1, PsortAssumption
        <5>. QED
          BY <4>1, <5>1, <3>3, <3>4, <2>8
      <4>2. ASSUME NEW k \in Threads, k + 1 = i
            PROVE  SegmentEnd(k)' = segments'[k + 1].base
        <5>1. k < i /\ k = i - 1 /\ i > 0
          BY <4>2, <3>a
        <5>. QED
          BY <4>2, <5>1, <3>3, <3>4, <2>8
      <4>. QED
        BY <4>1, <4>2, <3>a
    <3>9. \A k, l \in Threads :
              k < l /\ l < i + 1 => SegmentEnd(k)' <= segments'[l].base
      <4>1. ASSUME NEW k \in Threads, NEW l \in Threads, k < l, l < i
            PROVE  SegmentEnd(k)' <= segments'[l].base
        <5>1. k < i
          BY <4>1, <3>a
        <5>. QED
          BY <4>1, <5>1, <3>3, <3>4, <2>8
      <4>2. ASSUME NEW k \in Threads, k < i
            PROVE  SegmentEnd(k)' <= segments'[i].base
        BY <4>2, <3>3, <3>4, <2>8
      <4>. QED
        BY <4>1, <4>2, <3>a
    <3>10. \A k \in Threads : k < i + 1 => SegmentEnd(k)' <= part'.ptr
      <4>1. ASSUME NEW k \in Threads, k < i PROVE SegmentEnd(k)' <= part'.ptr
        BY <4>1, <3>1, <3>4, <3>a, <3>b, <2>8
      <4>2. SegmentEnd(i)' <= part'.ptr
        BY <3>1, <3>a, <3>b
      <4>. QED
        BY <4>1, <4>2, <3>a
    <3>11. i + 1 > 0 /\ SegmentEnd(i + 1 - 1)' = part'.ptr
      BY <3>1, <3>a, <3>b
    <3>12. PartitionInv'
      BY <3>1, <3>5, <3>6, <3>7, <3>8, <3>9, <3>10, <3>11, <3>a DEF PartitionInv
    <3>. QED
      BY <3>2, <3>12, <2>5
  <2>7. CASE i + 1 = thread_count
    <3>1. mpc' = "create"
      BY <1>2, <2>a, <2>7 DEF Partition
    <3>2. EnterInv' /\ PartitionInv'
      BY <3>1, <2>1 DEF EnterInv, PartitionInv
    <3>3. /\ segments'[i].base = part.ptr /\ segments'[i].nmemb = nmemb - part.ptr
          /\ \A k \in Threads : k < i => segments'[k] = segments[k]
      BY <2>b, <2>c, <2>3, <2>7
    <3>a. /\ i \in Nat /\ part.ptr \in Int /\ i = thread_count - 1
          /\ 0 \in Threads /\ (i > 0 => i - 1 \in Threads)
          /\ \A k \in Threads : k \in Nat /\ (k < i \/ k = i) /\ (k < i => k + 1 \in Threads)
      BY <2>1, <2>2, <2>7, PsortAssumption
    <3>b. \A k \in Threads : k < i =>
             /\ SegmentEnd(k) = segments'[k].base + segments'[k].nmemb
             /\ segments'[k].base \in Nat /\ segments'[k].nmemb \in Nat
      BY <3>3, <2>8 DEF SegmentEnd
    <3>4. ASSUME NEW k \in Threads
          PROVE  segments'[k].base \in 0 .. nmemb /\ segments'[k].nmemb \in Nat
      <4>1. CASE k = i
        BY <4>1, <3>3, <2>1, <2>2
      <4>2. CASE k < i
        <5>1. SegmentEnd(k) <= part.ptr
          BY <4>2, <2>8
        <5>. QED
          BY <4>2, <5>1, <3>b, <2>1, <2>2
      <4>. QED
        BY <4>1, <4>2, <3>a
    <3>5. PICK O \in [0 .. thread_count -> 0 .. nmemb] :
             O = [k \in 0 .. thread_count |->
                    IF k = thread_count THEN nmemb ELSE segments'[k].base]
      <4>1. ASSUME NEW k \in 0 .. thread_count
            PROVE  (IF k = thread_count THEN nmemb ELSE segments'[k].base) \in 0 .. nmemb
        <5>1. k = thread_count \/ k \in Threads
          BY PsortAssumption
        <5>. QED
          BY <5>1, <3>4, <2>1
      <4>. QED
        BY <4>1
    <3>c. /\ O[thread_count] = nmemb
          /\ \A k \in Threads : O[k] = segments'[k].base
      BY <3>5, PsortAssumption
    <3>6. ASSUME NEW k \in Threads
          PROVE  segments'[k].nmemb = O[k + 1] - O[k]
      <4>1. CASE k = i
        BY <4>1, <3>3, <3>a, <3>c, PsortAssumption
      <4>2. CASE k < i
        <5>1. k + 1 \in Threads /\ O[k + 1] = segments'[k + 1].base
          BY <4>2, <3>a, <3>c
        <5>2. CASE k + 1 = i
          <6>1. SegmentEnd(k) = part.ptr
            <7>1. i > 0 /\ k = i - 1
              BY <5>2, <3>a
            <7>. QED
              BY <7>1, <2>8
          <6>. QED
            BY <4>2, <5>1, <5>2, <6>1, <3>3, <3>b, <3>c
        <5>3. CASE k + 1 < i
          <6>1. SegmentEnd(k) = segments[k + 1].base /\ segments'[k + 1] = segments[k + 1]
            BY <5>1, <5>3, <2>8, <3>3
          <6>. QED
            BY <4>2, <5>1, <6>1, <3>b, <3>c
        <5>. QED
          BY <4>2, <5>2, <5>3, <3>a
      <4>. QED
        BY <4>1, <4>2, <3>a
    <3>7. IsCut(O)
      <4>1. O[0] = 0
        <5>1. CASE i = 0
          BY <5>1, <2>8, <3>3, <3>a, <3>c
        <5>2. CASE i > 0
          BY <5>2, <2>8, <3>3, <3>a, <3>c
        <5>. QED
          BY <5>1, <5>2, <3>a
      <4>2. ASSUME NEW a \in Threads, NEW b \in Threads, a < b PROVE O[a] <= O[b]
        <5>1. a < i /\ (b < i \/ b = i)
          BY <4>2, <3>a
        <5>2. SegmentEnd(a) <= segments'[b].base
          <6>1. CASE b < i
            BY <4>2, <6>1, <2>8, <3>3
          <6>2. CASE b = i
            BY <5>1, <6>2, <2>8, <3>3
          <6>. QED
            BY <5>1, <6>1, <6>2
        <5>. QED
          <6>1. segments'[b].base \in Nat
            BY <3>4, PsortAssumption
          <6>2. /\ SegmentEnd(a) = segments'[a].base + segments'[a].nmemb
                /\ segments'[a].base \in Nat /\ segments'[a].nmemb \in Nat
            BY <5>1, <3>b
          <6>. QED
            BY <5>2, <6>1, <6>2, <3>c
      <4>3. ASSUME NEW a \in 0 .. thread_count, NEW b \in 0 .. thread_count, a <= b
            PROVE  O[a] <= O[b]
        <5>1. O[a] \in 0 .. nmemb /\ O[b] \in 0 .. nmemb
          OBVIOUS
        <5>2. a = b \/ b = thread_count \/ (a \in Threads /\ b \in Threads /\ a < b)
          BY <4>3, PsortAssumption
        <5>. QED
          BY <4>2, <5>1, <5>2, <3>c, <2>1
      <4>. QED
        BY <4>1, <4>3, <3>c DEF IsCut
    <3>9. ASSUME NEW t \in Threads PROVE OwnsInv(O, t)'
      <4>1. ~Behind(t)' /\ step'[t] = 1
        BY <2>1 DEF Behind
      <4>2. Upto(t + 1) = t + 1
        BY PsortAssumption DEF Upto
      <4>3. segments'[t] \in [base : Int, nmemb : Int]
        <5>1. CASE t = i
          <6>1. len \in Int /\ part.ptr \in Int
            BY <2>1, <2>2, <2>3
          <6>. QED
            BY <5>1, <6>1, <2>b
        <5>2. CASE t # i
          <6>1. segments'[t] \in Run
            BY <5>2, <2>1, <2>b
          <6>. QED
            BY <6>1, <2>1 DEF Run
        <5>. QED
          BY <5>1, <5>2
      <4>4. segments'[t] = [base |-> O[t], nmemb |-> O[t + 1] - O[t]]
        BY <4>3, <3>6, <3>c
      <4>. QED
        BY <4>1, <4>2, <4>4 DEF OwnsInv, Covers
    <3>8. Geometry'
      BY <3>7, <3>9 DEF Geometry
    <3>. QED
      BY <3>2, <3>8, <2>5
  <2>. QED
    BY <2>5, <2>6, <2>7
<1>. QED
  BY <1>1, <1>2, <1>3, <1>4 DEF MainStep

(* The two runs of a merge are neighbours within the array. *)
LEMMA MergeBounds ==
    ASSUME IInv, NEW t \in Threads, pc[t] = "copy"
    PROVE  /\ mrg[t].left \in Nat /\ mrg[t].m \in Nat /\ mrg[t].n \in Nat
           /\ mrg[t].i \in 0 .. mrg[t].m /\ mrg[t].j \in 0 .. mrg[t].n
           /\ mrg[t].right = mrg[t].left + mrg[t].m
           /\ mrg[t].right + mrg[t].n <= nmemb
           /\ mrg[t].left = segments[t].base
           /\ Len(out[t]) = mrg[t].i + mrg[t].j
           /\ out[t] \in Seq(Elements) /\ data \in [Offsets -> Elements]
<1>. USE DEF IInv, GeometryInv
<1>1. /\ mpc \notin {"enter", "partition"} /\ step[t] \in Nat \ {0}
      /\ Merges(t) /\ Behind(t) /\ pc[t] # "retire"
  BY DEF ControlInv, ControlType, MainInv, RoundInv, Behind
<1>2. nmemb > 1
  BY <1>1, PsortAssumption DEF EnterInv
<1>3. PICK O \in [0 .. thread_count -> 0 .. nmemb] :
          IsCut(O) /\ \A u \in Threads : OwnsInv(O, u)
  BY <1>1, <1>2 DEF Geometry
<1>4. /\ Other(t) = t + step[t] /\ Other(t) < thread_count
      /\ Other(t) \in Threads /\ t % (2 * step[t]) = 0
  BY SMTT(30), <1>1, PsortAssumption DEF Merges, Other
<1>5. Covers(O, t, step[t]) /\ Covers(O, Other(t), step[t])
  BY <1>1, <1>3, <1>4 DEF OwnsInv
<1>6. Upto(t + step[t]) = Other(t)
  BY <1>4 DEF Upto
<1>b. /\ Upto(Other(t) + step[t]) \in 0 .. thread_count
      /\ Other(t) <= Upto(Other(t) + step[t])
  <2>1. Other(t) \in Threads /\ step[t] \in Nat
    BY <1>1, <1>4
  <2>. QED
    BY <2>1, PsortAssumption DEF Upto
<1>7. PICK e \in 0 .. thread_count : e = Upto(Other(t) + step[t]) /\ Other(t) <= e
  BY <1>b
<1>8. /\ O[t] \in 0 .. nmemb /\ O[Other(t)] \in 0 .. nmemb /\ O[e] \in 0 .. nmemb
      /\ O[t] <= O[Other(t)] /\ O[Other(t)] <= O[e]
  BY SMTT(30), <1>1, <1>3, <1>4, <1>7, PsortAssumption DEF IsCut
<1>9. /\ segments[t].base = O[t] /\ segments[t].nmemb = O[Other(t)] - O[t]
      /\ segments[Other(t)].base = O[Other(t)]
      /\ segments[Other(t)].nmemb = O[e] - O[Other(t)]
  BY <1>5, <1>6, <1>7 DEF Covers
<1>10. /\ mrg[t].left = segments[t].base /\ mrg[t].m = segments[t].nmemb
       /\ mrg[t].right = segments[Other(t)].base
       /\ mrg[t].n = segments[Other(t)].nmemb
       /\ mrg[t].i \in 0 .. mrg[t].m /\ mrg[t].j \in 0 .. mrg[t].n
       /\ Len(out[t]) = mrg[t].i + mrg[t].j
  BY DEF LocalsInv
<1>11. out[t] \in Seq(Elements) /\ data \in [Offsets -> Elements]
  BY DEF TypeOK
<1>12. PICK a \in 0 .. nmemb, b \in 0 .. nmemb, c \in 0 .. nmemb :
           /\ a <= b /\ b <= c
           /\ mrg[t].left = a /\ mrg[t].m = b - a
           /\ mrg[t].right = b /\ mrg[t].n = c - b
  BY <1>8, <1>9, <1>10
<1>13. /\ mrg[t].left \in Nat /\ mrg[t].m \in Nat /\ mrg[t].n \in Nat
       /\ mrg[t].right = mrg[t].left + mrg[t].m
       /\ mrg[t].right + mrg[t].n <= nmemb
  BY <1>12, PsortAssumption
<1>. QED
  BY <1>10, <1>11, <1>13

(* What a merge copies is a sequence of elements. *)
LEMMA SliceIsSeq ==
    ASSUME data \in [Offsets -> Elements], NEW from \in Nat, NEW len \in Nat,
           from + len <= nmemb
    PROVE  Slice(from, len) \in Seq(Elements) /\ Len(Slice(from, len)) = len
<1>1. ASSUME NEW x \in 1 .. len PROVE data[from + x - 1] \in Elements
  <2>1. from + x - 1 \in Offsets
    BY PsortAssumption DEF Offsets
  <2>. QED
    BY <2>1
<1>2. Slice(from, len) \in [1 .. len -> Elements]
  BY <1>1 DEF Slice
<1>. QED
  BY <1>2

(* A step of a merge advances in the runs by as many elements as it puts   *)
(* out.                                                                    *)
LEMMA MergeTake ==
    ASSUME IInv, NEW t \in Threads,
           MergeTakeLeft(t) \/ MergeTakeRight(t) \/ MergeTakeRest(t)
    PROVE  \E i \in 0 .. mrg[t].m, j \in 0 .. mrg[t].n, o \in Seq(Elements) :
              /\ mrg'[t] = [left |-> mrg[t].left, right |-> mrg[t].right,
                            m |-> mrg[t].m, n |-> mrg[t].n, i |-> i, j |-> j]
              /\ out'[t] = o /\ Len(o) = i + j
<1>1. pc[t] = "copy"
  BY DEF MergeTakeLeft, MergeTakeRight, MergeTakeRest, Merging
<1>2. PICK i \in Nat, j \in Nat, m \in Nat, n \in Nat, left \in Nat, right \in Nat :
          /\ mrg[t].i = i /\ mrg[t].j = j /\ mrg[t].m = m /\ mrg[t].n = n
          /\ mrg[t].left = left /\ mrg[t].right = right
          /\ i <= m /\ j <= n /\ right = left + m /\ right + n <= nmemb
          /\ Len(out[t]) = i + j
  <2>1. /\ mrg[t].left \in Nat /\ mrg[t].m \in Nat /\ mrg[t].n \in Nat
        /\ mrg[t].i \in 0 .. mrg[t].m /\ mrg[t].j \in 0 .. mrg[t].n
        /\ mrg[t].right = mrg[t].left + mrg[t].m
        /\ mrg[t].right + mrg[t].n <= nmemb /\ Len(out[t]) = mrg[t].i + mrg[t].j
    BY <1>1, MergeBounds
  <2>2. mrg[t].right \in Nat /\ mrg[t].i \in Nat /\ mrg[t].j \in Nat
    <3>1. mrg[t].left \in Nat /\ mrg[t].m \in Nat
          /\ mrg[t].right = mrg[t].left + mrg[t].m
      BY <2>1
    <3>2. mrg[t].right \in Nat
      BY ONLY <3>1
    <3>3. mrg[t].i \in 0 .. mrg[t].m /\ mrg[t].j \in 0 .. mrg[t].n
      BY <2>1
    <3>. QED
      BY <3>2, <3>3
  <2>3. mrg[t].i <= mrg[t].m /\ mrg[t].j <= mrg[t].n
    BY <2>1
  <2>. QED
    BY <2>1, <2>2, <2>3
<1>b. i <= m /\ j <= n /\ right = left + m /\ right + n <= nmemb /\ nmemb \in Nat
  BY <1>2, PsortAssumption
<1>3. /\ out \in [Threads -> Seq(Elements)] /\ mrg \in [Threads -> Merge]
      /\ data \in [Offsets -> Elements] /\ out[t] \in Seq(Elements)
  BY DEF TypeOK, IInv
<1>. DEFINE Progress(x, y, o) ==
              /\ mrg'[t] = [left |-> mrg[t].left, right |-> mrg[t].right,
                            m |-> mrg[t].m, n |-> mrg[t].n, i |-> x, j |-> y]
              /\ out'[t] = o /\ Len(o) = x + y
<1>a. ASSUME NEW x \in 0 .. m, NEW y \in 0 .. n, NEW o \in Seq(Elements), Progress(x, y, o)
      PROVE  \E x1 \in 0 .. mrg[t].m, y1 \in 0 .. mrg[t].n, o1 \in Seq(Elements) :
                Progress(x1, y1, o1)
  BY <1>2, <1>a
<1>4. CASE MergeTakeLeft(t)
  <2>1. i < m /\ mrg' = [mrg EXCEPT ![t].i = i + 1]
        /\ out'[t] = Append(out[t], LeftElement(t))
    BY <1>2, <1>3, <1>4 DEF MergeTakeLeft
  <2>2. left + i \in Offsets
    BY <1>b, <2>1 DEF Offsets
  <2>3. PICK e \in Elements : e = LeftElement(t)
    BY <1>2, <1>3, <2>2 DEF LeftElement
  <2>4. Append(out[t], e) \in Seq(Elements) /\ Len(Append(out[t], e)) = i + 1 + j
    BY <1>2, <1>3
  <2>5. mrg'[t] = [left |-> mrg[t].left, right |-> mrg[t].right,
                   m |-> mrg[t].m, n |-> mrg[t].n, i |-> i + 1, j |-> j]
    BY <1>2, <1>3, <2>1 DEF Merge
  <2>6. i + 1 \in 0 .. m /\ j \in 0 .. n
    BY SMTT(30), <1>2, <2>1
  <2>. QED
    BY <1>a, <2>1, <2>3, <2>4, <2>5, <2>6
<1>5. CASE MergeTakeRight(t)
  <2>1. j < n /\ mrg' = [mrg EXCEPT ![t].j = j + 1]
        /\ out'[t] = Append(out[t], RightElement(t))
    BY <1>2, <1>3, <1>5 DEF MergeTakeRight
  <2>2. right + j \in Offsets
    BY SMTT(30), <1>b, <2>1 DEF Offsets
  <2>3. PICK e \in Elements : e = RightElement(t)
    BY <1>2, <1>3, <2>2 DEF RightElement
  <2>4. Append(out[t], e) \in Seq(Elements) /\ Len(Append(out[t], e)) = i + (j + 1)
    BY <1>2, <1>3
  <2>5. mrg'[t] = [left |-> mrg[t].left, right |-> mrg[t].right,
                   m |-> mrg[t].m, n |-> mrg[t].n, i |-> i, j |-> j + 1]
    BY <1>2, <1>3, <2>1 DEF Merge
  <2>6. i \in 0 .. m /\ j + 1 \in 0 .. n
    BY SMTT(30), <1>2, <2>1
  <2>. QED
    BY <1>a, <2>1, <2>3, <2>4, <2>5, <2>6
<1>6. CASE MergeTakeRest(t) /\ i >= m
  <2>1. i = m /\ mrg' = [mrg EXCEPT ![t].j = n]
        /\ out'[t] = out[t] \o Slice(right + j, n - j)
    <3>1. i = m /\ ~(i < m)
      BY <1>6, <1>b
    <3>2. /\ mrg' = [mrg EXCEPT ![t].j = mrg[t].n]
          /\ out' = [out EXCEPT ![t] =
                       @ \o Slice(mrg[t].right + mrg[t].j, mrg[t].n - mrg[t].j)]
      BY <1>2, <1>6, <3>1 DEF MergeTakeRest
    <3>. QED
      BY <1>2, <1>3, <3>1, <3>2
  <2>2. right + j \in Nat /\ n - j \in Nat /\ right + j + (n - j) <= nmemb
    BY <1>b
  <2>3. PICK S \in Seq(Elements) : S = Slice(right + j, n - j) /\ Len(S) = n - j
    BY <1>3, <2>2, SliceIsSeq
  <2>4. out[t] \o S \in Seq(Elements) /\ Len(out[t] \o S) = i + n
    <3>1. Len(out[t] \o S) = Len(out[t]) + Len(S)
      BY <1>3
    <3>. QED
      <4>1. out[t] \o S \in Seq(Elements)
        BY <1>3
      <4>2. i + j + (n - j) = i + n
        OBVIOUS
      <4>. QED
        BY <1>2, <2>3, <3>1, <4>1, <4>2
  <2>5. mrg'[t] = [left |-> mrg[t].left, right |-> mrg[t].right,
                   m |-> mrg[t].m, n |-> mrg[t].n, i |-> i, j |-> n]
    BY <1>2, <1>3, <2>1 DEF Merge
  <2>6. i \in 0 .. m /\ n \in 0 .. n
    BY <1>2
  <2>. QED
    BY <1>a, <2>1, <2>3, <2>4, <2>5, <2>6
<1>7. CASE MergeTakeRest(t) /\ i < m
  <2>1. j = n /\ mrg' = [mrg EXCEPT ![t].i = m]
        /\ out'[t] = out[t] \o Slice(left + i, m - i)
    <3>1. ~(i >= m)
      BY <1>7
    <3>2. /\ j >= n
          /\ mrg' = [mrg EXCEPT ![t].i = mrg[t].m]
          /\ out' = [out EXCEPT ![t] =
                       @ \o Slice(mrg[t].left + mrg[t].i, mrg[t].m - mrg[t].i)]
      BY <1>2, <1>7, <3>1 DEF MergeTakeRest
    <3>3. j = n
      BY <1>b, <3>2
    <3>. QED
      BY <1>2, <1>3, <3>2, <3>3
  <2>2. left + i \in Nat /\ m - i \in Nat /\ left + i + (m - i) <= nmemb
    BY <1>b
  <2>3. PICK S \in Seq(Elements) : S = Slice(left + i, m - i) /\ Len(S) = m - i
    BY <1>3, <2>2, SliceIsSeq
  <2>4. out[t] \o S \in Seq(Elements) /\ Len(out[t] \o S) = m + j
    <3>1. Len(out[t] \o S) = Len(out[t]) + Len(S)
      BY <1>3
    <3>. QED
      <4>1. out[t] \o S \in Seq(Elements)
        BY <1>3
      <4>2. i + j + (m - i) = m + j
        OBVIOUS
      <4>. QED
        BY <1>2, <2>3, <3>1, <4>1, <4>2
  <2>5. mrg'[t] = [left |-> mrg[t].left, right |-> mrg[t].right,
                   m |-> mrg[t].m, n |-> mrg[t].n, i |-> m, j |-> j]
    BY <1>2, <1>3, <2>1 DEF Merge
  <2>6. m \in 0 .. m /\ j \in 0 .. n
    BY <1>2
  <2>. QED
    BY <1>a, <2>1, <2>3, <2>4, <2>5, <2>6
<1>8. i >= m \/ i < m
  OBVIOUS
<1>. QED
  BY <1>4, <1>5, <1>6, <1>7, <1>8

(* The steps that leave all descriptors and rounds as they are. *)
LEMMA LocalGeometry ==
    ASSUME IInv, NEW t \in Threads,
           \/ ThreadStart(t) \/ SortSegment(t) \/ BarrierLeave(t) \/ MergeBegin(t)
           \/ MergeTakeLeft(t) \/ MergeTakeRight(t) \/ MergeTakeRest(t)
    PROVE  GeometryInv'
<1>. USE DEF IInv, GeometryInv
<1>1. /\ pc[t] # "none" /\ UNCHANGED mainVars
      /\ segments' = segments /\ step' = step
      /\ \A u \in Threads : u # t => /\ pc'[u] = pc[u] /\ own'[u] = own[u]
                                     /\ mrg'[u] = mrg[u] /\ out'[u] = out[u]
  BY DEF ThreadStart, SortSegment, BarrierLeave, MergeBegin, MergeTakeLeft,
     MergeTakeRight, MergeTakeRest, Merging, Running, ControlInv, ControlType, TypeOK
<1>2. mpc \notin {"enter", "partition"} /\ nmemb > 1 /\ EnterInv' /\ PartitionInv'
  BY <1>1, ThreadPhase
<1>3. pc \in [Threads -> PCs] /\ \A u \in Threads : u \in released => pc[u] = "wait"
  BY DEF ControlInv, ControlType, BarrierInv
<1>4. /\ pc[t] # "retire" /\ pc'[t] # "retire" /\ (Behind(t)' <=> Behind(t))
      /\ \A u \in Threads : u # t => (u \in released' <=> u \in released)
  <2>. USE <1>3
  <2>1. CASE ThreadStart(t)
    BY <2>1 DEF ThreadStart, Behind, barrierVars
  <2>2. CASE SortSegment(t)
    BY <2>2 DEF SortSegment, NextRound, Behind, barrierVars
  <2>3. CASE BarrierLeave(t)
    BY <2>3 DEF BarrierLeave, Continues, BarrierReturns, Behind
  <2>4. CASE MergeBegin(t)
    BY <2>4 DEF MergeBegin, Behind, barrierVars
  <2>5. CASE MergeTakeLeft(t) \/ MergeTakeRight(t) \/ MergeTakeRest(t)
    BY <2>5 DEF MergeTakeLeft, MergeTakeRight, MergeTakeRest, Merging, Behind,
       barrierVars
  <2>. QED
    BY <2>1, <2>2, <2>3, <2>4, <2>5
<1>5. \A u \in Threads : /\ Behind(u)' <=> Behind(u)
                         /\ pc'[u] = "retire" <=> pc[u] = "retire"
  BY <1>1, <1>4 DEF Behind
<1>6. Geometry'
  BY <1>1, <1>2, <1>5, GeometryFrame
<1>7. ASSUME NEW u \in Threads, u # t PROVE LocalsInv(u)'
  BY <1>1, <1>7, LocalsFrame
<1>8. LocalsInv(t)'
  <2>. USE <1>3
  <2>1. CASE ThreadStart(t)
    BY <2>1 DEF ThreadStart, LocalsInv, TypeOK
  <2>2. CASE SortSegment(t)
    BY <2>2 DEF SortSegment, NextRound, LocalsInv
  <2>3. CASE BarrierLeave(t)
    BY <2>3 DEF BarrierLeave, Continues, BarrierReturns, LocalsInv
  <2>4. CASE MergeBegin(t)
    <3>1. out[t] = <<>>
      BY <2>4 DEF MergeBegin, LocalsInv
    <3>2. Other(t) \in Threads
      BY <2>4, PsortAssumption DEF MergeBegin, Merges, Other, ControlInv, ControlType
    <3>3. segments[t].nmemb \in Nat /\ segments[Other(t)].nmemb \in Nat
      <4>1. segments[t] \in Run /\ segments[Other(t)] \in Run
        BY <3>2 DEF TypeOK
      <4>. QED
        BY <4>1, PsortAssumption DEF Run
    <3>4. mrg'[t] = [left |-> segments[t].base,  m |-> segments[t].nmemb,
                     right |-> segments[Other(t)].base,
                     n |-> segments[Other(t)].nmemb, i |-> 0, j |-> 0]
      BY <2>4 DEF MergeBegin, TypeOK
    <3>5. pc'[t] = "copy" /\ out'[t] = <<>> /\ Other(t)' = Other(t)
      BY <2>4, <3>1, <1>1 DEF MergeBegin, Other
    <3>6. /\ mrg'[t].left = segments[t].base /\ mrg'[t].m = segments[t].nmemb
          /\ mrg'[t].right = segments[Other(t)].base
          /\ mrg'[t].n = segments[Other(t)].nmemb
          /\ mrg'[t].i = 0 /\ mrg'[t].j = 0
      BY <3>4
    <3>. QED
      BY <3>3, <3>5, <3>6, <1>1 DEF LocalsInv
  <2>5. CASE MergeTakeLeft(t) \/ MergeTakeRight(t) \/ MergeTakeRest(t)
    <3>1. pc[t] = "copy" /\ pc' = pc /\ mrg \in [Threads -> Merge]
      BY <2>5 DEF MergeTakeLeft, MergeTakeRight, MergeTakeRest, Merging, TypeOK, Merge
    <3>2. /\ UNCHANGED <<segments, step>> /\ mrg[t] \in Merge
          /\ Other(t)' = Other(t)
      BY <3>1, <1>1 DEF Other
    <3>4. PICK i \in 0 .. mrg[t].m, j \in 0 .. mrg[t].n, o \in Seq(Elements) :
             /\ mrg'[t] = [left |-> mrg[t].left, right |-> mrg[t].right,
                           m |-> mrg[t].m, n |-> mrg[t].n, i |-> i, j |-> j]
             /\ out'[t] = o /\ Len(o) = i + j
      BY <2>5, MergeTake
    <3>5. /\ mrg'[t].left = mrg[t].left /\ mrg'[t].m = mrg[t].m
          /\ mrg'[t].right = mrg[t].right /\ mrg'[t].n = mrg[t].n
          /\ mrg'[t].i = i /\ mrg'[t].j = j
      BY <3>4
    <3>. QED
      BY <3>1, <3>2, <3>4, <3>5 DEF LocalsInv
  <2>. QED
    BY <2>1, <2>2, <2>3, <2>4, <2>5
<1>. QED
  BY <1>2, <1>6, <1>7, <1>8

(* The last thread to arrive moves all threads behind the barrier: the     *)
(* segments of the multiples of the distance become runs to be merged.     *)
LEMMA ArriveGeometry ==
    ASSUME IInv, NEW t \in Threads, BarrierArrive(t)
    PROVE  GeometryInv'
<1>. USE DEF IInv, GeometryInv
<1>1. /\ pc[t] = "barrier" /\ pc' = [pc EXCEPT ![t] = "wait"]
      /\ UNCHANGED <<segments, own, step, mrg, out, mainVars>>
  BY DEF BarrierArrive
<1>2. mpc \notin {"enter", "partition"} /\ nmemb > 1 /\ EnterInv' /\ PartitionInv'
  BY <1>1, ThreadPhase
<1>3. /\ pc \in [Threads -> PCs] /\ step \in [Threads -> Nat \ {0}]
      /\ \A u \in Threads : u \in arrived \cup released <=> pc[u] = "wait"
      /\ arrived \cap released = {} /\ arrived \subseteq Threads
      /\ released \subseteq Threads
  BY DEF ControlInv, ControlType, BarrierInv
<1>4. ASSUME NEW u \in Threads PROVE LocalsInv(u)'
  <2>1. CASE u = t
    BY <2>1, <1>1, <1>3 DEF LocalsInv
  <2>2. CASE u # t
    BY <2>2, <1>1, <1>3, LocalsFrame
  <2>. QED
    BY <2>1, <2>2
<1>5. ASSUME Cardinality(arrived \cup {t}) # thread_count PROVE Geometry'
  <2>1. \A u \in Threads : /\ Behind(u)' <=> Behind(u)
                           /\ pc'[u] = "retire" <=> pc[u] = "retire"
    BY <1>1, <1>3, <1>5 DEF BarrierArrive, BarrierCount, Behind
  <2>. QED
    BY <1>1, <1>2, <2>1, GeometryFrame
<1>6. ASSUME Cardinality(arrived \cup {t}) = thread_count PROVE Geometry'
  <2>1. arrived \cup {t} = Threads
    BY <1>3, <1>6, AllThreads
  <2>2. \A u \in Threads : pc[u] \in {"barrier", "wait"} /\ ~Behind(u)
    BY <1>1, <1>3, <2>1 DEF Behind
  <2>3. \A u \in Threads : step[u] = step[t]
    BY <2>2 DEF ControlInv, BarrierLockstep
  <2>4. \A u \in Threads : pc'[u] = "wait" /\ Behind(u)'
    BY <1>1, <1>3, <1>6, <2>1, <2>2 DEF BarrierArrive, BarrierCount, Behind
  <2>5. PICK O \in [0 .. thread_count -> 0 .. nmemb] :
            IsCut(O) /\ \A u \in Threads : OwnsInv(O, u)
    BY <1>2 DEF Geometry
  <2>6. PICK s \in Nat \ {0} : s = step[t] /\ \A u \in Threads : step[u] = s
    BY <1>3, <2>3
  <2>7. \A u \in Threads : u % s = 0 => Covers(O, u, s)
    BY <2>2, <2>5, <2>6 DEF OwnsInv
  <2>8. ASSUME NEW u \in Threads PROVE OwnsInv(O, u)'
    <3>1. SUFFICES ASSUME u % (2 * s) = 0
                   PROVE  /\ Covers(O, u, s)
                          /\ u + s < thread_count => Covers(O, u + s, s)
      BY <1>1, <2>4, <2>6 DEF OwnsInv, Covers, Other
    <3>2. u % s = 0 /\ (u + s) % s = 0
      <4>1. u \in Nat /\ s \in Nat \ {0}
        OBVIOUS
      <4>. QED
        BY <3>1, <4>1, Halves, Zenon
    <3>3. u + s < thread_count => u + s \in Threads
      BY PsortAssumption
    <3>. QED
      BY <2>7, <3>2, <3>3
  <2>. QED
    BY <2>5, <2>8 DEF Geometry
<1>. QED
  BY <1>2, <1>4, <1>5, <1>6

(* A thread without a merge goes ahead with what it has: either its        *)
(* segment is no longer its own, or it already extends to the end.         *)
LEMMA SkipGeometry ==
    ASSUME IInv, NEW t \in Threads, MergeSkip(t)
    PROVE  GeometryInv'
<1>. USE DEF IInv, GeometryInv
<1>1. /\ pc[t] = "merge" /\ ~Merges(t) /\ pc'[t] \in {"barrier", "done"}
      /\ step' = [step EXCEPT ![t] = 2 * step[t]]
      /\ \A u \in Threads : u # t => pc'[u] = pc[u]
      /\ UNCHANGED <<segments, own, mrg, out, mainVars, released>>
  BY DEF MergeSkip, NextRound, barrierVars, ControlInv, ControlType
<1>2. mpc \notin {"enter", "partition"} /\ nmemb > 1 /\ EnterInv' /\ PartitionInv'
  BY <1>1, ThreadPhase
<1>3. /\ step \in [Threads -> Nat \ {0}]
      /\ \A u \in Threads : u \in released => pc[u] = "wait"
  BY DEF ControlInv, ControlType, BarrierInv
<1>4. ASSUME NEW u \in Threads PROVE LocalsInv(u)'
  <2>1. CASE u = t
    BY <2>1, <1>1 DEF LocalsInv
  <2>2. CASE u # t
    BY <2>2, <1>1, <1>3, LocalsFrame
  <2>. QED
    BY <2>1, <2>2
<1>5. PICK O \in [0 .. thread_count -> 0 .. nmemb] :
          IsCut(O) /\ \A u \in Threads : OwnsInv(O, u)
  BY <1>2 DEF Geometry
<1>6. OwnsInv(O, t)'
  <2>1. PICK s \in Nat \ {0} : s = step[t]
    BY <1>3
  <2>2. step'[t] = 2 * s /\ ~Behind(t)' /\ Behind(t) /\ pc[t] # "retire"
    BY <1>1, <1>3, <2>1 DEF Behind
  <2>3. SUFFICES ASSUME t % (2 * s) = 0 PROVE Covers(O, t, 2 * s)
    BY <1>1, <2>2 DEF OwnsInv, Covers
  <2>4. Covers(O, t, s)
    BY <1>5, <2>1, <2>2, <2>3 DEF OwnsInv
  <2>5. ~(t + s < thread_count)
    BY <1>1, <2>1, <2>3 DEF Merges, Other
  <2>a. t + s <= t + 2 * s /\ t \in Int
    OBVIOUS
  <2>6. Upto(t + s) = Upto(t + 2 * s)
    <3>1. ~(t + 2 * s < thread_count)
      BY <2>5, <2>a, PsortAssumption
    <3>. QED
      BY <2>5, <3>1 DEF Upto
  <2>. QED
    BY <2>4, <2>6 DEF Covers
<1>7. ASSUME NEW u \in Threads, u # t PROVE OwnsInv(O, u)'
  <2>1. step'[u] = step[u] /\ pc'[u] = pc[u] /\ (Behind(u)' <=> Behind(u))
    BY <1>1, <1>3, <1>7 DEF Behind
  <2>. QED
    BY <1>1, <1>5, <2>1 DEF OwnsInv, Covers, Other
<1>8. Geometry'
  BY <1>5, <1>6, <1>7 DEF Geometry
<1>. QED
  BY <1>2, <1>4, <1>8

(* The pairs of segments that are merged at the same time are disjoint: in *)
(* a round with distance s, neither partner of one merge is a partner of   *)
(* another one, nor the left partner of the next round.                    *)
LEMMA Partners ==
    ASSUME ControlInv, NEW t \in Threads, NEW u \in Threads, t # u,
           Behind(t), Merges(t)
    PROVE  /\ Other(t) \in Threads /\ Other(t) # t
           /\ Behind(u) => step[u] = step[t]
           /\ ~Behind(u) => step[u] = 2 * step[t]
           /\ Behind(u) /\ u % (2 * step[u]) = 0 =>
                  u # Other(t) /\ Other(u) # t /\ Other(u) # Other(t)
           /\ ~Behind(u) /\ u % step[u] = 0 => u # Other(t)
<1>1. PICK s \in Nat \ {0} : s = step[t]
  BY DEF ControlInv, ControlType
<1>2. /\ t % (2 * s) = 0 /\ t + s < thread_count
      /\ Other(t) = t + s /\ Other(u) = u + step[u]
  BY <1>1 DEF Merges, Other
<1>3. (Behind(u) => step[u] = s) /\ (~Behind(u) => step[u] = 2 * s)
  BY <1>1 DEF ControlInv, BarrierLockstep
<1>4. t \in Nat /\ u \in Nat /\ t + s \in Threads /\ t + s # t
  BY <1>2, PsortAssumption
<1>5. (t + s) % (2 * s) # 0
  BY <1>2, <1>4, Halves, Zenon
<1>6. ASSUME u % (2 * s) = 0 PROVE u # t + s /\ u + s # t /\ u + s # t + s
  <2>1. (u + s) % (2 * s) # 0
    BY <1>4, <1>6, Halves, Zenon
  <2>2. u + s # t + s
    BY <1>4
  <2>. QED
    BY <1>2, <1>5, <1>6, <2>1, <2>2, Zenon
<1>. QED
  BY <1>1, <1>2, <1>3, <1>4, <1>6, Zenon

LEMMA StoreGeometry ==
    ASSUME IInv, NEW t \in Threads, MergeStore(t)
    PROVE  GeometryInv'
<1>. USE DEF IInv, GeometryInv
<1>1. /\ pc[t] = "copy" /\ pc' = [pc EXCEPT ![t] = "retire"]
      /\ segments' = [segments EXCEPT ![t].nmemb = mrg[t].m + mrg[t].n]
      /\ out' = [out EXCEPT ![t] = <<>>] /\ mrg' = [mrg EXCEPT ![t] = NoMerge]
      /\ UNCHANGED <<own, step, mainVars, released>>
  BY DEF MergeStore, barrierVars
<1>2. mpc \notin {"enter", "partition"} /\ nmemb > 1 /\ EnterInv' /\ PartitionInv'
  BY <1>1, ThreadPhase
<1>3. /\ step \in [Threads -> Nat \ {0}] /\ pc \in [Threads -> PCs]
      /\ segments \in [Threads -> Run] /\ out \in [Threads -> Seq(Elements)]
      /\ \A u \in Threads : u \in released => pc[u] = "wait"
      /\ \A u \in Threads : pc[u] = "copy" => Merges(u) /\ Behind(u)
  BY DEF ControlInv, ControlType, BarrierInv, TypeOK, RoundInv, Behind
<1>4. \A u \in Threads : u # t => /\ pc'[u] = pc[u] /\ segments'[u] = segments[u]
                                 /\ own'[u] = own[u] /\ step'[u] = step[u]
                                 /\ mrg'[u] = mrg[u] /\ out'[u] = out[u]
                                 /\ (Behind(u)' <=> Behind(u))
  BY <1>1, <1>3 DEF TypeOK, Behind
<1>5. PICK O \in [0 .. thread_count -> 0 .. nmemb] :
          IsCut(O) /\ \A u \in Threads : OwnsInv(O, u)
  BY <1>2 DEF Geometry
<1>6. PICK s \in Nat \ {0} : s = step[t]
  BY <1>3
<1>7. Covers(O, t, 2 * s)'
  <2>1. /\ Behind(t) /\ pc[t] # "retire" /\ Other(t) = t + s
        /\ t % (2 * s) = 0 /\ t + s < thread_count
    BY <1>1, <1>3, <1>6 DEF Merges, Other
  <2>2. Covers(O, t, s) /\ Covers(O, t + s, s)
    BY <1>5, <1>6, <2>1 DEF OwnsInv
  <2>3. t + s + s = t + 2 * s /\ t + s \in 0 .. thread_count
    BY <2>1, PsortAssumption
  <2>4. PICK e \in 0 .. thread_count : e = Upto(t + 2 * s)
    BY PsortAssumption DEF Upto
  <2>5. PICK a \in Int, b \in Int, c \in Int : a = O[t] /\ b = O[t + s] /\ c = O[e]
    BY <2>3, PsortAssumption
  <2>6. /\ segments[t] = [base |-> a, nmemb |-> b - a]
        /\ segments[t + s] = [base |-> b, nmemb |-> c - b]
    BY <2>1, <2>2, <2>3, <2>4, <2>5 DEF Covers, Upto
  <2>7. mrg[t].m = b - a /\ mrg[t].n = c - b
    BY <1>1, <2>1, <2>6 DEF LocalsInv
  <2>8. mrg[t].m + mrg[t].n = c - a
    BY <2>7
  <2>9. segments'[t] = [segments[t] EXCEPT !.nmemb = c - a]
    BY <1>1, <1>3, <2>8
  <2>10. segments'[t] = [base |-> a, nmemb |-> c - a]
    BY <2>6, <2>9
  <2>. QED
    BY <2>4, <2>5, <2>10 DEF Covers
<1>8. OwnsInv(O, t)'
  BY <1>1, <1>3, <1>6, <1>7 DEF OwnsInv, Behind
<1>9. ASSUME NEW u \in Threads, u # t PROVE OwnsInv(O, u)' /\ LocalsInv(u)'
  <2>1. Behind(u) /\ u % (2 * step[u]) = 0 => Other(u) # t
    BY <1>1, <1>3, <1>9, Partners
  <2>2. /\ pc'[u] = pc[u] /\ step'[u] = step[u] /\ segments'[u] = segments[u]
        /\ (Behind(u)' <=> Behind(u)) /\ Other(u)' = Other(u)
    BY <1>4, <1>9 DEF Other
  <2>3. Behind(u) /\ u % (2 * step[u]) = 0 /\ Other(u) < thread_count =>
            segments'[Other(u)] = segments[Other(u)]
    <3>1. Other(u) < thread_count => Other(u) \in Threads
      <4>1. PICK r \in Nat \ {0} : r = step[u]
        BY <1>3
      <4>2. u + r < thread_count => u + r \in Threads
        BY PsortAssumption
      <4>. QED
        BY <4>1, <4>2 DEF Other
    <3>. QED
      BY <1>4, <2>1, <3>1
  <2>4. OwnsInv(O, u)'
    BY <1>5, <2>2, <2>3 DEF OwnsInv, Covers
  <2>5. pc[u] = "copy" => segments'[Other(u)] = segments[Other(u)]
    BY <1>3, <2>3 DEF Merges
  <2>. QED
    BY <1>4, <1>9, <2>2, <2>4, <2>5, LocalsFrame
<1>10. LocalsInv(t)'
  BY <1>1, <1>3 DEF LocalsInv
<1>11. Geometry'
  BY <1>5, <1>8, <1>9 DEF Geometry
<1>. QED
  BY <1>2, <1>9, <1>10, <1>11

LEMMA RetireGeometry ==
    ASSUME IInv, NEW t \in Threads, MergeRetire(t)
    PROVE  GeometryInv'
<1>. USE DEF IInv, GeometryInv
<1>1. /\ pc[t] = "retire" /\ pc'[t] \in {"barrier", "done"}
      /\ segments' = [segments EXCEPT ![Other(t)] = NoRun]
      /\ step' = [step EXCEPT ![t] = 2 * step[t]]
      /\ \A u \in Threads : u # t => pc'[u] = pc[u]
      /\ UNCHANGED <<own, mrg, out, mainVars, released>>
  BY DEF MergeRetire, NextRound, barrierVars, ControlInv, ControlType
<1>2. mpc \notin {"enter", "partition"} /\ nmemb > 1 /\ EnterInv' /\ PartitionInv'
  BY <1>1, ThreadPhase
<1>3. /\ step \in [Threads -> Nat \ {0}] /\ pc \in [Threads -> PCs]
      /\ segments \in [Threads -> Run]
      /\ \A u \in Threads : u \in released => pc[u] = "wait"
      /\ \A u \in Threads : pc[u] \in {"copy", "retire"} => Merges(u) /\ Behind(u)
      /\ \A u \in Threads : pc[u] = "sort" => ~Behind(u) /\ step[u] = 1
  BY DEF ControlInv, ControlType, BarrierInv, TypeOK, RoundInv, Behind
<1>4. \A u \in Threads : u # t => /\ pc'[u] = pc[u] /\ own'[u] = own[u]
                                 /\ step'[u] = step[u] /\ mrg'[u] = mrg[u]
                                 /\ out'[u] = out[u] /\ (Behind(u)' <=> Behind(u))
  BY <1>1, <1>3 DEF Behind
<1>5. PICK O \in [0 .. thread_count -> 0 .. nmemb] :
          IsCut(O) /\ \A u \in Threads : OwnsInv(O, u)
  BY <1>2 DEF Geometry
<1>6. PICK s \in Nat \ {0} : s = step[t]
  BY <1>3
<1>7. Behind(t) /\ Merges(t) /\ Other(t) = t + s
  BY <1>1, <1>3, <1>6 DEF Other
<1>8. \A u \in Threads : u # Other(t) => segments'[u] = segments[u]
  BY <1>1, <1>3
<1>9. OwnsInv(O, t)'
  <2>1. t % (2 * s) = 0 /\ t # Other(t)
    BY <1>6, <1>7 DEF Merges
  <2>2. Covers(O, t, 2 * s)
    BY <1>1, <1>5, <1>6, <1>7, <2>1 DEF OwnsInv
  <2>3. step'[t] = 2 * s /\ ~Behind(t)'
    BY <1>1, <1>3, <1>6 DEF Behind
  <2>. QED
    BY <1>8, <2>1, <2>2, <2>3 DEF OwnsInv, Covers
<1>10. ASSUME NEW u \in Threads, u # t PROVE OwnsInv(O, u)' /\ LocalsInv(u)'
  <2>1. /\ Behind(u) => step[u] = step[t]
        /\ ~Behind(u) => step[u] = 2 * step[t]
        /\ Behind(u) /\ u % (2 * step[u]) = 0 => u # Other(t) /\ Other(u) # Other(t)
        /\ ~Behind(u) /\ u % step[u] = 0 => u # Other(t)
    BY <1>7, <1>10, Partners, Zenon
  <2>2. /\ pc'[u] = pc[u] /\ step'[u] = step[u]
        /\ (Behind(u)' <=> Behind(u)) /\ Other(u)' = Other(u)
    BY <1>4, <1>10 DEF Other
  <2>3. Behind(u) /\ u % (2 * step[u]) = 0 /\ Other(u) < thread_count =>
            segments'[Other(u)] = segments[Other(u)]
    <3>1. Other(u) < thread_count => Other(u) \in Threads
      <4>1. PICK r \in Nat \ {0} : r = step[u]
        BY <1>3
      <4>2. u + r < thread_count => u + r \in Threads
        BY PsortAssumption
      <4>. QED
        BY <4>1, <4>2 DEF Other
    <3>. QED
      BY <1>8, <2>1, <3>1
  <2>4. /\ Behind(u) /\ u % (2 * step[u]) = 0 => segments'[u] = segments[u]
        /\ ~Behind(u) /\ u % step[u] = 0 => segments'[u] = segments[u]
    BY <1>8, <2>1
  <2>5. OwnsInv(O, u)'
    BY <1>5, <2>2, <2>3, <2>4 DEF OwnsInv, Covers
  <2>6. pc[u] # "sort"
    BY <1>3, <1>6, <2>1
  <2>7. pc[u] = "copy" => /\ segments'[u] = segments[u]
                          /\ segments'[Other(u)] = segments[Other(u)]
    BY <1>3, <2>3, <2>4 DEF Merges
  <2>. QED
    BY <1>4, <1>10, <2>2, <2>5, <2>6, <2>7, LocalsFrame
<1>11. LocalsInv(t)'
  BY <1>1, <1>3 DEF LocalsInv
<1>12. Geometry'
  BY <1>5, <1>9, <1>10 DEF Geometry
<1>. QED
  BY <1>2, <1>10, <1>11, <1>12

LEMMA GeometryStep == IInv /\ [Next]_vars => GeometryInv'
<1>. SUFFICES ASSUME IInv, [Next]_vars PROVE GeometryInv'
  OBVIOUS
<1>1. CASE MainStep
  BY <1>1, MainGeometry
<1>2. ASSUME NEW t \in Threads, ThreadStep(t) PROVE GeometryInv'
  BY <1>2, LocalGeometry, ArriveGeometry, SkipGeometry, StoreGeometry,
     RetireGeometry DEF ThreadStep, MergeStep
<1>3. CASE UNCHANGED vars
  <2>. USE <1>3 DEF vars, IInv, GeometryInv
  <2>1. EnterInv' /\ PartitionInv'
    BY DEF EnterInv, PartitionInv, SegmentEnd
  <2>2. ASSUME NEW t \in Threads PROVE LocalsInv(t)'
    BY LocalsFrame
  <2>3. Geometry'
    <3>1. CASE mpc \in {"enter", "partition"}
      BY <3>1 DEF Geometry
    <3>2. CASE mpc \notin {"enter", "partition"}
      <4>1. \A t \in Threads : /\ Behind(t)' <=> Behind(t)
                               /\ pc'[t] = "retire" <=> pc[t] = "retire"
        BY DEF Behind
      <4>. QED
        BY <3>2, <4>1, GeometryFrame
    <3>. QED
      BY <3>1, <3>2
  <2>. QED
    BY <2>1, <2>2, <2>3
<1>. QED
  BY <1>1, <1>2, <1>3 DEF Next

-----------------------------------------------------------------------------
(* The types *)

(* The segment a thread is about to sort lies within the array. *)
LEMMA SortBounds ==
    ASSUME IInv, NEW t \in Threads, pc[t] \in {"start", "sort"}
    PROVE  \E O \in [0 .. thread_count -> 0 .. nmemb] :
              /\ IsCut(O) /\ \A u \in Threads : OwnsInv(O, u)
              /\ step[t] = 1 /\ ~Behind(t) /\ t + 1 \in 0 .. thread_count
              /\ segments[t] = [base |-> O[t], nmemb |-> O[t + 1] - O[t]]
<1>1. /\ mpc \notin {"enter", "partition"} /\ step[t] = 1 /\ ~Behind(t)
  BY DEF IInv, ControlInv, ControlType, MainInv, RoundInv, BarrierInv, Behind
<1>2. nmemb > 1
  BY <1>1, PsortAssumption DEF IInv, GeometryInv, EnterInv, ControlInv, MainInv
<1>3. PICK O \in [0 .. thread_count -> 0 .. nmemb] :
          IsCut(O) /\ \A u \in Threads : OwnsInv(O, u)
  BY <1>1, <1>2 DEF IInv, GeometryInv, Geometry
<1>4. t % step[t] = 0
  BY <1>1
<1>5. Covers(O, t, 1)
  BY <1>1, <1>3, <1>4 DEF OwnsInv
<1>6. Upto(t + 1) = t + 1 /\ t + 1 \in 0 .. thread_count
  BY PsortAssumption DEF Upto
<1>. QED
  BY <1>1, <1>3, <1>5, <1>6 DEF Covers

LEMMA TypeInit == Init => TypeOK /\ GeometryInv
<1>. SUFFICES ASSUME Init PROVE TypeOK /\ GeometryInv
  OBVIOUS
<1>. USE PsortAssumption DEF Init
<1>1. TypeOK
  <2>1. /\ NoRun \in Run /\ NoMerge \in Merge /\ <<>> \in Seq(Elements)
        /\ data \in [Offsets -> Elements]
    BY DEF NoRun, NoMerge, Run, Merge, NULL, Offsets, Elements
  <2>2. part \in [i : Threads, ptr : 0 .. nmemb, rest_len : 0 .. nmemb,
                  rest_count : 1 .. thread_count]
    OBVIOUS
  <2>. QED
    BY <2>1, <2>2 DEF TypeOK
<1>2. GeometryInv
  BY DEF GeometryInv, EnterInv, PartitionInv, Geometry, LocalsInv
<1>. QED
  BY <1>1, <1>2

LEMMA TypeStep == IInv /\ ControlInv' /\ [Next]_vars => TypeOK'
<1>. SUFFICES ASSUME IInv, ControlInv', [Next]_vars PROVE TypeOK'
  OBVIOUS
<1>. USE PsortAssumption
<1>1. /\ key \in [Elements -> Keys] /\ data \in [Offsets -> Elements]
      /\ segments \in [Threads -> Run] /\ own \in [Threads -> Run]
      /\ mrg \in [Threads -> Merge] /\ out \in [Threads -> Seq(Elements)]
      /\ part \in [i : Threads, ptr : 0 .. nmemb, rest_len : 0 .. nmemb,
                   rest_count : 1 .. thread_count]
  BY DEF IInv, TypeOK
<1>2. /\ mpc' \in {"enter", "partition", "create", "join", "finish",
                   "returned", "exited"}
      /\ pc' \in [Threads -> {"none", "start", "sort", "barrier", "wait", "merge",
                              "copy", "retire", "done", "thread_exit"}]
      /\ step' \in [Threads -> 1 .. 2 * thread_count - 1]
      /\ arrived' \subseteq Threads /\ released' \subseteq Threads
  <2>1. \A t \in Threads : step'[t] \in 1 .. 2 * thread_count - 1
    BY DEF ControlInv, ControlType, RoundInv
  <2>. QED
    BY <2>1 DEF ControlInv, ControlType, PCs
<1>. DEFINE DataOK == /\ key \in [Elements -> Keys] /\ data \in [Offsets -> Elements]
                      /\ segments \in [Threads -> Run] /\ own \in [Threads -> Run]
                      /\ mrg \in [Threads -> Merge] /\ out \in [Threads -> Seq(Elements)]
                      /\ part \in [i : Threads, ptr : 0 .. nmemb,
                                   rest_len : 0 .. nmemb, rest_count : 1 .. thread_count]
<1>3. SUFFICES DataOK'
  BY <1>2 DEF TypeOK
<1>4. CASE PsortEnter \/ CreateThreadFails \/ UNCHANGED vars
  BY <1>1, <1>4 DEF PsortEnter, CreateThreadFails, vars
<1>5. CASE CreateThread \/ JoinThread
  <2>1. /\ UNCHANGED <<key, data, segments, own, mrg, out>>
        /\ \/ part' = [part EXCEPT !.i = 0]
           \/ part' = [part EXCEPT !.i = part.i + 1] /\ part.i + 1 # thread_count
    BY <1>5 DEF CreateThread, JoinThread
  <2>2. PICK i \in Threads : i = part.i
    BY <1>1
  <2>3. 0 \in Threads /\ (i + 1 # thread_count => i + 1 \in Threads)
    OBVIOUS
  <2>4. part' \in [i : Threads, ptr : 0 .. nmemb, rest_len : 0 .. nmemb,
                   rest_count : 1 .. thread_count]
    BY <1>1, <2>1, <2>2, <2>3
  <2>. QED
    BY <1>1, <2>1, <2>4
<1>6. CASE Partition
  <2>1. PICK i \in Threads, ptr \in 0 .. nmemb, c \in 1 .. thread_count :
            /\ part.i = i /\ part.ptr = ptr /\ part.rest_len = nmemb - ptr
            /\ part.rest_count = c /\ c = thread_count - i
    BY <1>1, <1>6 DEF Partition, IInv, GeometryInv, PartitionInv
  <2>2. PICK len \in 0 .. nmemb - ptr : len = LenPerThread
    <3>1. \A a \in Nat, b \in Nat \ {0} : a \div b \in 0 .. a
      OBVIOUS
    <3>2. nmemb - ptr \in Nat /\ c \in Nat \ {0}
      OBVIOUS
    <3>. QED
      BY <2>1, <3>1, <3>2 DEF LenPerThread
  <2>3. [base |-> ptr, nmemb |-> len] \in Run
    BY DEF Run
  <2>4. segments' \in [Threads -> Run]
    BY <1>1, <1>6, <2>1, <2>2, <2>3 DEF Partition
  <2>5. part' \in [i : Threads, ptr : 0 .. nmemb, rest_len : 0 .. nmemb,
                   rest_count : 1 .. thread_count]
    <3>1. CASE i + 1 = thread_count
      <4>1. part' = [part EXCEPT !.i = 0] /\ 0 \in Threads
        BY <1>6, <2>1, <3>1 DEF Partition
      <4>. QED
        BY <1>1, <4>1
    <3>2. CASE i + 1 # thread_count
      <4>1. part' = [i |-> i + 1, ptr |-> ptr + len,
                     rest_len |-> nmemb - ptr - len, rest_count |-> c - 1]
        BY <1>6, <2>1, <2>2, <3>2 DEF Partition
      <4>2. /\ i + 1 \in Threads /\ ptr + len \in 0 .. nmemb
            /\ nmemb - ptr - len \in 0 .. nmemb /\ c - 1 \in 1 .. thread_count
        BY <2>1, <3>2
      <4>. QED
        BY <4>1, <4>2
    <3>. QED
      BY <3>1, <3>2
  <2>. QED
    BY <1>1, <1>6, <2>4, <2>5 DEF Partition
<1>7. CASE Finish
  <2>1. 0 \in Threads /\ pc[0] = "done" /\ mpc = "finish"
    BY <1>7 DEF Finish, IInv, ControlInv, MainInv
  <2>2. nmemb > 1
    BY <2>1 DEF IInv, GeometryInv, EnterInv
  <2>3. PICK O \in [0 .. thread_count -> 0 .. nmemb] :
            IsCut(O) /\ \A u \in Threads : OwnsInv(O, u)
    BY <2>1, <2>2 DEF IInv, GeometryInv, Geometry
  <2>4. PICK s \in Nat \ {0} : s = step[0]
    BY <2>1 DEF IInv, ControlInv, ControlType
  <2>5. 0 % s = 0 /\ ~Behind(0)
    BY <2>1 DEF Behind, IInv, ControlInv, BarrierInv
  <2>6. segments[0].base = 0
    <3>1. OwnsInv(O, 0) /\ O[0] = 0
      BY <2>1, <2>3 DEF IsCut
    <3>2. Covers(O, 0, s)
      BY <2>4, <2>5, <3>1 DEF OwnsInv
    <3>. QED
      BY <3>1, <3>2 DEF Covers
  <2>. QED
    BY <1>1, <1>7, <2>6 DEF Finish
<1>8. ASSUME NEW t \in Threads, ThreadStart(t) PROVE DataOK'
  BY <1>1, <1>8 DEF ThreadStart, mainVars
<1>9. ASSUME NEW t \in Threads, SortSegment(t) PROVE DataOK'
  <2>1. pc[t] = "sort" /\ own[t] = segments[t]
    BY <1>9 DEF SortSegment, IInv, GeometryInv, LocalsInv
  <2>2. PICK O \in [0 .. thread_count -> 0 .. nmemb] :
            /\ IsCut(O) /\ t + 1 \in 0 .. thread_count
            /\ segments[t] = [base |-> O[t], nmemb |-> O[t + 1] - O[t]]
    BY <2>1, SortBounds
  <2>3. PICK a \in 0 .. nmemb, b \in 0 .. nmemb :
            a <= b /\ own[t].base = a /\ own[t].nmemb = b - a
    <3>1. PICK a \in 0 .. nmemb, b \in 0 .. nmemb : a = O[t] /\ b = O[t + 1] /\ a <= b
      <4>1. t \in 0 .. thread_count /\ t <= t + 1
        OBVIOUS
      <4>. QED
        BY <2>2, <4>1 DEF IsCut
    <3>. QED
      BY <2>1, <2>2, <3>1
  <2>4. PICK R \in SUBSET Offsets : R = Cells(own[t].base, own[t].nmemb)
    <3>1. Cells(a, b - a) \subseteq Offsets
      BY DEF Cells, Offsets
    <3>. QED
      BY <2>3, <3>1
  <2>5. PICK p \in [R -> R] :
            data' = [x \in Offsets |-> IF x \in R THEN data[p[x]] ELSE data[x]]
    BY <1>9, <2>4 DEF SortSegment, Sorts, Bijection, Injection
  <2>6. data' \in [Offsets -> Elements]
    BY <1>1, <2>5
  <2>7. NoRun \in Run
    BY DEF NoRun, Run, NULL
  <2>. QED
    BY <1>1, <1>9, <2>6, <2>7 DEF SortSegment, mainVars
<1>10. ASSUME NEW t \in Threads,
              BarrierArrive(t) \/ BarrierLeave(t) \/ MergeSkip(t)
       PROVE  DataOK'
  BY <1>1, <1>10 DEF BarrierArrive, BarrierLeave, MergeSkip, mainVars
<1>11. ASSUME NEW t \in Threads, MergeBegin(t) PROVE DataOK'
  <2>1. Other(t) \in Threads
    BY SMTT(30), <1>11 DEF MergeBegin, Merges, Other, IInv, ControlInv, ControlType
  <2>2. [left |-> segments[t].base,  m |-> segments[t].nmemb,
         right |-> segments[Other(t)].base,
         n |-> segments[Other(t)].nmemb, i |-> 0, j |-> 0] \in Merge
    <3>1. segments[t] \in Run /\ segments[Other(t)] \in Run
      BY <1>1, <2>1
    <3>. QED
      BY <3>1 DEF Run, Merge
  <2>. QED
    BY <1>1, <1>11, <2>2 DEF MergeBegin, mainVars
<1>12. ASSUME NEW t \in Threads,
              MergeTakeLeft(t) \/ MergeTakeRight(t) \/ MergeTakeRest(t)
       PROVE  DataOK'
  <2>1. PICK i \in 0 .. mrg[t].m, j \in 0 .. mrg[t].n, o \in Seq(Elements) :
             /\ mrg'[t] = [left |-> mrg[t].left, right |-> mrg[t].right,
                           m |-> mrg[t].m, n |-> mrg[t].n, i |-> i, j |-> j]
             /\ out'[t] = o /\ Len(o) = i + j
    BY <1>12, MergeTake
  <2>2. /\ UNCHANGED <<key, data, segments, own, part>>
        /\ out' = [out EXCEPT ![t] = out'[t]] /\ mrg' = [mrg EXCEPT ![t] = mrg'[t]]
    BY <1>1, <1>12 DEF MergeTakeLeft, MergeTakeRight, MergeTakeRest, mainVars
  <2>3. mrg'[t] \in Merge
    <3>1. mrg[t] \in Merge
      BY <1>1
    <3>2. i \in 0 .. nmemb /\ j \in 0 .. nmemb
      <4>1. mrg[t].m \in 0 .. nmemb /\ mrg[t].n \in 0 .. nmemb
        BY <3>1 DEF Merge
      <4>. QED
        BY <4>1
    <3>. QED
      BY <2>1, <3>1, <3>2 DEF Merge
  <2>. QED
    BY <1>1, <2>1, <2>2, <2>3
<1>13. ASSUME NEW t \in Threads, MergeStore(t) PROVE DataOK'
  <2>1. /\ pc[t] = "copy" /\ ~Merging(t)
        /\ segments' = [segments EXCEPT ![t].nmemb = mrg[t].m + mrg[t].n]
        /\ data' = [x \in Offsets |->
                      IF x \in Cells(segments[t].base, mrg[t].m + mrg[t].n)
                      THEN out[t][x - segments[t].base + 1] ELSE data[x]]
        /\ out' = [out EXCEPT ![t] = <<>>] /\ mrg' = [mrg EXCEPT ![t] = NoMerge]
        /\ UNCHANGED <<key, own, part>>
    BY <1>13 DEF MergeStore, mainVars
  <2>2. PICK m \in Nat, n \in Nat, i \in Nat, j \in Nat, left \in Nat :
            /\ mrg[t].m = m /\ mrg[t].n = n /\ mrg[t].i = i /\ mrg[t].j = j
            /\ segments[t].base = left /\ i <= m /\ j <= n
            /\ left + m + n <= nmemb /\ Len(out[t]) = i + j
    <3>1. /\ mrg[t].left \in Nat /\ mrg[t].m \in Nat /\ mrg[t].n \in Nat
          /\ mrg[t].i \in 0 .. mrg[t].m /\ mrg[t].j \in 0 .. mrg[t].n
          /\ mrg[t].right = mrg[t].left + mrg[t].m
          /\ mrg[t].right + mrg[t].n <= nmemb
          /\ mrg[t].left = segments[t].base
          /\ Len(out[t]) = mrg[t].i + mrg[t].j
      BY <2>1, MergeBounds
    <3>2. mrg[t].i \in Nat /\ mrg[t].j \in Nat /\ mrg[t].i <= mrg[t].m /\ mrg[t].j <= mrg[t].n
      BY <3>1
    <3>. QED
      BY <3>1, <3>2
  <2>3. Len(out[t]) = m + n
    <3>1. ~(i + j < m + n)
      BY <1>13, <2>1, <2>2 DEF Merging, MergeStore
    <3>. QED
      BY <2>2, <3>1
  <2>4. ASSUME NEW x \in Offsets, x \in Cells(left, m + n)
        PROVE  out[t][x - left + 1] \in Elements
    <3>1. x - left + 1 \in 1 .. m + n
      BY <2>4 DEF Cells
    <3>2. out[t] \in Seq(Elements)
      BY <1>1
    <3>. QED
      BY <2>3, <3>1, <3>2
  <2>5. data' \in [Offsets -> Elements]
    BY <1>1, <2>1, <2>2, <2>4
  <2>6. segments' \in [Threads -> Run]
    <3>1. [segments[t] EXCEPT !.nmemb = m + n] \in Run
      <4>1. m + n \in 0 .. nmemb /\ segments[t] \in Run
        BY <1>1, <2>2
      <4>. QED
        BY <4>1 DEF Run
    <3>2. segments' = [segments EXCEPT ![t] = [segments[t] EXCEPT !.nmemb = m + n]]
      BY <1>1, <2>1, <2>2
    <3>. QED
      BY <1>1, <3>1, <3>2
  <2>7. NoMerge \in Merge /\ <<>> \in Seq(Elements)
    BY DEF NoMerge, Merge, NULL
  <2>. QED
    BY <1>1, <2>1, <2>5, <2>6, <2>7
<1>14. ASSUME NEW t \in Threads, MergeRetire(t) PROVE DataOK'
  <2>1. NoRun \in Run
    BY DEF NoRun, Run, NULL
  <2>. QED
    BY <1>1, <1>14, <2>1 DEF MergeRetire, mainVars
<1>. QED
  BY <1>4, <1>5, <1>6, <1>7, <1>8, <1>9, <1>10, <1>11, <1>12, <1>13, <1>14
     DEF Next, MainStep, ThreadStep, MergeStep

-----------------------------------------------------------------------------
(* The invariant, and what follows from it *)

THEOREM Invariance == Spec => []IInv
<1>1. Init => IInv
  BY ControlInit, TypeInit DEF IInv
<1>2. IInv /\ [Next]_vars => IInv'
  BY ControlStep, GeometryStep, TypeStep DEF IInv
<1>. QED
  BY <1>1, <1>2, PTL DEF Spec

(* Every variable keeps its type: in particular psort_thread_run never     *)
(* indexes the array or the segments out of their bounds, and no thread    *)
(* ever leaves by the error exit of the barrier.                           *)
THEOREM TypeCorrect == Spec => []TypeOK
<1>1. IInv => TypeOK
  BY DEF IInv
<1>. QED
  BY <1>1, Invariance, PTL

(* Where the accesses of a thread lie: a segment being sorted is one piece *)
(* of the cut, a merge under way covers the pieces of both partners.       *)
MemIn(lo, hi) == {<<"mem", x>> : x \in lo .. hi - 1}

LEMMA SortAccess ==
    ASSUME IInv, NEW t \in Threads, pc[t] = "sort",
           NEW O \in [0 .. thread_count -> 0 .. nmemb],
           IsCut(O), \A u \in Threads : OwnsInv(O, u)
    PROVE  /\ t + 1 \in 0 .. thread_count
           /\ Writes(t) = MemIn(O[t], O[t + 1]) /\ Reads(t) = Writes(t)
<1>1. /\ step[t] = 1 /\ ~Behind(t) /\ own[t] = segments[t]
  BY DEF IInv, ControlInv, RoundInv, GeometryInv, LocalsInv, Behind
<1>2. t % step[t] = 0
  BY <1>1
<1>3. Covers(O, t, 1)
  BY <1>1, <1>2 DEF OwnsInv
<1>4. Upto(t + 1) = t + 1 /\ t + 1 \in 0 .. thread_count
  BY PsortAssumption DEF Upto
<1>5. PICK a \in Int, b \in Int : a = O[t] /\ b = O[t + 1]
  BY <1>4, PsortAssumption
<1>6. own[t].base = a /\ own[t].nmemb = b - a
  BY <1>1, <1>3, <1>4, <1>5 DEF Covers
<1>7. own[t].base + own[t].nmemb - 1 = b - 1
  BY <1>5, <1>6
<1>8. Mem(own[t].base, own[t].nmemb) = MemIn(a, b)
  BY <1>6, <1>7 DEF Mem, MemIn, Cells
<1>. QED
  BY <1>4, <1>5, <1>8 DEF Writes, Reads

LEMMA MergeAccess ==
    ASSUME IInv, NEW t \in Threads, pc[t] = "copy",
           NEW O \in [0 .. thread_count -> 0 .. nmemb],
           IsCut(O), \A u \in Threads : OwnsInv(O, u)
    PROVE  /\ Upto(t + 2 * step[t]) \in 0 .. thread_count
           /\ Writes(t) = Seg(t) \cup MemIn(O[t], O[Upto(t + 2 * step[t])])
           /\ Reads(t) \subseteq Writes(t)
<1>1. PICK s \in Nat \ {0} : s = step[t]
  BY DEF IInv, ControlInv, ControlType
<1>2. /\ Behind(t) /\ Other(t) = t + s /\ t % (2 * s) = 0
      /\ t + s < thread_count /\ t + s \in 0 .. thread_count
  BY SMTT(30), <1>1, PsortAssumption DEF IInv, ControlInv, RoundInv, Merges, Other, Behind
<1>3. Covers(O, t, s) /\ Covers(O, t + s, s)
  BY <1>1, <1>2 DEF OwnsInv
<1>4. t + s + s = t + 2 * s
  OBVIOUS
<1>5. PICK e \in 0 .. thread_count : e = Upto(t + 2 * s)
  BY PsortAssumption DEF Upto
<1>6. PICK a \in Int, b \in Int, c \in Int :
          a = O[t] /\ b = O[t + s] /\ c = O[e] /\ a <= b /\ b <= c
  <2>1. t <= t + s /\ t + s <= e
    BY <1>2, <1>5, PsortAssumption DEF Upto
  <2>. QED
    BY <1>2, <2>1, PsortAssumption DEF IsCut
<1>7. /\ segments[t] = [base |-> a, nmemb |-> b - a]
      /\ segments[t + s] = [base |-> b, nmemb |-> c - b]
  BY <1>2, <1>3, <1>4, <1>5, <1>6 DEF Covers, Upto
<1>8. /\ mrg[t].left = a /\ mrg[t].m = b - a
      /\ mrg[t].right = b /\ mrg[t].n = c - b
  BY <1>2, <1>7 DEF IInv, GeometryInv, LocalsInv
<1>9. /\ Cells(segments[t].base, mrg[t].m + mrg[t].n) = a .. c - 1
      /\ Cells(mrg[t].left, mrg[t].m) \subseteq a .. c - 1
      /\ Cells(mrg[t].right, mrg[t].n) \subseteq a .. c - 1
  <2>1. ASSUME NEW x \in Int, NEW y \in Int, NEW z \in Int
        PROVE  /\ x + ((y - x) + (z - y)) - 1 = z - 1
               /\ x + (y - x) - 1 = y - 1
    OBVIOUS
  <2>2. /\ segments[t].base + (mrg[t].m + mrg[t].n) - 1 = c - 1
        /\ mrg[t].left + mrg[t].m - 1 = b - 1
        /\ mrg[t].right + mrg[t].n - 1 = c - 1
    BY <1>7, <1>8, <2>1
  <2>3. a .. b - 1 \subseteq a .. c - 1 /\ b .. c - 1 \subseteq a .. c - 1
    <3>1. a <= b /\ b <= c
      BY <1>6
    <3>2. ASSUME NEW x \in a .. b - 1 PROVE x \in a .. c - 1
      BY ONLY <3>1, <3>2, a \in Int, b \in Int, c \in Int
    <3>3. ASSUME NEW x \in b .. c - 1 PROVE x \in a .. c - 1
      BY ONLY <3>1, <3>3, a \in Int, b \in Int, c \in Int
    <3>. QED
      BY <3>2, <3>3, Zenon
  <2>4. segments[t].base = a /\ mrg[t].left = a /\ mrg[t].right = b
    BY <1>7, <1>8
  <2>5. /\ Cells(segments[t].base, mrg[t].m + mrg[t].n) = a .. c - 1
        /\ Cells(mrg[t].left, mrg[t].m) = a .. b - 1
        /\ Cells(mrg[t].right, mrg[t].n) = b .. c - 1
    BY <2>2, <2>4, Zenon DEF Cells
  <2>. QED
    BY <2>3, <2>5
<1>10. /\ Mem(segments[t].base, mrg[t].m + mrg[t].n) = MemIn(a, c)
       /\ Mem(mrg[t].left, mrg[t].m) \subseteq MemIn(a, c)
       /\ Mem(mrg[t].right, mrg[t].n) \subseteq MemIn(a, c)
  BY <1>9 DEF Mem, MemIn
<1>. QED
  BY <1>1, <1>5, <1>6, <1>10 DEF Writes, Reads

(* No thread ever reads or writes an element or a descriptor that another  *)
(* thread is writing at the same time, although nothing but the barrier    *)
(* and the arithmetic of the indices keeps them apart.                     *)
THEOREM RaceFree == Spec => []NoConflictingAccess
<1>1. ASSUME IInv, NEW t \in Threads, NEW u \in Threads, t # u
      PROVE  Writes(t) \cap (Reads(u) \cup Writes(u)) = {}
  <2>. USE <1>1 DEF IInv
  <2>0. /\ pc[t] \in PCs /\ pc[u] \in PCs
        /\ \A v \in Threads : pc[v] \in {"copy", "retire"} => Merges(v) /\ Behind(v)
        /\ \A v \in Threads : pc[v] = "merge" => Behind(v)
        /\ \A v \in Threads : pc[v] \in {"start", "sort"} => step[v] = 1 /\ ~Behind(v)
    BY DEF ControlInv, ControlType, RoundInv, BarrierInv, Behind
  <2>a. \A v, w \in Threads : pc[v] \in {"start", "sort"} => ~Behind(w)
    <3>1. SUFFICES ASSUME NEW v \in Threads, NEW w \in Threads, step[v] = 1,
                          ~Behind(v), Behind(w)
                   PROVE  FALSE
      BY <2>0
    <3>2. step[v] = 2 * step[w] /\ step[w] \in Nat
      BY <3>1 DEF ControlInv, ControlType, BarrierLockstep
    <3>. QED
      BY <3>1, <3>2
  <2>b. \A k, lo, hi : <<"seg", k>> \notin MemIn(lo, hi)
    BY DEF MemIn
  <2>c. ASSUME NEW a \in Int, NEW b \in Int, NEW c \in Int, NEW d \in Int,
               b <= c \/ d <= a
        PROVE  MemIn(a, b) \cap MemIn(c, d) = {}
    BY <2>c DEF MemIn
  <2>d. ASSUME pc[t] \in {"sort", "copy"}
        PROVE  \E O \in [0 .. thread_count -> 0 .. nmemb] :
                   IsCut(O) /\ \A v \in Threads : OwnsInv(O, v)
    BY <2>d, PsortAssumption
       DEF GeometryInv, Geometry, EnterInv, ControlInv, MainInv
  <2>1. CASE pc[t] = "sort"
    <3>1. PICK O \in [0 .. thread_count -> 0 .. nmemb] :
              IsCut(O) /\ \A v \in Threads : OwnsInv(O, v)
      BY <2>1, <2>d
    <3>2. t + 1 \in 0 .. thread_count /\ Writes(t) = MemIn(O[t], O[t + 1])
      BY <2>1, <3>1, SortAccess
    <3>3. pc[u] \notin {"merge", "copy", "retire"}
      BY <2>0, <2>1, <2>a
    <3>4. CASE pc[u] = "sort"
      <4>1. u + 1 \in 0 .. thread_count /\ Writes(u) = MemIn(O[u], O[u + 1])
            /\ Reads(u) = Writes(u)
        BY <3>1, <3>4, SortAccess
      <4>2. PICK a \in Int, b \in Int, c \in Int, d \in Int :
                a = O[t] /\ b = O[t + 1] /\ c = O[u] /\ d = O[u + 1]
        BY <3>2, <4>1, PsortAssumption
      <4>3. b <= c \/ d <= a
        <5>1. t + 1 <= u \/ u + 1 <= t
          OBVIOUS
        <5>. QED
          BY <3>1, <3>2, <4>1, <4>2, <5>1, PsortAssumption DEF IsCut
      <4>. QED
        BY <3>2, <4>1, <4>2, <4>3, <2>c
    <3>5. CASE pc[u] = "start"
      BY <3>2, <3>5, <2>b DEF Reads, Writes, Seg
    <3>6. CASE pc[u] \notin {"start", "sort"}
      BY <3>3, <3>6 DEF Reads, Writes
    <3>. QED
      BY <3>4, <3>5, <3>6
  <2>2. CASE pc[t] = "copy"
    <3>1. PICK O \in [0 .. thread_count -> 0 .. nmemb] :
              IsCut(O) /\ \A v \in Threads : OwnsInv(O, v)
      BY <2>2, <2>d
    <3>2. PICK s \in Nat \ {0} : s = step[t]
      BY DEF ControlInv, ControlType
    <3>3. PICK e \in 0 .. thread_count :
              e = Upto(t + 2 * s) /\ Writes(t) = Seg(t) \cup MemIn(O[t], O[e])
      BY <2>2, <3>1, <3>2, MergeAccess
    <3>4. pc[u] \notin {"start", "sort"} /\ Merges(t) /\ Behind(t)
      BY <2>0, <2>2, <2>a
    <3>5. Behind(u) => step[u] = s
      BY <3>2, <3>4, Partners
    <3>6. Behind(u) /\ Merges(u) => Other(u) # t
      BY <3>4, Partners DEF Merges
    <3>7. CASE pc[u] = "copy"
      <4>1. Behind(u) /\ Merges(u) /\ step[u] = s
        BY <2>0, <3>5, <3>7
      <4>2. PICK f \in 0 .. thread_count :
                /\ f = Upto(u + 2 * s) /\ Writes(u) = Seg(u) \cup MemIn(O[u], O[f])
                /\ Reads(u) \subseteq Writes(u)
        BY <3>1, <3>7, <4>1, MergeAccess
      <4>3. t % (2 * s) = 0 /\ u % (2 * s) = 0
        BY <3>2, <3>4, <4>1 DEF Merges
      <4>4. t + 2 * s <= u \/ u + 2 * s <= t
        <5>1. t \in Nat /\ u \in Nat /\ 2 * s \in Nat \ {0} /\ (t < u \/ u < t)
          BY PsortAssumption
        <5>. QED
          BY <4>3, <5>1, Apart, Zenon
      <4>5. e <= u \/ f <= t
        BY <3>3, <4>2, <4>4, PsortAssumption DEF Upto
      <4>6. PICK a \in Int, b \in Int, c \in Int, d \in Int :
                a = O[t] /\ b = O[e] /\ c = O[u] /\ d = O[f]
        BY PsortAssumption
      <4>7. b <= c \/ d <= a
        BY <3>1, <4>5, <4>6, PsortAssumption DEF IsCut
      <4>8. MemIn(O[t], O[e]) \cap MemIn(O[u], O[f]) = {}
        BY <4>6, <4>7, <2>c
      <4>9. Writes(t) \cap Writes(u) = {}
        BY <3>3, <4>2, <4>8, <2>b DEF Seg
      <4>. QED
        BY <4>2, <4>9
    <3>8. CASE pc[u] = "merge"
      <4>1. Writes(u) = {} /\ (Reads(u) # {} => Merges(u))
            /\ Reads(u) \subseteq Seg(u) \cup Seg(Other(u))
        BY <3>8 DEF Reads, Writes
      <4>2. Behind(u)
        BY <2>0, <3>8
      <4>. QED
        BY <3>3, <3>6, <4>1, <4>2, <2>b DEF Seg
    <3>9. CASE pc[u] = "retire"
      <4>1. Writes(u) = Seg(Other(u)) /\ Reads(u) = {} /\ Other(u) # t
        BY <2>0, <3>6, <3>9 DEF Reads, Writes
      <4>. QED
        BY <3>3, <4>1, <2>b DEF Seg
    <3>10. CASE pc[u] \notin {"copy", "merge", "retire"}
      BY <3>4, <3>10 DEF Reads, Writes
    <3>. QED
      BY <3>7, <3>8, <3>9, <3>10
  <2>3. CASE pc[t] = "retire"
    <3>1. Writes(t) = Seg(Other(t)) /\ Merges(t) /\ Behind(t)
      BY <2>0, <2>3 DEF Writes
    <3>2. pc[u] \notin {"start", "sort"}
      BY <2>a, <3>1
    <3>3. Behind(u) /\ Merges(u) => u # Other(t) /\ Other(u) # Other(t)
      BY <3>1, Partners DEF Merges
    <3>4. CASE pc[u] = "copy"
      <4>1. Behind(u) /\ Merges(u)
        BY <2>0, <3>4
      <4>2. Reads(u) \cup Writes(u) \subseteq
                Seg(u) \cup {<<"mem", x>> : x \in Int}
        <5>1. Cells(segments[u].base, mrg[u].m + mrg[u].n) \subseteq Int
              /\ Cells(mrg[u].left, mrg[u].m) \subseteq Int
              /\ Cells(mrg[u].right, mrg[u].n) \subseteq Int
          BY DEF Cells
        <5>. QED
          BY <3>4, <5>1 DEF Reads, Writes, Mem
      <4>. QED
        BY <3>1, <3>3, <4>1, <4>2 DEF Seg
    <3>5. CASE pc[u] = "merge"
      <4>1. Writes(u) = {} /\ (Reads(u) # {} => Merges(u))
            /\ Reads(u) \subseteq Seg(u) \cup Seg(Other(u))
        BY <3>5 DEF Reads, Writes
      <4>2. Behind(u)
        BY <2>0, <3>5
      <4>. QED
        BY <3>1, <3>3, <4>1, <4>2 DEF Seg
    <3>6. CASE pc[u] = "retire"
      <4>1. Writes(u) = Seg(Other(u)) /\ Reads(u) = {} /\ Behind(u) /\ Merges(u)
        BY <2>0, <3>6 DEF Reads, Writes
      <4>. QED
        BY <3>1, <3>3, <4>1 DEF Seg
    <3>7. CASE pc[u] \notin {"copy", "merge", "retire"}
      BY <3>2, <3>7 DEF Reads, Writes
    <3>. QED
      BY <3>4, <3>5, <3>6, <3>7
  <2>4. CASE pc[t] \notin {"sort", "copy", "retire"}
    BY <2>4 DEF Writes
  <2>. QED
    BY <2>1, <2>2, <2>3, <2>4
<1>2. IInv => NoConflictingAccess
  BY <1>1 DEF NoConflictingAccess
<1>. QED
  BY <1>2, Invariance, PTL

-----------------------------------------------------------------------------
(***************************************************************************)
(* Layer 3: what is in the segments                                        *)
(*                                                                         *)
(* Psort implements SortSpec, for every array, every number of threads and *)
(* every algorithm: whatever the threads do in which order, psort_r        *)
(* returns the elements of the array in ascending order, and in stable     *)
(* order if the segments are sorted by a stable algorithm.                 *)
(*                                                                         *)
(* The layers above tell where the segments are and that nobody disturbs a *)
(* thread.  ContentInv adds what is in the segments: each one that is      *)
(* sorted holds, in order, the elements the caller had at its offsets, and *)
(* a merge under way has put out, in order, what it has taken from its two *)
(* segments, and nothing that belongs behind what it has left there.       *)
(***************************************************************************)

-----------------------------------------------------------------------------
(* The order of the result *)

stable == sort_type \in StableSortTypes

(* Element e may stand before element f: it is smaller, or equal and, in a *)
(* stable sort, from a smaller offset.                                     *)
Before(c, e, f) == c[e] < c[f] \/ (c[e] = c[f] /\ (stable => e < f))

Ascends(c, d, R) == \A x, y \in R : x < y => Before(c, d[x], d[y])

(* d holds every element once. *)
Permutes(d) ==
    /\ \A x, y \in Offsets : d[x] = d[y] => x = y
    /\ \A e \in Elements : \E x \in Offsets : d[x] = e

(* The offsets in R hold the elements the caller had there.                *)
Keeps(d, R) == \A x \in R : d[x] - 1 \in R

(* o is what a merge has put out when it has taken the elements at the     *)
(* offsets T and those at the offsets R remain.                            *)
Merged(c, d, o, T, R) ==
    /\ \A q \in 1 .. Len(o) : \E x \in T : o[q] = d[x]
    /\ \A x \in T : \E q \in 1 .. Len(o) : o[q] = d[x]
    /\ \A q, r \in 1 .. Len(o) : q < r => Before(c, o[q], o[r]) /\ o[q] # o[r]
    /\ \A q \in 1 .. Len(o), x \in R : Before(c, o[q], d[x])

-----------------------------------------------------------------------------
(* The invariant *)

Within(k) == Cells(segments[k].base, segments[k].nmemb)

(* The segment of k has been sorted.                                       *)
Settled(k) == pc[k] \notin {"none", "start", "sort"}

(* The segment of k is merged into that of its partner, but k still has a  *)
(* descriptor.                                                             *)
Given(k) == \E t \in Threads : pc[t] = "retire" /\ Other(t) = k

PermInv == Permutes(data)

ApartInv ==
    mpc \notin {"enter", "partition"} /\ nmemb > 1 =>
        /\ \A k \in Threads : Within(k) \subseteq Offsets
        /\ \A k, l \in Threads :
               k # l /\ ~Given(k) /\ ~Given(l) => Within(k) \cap Within(l) = {}

FreshInv ==
    /\ mpc \in {"enter", "partition"} \/ nmemb <= 1 =>
           \A x \in Offsets : data[x] = x + 1
    /\ mpc \notin {"enter", "partition"} /\ nmemb > 1 =>
           \A k \in Threads : ~Settled(k) => \A x \in Within(k) : data[x] = x + 1

SettledInv ==
    \A k \in Threads : Settled(k) /\ ~Given(k) =>
        Ascends(key, data, Within(k)) /\ Keeps(data, Within(k))

(* The offsets whose elements the merge of t has taken, and the others.    *)
Taken(z) == Cells(z.left, z.i) \cup Cells(z.right, z.j)
Left(z)  == Cells(z.left + z.i, z.m - z.i) \cup Cells(z.right + z.j, z.n - z.j)

MergeInv ==
    \A t \in Threads : pc[t] = "copy" =>
        Merged(key, data, out[t], Taken(mrg[t]), Left(mrg[t]))

ContentInv == PermInv /\ ApartInv /\ FreshInv /\ SettledInv /\ MergeInv

-----------------------------------------------------------------------------
(* Facts about orders and runs *)

USE DEF Threads

(* Before is transitive, with the offsets and without them.                *)
LEMMA BeforeTransitive ==
    ASSUME NEW c \in [Elements -> Int],
           NEW e \in Elements, NEW f \in Elements, NEW g \in Elements,
           Before(c, e, f), Before(c, f, g)
    PROVE  Before(c, e, g)
<1>1. c[e] \in Int /\ c[f] \in Int /\ c[g] \in Int
  OBVIOUS
<1>2. e \in Int /\ f \in Int /\ g \in Int
  BY PsortAssumption DEF Elements
<1>. QED
  BY <1>1, <1>2 DEF Before

(* o becomes s when the elements of a run of len offsets are put out, none *)
(* of which belongs behind what then remains.                              *)
PutsOut(c, d, o, s, T, R, K, from, len) ==
    /\ c \in [Elements -> Int] /\ d \in [Offsets -> Elements] /\ Permutes(d)
    /\ o \in Seq(Elements) /\ s \in Seq(Elements)
    /\ T \subseteq Offsets /\ R \subseteq Offsets /\ T \cap R = {}
    /\ from \in Int /\ len \in Nat /\ K \subseteq R /\ K = Cells(from, len)
    /\ Len(s) = Len(o) + len
    /\ \A q \in 1 .. Len(o) : s[q] = o[q]
    /\ \A x \in K : s[Len(o) + 1 + x - from] = d[x]
    /\ Ascends(c, d, K)
    /\ \A x \in K, y \in R \ K : Before(c, d[x], d[y])

LEMMA PutOut ==
    ASSUME NEW c, NEW d, NEW o, NEW s, NEW T, NEW R, NEW K, NEW from, NEW len,
           Merged(c, d, o, T, R), PutsOut(c, d, o, s, T, R, K, from, len)
    PROVE  Merged(c, d, s, T \cup K, R \ K)
<1>. USE DEF PutsOut
<1>. DEFINE L == Len(o)
<1>0. L \in Nat /\ Len(s) = L + len
  OBVIOUS
<1>1. \A q \in 1 .. Len(s) : q \notin 1 .. L =>
          from + q - L - 1 \in K /\ s[q] = d[from + q - L - 1]
  <2>1. SUFFICES ASSUME NEW q \in 1 .. Len(s), q \notin 1 .. L
                 PROVE  from + q - L - 1 \in K /\ s[q] = d[from + q - L - 1]
    OBVIOUS
  <2>2. q \in Int /\ L < q /\ q <= L + len
    BY <1>0, <2>1
  <2>3. from + q - L - 1 \in K
    BY <1>0, <2>2 DEF Cells
  <2>4. L + 1 + (from + q - L - 1) - from = q
    BY <1>0, <2>2
  <2>. QED
    BY <2>3, <2>4
<1>2. \A x \in K : L + 1 + x - from \in 1 .. Len(s) /\ x \in Int
  BY <1>0 DEF Cells
<1>3. 1 .. L \subseteq 1 .. Len(s)
  BY <1>0
<1>4. \A q \in 1 .. L : s[q] = o[q]
  OBVIOUS
<1>. HIDE DEF L
<1>. USE DEF Merged
<1>5. \A q \in 1 .. L : \E x \in T : s[q] = d[x]
  BY <1>4 DEF L
<1>6. \A q \in 1 .. Len(s) : \E x \in T \cup K : s[q] = d[x]
  BY <1>1, <1>5
<1>7. \A x \in T \cup K : \E q \in 1 .. Len(s) : s[q] = d[x]
  <2>1. ASSUME NEW x \in T PROVE \E q \in 1 .. Len(s) : s[q] = d[x]
    <3>1. PICK q \in 1 .. L : o[q] = d[x]
      BY DEF L
    <3>. QED
      BY <1>3, <1>4, <3>1
  <2>2. ASSUME NEW x \in K PROVE \E q \in 1 .. Len(s) : s[q] = d[x]
    BY <1>2 DEF L
  <2>. QED
    BY <2>1, <2>2
<1>8. ASSUME NEW q \in 1 .. Len(s), NEW r \in 1 .. Len(s), q < r
      PROVE  Before(c, s[q], s[r]) /\ s[q] # s[r]
  <2>1. CASE q \in 1 .. L /\ r \in 1 .. L
    BY <1>4, <1>8, <2>1 DEF L
  <2>2. CASE q \in 1 .. L /\ r \notin 1 .. L
    <3>1. PICK y \in K : s[r] = d[y]
      BY <1>1, <2>2
    <3>2. PICK x \in T : o[q] = d[x]
      BY <2>2 DEF L
    <3>3. x # y /\ x \in Offsets /\ y \in Offsets /\ y \in R
      OBVIOUS
    <3>4. d[x] # d[y]
      BY <3>3 DEF Permutes
    <3>5. Before(c, o[q], d[y])
      BY <2>2, <3>3 DEF L
    <3>. QED
      BY <1>4, <2>2, <3>1, <3>2, <3>4, <3>5
  <2>3. CASE q \notin 1 .. L /\ r \notin 1 .. L
    <3>. DEFINE x == from + q - L - 1
                y == from + r - L - 1
    <3>1. x \in K /\ y \in K /\ s[q] = d[x] /\ s[r] = d[y]
      BY <1>1, <2>3
    <3>2. x < y /\ x # y
      BY <1>0, <1>8 DEF L
    <3>. HIDE DEF x, y
    <3>3. Before(c, d[x], d[y])
      BY <3>1, <3>2 DEF Ascends
    <3>4. d[x] # d[y]
      BY <3>1, <3>2 DEF Permutes
    <3>. QED
      BY <3>1, <3>3, <3>4
  <2>4. ~(q \notin 1 .. L /\ r \in 1 .. L)
    BY <1>0, <1>8 DEF L
  <2>. QED
    BY <2>1, <2>2, <2>3, <2>4
<1>9. ASSUME NEW q \in 1 .. Len(s), NEW y \in R \ K
      PROVE  Before(c, s[q], d[y])
  <2>1. CASE q \in 1 .. L
    BY <1>4, <2>1 DEF L
  <2>2. CASE q \notin 1 .. L
    BY <1>1, <2>2
  <2>. QED
    BY <2>1, <2>2
<1>. QED
  BY <1>6, <1>7, <1>8, <1>9

(* Elements that are written back in another order, at the offsets they    *)
(* come from, are still all there.                                         *)
LEMMA WrittenBack ==
    ASSUME NEW d \in [Offsets -> Elements], Permutes(d),
           NEW e \in [Offsets -> Elements], NEW R \in SUBSET Offsets,
           \A x \in Offsets \ R : e[x] = d[x],
           \A x \in R : \E y \in R : e[x] = d[y],
           \A y \in R : \E x \in R : e[x] = d[y],
           \A x, y \in R : x # y => e[x] # e[y]
    PROVE  Permutes(e) /\ (Keeps(d, R) => Keeps(e, R))
<1>1. ASSUME NEW x \in Offsets, NEW y \in Offsets, e[x] = e[y] PROVE x = y
  <2>1. CASE x \in R /\ y \in R
    BY <1>1, <2>1
  <2>2. CASE x \in R /\ y \notin R
    <3>1. PICK z \in R : e[x] = d[z]
      BY <2>2
    <3>2. y \in Offsets \ R
      BY <2>2
    <3>3. e[y] = d[y]
      BY <3>2
    <3>4. d[z] = d[y] /\ z \in Offsets /\ y \in Offsets
      BY <1>1, <3>1, <3>3
    <3>. QED
      BY <2>2, <3>4 DEF Permutes
  <2>3. CASE x \notin R /\ y \in R
    <3>1. PICK z \in R : e[y] = d[z]
      BY <2>3
    <3>2. x \in Offsets \ R
      BY <2>3
    <3>3. e[x] = d[x]
      BY <3>2
    <3>4. d[z] = d[x] /\ z \in Offsets /\ x \in Offsets
      BY <1>1, <3>1, <3>3
    <3>. QED
      BY <2>3, <3>4 DEF Permutes
  <2>4. CASE x \notin R /\ y \notin R
    BY <1>1, <2>4 DEF Permutes
  <2>. QED
    BY <2>1, <2>2, <2>3, <2>4
<1>2. ASSUME NEW a \in Elements PROVE \E x \in Offsets : e[x] = a
  <2>1. PICK y \in Offsets : d[y] = a
    BY DEF Permutes
  <2>. QED
    BY <2>1
<1>3. Keeps(d, R) => Keeps(e, R)
  BY DEF Keeps
<1>. QED
  BY <1>1, <1>2, <1>3 DEF Permutes

-----------------------------------------------------------------------------
(* What is still as it was after a step *)

(* Threads are behind the barrier only when all segments are sorted.       *)
LEMMA AllSettled ==
    ASSUME IInv, NEW t \in Threads, Behind(t)
    PROVE  \A k \in Threads : Settled(k)
<1>1. SUFFICES ASSUME NEW k \in Threads, ~Settled(k) PROVE FALSE
  OBVIOUS
<1>2. step[k] = 1 /\ ~Behind(k)
  BY <1>1 DEF Settled, IInv, ControlInv, RoundInv, Behind
<1>3. step[k] = 2 * step[t] /\ step[t] \in Nat
  BY <1>2 DEF IInv, ControlInv, ControlType, BarrierLockstep
<1>. QED
  BY <1>2, <1>3

(* Nobody has given away one of the two segments that t merges.            *)
LEMMA PartnersNotGiven ==
    ASSUME IInv, NEW t \in Threads, Behind(t), Merges(t), pc[t] # "retire"
    PROVE  ~Given(t) /\ ~Given(Other(t))
<1>1. SUFFICES ASSUME NEW u \in Threads, pc[u] = "retire"
               PROVE  Other(u) # t /\ Other(u) # Other(t)
  BY DEF Given
<1>2. Behind(u) /\ u # t /\ u % (2 * step[u]) = 0
  BY <1>1 DEF IInv, ControlInv, RoundInv, Merges, Behind
<1>. QED
  BY <1>2, Partners DEF IInv

(* Which descriptors are given away depends on the partners only.          *)
LEMMA GivenFrame ==
    ASSUME \A t \in Threads : /\ pc'[t] = "retire" <=> pc[t] = "retire"
                              /\ pc[t] = "retire" => step'[t] = step[t],
           NEW k
    PROVE  Given(k)' <=> Given(k)
  BY DEF Given, Other

(* A step that moves neither elements nor segments leaves in order what is *)
(* in order.                                                               *)
LEMMA ContentFrame ==
    ASSUME ContentInv, UNCHANGED <<key, data, segments>>,
           mpc' \in {"enter", "partition"} <=> mpc \in {"enter", "partition"},
           \A t \in Threads : /\ Settled(t)' <=> Settled(t)
                              /\ pc'[t] = "retire" <=> pc[t] = "retire"
                              /\ pc[t] = "retire" => step'[t] = step[t]
    PROVE  PermInv' /\ ApartInv' /\ FreshInv' /\ SettledInv'
<1>1. /\ \A k : Given(k)' <=> Given(k)
      /\ \A k : Within(k)' = Within(k)
  BY GivenFrame DEF Within
<1>2. PermInv'
  BY DEF ContentInv, PermInv
<1>3. ApartInv'
  BY <1>1 DEF ContentInv, ApartInv
<1>4. FreshInv'
  BY <1>1 DEF ContentInv, FreshInv
<1>5. SettledInv'
  BY <1>1 DEF ContentInv, SettledInv
<1>. QED
  BY <1>2, <1>3, <1>4, <1>5

(* The offsets a merge takes from, and how its segments lie.               *)
LEMMA MergeWithin ==
    ASSUME IInv, NEW t \in Threads, pc[t] = "copy"
    PROVE  /\ Behind(t) /\ Merges(t) /\ Other(t) \in Threads /\ Other(t) # t
           /\ Within(t) = Cells(mrg[t].left, mrg[t].m)
           /\ Within(Other(t)) = Cells(mrg[t].right, mrg[t].n)
           /\ Taken(mrg[t]) \cup Left(mrg[t]) = Within(t) \cup Within(Other(t))
           /\ Taken(mrg[t]) \cap Left(mrg[t]) = {}
           /\ Taken(mrg[t]) \subseteq Offsets /\ Left(mrg[t]) \subseteq Offsets
<1>1. Behind(t) /\ Merges(t)
  BY DEF IInv, ControlInv, RoundInv, Behind
<1>2. Other(t) \in Threads /\ Other(t) # t
  <2>1. step[t] \in Nat \ {0} /\ t \in Nat
    BY DEF IInv, ControlInv, ControlType
  <2>. QED
    BY <1>1, <2>1, PsortAssumption DEF Merges, Other
<1>3. /\ Within(t) = Cells(mrg[t].left, mrg[t].m)
      /\ Within(Other(t)) = Cells(mrg[t].right, mrg[t].n)
  BY DEF IInv, GeometryInv, LocalsInv, Within
<1>4. PICK left \in Nat, right \in Nat, m \in Nat, n \in Nat, i \in Nat, j \in Nat :
          /\ mrg[t].left = left /\ mrg[t].right = right
          /\ mrg[t].m = m /\ mrg[t].n = n /\ mrg[t].i = i /\ mrg[t].j = j
          /\ i <= m /\ j <= n /\ right = left + m /\ right + n <= nmemb
  <2>1. /\ mrg[t].left \in Nat /\ mrg[t].m \in Nat /\ mrg[t].n \in Nat
        /\ mrg[t].i \in 0 .. mrg[t].m /\ mrg[t].j \in 0 .. mrg[t].n
        /\ mrg[t].right = mrg[t].left + mrg[t].m
        /\ mrg[t].right + mrg[t].n <= nmemb
    BY MergeBounds
  <2>2. mrg[t].right \in Nat /\ mrg[t].i \in Nat /\ mrg[t].j \in Nat
    BY <2>1
  <2>3. mrg[t].i <= mrg[t].m /\ mrg[t].j <= mrg[t].n
    BY <2>1
  <2>. QED
    BY <2>1, <2>2, <2>3
<1>5. /\ Taken(mrg[t]) = Cells(left, i) \cup Cells(right, j)
      /\ Left(mrg[t]) = Cells(left + i, m - i) \cup Cells(right + j, n - j)
  BY <1>4 DEF Taken, Left
<1>6. /\ Cells(left, i) \cup Cells(left + i, m - i) = Cells(left, m)
      /\ Cells(right, j) \cup Cells(right + j, n - j) = Cells(right, n)
  BY <1>4 DEF Cells
<1>7. Taken(mrg[t]) \cup Left(mrg[t]) = Within(t) \cup Within(Other(t))
  BY <1>3, <1>4, <1>5, <1>6
<1>8. Taken(mrg[t]) \cap Left(mrg[t]) = {}
  BY <1>4, <1>5 DEF Cells
<1>9. Cells(left, m) \subseteq Offsets /\ Cells(right, n) \subseteq Offsets
  BY <1>4, PsortAssumption DEF Cells, Offsets
<1>10. Taken(mrg[t]) \subseteq Offsets /\ Left(mrg[t]) \subseteq Offsets
  BY <1>5, <1>6, <1>9
<1>. QED
  BY <1>1, <1>2, <1>3, <1>7, <1>8, <1>10

(* A merge depends on the elements at the offsets of its segments only.    *)
LEMMA SameElements ==
    ASSUME NEW c, NEW d, NEW e, NEW o, NEW T, NEW R,
           \A x \in T \cup R : e[x] = d[x],
           Merged(c, d, o, T, R)
    PROVE  Merged(c, e, o, T, R)
<1>. USE DEF Merged
<1>1. \A q \in 1 .. Len(o) : \E x \in T : o[q] = e[x]
  OBVIOUS
<1>2. \A x \in T : \E q \in 1 .. Len(o) : o[q] = e[x]
  OBVIOUS
<1>3. \A q \in 1 .. Len(o), x \in R : Before(c, o[q], e[x])
  OBVIOUS
<1>. QED
  BY <1>1, <1>2, <1>3

(* A merge nobody disturbs: the elements of its segments are where they    *)
(* were.                                                                   *)
LEMMA MergeFrame ==
    ASSUME IInv, ContentInv, NEW u \in Threads, pc[u] = "copy",
           mrg'[u] = mrg[u], out'[u] = out[u], key' = key,
           \A x \in Within(u) \cup Within(Other(u)) : data'[x] = data[x]
    PROVE  Merged(key, data, out[u], Taken(mrg[u]), Left(mrg[u]))'
<1>1. \A x \in Taken(mrg[u]) \cup Left(mrg[u]) : data'[x] = data[x]
  BY MergeWithin
<1>2. Merged(key, data, out[u], Taken(mrg[u]), Left(mrg[u]))
  BY DEF ContentInv, MergeInv
<1>3. Taken(mrg[u])' = Taken(mrg[u]) /\ Left(mrg[u])' = Left(mrg[u])
  BY DEF Taken, Left
<1>4. Merged(key, data', out[u], Taken(mrg[u]), Left(mrg[u]))
  BY <1>1, <1>2, SameElements
<1>. QED
  BY <1>3, <1>4

-----------------------------------------------------------------------------
(* The steps *)

(* A thread sorts its own segment in place; all others are before their    *)
(* barriers, and keep what they have.                                      *)
LEMMA SortContent ==
    ASSUME IInv, IInv', ContentInv, NEW t \in Threads, SortSegment(t)
    PROVE  ContentInv'
<1>1. /\ pc[t] = "sort" /\ mpc \notin {"enter", "partition"} /\ nmemb > 1
      /\ own[t] = segments[t]
  BY ThreadPhase DEF IInv, GeometryInv, LocalsInv, SortSegment, mainVars
<1>. DEFINE R == Within(t)
<1>2. R \subseteq Offsets /\ \A x \in R : data[x] = x + 1
  BY <1>1 DEF ContentInv, ApartInv, FreshInv, Settled
<1>3. R = Cells(own[t].base, own[t].nmemb)
  BY <1>1 DEF Within
<1>4. PICK p \in Sorts(R, sort_type) :
          data' = [x \in Offsets |-> IF x \in R THEN data[p[x]] ELSE data[x]]
  BY <1>3 DEF SortSegment
<1>5. /\ \A x \in R : p[x] \in R
      /\ \A x, y \in R : x # y => p[x] # p[y]
      /\ \A y \in R : \E x \in R : p[x] = y
  BY <1>4 DEF Sorts, Bijection, Injection, Surjection, IsInjective
<1>6. \A x, y \in R : x < y =>
          LET c == Compare(key, data[p[x]], data[p[y]])
          IN  c < 0 \/ (c = 0 /\ (stable => p[x] < p[y]))
  BY <1>4 DEF Sorts, stable
<1>. HIDE DEF R
<1>7. /\ UNCHANGED <<key, segments, mpc>>
      /\ \A u \in Threads : u # t => pc'[u] = pc[u]
      /\ pc'[t] \in {"barrier", "done"}
  BY <1>1 DEF SortSegment, NextRound, mainVars, IInv, TypeOK
<1>8. \A u \in Threads : ~Behind(u)
  BY <1>1, AllSettled DEF Settled
<1>9. \A u \in Threads : pc'[u] \notin {"copy", "retire"} /\ pc[u] \notin {"copy", "retire"}
  BY <1>7, <1>8 DEF Behind
<1>10. \A k : ~Given(k) /\ ~Given(k)'
  BY <1>9 DEF Given
<1>11. \A k : Within(k)' = Within(k)
  BY <1>7 DEF Within
<1>12. data \in [Offsets -> Elements] /\ data' \in [Offsets -> Elements]
  BY DEF IInv, TypeOK
<1>13. \A x \in R : data'[x] = data[p[x]]
  BY <1>2, <1>4
<1>14. \A x \in Offsets : x \notin R => data'[x] = data[x]
  BY <1>4
<1>15. Permutes(data') /\ Keeps(data', R)
  <2>1. Permutes(data)
    BY DEF ContentInv, PermInv
  <2>2. \A x, y \in R : x # y => data'[x] # data'[y]
    BY <1>2, <1>5, <1>13, <2>1 DEF Permutes
  <2>3. \A y \in R : \E x \in R : data'[x] = data[y]
    BY <1>5, <1>13
  <2>4. \A x \in R : \E y \in R : data'[x] = data[y]
    BY <1>5, <1>13
  <2>5. Keeps(data, R)
    BY <1>2, <1>12, PsortAssumption DEF Keeps, Offsets
  <2>. QED
    BY <1>2, <1>12, <1>14, <2>1, <2>2, <2>3, <2>4, <2>5, WrittenBack
<1>16. Ascends(key', data', R)
  <2>1. SUFFICES ASSUME NEW x \in R, NEW y \in R, x < y
                 PROVE  Before(key, data'[x], data'[y])
    BY <1>7 DEF Ascends
  <2>2. PICK a \in R, b \in R : a = p[x] /\ b = p[y]
    BY <1>5
  <2>3. data'[x] = a + 1 /\ data'[y] = b + 1 /\ a \in Int /\ b \in Int
    BY <1>2, <1>13, <2>2 DEF Offsets
  <2>4. data'[x] \in Elements /\ data'[y] \in Elements
    BY <1>2, <1>12
  <2>5. key[data'[x]] \in Int /\ key[data'[y]] \in Int
    BY <2>4, PsortAssumption DEF IInv, TypeOK
  <2>6. LET c == key[data'[x]] - key[data'[y]]
        IN  c < 0 \/ (c = 0 /\ (stable => a < b))
    BY <1>6, <1>13, <2>1, <2>2 DEF Compare
  <2>7. PICK e \in Int, f \in Int : e = key[data'[x]] /\ f = key[data'[y]]
    BY <2>5
  <2>8. e < f \/ (e = f /\ (stable => a + 1 < b + 1))
    BY <2>3, <2>6, <2>7
  <2>. QED
    BY <2>3, <2>7, <2>8 DEF Before
<1>17. \A k \in Threads : k # t => Within(k) \cap R = {} /\ Within(k) \subseteq Offsets
  BY <1>1, <1>10 DEF ContentInv, ApartInv, R
<1>18. \A k \in Threads : k # t => \A x \in Within(k) : data'[x] = data[x]
  BY <1>14, <1>17
<1>19. Settled(t)' /\ \A k \in Threads : k # t => (Settled(k)' <=> Settled(k))
  BY <1>7 DEF Settled
<1>20. PermInv'
  BY <1>15 DEF PermInv
<1>21. ApartInv'
  BY <1>7, <1>10, <1>11 DEF ContentInv, ApartInv
<1>22. FreshInv'
  <2>1. ~(nmemb <= 1)
    BY <1>1, PsortAssumption
  <2>2. \A k \in Threads : ~Settled(k) => \A x \in Within(k) : data[x] = x + 1
    BY <1>1 DEF ContentInv, FreshInv
  <2>3. \A k \in Threads : ~Settled(k)' => \A x \in Within(k) : data'[x] = x + 1
    BY <1>18, <1>19, <2>2
  <2>. QED
    BY <1>1, <1>7, <1>11, <2>1, <2>3 DEF FreshInv
<1>23. SettledInv'
  <2>1. ASSUME NEW k \in Threads, Settled(k)'
        PROVE  Ascends(key', data', Within(k)) /\ Keeps(data', Within(k))
    <3>1. CASE k = t
      BY <1>15, <1>16, <3>1 DEF R
    <3>2. CASE k # t
      <4>1. Ascends(key, data, Within(k)) /\ Keeps(data, Within(k))
        BY <1>10, <1>19, <2>1, <3>2 DEF ContentInv, SettledInv
      <4>. QED
        BY <1>7, <1>18, <3>2, <4>1 DEF Ascends, Keeps
    <3>. QED
      BY <3>1, <3>2
  <2>. QED
    BY <1>11, <2>1 DEF SettledInv
<1>24. MergeInv'
  BY <1>9 DEF MergeInv
<1>. QED
  BY <1>20, <1>21, <1>22, <1>23, <1>24 DEF ContentInv

(* All that is known about a merge under way.                              *)
Situation(t, left, m, n, i, j) ==
    /\ mrg[t].left = left /\ mrg[t].right = left + m
    /\ mrg[t].m = m /\ mrg[t].n = n /\ mrg[t].i = i /\ mrg[t].j = j
    /\ i <= m /\ j <= n /\ left + m + n <= nmemb
    /\ Len(out[t]) = i + j
    /\ Within(t) = Cells(left, m) /\ Within(Other(t)) = Cells(left + m, n)
    /\ Ascends(key, data, Cells(left, m)) /\ Keeps(data, Cells(left, m))
    /\ Ascends(key, data, Cells(left + m, n)) /\ Keeps(data, Cells(left + m, n))

LEMMA MergeSituation ==
    ASSUME IInv, ContentInv, NEW t \in Threads, pc[t] = "copy"
    PROVE  \E left \in Nat, m \in Nat, n \in Nat, i \in Nat, j \in Nat :
              Situation(t, left, m, n, i, j)
<1>1. PICK left \in Nat, m \in Nat, n \in Nat, i \in Nat, j \in Nat :
          /\ mrg[t].left = left /\ mrg[t].right = left + m
          /\ mrg[t].m = m /\ mrg[t].n = n /\ mrg[t].i = i /\ mrg[t].j = j
          /\ i <= m /\ j <= n /\ left + m + n <= nmemb /\ Len(out[t]) = i + j
  <2>1. /\ mrg[t].left \in Nat /\ mrg[t].m \in Nat /\ mrg[t].n \in Nat
        /\ mrg[t].i \in 0 .. mrg[t].m /\ mrg[t].j \in 0 .. mrg[t].n
        /\ mrg[t].right = mrg[t].left + mrg[t].m
        /\ mrg[t].right + mrg[t].n <= nmemb
        /\ Len(out[t]) = mrg[t].i + mrg[t].j
    BY MergeBounds
  <2>2. mrg[t].i \in Nat /\ mrg[t].j \in Nat
    BY <2>1
  <2>3. mrg[t].i <= mrg[t].m /\ mrg[t].j <= mrg[t].n
    BY <2>1
  <2>. QED
    BY <2>1, <2>2, <2>3
<1>2. /\ Behind(t) /\ Merges(t) /\ Other(t) \in Threads
      /\ Within(t) = Cells(left, m) /\ Within(Other(t)) = Cells(left + m, n)
  BY <1>1, MergeWithin
<1>3. Settled(t) /\ Settled(Other(t))
  BY <1>2, AllSettled
<1>4. ~Given(t) /\ ~Given(Other(t))
  BY <1>2, PartnersNotGiven
<1>5. /\ Ascends(key, data, Within(t)) /\ Keeps(data, Within(t))
      /\ Ascends(key, data, Within(Other(t))) /\ Keeps(data, Within(Other(t)))
  BY <1>2, <1>3, <1>4 DEF ContentInv, SettledInv
<1>. QED
  BY <1>1, <1>2, <1>5 DEF Situation

(* Of two adjacent segments with m and n elements, i and j have been taken: *)
(* those at the offsets T; those at R are left.                            *)
Splits(left, m, n, i, j, T, R) ==
    /\ left \in Nat /\ m \in Nat /\ n \in Nat /\ i \in Nat /\ j \in Nat
    /\ i <= m /\ j <= n
    /\ T = Cells(left, i) \cup Cells(left + m, j)
    /\ R = Cells(left + i, m - i) \cup Cells(left + m + j, n - j)

(* Taking the next k elements of one segment splits them k further on.     *)
LEMMA CellsTaken ==
    ASSUME NEW left, NEW m, NEW n, NEW i, NEW j, NEW T, NEW R,
           Splits(left, m, n, i, j, T, R), NEW k \in Nat
    PROVE  /\ i + k <= m =>
                  /\ Cells(left + i, k) \subseteq R
                  /\ Splits(left, m, n, i + k, j,
                            T \cup Cells(left + i, k), R \ Cells(left + i, k))
           /\ j + k <= n =>
                  /\ Cells(left + m + j, k) \subseteq R
                  /\ Splits(left, m, n, i, j + k,
                            T \cup Cells(left + m + j, k), R \ Cells(left + m + j, k))
<1>. USE DEF Splits
<1>1. ASSUME i + k <= m
      PROVE  /\ Cells(left + i, k) \subseteq R
             /\ T \cup Cells(left + i, k) = Cells(left, i + k) \cup Cells(left + m, j)
             /\ R \ Cells(left + i, k) =
                    Cells(left + (i + k), m - (i + k)) \cup Cells(left + m + j, n - j)
  BY <1>1 DEF Cells
<1>2. ASSUME j + k <= n
      PROVE  /\ Cells(left + m + j, k) \subseteq R
             /\ T \cup Cells(left + m + j, k) = Cells(left, i) \cup Cells(left + m, j + k)
             /\ R \ Cells(left + m + j, k) =
                    Cells(left + i, m - i) \cup Cells(left + m + (j + k), n - (j + k))
  BY <1>2 DEF Cells
<1>. QED
  BY <1>1, <1>2

(* Elements of the left segment come from smaller offsets than those of    *)
(* the right one, so that the left one may go first if they are equal.     *)
LEMMA LeftBeforeRight ==
    ASSUME NEW d, NEW left \in Nat, NEW m \in Nat, NEW n \in Nat,
           NEW x \in Cells(left, m), NEW y \in Cells(left + m, n),
           d[x] \in Int, d[y] \in Int,
           Keeps(d, Cells(left, m)), Keeps(d, Cells(left + m, n))
    PROVE  d[x] < d[y]
<1>1. d[x] - 1 \in Cells(left, m) /\ d[y] - 1 \in Cells(left + m, n)
  BY DEF Keeps
<1>2. PICK a \in Int, b \in Int : a = d[x] /\ b = d[y]
  OBVIOUS
<1>3. a - 1 <= left + m - 1 /\ left + m <= b - 1
  BY <1>1, <1>2 DEF Cells
<1>. QED
  BY <1>2, <1>3

(* The first element left in the left segment may go before all others.    *)
LEMMA TakeLeftContent ==
    ASSUME IInv, IInv', ContentInv, NEW t \in Threads, MergeTakeLeft(t)
    PROVE  Merged(key, data, out[t], Taken(mrg[t]), Left(mrg[t]))'
<1>1. pc[t] = "copy" /\ key' = key /\ data' = data
  BY DEF MergeTakeLeft, Merging
<1>a. PICK left \in Nat, m \in Nat, n \in Nat, i \in Nat, j \in Nat :
          Situation(t, left, m, n, i, j)
  BY <1>1, MergeSituation
<1>2. /\ mrg[t].left = left /\ mrg[t].right = left + m
      /\ mrg[t].m = m /\ mrg[t].n = n /\ mrg[t].i = i /\ mrg[t].j = j
      /\ i <= m /\ j <= n /\ left + m + n <= nmemb
      /\ Len(out[t]) = i + j
      /\ Ascends(key, data, Cells(left, m)) /\ Keeps(data, Cells(left, m))
      /\ Ascends(key, data, Cells(left + m, n)) /\ Keeps(data, Cells(left + m, n))
  BY <1>a DEF Situation
<1>. DEFINE T == Taken(mrg[t])
            R == Left(mrg[t])
            K == Cells(left + i, 1)
            x == left + i
            y == left + m + j
            s == Append(out[t], data[x])
<1>3. /\ i < m /\ j < n
      /\ out'[t] = s
      /\ mrg'[t].left = left /\ mrg'[t].right = left + m /\ mrg'[t].m = m
      /\ mrg'[t].n = n /\ mrg'[t].i = i + 1 /\ mrg'[t].j = j
      /\ Compare(key, data[x], data[y]) <= 0
  BY <1>2 DEF MergeTakeLeft, LeftFirst, LeftElement, RightElement, IInv, TypeOK, Merge
<1>b. i < m /\ j < n /\ left + m + n <= nmemb
  BY <1>2, <1>3
<1>4. /\ T = Cells(left, i) \cup Cells(left + m, j)
      /\ R = Cells(left + i, m - i) \cup Cells(left + m + j, n - j)
      /\ Taken(mrg[t])' = Cells(left, i + 1) \cup Cells(left + m, j)
      /\ Left(mrg[t])' = Cells(left + (i + 1), m - (i + 1)) \cup Cells(left + m + j, n - j)
  BY <1>2, <1>3 DEF Taken, Left
<1>5. K = {x} /\ x \in R /\ Taken(mrg[t])' = T \cup K /\ Left(mrg[t])' = R \ K
  <2>1. K = {x}
    BY DEF Cells
  <2>2. /\ K \subseteq R /\ Taken(mrg[t])' = T \cup K /\ Left(mrg[t])' = R \ K
    <3>1. Splits(left, m, n, i, j, T, R) /\ i + 1 <= m
      BY <1>2, <1>b, <1>4 DEF Splits
    <3>. HIDE DEF T, R
    <3>2. /\ K \subseteq R
          /\ Splits(left, m, n, i + 1, j, T \cup K, R \ K)
      BY <3>1, CellsTaken
    <3>. QED
      BY <1>4, <3>2 DEF Splits
  <2>. QED
    BY <2>1, <2>2
<1>6. /\ T \subseteq Offsets /\ R \subseteq Offsets /\ T \cap R = {}
      /\ Merged(key, data, out[t], T, R)
  BY <1>1, MergeWithin DEF ContentInv, MergeInv
<1>7. /\ key \in [Elements -> Int] /\ data \in [Offsets -> Elements]
      /\ Permutes(data) /\ out[t] \in Seq(Elements)
  BY PsortAssumption DEF IInv, TypeOK, ContentInv, PermInv
<1>8. /\ x \in Cells(left, m) /\ y \in Cells(left + m, n)
      /\ x \in Offsets /\ y \in Offsets /\ x \in Int /\ y \in Int
  BY <1>b, PsortAssumption DEF Cells, Offsets
<1>9. data[x] \in Elements /\ data[y] \in Elements /\ Elements \subseteq Int
  BY <1>7, <1>8 DEF Elements
<1>10. Before(key, data[x], data[y])
  <2>1. data[x] < data[y]
    BY <1>2, <1>8, <1>9, LeftBeforeRight
  <2>2. key[data[x]] \in Int /\ key[data[y]] \in Int
    BY <1>7, <1>9
  <2>3. key[data[x]] - key[data[y]] <= 0
    BY <1>3 DEF Compare
  <2>. QED
    BY <2>1, <2>2, <2>3 DEF Before
<1>. HIDE DEF T, R, K, x, y, s
<1>11. ASSUME NEW r \in R \ K PROVE Before(key, data[x], data[r])
  <2>1. r \in Offsets /\ data[r] \in Elements
    BY <1>6, <1>7, <1>11
  <2>2. r \in Cells(left + (i + 1), m - (i + 1)) \/ r \in Cells(left + m + j, n - j)
    BY <1>4, <1>5, <1>11
  <2>3. CASE r \in Cells(left + (i + 1), m - (i + 1))
    <3>1. r \in Cells(left, m) /\ x < r
      BY <1>3, <2>3 DEF Cells, x
    <3>. QED
      BY <1>2, <1>8, <3>1 DEF Ascends
  <2>4. CASE r \in Cells(left + m + j, n - j)
    <3>1. r \in Cells(left + m, n) /\ (r = y \/ y < r)
      BY <1>3, <2>4 DEF Cells, y
    <3>2. r = y \/ Before(key, data[y], data[r])
      BY <1>2, <1>8, <3>1 DEF Ascends
    <3>. QED
      BY <1>7, <1>9, <1>10, <2>1, <3>2, BeforeTransitive
  <2>. QED
    BY <2>2, <2>3, <2>4
<1>12. /\ s \in Seq(Elements) /\ Len(s) = Len(out[t]) + 1
       /\ \A q \in 1 .. Len(out[t]) : s[q] = out[t][q]
       /\ s[Len(out[t]) + 1] = data[x]
  BY <1>7, <1>9 DEF s
<1>13. Merged(key, data, s, T \cup K, R \ K)
  <2>1. /\ K \in SUBSET R /\ x \in Int /\ 1 \in Nat /\ K = Cells(x, 1)
    BY <1>5, <1>8 DEF K, x
  <2>2. \A z \in K : s[Len(out[t]) + 1 + z - x] = data[z]
    <3>1. Len(out[t]) + 1 + x - x = Len(out[t]) + 1
      BY <1>2, <1>8
    <3>. QED
      BY <1>5, <1>12, <3>1
  <2>3. Ascends(key, data, K)
    BY <1>5, <1>8 DEF Ascends
  <2>4. \A z \in K, r \in R \ K : Before(key, data[z], data[r])
    BY <1>5, <1>11
  <2>5. T \in SUBSET Offsets /\ R \in SUBSET Offsets
    BY <1>6
  <2>. QED
    <3>1. PutsOut(key, data, out[t], s, T, R, K, x, 1)
      BY <1>6, <1>7, <1>12, <2>1, <2>2, <2>3, <2>4, <2>5 DEF PutsOut
    <3>. QED
      BY <1>6, <3>1, PutOut
<1>. QED
  BY <1>1, <1>3, <1>5, <1>13

(* The first element left in the right segment may go before all others,   *)
(* since it is really smaller than the left one.                           *)
LEMMA TakeRightContent ==
    ASSUME IInv, IInv', ContentInv, NEW t \in Threads, MergeTakeRight(t)
    PROVE  Merged(key, data, out[t], Taken(mrg[t]), Left(mrg[t]))'
<1>1. pc[t] = "copy" /\ key' = key /\ data' = data
  BY DEF MergeTakeRight, Merging
<1>a. PICK left \in Nat, m \in Nat, n \in Nat, i \in Nat, j \in Nat :
          Situation(t, left, m, n, i, j)
  BY <1>1, MergeSituation
<1>2. /\ mrg[t].left = left /\ mrg[t].right = left + m
      /\ mrg[t].m = m /\ mrg[t].n = n /\ mrg[t].i = i /\ mrg[t].j = j
      /\ i <= m /\ j <= n /\ left + m + n <= nmemb
      /\ Len(out[t]) = i + j
      /\ Ascends(key, data, Cells(left, m)) /\ Keeps(data, Cells(left, m))
      /\ Ascends(key, data, Cells(left + m, n)) /\ Keeps(data, Cells(left + m, n))
  BY <1>a DEF Situation
<1>. DEFINE T == Taken(mrg[t])
            R == Left(mrg[t])
            K == Cells(left + m + j, 1)
            x == left + m + j
            y == left + i
            s == Append(out[t], data[x])
<1>3. /\ i < m /\ j < n
      /\ out'[t] = s
      /\ mrg'[t].left = left /\ mrg'[t].right = left + m /\ mrg'[t].m = m
      /\ mrg'[t].n = n /\ mrg'[t].i = i /\ mrg'[t].j = j + 1
      /\ ~(Compare(key, data[y], data[x]) <= 0)
  BY <1>2 DEF MergeTakeRight, LeftFirst, LeftElement, RightElement, IInv, TypeOK, Merge
<1>b. i < m /\ j < n /\ left + m + n <= nmemb
  BY <1>2, <1>3
<1>4. /\ T = Cells(left, i) \cup Cells(left + m, j)
      /\ R = Cells(left + i, m - i) \cup Cells(left + m + j, n - j)
      /\ Taken(mrg[t])' = Cells(left, i) \cup Cells(left + m, j + 1)
      /\ Left(mrg[t])' = Cells(left + i, m - i) \cup Cells(left + m + (j + 1), n - (j + 1))
  BY <1>2, <1>3 DEF Taken, Left
<1>5. K = {x} /\ x \in R /\ Taken(mrg[t])' = T \cup K /\ Left(mrg[t])' = R \ K
  <2>1. K = {x}
    BY DEF Cells
  <2>2. /\ K \subseteq R /\ Taken(mrg[t])' = T \cup K /\ Left(mrg[t])' = R \ K
    <3>1. Splits(left, m, n, i, j, T, R) /\ j + 1 <= n
      BY <1>2, <1>b, <1>4 DEF Splits
    <3>. HIDE DEF T, R
    <3>2. /\ K \subseteq R
          /\ Splits(left, m, n, i, j + 1, T \cup K, R \ K)
      BY <3>1, CellsTaken
    <3>. QED
      BY <1>4, <3>2 DEF Splits
  <2>. QED
    BY <2>1, <2>2
<1>6. /\ T \subseteq Offsets /\ R \subseteq Offsets /\ T \cap R = {}
      /\ Merged(key, data, out[t], T, R)
  BY <1>1, MergeWithin DEF ContentInv, MergeInv
<1>7. /\ key \in [Elements -> Int] /\ data \in [Offsets -> Elements]
      /\ Permutes(data) /\ out[t] \in Seq(Elements)
  BY PsortAssumption DEF IInv, TypeOK, ContentInv, PermInv
<1>8. /\ y \in Cells(left, m) /\ x \in Cells(left + m, n)
      /\ x \in Offsets /\ y \in Offsets /\ x \in Int /\ y \in Int
  BY <1>b, PsortAssumption DEF Cells, Offsets
<1>9. data[x] \in Elements /\ data[y] \in Elements /\ Elements \subseteq Int
  BY <1>7, <1>8 DEF Elements
<1>10. Before(key, data[x], data[y])
  <2>1. key[data[x]] \in Int /\ key[data[y]] \in Int
    BY <1>7, <1>9
  <2>2. key[data[x]] < key[data[y]]
    BY <1>3, <2>1 DEF Compare
  <2>. QED
    BY <2>2 DEF Before
<1>. HIDE DEF T, R, K, x, y, s
<1>11. ASSUME NEW r \in R \ K PROVE Before(key, data[x], data[r])
  <2>1. r \in Offsets /\ data[r] \in Elements
    BY <1>6, <1>7, <1>11
  <2>2. r \in Cells(left + m + (j + 1), n - (j + 1)) \/ r \in Cells(left + i, m - i)
    BY <1>4, <1>5, <1>11
  <2>3. CASE r \in Cells(left + m + (j + 1), n - (j + 1))
    <3>1. r \in Cells(left + m, n) /\ x < r
      BY <1>3, <2>3 DEF Cells, x
    <3>. QED
      BY <1>2, <1>8, <3>1 DEF Ascends
  <2>4. CASE r \in Cells(left + i, m - i)
    <3>1. r \in Cells(left, m) /\ (r = y \/ y < r)
      BY <1>3, <2>4 DEF Cells, y
    <3>2. r = y \/ Before(key, data[y], data[r])
      BY <1>2, <1>8, <3>1 DEF Ascends
    <3>. QED
      BY <1>7, <1>9, <1>10, <2>1, <3>2, BeforeTransitive
  <2>. QED
    BY <2>2, <2>3, <2>4
<1>12. /\ s \in Seq(Elements) /\ Len(s) = Len(out[t]) + 1
       /\ \A q \in 1 .. Len(out[t]) : s[q] = out[t][q]
       /\ s[Len(out[t]) + 1] = data[x]
  BY <1>7, <1>9 DEF s
<1>13. Merged(key, data, s, T \cup K, R \ K)
  <2>1. /\ K \in SUBSET R /\ x \in Int /\ 1 \in Nat /\ K = Cells(x, 1)
    BY <1>5, <1>8 DEF K, x
  <2>2. \A z \in K : s[Len(out[t]) + 1 + z - x] = data[z]
    <3>1. Len(out[t]) + 1 + x - x = Len(out[t]) + 1
      BY <1>2, <1>8
    <3>. QED
      BY <1>5, <1>12, <3>1
  <2>3. Ascends(key, data, K)
    BY <1>5, <1>8 DEF Ascends
  <2>4. \A z \in K, r \in R \ K : Before(key, data[z], data[r])
    BY <1>5, <1>11
  <2>5. T \in SUBSET Offsets /\ R \in SUBSET Offsets
    BY <1>6
  <2>. QED
    <3>1. PutsOut(key, data, out[t], s, T, R, K, x, 1)
      BY <1>6, <1>7, <1>12, <2>1, <2>2, <2>3, <2>4, <2>5 DEF PutsOut
    <3>. QED
      BY <1>6, <3>1, PutOut
<1>. QED
  BY <1>1, <1>3, <1>5, <1>13

(* The rest of a run is put out at once.                                   *)
LEMMA RestPutOut ==
    ASSUME IInv, ContentInv, NEW t \in Threads, pc[t] = "copy",
           NEW from \in Nat, NEW len \in Nat, from + len <= nmemb,
           NEW T, NEW R, Merged(key, data, out[t], T, R),
           T \subseteq Offsets, R \subseteq Offsets, T \cap R = {},
           R = Cells(from, len), Ascends(key, data, R)
    PROVE  Merged(key, data, out[t] \o Slice(from, len), T \cup R, {})
<1>. DEFINE o == out[t]
            l == Slice(from, len)
            s == o \o l
<1>1. /\ key \in [Elements -> Int] /\ data \in [Offsets -> Elements]
      /\ Permutes(data) /\ o \in Seq(Elements)
  BY PsortAssumption DEF IInv, TypeOK, ContentInv, PermInv
<1>2. l \in Seq(Elements) /\ Len(l) = len
  BY <1>1, SliceIsSeq
<1>3. \A a \in 1 .. len : l[a] = data[from + a - 1]
  BY DEF Slice
<1>. HIDE DEF o, l
<1>4. /\ s \in Seq(Elements) /\ Len(s) = Len(o) + len
      /\ \A q \in 1 .. Len(o) : s[q] = o[q]
      /\ \A a \in 1 .. len : s[Len(o) + a] = l[a]
  <2>1. /\ s \in Seq(Elements) /\ Len(s) = Len(o) + Len(l)
        /\ \A q \in 1 .. Len(o) + Len(l) :
               s[q] = IF q <= Len(o) THEN o[q] ELSE l[q - Len(o)]
    BY <1>1, <1>2, ConcatProperties
  <2>. HIDE DEF s
  <2>2. Len(o) \in Nat
    BY <1>1
  <2>3. ASSUME NEW a \in 1 .. len PROVE s[Len(o) + a] = l[a]
    <3>1. Len(o) + a \in 1 .. Len(o) + Len(l) /\ ~(Len(o) + a <= Len(o))
      BY <1>2, <2>2
    <3>2. (Len(o) + a) - Len(o) = a
      BY <2>2
    <3>. QED
      BY <2>1, <3>1, <3>2
  <2>4. \A q \in 1 .. Len(o) : s[q] = o[q]
    BY <1>2, <2>1, <2>2
  <2>. QED
    BY <1>2, <2>1, <2>3, <2>4
<1>. HIDE DEF s
<1>5. \A x \in R : s[Len(o) + 1 + x - from] = data[x]
  <2>1. SUFFICES ASSUME NEW x \in R PROVE s[Len(o) + 1 + x - from] = data[x]
    OBVIOUS
  <2>2. x \in Int /\ x - from + 1 \in 1 .. len /\ Len(o) \in Nat
    BY <1>1, <2>1 DEF Cells
  <2>3. PICK a \in 1 .. len : a = x - from + 1
    BY <2>2
  <2>4. Len(o) + 1 + x - from = Len(o) + a /\ from + a - 1 = x
    BY <2>2, <2>3
  <2>. QED
    BY <1>3, <1>4, <2>4
<1>6. PutsOut(key, data, o, s, T, R, R, from, len)
  BY <1>1, <1>4, <1>5 DEF PutsOut
<1>7. Merged(key, data, s, T \cup R, R \ R)
  BY <1>6, PutOut DEF o
<1>. QED
  BY <1>7 DEF s, o, l

(* When one segment is used up, the rest of the other one follows.         *)
LEMMA TakeRestContent ==
    ASSUME IInv, IInv', ContentInv, NEW t \in Threads, MergeTakeRest(t)
    PROVE  Merged(key, data, out[t], Taken(mrg[t]), Left(mrg[t]))'
<1>1. pc[t] = "copy" /\ key' = key /\ data' = data
  BY DEF MergeTakeRest, Merging
<1>a. PICK left \in Nat, m \in Nat, n \in Nat, i \in Nat, j \in Nat :
          Situation(t, left, m, n, i, j)
  BY <1>1, MergeSituation
<1>2. /\ mrg[t].left = left /\ mrg[t].right = left + m
      /\ mrg[t].m = m /\ mrg[t].n = n /\ mrg[t].i = i /\ mrg[t].j = j
      /\ i <= m /\ j <= n /\ left + m + n <= nmemb
      /\ Ascends(key, data, Cells(left, m))
      /\ Ascends(key, data, Cells(left + m, n))
  BY <1>a DEF Situation
<1>. DEFINE T == Taken(mrg[t])
            R == Left(mrg[t])
<1>4. /\ T = Cells(left, i) \cup Cells(left + m, j)
      /\ R = Cells(left + i, m - i) \cup Cells(left + m + j, n - j)
  BY <1>2 DEF Taken, Left
<1>5. /\ T \subseteq Offsets /\ R \subseteq Offsets /\ T \cap R = {}
      /\ Merged(key, data, out[t], T, R)
  BY <1>1, MergeWithin DEF ContentInv, MergeInv
<1>. HIDE DEF T, R
<1>6. \/ /\ mrg[t].i >= mrg[t].m
         /\ out'[t] = out[t] \o Slice(mrg[t].right + mrg[t].j, mrg[t].n - mrg[t].j)
         /\ mrg' = [mrg EXCEPT ![t].j = mrg[t].n]
      \/ /\ mrg[t].i < mrg[t].m /\ mrg[t].j >= mrg[t].n
         /\ out'[t] = out[t] \o Slice(mrg[t].left + mrg[t].i, mrg[t].m - mrg[t].i)
         /\ mrg' = [mrg EXCEPT ![t].i = mrg[t].m]
  BY DEF MergeTakeRest, IInv, TypeOK
<1>7. mrg \in [Threads -> Merge]
  BY DEF IInv, TypeOK
<1>b. \/ /\ i >= m /\ out'[t] = out[t] \o Slice(left + m + j, n - j)
         /\ mrg' = [mrg EXCEPT ![t].j = n]
      \/ /\ i < m /\ j >= n /\ out'[t] = out[t] \o Slice(left + i, m - i)
         /\ mrg' = [mrg EXCEPT ![t].i = m]
  BY <1>2, <1>6
<1>8. CASE /\ i >= m /\ out'[t] = out[t] \o Slice(left + m + j, n - j)
           /\ mrg' = [mrg EXCEPT ![t].j = n]
  <2>1. i = m
    BY <1>2, <1>8
  <2>2. /\ out'[t] = out[t] \o Slice(left + m + j, n - j)
        /\ mrg'[t].left = left /\ mrg'[t].right = left + m
        /\ mrg'[t].m = m /\ mrg'[t].n = n /\ mrg'[t].i = i /\ mrg'[t].j = n
    BY <1>2, <1>7, <1>8 DEF Merge
  <2>3. /\ Taken(mrg[t])' = Cells(left, i) \cup Cells(left + m, n)
        /\ Left(mrg[t])' = Cells(left + i, m - i) \cup Cells(left + m + n, n - n)
    BY <2>2 DEF Taken, Left
  <2>4. /\ R = Cells(left + m + j, n - j)
        /\ Taken(mrg[t])' = T \cup R /\ Left(mrg[t])' = {}
    BY <1>2, <1>4, <2>1, <2>3 DEF Cells
  <2>5. Ascends(key, data, R)
    <3>1. R \subseteq Cells(left + m, n)
      BY <1>2, <2>4 DEF Cells
    <3>. QED
      BY <1>2, <3>1 DEF Ascends
  <2>6. left + m + j \in Nat /\ n - j \in Nat /\ left + m + j + (n - j) <= nmemb
    BY <1>2, PsortAssumption
  <2>7. Merged(key, data, out[t] \o Slice(left + m + j, n - j), T \cup R, {})
    BY <1>1, <1>5, <2>4, <2>5, <2>6, RestPutOut
  <2>. QED
    BY <1>1, <2>2, <2>4, <2>7
<1>9. CASE /\ i < m /\ j >= n /\ out'[t] = out[t] \o Slice(left + i, m - i)
           /\ mrg' = [mrg EXCEPT ![t].i = m]
  <2>1. i < m /\ j = n
    BY <1>2, <1>9
  <2>2. /\ out'[t] = out[t] \o Slice(left + i, m - i)
        /\ mrg'[t].left = left /\ mrg'[t].right = left + m
        /\ mrg'[t].m = m /\ mrg'[t].n = n /\ mrg'[t].i = m /\ mrg'[t].j = j
    BY <1>2, <1>7, <1>9 DEF Merge
  <2>3. /\ Taken(mrg[t])' = Cells(left, m) \cup Cells(left + m, j)
        /\ Left(mrg[t])' = Cells(left + m, m - m) \cup Cells(left + m + j, n - j)
    BY <2>2 DEF Taken, Left
  <2>4. /\ R = Cells(left + i, m - i)
        /\ Taken(mrg[t])' = T \cup R /\ Left(mrg[t])' = {}
    BY <1>2, <1>4, <2>1, <2>3 DEF Cells
  <2>5. Ascends(key, data, R)
    <3>1. R \subseteq Cells(left, m)
      BY <1>2, <2>4 DEF Cells
    <3>. QED
      BY <1>2, <3>1 DEF Ascends
  <2>6. left + i \in Nat /\ m - i \in Nat /\ left + i + (m - i) <= nmemb
    BY <1>2, PsortAssumption
  <2>7. Merged(key, data, out[t] \o Slice(left + i, m - i), T \cup R, {})
    BY <1>1, <1>5, <2>4, <2>5, <2>6, RestPutOut
  <2>. QED
    BY <1>1, <2>2, <2>4, <2>7
<1>. QED
  BY <1>b, <1>8, <1>9

(* A merge takes another element or run; everything else stays.            *)
LEMMA TakeContent ==
    ASSUME IInv, IInv', ContentInv, NEW t \in Threads,
           MergeTakeLeft(t) \/ MergeTakeRight(t) \/ MergeTakeRest(t)
    PROVE  ContentInv'
<1>1. /\ UNCHANGED <<key, data, segments, mainVars, pc, own, step, barrierVars>>
      /\ \A u \in Threads : u # t => mrg'[u] = mrg[u] /\ out'[u] = out[u]
  BY DEF MergeTakeLeft, MergeTakeRight, MergeTakeRest, IInv, TypeOK
<1>2. PermInv' /\ ApartInv' /\ FreshInv' /\ SettledInv'
  BY <1>1, ContentFrame DEF mainVars, Settled
<1>3. MergeInv'
  <2>1. SUFFICES ASSUME NEW u \in Threads, pc[u] = "copy"
                 PROVE  Merged(key, data, out[u], Taken(mrg[u]), Left(mrg[u]))'
    BY <1>1 DEF MergeInv
  <2>2. CASE u = t
    BY <2>2, TakeLeftContent, TakeRightContent, TakeRestContent
  <2>3. CASE u # t
    BY <1>1, <2>1, <2>3, MergeFrame
  <2>. QED
    BY <2>2, <2>3
<1>. QED
  BY <1>2, <1>3 DEF ContentInv

(* Steps of a thread that move no elements: it starts, comes to the        *)
(* barrier, leaves it, has nothing to merge, or begins to merge.           *)
LEMMA QuietContent ==
    ASSUME IInv, ContentInv, NEW t \in Threads,
           \/ ThreadStart(t) \/ BarrierArrive(t) \/ BarrierLeave(t)
           \/ MergeSkip(t) \/ MergeBegin(t)
    PROVE  ContentInv'
<1>. DEFINE q == pc'[t]
<1>1. /\ UNCHANGED <<key, data, segments, mainVars, out>>
      /\ \A u \in Threads : u # t => pc'[u] = pc[u] /\ step'[u] = step[u] /\ mrg'[u] = mrg[u]
      /\ pc[t] \in {"start", "barrier", "wait", "merge"}
      /\ pc[t] = "start" => q = "sort"
      /\ pc[t] # "start" => q \in {"wait", "merge", "barrier", "done", "copy"}
      /\ q = "copy" => MergeBegin(t)
  BY DEF ThreadStart, BarrierArrive, BarrierLeave, Continues, BarrierReturns,
         MergeSkip, MergeBegin, NextRound, IInv, TypeOK
<1>2. \A u \in Threads : /\ Settled(u)' <=> Settled(u)
                         /\ pc'[u] = "retire" <=> pc[u] = "retire"
                         /\ pc[u] = "retire" => step'[u] = step[u]
  BY <1>1 DEF Settled
<1>3. PermInv' /\ ApartInv' /\ FreshInv' /\ SettledInv'
  BY <1>1, <1>2, ContentFrame DEF mainVars
<1>4. ASSUME NEW u \in Threads, pc'[u] = "copy"
      PROVE  Merged(key, data, out[u], Taken(mrg[u]), Left(mrg[u]))'
  <2>1. CASE u # t
    BY <1>1, <1>4, <2>1, MergeFrame
  <2>2. CASE u = t
    <3>1. MergeBegin(t)
      BY <1>1, <1>4, <2>2
    <3>2. /\ mrg'[t].i = 0 /\ mrg'[t].j = 0
          /\ mrg'[t].left \in Int /\ mrg'[t].right \in Int
      <4>1. Other(t) \in Threads
        BY <3>1, PsortAssumption DEF MergeBegin, Merges, Other, IInv, ControlInv, ControlType
      <4>2. segments[t].base \in Int /\ segments[Other(t)].base \in Int
        <5>1. segments[t] \in Run /\ segments[Other(t)] \in Run
          BY <4>1 DEF IInv, TypeOK
        <5>2. \A r \in Run : r.base \in Int
          BY PsortAssumption DEF Run
        <5>. QED
          BY <5>1, <5>2
      <4>3. mrg \in [Threads -> Merge]
        BY DEF IInv, TypeOK
      <4>. QED
        BY <3>1, <4>2, <4>3 DEF MergeBegin
    <3>3. out'[t] = << >>
      BY <1>1, <3>1 DEF MergeBegin, IInv, GeometryInv, LocalsInv
    <3>4. Taken(mrg[t])' = {}
      BY <3>2 DEF Taken, Cells
    <3>. QED
      BY <2>2, <3>3, <3>4 DEF Merged
  <2>. QED
    BY <2>1, <2>2
<1>. QED
  BY <1>3, <1>4 DEF ContentInv, MergeInv

(* The merged elements are stored, in the segment of t.                    *)
LEMMA StoreContent ==
    ASSUME IInv, IInv', ContentInv, NEW t \in Threads, MergeStore(t)
    PROVE  ContentInv'
<1>1. /\ pc[t] = "copy" /\ key' = key /\ UNCHANGED <<mainVars, step>>
      /\ pc'[t] = "retire" /\ segments'[t].nmemb = mrg[t].m + mrg[t].n
      /\ segments'[t].base = segments[t].base
      /\ \A u \in Threads : u # t => /\ segments'[u] = segments[u] /\ pc'[u] = pc[u]
                                     /\ mrg'[u] = mrg[u] /\ out'[u] = out[u]
  BY DEF MergeStore, IInv, TypeOK, Run
<1>a. PICK left \in Nat, m \in Nat, n \in Nat, i \in Nat, j \in Nat :
          Situation(t, left, m, n, i, j)
  BY <1>1, MergeSituation
<1>2. /\ mrg[t].left = left /\ mrg[t].right = left + m
      /\ mrg[t].m = m /\ mrg[t].n = n /\ mrg[t].i = i /\ mrg[t].j = j
      /\ i <= m /\ j <= n /\ left + m + n <= nmemb /\ Len(out[t]) = i + j
      /\ Within(t) = Cells(left, m) /\ Within(Other(t)) = Cells(left + m, n)
      /\ Keeps(data, Cells(left, m)) /\ Keeps(data, Cells(left + m, n))
  BY <1>a DEF Situation
<1>3. i = m /\ j = n
  <2>1. Running(t)
    BY <1>1 DEF MergeStore
  <2>2. ~(i + j < m + n)
    BY <1>1, <1>2, <2>1 DEF MergeStore, Merging
  <2>. QED
    BY <1>2, <2>2
<1>. DEFINE R == Cells(left, m + n)
            o == out[t]
<1>4. segments[t].base = left
  BY <1>1, <1>2, MergeBounds
<1>5. /\ R = Within(t) \cup Within(Other(t)) /\ R \subseteq Offsets
      /\ Within(t)' = R
  <2>1. R = Cells(left, m) \cup Cells(left + m, n)
    BY DEF Cells
  <2>2. left + m + n <= nmemb /\ nmemb \in Nat
    BY <1>2, PsortAssumption
  <2>3. R \subseteq Offsets
    BY ONLY <2>2, left \in Nat, m \in Nat, n \in Nat DEF Cells, Offsets
  <2>. QED
    BY <1>1, <1>2, <1>4, <2>1, <2>3 DEF Within
<1>6. data' = [x \in Offsets |-> IF x \in R THEN o[x - left + 1] ELSE data[x]]
  BY <1>2, <1>4 DEF MergeStore
<1>7. Merged(key, data, o, R, Left(mrg[t])) /\ Len(o) = m + n
  <2>1. Taken(mrg[t]) = Cells(left, m) \cup Cells(left + m, n)
    BY <1>2, <1>3 DEF Taken
  <2>2. Taken(mrg[t]) = R
    BY <1>2, <1>5, <2>1
  <2>. QED
    BY <1>1, <1>2, <1>3, <2>2 DEF ContentInv, MergeInv
<1>8. \A k : k # t /\ k \in Threads => Within(k)' = Within(k)
  BY <1>1 DEF Within
<1>9. data \in [Offsets -> Elements] /\ data' \in [Offsets -> Elements]
  BY DEF IInv, TypeOK
<1>. HIDE DEF o
<1>10. \A x \in R : x - left + 1 \in 1 .. Len(o) /\ data'[x] = o[x - left + 1] /\ x \in Int
  <2>1. \A x \in R : x - left + 1 \in 1 .. Len(o) /\ x \in Int
    BY <1>7 DEF Cells
  <2>2. \A x \in R : data'[x] = o[x - left + 1]
    BY <1>5, <1>6
  <2>. QED
    BY <2>1, <2>2
<1>11. \A q \in 1 .. Len(o) : left + q - 1 \in R /\ data'[left + q - 1] = o[q]
  <2>1. SUFFICES ASSUME NEW q \in 1 .. Len(o)
                 PROVE  left + q - 1 \in R /\ data'[left + q - 1] = o[q]
    OBVIOUS
  <2>2. q \in Int /\ left + q - 1 \in R
    BY <1>7 DEF Cells
  <2>3. (left + q - 1) - left + 1 = q
    BY <2>2
  <2>. QED
    BY <1>10, <2>2, <2>3
<1>12. \A x \in Offsets : x \notin R => data'[x] = data[x]
  BY <1>6
<1>. HIDE DEF R
<1>13. Permutes(data') /\ Keeps(data', R)
  <2>1. \A x \in R : \E y \in R : data'[x] = data[y]
    <3>1. SUFFICES ASSUME NEW x \in R PROVE \E y \in R : data'[x] = data[y]
      OBVIOUS
    <3>2. PICK q \in 1 .. Len(o) : q = x - left + 1 /\ data'[x] = o[q]
      BY <1>10
    <3>3. PICK y \in R : o[q] = data[y]
      BY <1>7 DEF Merged
    <3>. QED
      BY <3>2, <3>3
  <2>2. \A y \in R : \E x \in R : data'[x] = data[y]
    <3>1. SUFFICES ASSUME NEW y \in R PROVE \E x \in R : data'[x] = data[y]
      OBVIOUS
    <3>2. PICK q \in 1 .. Len(o) : o[q] = data[y]
      BY <1>7 DEF Merged
    <3>. QED
      BY <1>11, <3>2
  <2>3. ASSUME NEW x \in R, NEW y \in R, x # y PROVE data'[x] # data'[y]
    <3>1. PICK p \in 1 .. Len(o), q \in 1 .. Len(o) :
              p = x - left + 1 /\ q = y - left + 1
      BY <1>10
    <3>2. p < q \/ q < p
      BY <1>10, <2>3, <3>1
    <3>3. o[p] # o[q]
      BY <1>7, <3>2 DEF Merged
    <3>. QED
      BY <1>10, <3>1, <3>3
  <2>4. Keeps(data, R)
    BY <1>2, <1>5 DEF Keeps
  <2>5. Permutes(data)
    BY DEF ContentInv, PermInv
  <2>. QED
    <3>1. R \in SUBSET Offsets
      BY <1>5
    <3>2. \A x, y \in R : x # y => data'[x] # data'[y]
      BY <2>3
    <3>3. \A x \in Offsets \ R : data'[x] = data[x]
      BY <1>12
    <3>. QED
      BY <1>9, <2>1, <2>2, <2>4, <2>5, <3>1, <3>2, <3>3, WrittenBack
<1>14. Ascends(key', data', R)
  <2>1. SUFFICES ASSUME NEW x \in R, NEW y \in R, x < y
                 PROVE  Before(key, data'[x], data'[y])
    BY <1>1 DEF Ascends
  <2>2. PICK p \in 1 .. Len(o), q \in 1 .. Len(o) :
            p = x - left + 1 /\ q = y - left + 1
    BY <1>10
  <2>3. p < q
    BY <1>10, <2>1, <2>2
  <2>. QED
    BY <1>7, <1>10, <2>2, <2>3 DEF Merged
<1>15. /\ Behind(t) /\ Merges(t) /\ Other(t) \in Threads /\ Other(t) # t
       /\ ~Given(t) /\ ~Given(Other(t)) /\ \A k \in Threads : Settled(k)
  BY <1>1, MergeWithin, PartnersNotGiven, AllSettled
<1>16. Given(Other(t))' /\ \A k \in Threads : ~Given(k)' => ~Given(k) /\ k # Other(t)
  BY <1>1 DEF Given, Other
<1>17. \A k \in Threads : Settled(k)'
  BY <1>1, <1>15 DEF Settled
<1>18. mpc \notin {"enter", "partition"} /\ nmemb > 1 /\ mpc' = mpc
  BY <1>1, ThreadPhase DEF IInv, GeometryInv, mainVars
<1>19. \A k \in Threads : ~Given(k) /\ k # t /\ k # Other(t) =>
           Within(k) \cap R = {} /\ Within(k) \subseteq Offsets
  BY <1>5, <1>15, <1>18 DEF ContentInv, ApartInv
<1>20. \A k \in Threads : ~Given(k) /\ k # t /\ k # Other(t) =>
           \A x \in Within(k) : data'[x] = data[x]
  BY <1>12, <1>19
<1>21. PermInv'
  BY <1>13 DEF PermInv
<1>22. ApartInv'
  <2>1. \A k \in Threads : (Within(k) \subseteq Offsets)'
    BY <1>5, <1>8, <1>18 DEF ContentInv, ApartInv
  <2>2. ASSUME NEW k \in Threads, NEW l \in Threads, k # l, ~Given(k)', ~Given(l)'
        PROVE  (Within(k) \cap Within(l) = {})'
    <3>1. ~Given(k) /\ ~Given(l) /\ k # Other(t) /\ l # Other(t)
      BY <1>16, <2>2
    <3>2. CASE k = t
      BY <1>5, <1>8, <1>19, <2>2, <3>1, <3>2
    <3>3. CASE l = t
      BY <1>5, <1>8, <1>19, <2>2, <3>1, <3>3
    <3>4. CASE k # t /\ l # t
      BY <1>8, <1>18, <2>2, <3>1, <3>4 DEF ContentInv, ApartInv
    <3>. QED
      BY <3>2, <3>3, <3>4
  <2>. QED
    BY <2>1, <2>2 DEF ApartInv
<1>23. FreshInv'
  <2>1. ~(nmemb <= 1)
    BY <1>18, PsortAssumption
  <2>. QED
    BY <1>17, <1>18, <2>1 DEF FreshInv
<1>24. SettledInv'
  <2>1. ASSUME NEW k \in Threads, ~Given(k)'
        PROVE  (Ascends(key, data, Within(k)) /\ Keeps(data, Within(k)))'
    <3>1. CASE k = t
      BY <1>5, <1>13, <1>14, <3>1
    <3>2. CASE k # t
      <4>1. ~Given(k) /\ k # Other(t) /\ Settled(k)
        BY <1>15, <1>16, <2>1
      <4>2. Ascends(key, data, Within(k)) /\ Keeps(data, Within(k))
        BY <4>1 DEF ContentInv, SettledInv
      <4>3. Ascends(key', data', Within(k)) /\ Keeps(data', Within(k))
        BY <1>1, <1>20, <3>2, <4>1, <4>2 DEF Ascends, Keeps
      <4>. QED
        BY <1>8, <3>2, <4>3
    <3>. QED
      BY <3>1, <3>2
  <2>. QED
    BY <2>1 DEF SettledInv
<1>25. MergeInv'
  <2>1. SUFFICES ASSUME NEW u \in Threads, u # t, pc[u] = "copy"
                 PROVE  Merged(key, data, out[u], Taken(mrg[u]), Left(mrg[u]))'
    BY <1>1 DEF MergeInv
  <2>2. /\ Behind(u) /\ Merges(u) /\ Other(u) \in Threads
        /\ ~Given(u) /\ ~Given(Other(u))
    BY <2>1, MergeWithin, PartnersNotGiven
  <2>3. u % (2 * step[u]) = 0
    BY <2>2 DEF Merges
  <2>4. u # Other(t) /\ Other(u) # t /\ Other(u) # Other(t)
    BY <1>15, <2>1, <2>2, <2>3, Partners DEF IInv
  <2>5. \A x \in Within(u) \cup Within(Other(u)) : data'[x] = data[x]
    BY <1>20, <2>1, <2>2, <2>4
  <2>. QED
    BY <1>1, <2>1, <2>5, MergeFrame
<1>. QED
  BY <1>21, <1>22, <1>23, <1>24, <1>25 DEF ContentInv

(* The descriptor of the partner is struck out.                            *)
LEMMA RetireContent ==
    ASSUME IInv, ContentInv, NEW t \in Threads, MergeRetire(t)
    PROVE  ContentInv'
<1>1. /\ pc[t] = "retire" /\ UNCHANGED <<key, data, mpc, mrg, out>>
      /\ segments' = [segments EXCEPT ![Other(t)] = NoRun]
      /\ pc'[t] \in {"barrier", "done"}
      /\ \A u \in Threads : u # t => pc'[u] = pc[u] /\ step'[u] = step[u]
  BY DEF MergeRetire, NextRound, mainVars, IInv, TypeOK
<1>2. Behind(t) /\ Merges(t)
  BY <1>1 DEF IInv, ControlInv, RoundInv, Behind
<1>3. PICK p \in Threads : p = Other(t)
  BY <1>2, PsortAssumption DEF Merges, Other, IInv, ControlInv, ControlType
<1>4. Within(p)' = {}
  <2>1. segments'[p] = NoRun
    BY <1>1, <1>3 DEF IInv, TypeOK
  <2>2. Cells(-1, 0) = {}
    BY DEF Cells
  <2>. QED
    BY <2>1, <2>2 DEF Within, NoRun, NULL
<1>5. \A k \in Threads : k # p => Within(k)' = Within(k)
  BY <1>1, <1>3 DEF Within, IInv, TypeOK
<1>6. \A k \in Threads : k # p /\ ~Given(k)' => ~Given(k)
  <2>1. ASSUME NEW k \in Threads, k # p, NEW u \in Threads,
               pc[u] = "retire", Other(u) = k
        PROVE  Given(k)'
    <3>1. u # t
      BY <1>3, <2>1
    <3>2. pc'[u] = "retire" /\ Other(u)' = k
      BY <1>1, <2>1, <3>1 DEF Other
    <3>. QED
      BY <3>2 DEF Given
  <2>. QED
    BY <2>1 DEF Given
<1>7. \A k \in Threads : Settled(k)' /\ Settled(k)
  BY <1>1, <1>2, AllSettled DEF Settled
<1>8. mpc \notin {"enter", "partition"} /\ nmemb > 1 /\ ~(nmemb <= 1)
  <2>1. mpc \notin {"enter", "partition"}
    BY <1>1 DEF IInv, ControlInv, MainInv
  <2>2. ~(nmemb <= 1)
    BY <1>1, <2>1, PsortAssumption DEF IInv, GeometryInv, EnterInv
  <2>. QED
    BY <2>1, <2>2, PsortAssumption
<1>9. PermInv'
  BY <1>1 DEF ContentInv, PermInv
<1>10. ApartInv'
  <2>1. \A k \in Threads : (Within(k) \subseteq Offsets)'
    BY <1>4, <1>5, <1>8 DEF ContentInv, ApartInv
  <2>2. ASSUME NEW k \in Threads, NEW l \in Threads, k # l, ~Given(k)', ~Given(l)'
        PROVE  (Within(k) \cap Within(l) = {})'
    <3>1. CASE k = p \/ l = p
      BY <1>4, <3>1
    <3>2. CASE k # p /\ l # p
      BY <1>5, <1>6, <1>8, <2>2, <3>2 DEF ContentInv, ApartInv
    <3>. QED
      BY <3>1, <3>2
  <2>. QED
    BY <2>1, <2>2 DEF ApartInv
<1>11. FreshInv'
  BY <1>1, <1>7, <1>8 DEF FreshInv
<1>12. SettledInv'
  <2>1. ASSUME NEW k \in Threads, ~Given(k)'
        PROVE  (Ascends(key, data, Within(k)) /\ Keeps(data, Within(k)))'
    <3>1. CASE k = p
      BY <1>4, <3>1 DEF Ascends, Keeps
    <3>2. CASE k # p
      <4>1. Ascends(key, data, Within(k)) /\ Keeps(data, Within(k))
        BY <1>6, <1>7, <2>1, <3>2 DEF ContentInv, SettledInv
      <4>. QED
        BY <1>1, <1>5, <3>2, <4>1
    <3>. QED
      BY <3>1, <3>2
  <2>. QED
    BY <2>1 DEF SettledInv
<1>13. MergeInv'
  <2>1. SUFFICES ASSUME NEW u \in Threads, pc'[u] = "copy"
                 PROVE  Merged(key, data, out[u], Taken(mrg[u]), Left(mrg[u]))'
    BY DEF MergeInv
  <2>2. u # t /\ pc[u] = "copy"
    BY <1>1, <2>1
  <2>. QED
    BY <1>1, <2>2, MergeFrame
<1>. QED
  BY <1>9, <1>10, <1>11, <1>12, <1>13 DEF ContentInv

(* When all threads have ended, the first segment is the array.            *)
LEMMA WholeArray ==
    ASSUME IInv, mpc = "finish"
    PROVE  nmemb > 1 /\ segments[0] = [base |-> 0, nmemb |-> nmemb]
<1>1. nmemb > 1
  BY PsortAssumption DEF IInv, GeometryInv, EnterInv
<1>2. PICK O \in [0 .. thread_count -> 0 .. nmemb] :
          IsCut(O) /\ \A t \in Threads : OwnsInv(O, t)
  BY <1>1 DEF IInv, GeometryInv, Geometry
<1>3. 0 \in Threads /\ pc[0] = "done" /\ step[0] \in Nat \ {0} /\ step[0] >= thread_count
  BY PsortAssumption DEF IInv, ControlInv, ControlType, MainInv, RoundInv
<1>4. ~Behind(0) /\ 0 % step[0] = 0
  BY <1>3 DEF Behind
<1>5. Covers(O, 0, step[0])
  BY <1>2, <1>3, <1>4 DEF OwnsInv
<1>6. Upto(0 + step[0]) = thread_count
  BY <1>3, PsortAssumption DEF Upto
<1>7. O[0] = 0 /\ O[thread_count] = nmemb
  BY <1>2 DEF IsCut
<1>8. segments[0] = [base |-> 0, nmemb |-> nmemb - 0]
  BY <1>5, <1>6, <1>7 DEF Covers
<1>. QED
  BY <1>1, <1>8, PsortAssumption

(* The partition loop has cut the array into segments that do not overlap. *)
LEMMA CutApart ==
    IInv /\ mpc = "create" /\ (\A t \in Threads : pc[t] = "none") => ApartInv
<1>. SUFFICES ASSUME IInv, mpc = "create", \A t \in Threads : pc[t] = "none"
              PROVE  ApartInv
  OBVIOUS
<1>1. SUFFICES ASSUME nmemb > 1 PROVE ApartInv
  BY DEF ApartInv
<1>2. PICK O \in [0 .. thread_count -> 0 .. nmemb] :
          IsCut(O) /\ \A t \in Threads : OwnsInv(O, t)
  BY <1>1 DEF IInv, GeometryInv, Geometry
<1>3. ASSUME NEW k \in Threads
      PROVE  /\ O[k] \in Nat /\ O[k + 1] \in Nat /\ O[k] <= O[k + 1] /\ O[k + 1] <= nmemb
             /\ Within(k) = O[k] .. O[k + 1] - 1
  <2>1. step[k] = 1 /\ ~Behind(k) /\ k % 1 = 0
    BY PsortAssumption DEF IInv, ControlInv, RoundInv, Behind
  <2>2. Covers(O, k, 1)
    BY <1>2, <2>1 DEF OwnsInv
  <2>3. k \in 0 .. thread_count /\ k + 1 \in 0 .. thread_count /\ Upto(k + 1) = k + 1
    BY PsortAssumption DEF Upto
  <2>4. /\ O[k] \in 0 .. nmemb /\ O[k + 1] \in 0 .. nmemb /\ O[k] <= O[k + 1]
    BY <1>2, <2>3 DEF IsCut
  <2>5. O[k] + (O[k + 1] - O[k]) = O[k + 1]
    BY <2>4
  <2>6. Within(k) = Cells(O[k], O[k + 1] - O[k])
    BY <2>2, <2>3 DEF Within, Covers
  <2>. QED
    BY <2>4, <2>5, <2>6, PsortAssumption DEF Cells
<1>4. \A k \in Threads : Within(k) \subseteq Offsets
  BY <1>3, PsortAssumption DEF Offsets
<1>5. ASSUME NEW k \in Threads, NEW l \in Threads, k < l
      PROVE  Within(k) \cap Within(l) = {}
  <2>1. O[k + 1] <= O[l]
    BY <1>2, <1>5, PsortAssumption DEF IsCut
  <2>2. /\ O[k] \in Nat /\ O[k + 1] \in Nat /\ Within(k) = O[k] .. O[k + 1] - 1
        /\ O[l] \in Nat /\ O[l + 1] \in Nat /\ Within(l) = O[l] .. O[l + 1] - 1
    BY <1>3
  <2>3. ASSUME NEW x \in O[k] .. O[k + 1] - 1, x \in O[l] .. O[l + 1] - 1
        PROVE  FALSE
    BY <2>1, <2>2, <2>3
  <2>. QED
    BY <2>2, <2>3
<1>6. ASSUME NEW k \in Threads, NEW l \in Threads, k # l
      PROVE  Within(k) \cap Within(l) = {}
  <2>1. k < l \/ l < k
    BY <1>6, PsortAssumption
  <2>. QED
    BY <1>5, <2>1
<1>. QED
  BY <1>4, <1>6 DEF ApartInv

(* Steps of the calling thread.                                            *)
LEMMA MainContent == IInv /\ IInv' /\ ContentInv /\ MainStep => ContentInv'
<1>. SUFFICES ASSUME IInv, IInv', ContentInv, MainStep PROVE ContentInv'
  OBVIOUS
<1>1. /\ UNCHANGED <<key, step, mrg, out>>
      /\ \A t \in Threads : /\ pc'[t] = pc[t] \/ (pc[t] = "none" /\ pc'[t] = "start")
                            /\ Settled(t)' <=> Settled(t)
  <2>1. CreateThread =>
            \A t \in Threads : pc'[t] = pc[t] \/ (pc[t] = "none" /\ pc'[t] = "start")
    <3>1. SUFFICES ASSUME CreateThread
                   PROVE  \A t \in Threads :
                            \/ pc'[t] = pc[t]
                            \/ pc[t] = "none" /\ pc'[t] = "start"
      OBVIOUS
    <3>2. PICK i \in Threads : i = part.i
      BY DEF IInv, ControlInv, ControlType
    <3>3. pc[i] = "none" /\ pc' = [pc EXCEPT ![i] = "start"] /\ pc \in [Threads -> PCs]
      BY <3>1, <3>2, PsortAssumption DEF CreateThread, IInv, ControlInv, ControlType, MainInv
    <3>4. SUFFICES ASSUME NEW t \in Threads
                   PROVE  pc'[t] = pc[t] \/ (pc[t] = "none" /\ pc'[t] = "start")
      OBVIOUS
    <3>5. CASE t = i
      BY <3>3, <3>5
    <3>6. CASE t # i
      BY <3>3, <3>6
    <3>. QED
      BY <3>5, <3>6
  <2>2. \A t \in Threads : pc'[t] = pc[t] \/ (pc[t] = "none" /\ pc'[t] = "start")
    <3>1. PsortEnter \/ Partition \/ CreateThreadFails \/ JoinThread \/ Finish => pc' = pc
      BY DEF PsortEnter, Partition, CreateThreadFails, JoinThread, Finish
    <3>. QED
      BY <2>1, <3>1 DEF MainStep
  <2>3. UNCHANGED <<key, step, mrg, out>>
    BY DEF MainStep, PsortEnter, Partition, CreateThread, CreateThreadFails,
           JoinThread, Finish
  <2>. QED
    BY <2>2, <2>3 DEF Settled
<1>2. MergeInv'
  <2>1. SUFFICES ASSUME NEW u \in Threads, pc'[u] = "copy"
                 PROVE  Merged(key, data, out[u], Taken(mrg[u]), Left(mrg[u]))'
    BY DEF MergeInv
  <2>2. pc[u] = "copy"
    BY <1>1, <2>1
  <2>3. data' = data
    BY <2>2 DEF MainStep, PsortEnter, Partition, CreateThread, CreateThreadFails,
                JoinThread, Finish, IInv, ControlInv, MainInv
  <2>. QED
    BY <1>1, <2>2, <2>3, MergeFrame
<1>3. CASE CreateThread \/ CreateThreadFails \/ JoinThread \/ Finish
  <2>1. data' = data /\ segments' = segments
    <3>1. CASE Finish
      <4>1. segments[0].base = 0
        BY <3>1, WholeArray DEF Finish
      <4>. QED
        BY <3>1, <4>1 DEF Finish
    <3>. QED
      BY <1>3, <3>1 DEF CreateThread, CreateThreadFails, JoinThread
  <2>2. mpc \notin {"enter", "partition"} /\ mpc' \notin {"enter", "partition"}
    BY <1>3 DEF CreateThread, CreateThreadFails, JoinThread, Finish
  <2>3. PermInv' /\ ApartInv' /\ FreshInv' /\ SettledInv'
    BY <1>1, <2>1, <2>2, ContentFrame
  <2>. QED
    BY <1>2, <2>3 DEF ContentInv
<1>4. CASE PsortEnter \/ Partition
  <2>1. /\ data' = data /\ mpc \in {"enter", "partition"}
        /\ mpc' \in {"partition", "returned", "create"}
        /\ mpc' = "returned" => nmemb <= 1
    BY <1>4 DEF PsortEnter, Partition
  <2>2. \A t \in Threads : pc[t] = "none" /\ pc'[t] = "none"
    BY <1>4, <2>1 DEF PsortEnter, Partition, IInv, ControlInv, MainInv
  <2>3. PermInv'
    BY <2>1 DEF ContentInv, PermInv
  <2>4. ApartInv'
    <3>1. CASE mpc' = "create"
      <4>1. (IInv /\ mpc = "create" /\ (\A t \in Threads : pc[t] = "none")
                => ApartInv)'
        BY CutApart, PTL
      <4>. QED
        BY <2>2, <3>1, <4>1
    <3>2. CASE mpc' # "create"
      BY <2>1, <3>2, PsortAssumption DEF ApartInv
    <3>. QED
      BY <3>1, <3>2
  <2>5. \A x \in Offsets : data'[x] = x + 1
    BY <2>1 DEF ContentInv, FreshInv
  <2>6. FreshInv'
    BY <2>4, <2>5 DEF FreshInv, ApartInv
  <2>7. SettledInv'
    BY <2>2 DEF SettledInv, Settled
  <2>. QED
    BY <1>2, <2>3, <2>4, <2>6, <2>7 DEF ContentInv
<1>. QED
  BY <1>3, <1>4 DEF MainStep

-----------------------------------------------------------------------------
(* The results *)

(* Whatever the threads do in which order, every sorted segment holds, in  *)
(* order, the elements the caller had at its offsets, and no element is    *)
(* lost or doubled.                                                        *)
THEOREM Content == Spec => [](IInv /\ ContentInv)
<1>1. Init => ContentInv
  <2>1. SUFFICES ASSUME Init PROVE ContentInv
    OBVIOUS
  <2>1a. data = [x \in Offsets |-> x + 1]
    BY <2>1 DEF Init
  <2>2. \A x \in Offsets : data[x] = x + 1 /\ x \in Int
    BY <2>1a DEF Offsets
  <2>3. \A e \in Elements : e - 1 \in Offsets /\ data[e - 1] = e
    <3>1. \A e \in Elements : e - 1 \in Offsets /\ (e - 1) + 1 = e
      BY PsortAssumption DEF Offsets, Elements
    <3>. QED
      BY <2>2, <3>1
  <2>3a. \A t \in Threads : pc[t] = "none"
    BY <2>1 DEF Init
  <2>4. PermInv
    BY <2>2, <2>3 DEF PermInv, Permutes
  <2>. QED
    BY <2>1, <2>2, <2>3a, <2>4
       DEF Init, ContentInv, ApartInv, FreshInv, SettledInv, Settled, MergeInv
<1>2. IInv /\ IInv' /\ ContentInv /\ [Next]_vars => ContentInv'
  <2>1. SUFFICES ASSUME IInv, IInv', ContentInv, [Next]_vars PROVE ContentInv'
    OBVIOUS
  <2>2. CASE MainStep
    BY <2>1, <2>2, MainContent
  <2>3. ASSUME NEW t \in Threads, ThreadStep(t) PROVE ContentInv'
    BY <2>1, <2>3, SortContent, QuietContent, TakeContent, StoreContent, RetireContent
       DEF ThreadStep, MergeStep
  <2>4. CASE UNCHANGED vars
    <3>1. PermInv' /\ ApartInv' /\ FreshInv' /\ SettledInv'
      BY <2>1, <2>4, ContentFrame DEF vars, Settled
    <3>2. MergeInv'
      BY <2>1, <2>4 DEF ContentInv, MergeInv, vars
    <3>. QED
      BY <3>1, <3>2 DEF ContentInv
  <2>. QED
    BY <2>1, <2>2, <2>3, <2>4 DEF Next
<1>. QED
  BY <1>1, <1>2, Invariance, PTL DEF Spec

(* psort_r destroys the barrier and returns only when all threads have     *)
(* ended, so that nothing changes the array under the caller afterwards.   *)
THEOREM JoinsAll == Spec => []FinishesLast
<1>1. IInv => FinishesLast
  BY DEF IInv, ControlInv, MainInv, BarrierInv, FinishesLast
<1>. QED
  BY <1>1, Invariance, PTL

(* What the caller finds when the threads have been joined.                *)
LEMMA SortedAtTheEnd ==
    ASSUME IInv, ContentInv, mpc = "finish"
    PROVE  data \in {a \in Bijection(Offsets, Elements) : Promise!Sorted(a)}
<1>1. 0 \in Threads /\ Settled(0) /\ ~Given(0)
  BY PsortAssumption DEF Settled, Given, IInv, ControlInv, MainInv
<1>2. Within(0) = Offsets
  BY WholeArray, PsortAssumption DEF Within, Cells, Offsets
<1>3. Ascends(key, data, Offsets)
  BY <1>1, <1>2 DEF ContentInv, SettledInv
<1>4. data \in [Offsets -> Elements] /\ Permutes(data) /\ key \in [Elements -> Int]
  BY PsortAssumption DEF IInv, TypeOK, ContentInv, PermInv
<1>5. data \in Bijection(Offsets, Elements)
  BY <1>4 DEF Permutes, Bijection, Injection, Surjection, IsInjective
<1>6. ASSUME NEW x \in Offsets, NEW y \in Offsets, x < y
      PROVE  /\ Compare(key, data[x], data[y]) <= 0
             /\ stable /\ Compare(key, data[x], data[y]) = 0 => data[x] < data[y]
  <2>1. key[data[x]] \in Int /\ key[data[y]] \in Int
    BY <1>4
  <2>2. Before(key, data[x], data[y])
    BY <1>3, <1>6 DEF Ascends
  <2>. QED
    BY <2>1, <2>2 DEF Before, Compare
<1>7. Promise!Sorted(data)
  BY <1>6 DEF Promise!Sorted, Promise!SortedOn, Promise!StableOn, Promise!Compare,
              Promise!Offsets, Offsets, Compare, stable
<1>. QED
  BY <1>5, <1>7

(* An array of at most one element is sorted as it is.                     *)
LEMMA ShortIsSorted ==
    ASSUME nmemb <= 1, NEW d, d = [x \in Offsets |-> x + 1]
    PROVE  d \in {a \in Bijection(Offsets, Elements) : Promise!Sorted(a)}
<1>1. d \in [Offsets -> Elements] /\ \A x, y \in Offsets : x = y
  BY PsortAssumption DEF Offsets, Elements
<1>2. \A e \in Elements : 0 \in Offsets /\ d[0] = e
  BY PsortAssumption DEF Offsets, Elements
<1>3. d \in Bijection(Offsets, Elements)
  BY <1>1, <1>2 DEF Bijection, Injection, Surjection, IsInjective
<1>4. \A x, y \in Offsets : ~(x < y)
  BY <1>1, PsortAssumption DEF Offsets
<1>5. Promise!Sorted(d)
  BY <1>4 DEF Promise!Sorted, Promise!SortedOn, Promise!StableOn,
              Promise!Offsets, Offsets
<1>. QED
  BY <1>3, <1>5

(* Returning with a sorted array is the step the specification allows.     *)
LEMMA ReturnsSorted ==
    ASSUME mpc \in {"enter", "finish"}, mpc' = "returned", UNCHANGED <<key, data>>,
           data \in {a \in Bijection(Offsets, Elements) : Promise!Sorted(a)}
    PROVE  Promise!Return
<1>1. Promise!Offsets = Offsets /\ Promise!Elements = Elements
  BY DEF Promise!Offsets, Promise!Elements, Offsets, Elements
<1>2. data \in Promise!Bijection(Promise!Offsets, Promise!Elements)
  BY <1>1 DEF Bijection, Injection, Surjection, IsInjective, Promise!Bijection,
              Promise!Injection, Promise!Surjection, Promise!IsInjective
<1>. QED
  BY <1>2 DEF Promise!Return

(* psort_r is a sort: called with any array, for any number of threads, it *)
(* behaves like one atomic step that returns the elements of the array in  *)
(* ascending order, and in stable order if the algorithm for the segments  *)
(* is a stable one; or the process ends from within.                       *)
THEOREM Implements == Spec => ImplementsSort
<1>1. Init => Promise!Init
  BY DEF Init, Promise!Init, Promise!Offsets, Promise!Elements, Offsets, Elements
<1>2. IInv /\ ContentInv /\ [Next]_vars => [Promise!Next]_Promise!vars
  <2>. SUFFICES ASSUME IInv, ContentInv, [Next]_vars
                PROVE  [Promise!Next]_Promise!vars
    OBVIOUS
  <2>1. CASE PsortEnter
    <3>1. CASE nmemb <= 1
      <4>1. /\ mpc = "enter" /\ mpc' = "returned" /\ UNCHANGED <<key, data>>
        BY <2>1, <3>1 DEF PsortEnter
      <4>2. data = [x \in Offsets |-> x + 1]
        BY <4>1 DEF ContentInv, FreshInv, IInv, TypeOK
      <4>3. data \in {a \in Bijection(Offsets, Elements) : Promise!Sorted(a)}
        BY <3>1, <4>2, ShortIsSorted
      <4>. QED
        BY <4>1, <4>3, ReturnsSorted DEF Promise!Next
    <3>2. CASE ~(nmemb <= 1)
      BY <2>1, <3>2 DEF PsortEnter, Promise!vars
    <3>. QED
      BY <3>1, <3>2
  <2>2. CASE Partition \/ CreateThread \/ JoinThread
    BY <2>2 DEF Partition, CreateThread, JoinThread, Promise!vars
  <2>3. CASE CreateThreadFails
    BY <2>3 DEF CreateThreadFails, Promise!Next, Promise!Exit
  <2>4. CASE Finish
    <3>1. mpc = "finish" /\ mpc' = "returned" /\ UNCHANGED <<key, data>>
      BY <2>4, WholeArray DEF Finish
    <3>2. data \in {a \in Bijection(Offsets, Elements) : Promise!Sorted(a)}
      BY <3>1, SortedAtTheEnd
    <3>. QED
      BY <3>1, <3>2, ReturnsSorted DEF Promise!Next
  <2>5. ASSUME NEW t \in Threads, ThreadStep(t)
        PROVE  UNCHANGED Promise!vars
    <3>1. /\ mpc' = mpc /\ key' = key
          /\ pc[t] \in {"start", "sort", "barrier", "wait", "merge", "copy", "retire"}
      BY <2>5 DEF ThreadStep, MergeStep, ThreadStart, SortSegment, BarrierArrive,
             BarrierLeave, MergeSkip, MergeBegin, MergeTakeLeft, MergeTakeRight,
             MergeTakeRest, MergeStore, MergeRetire, Merging, mainVars
    <3>2. mpc # "returned"
      BY <3>1 DEF IInv, ControlInv, MainInv
    <3>. QED
      BY <3>1, <3>2 DEF Promise!vars
  <2>6. CASE UNCHANGED vars
    BY <2>6 DEF vars, Promise!vars
  <2>. QED
    BY <2>1, <2>2, <2>3, <2>4, <2>5, <2>6 DEF Next, MainStep
<1>. QED
  BY <1>1, <1>2, Content, PTL DEF Spec, ImplementsSort, Promise!Spec
=============================================================================
