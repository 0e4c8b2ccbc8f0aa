-------------------------------- MODULE Psort --------------------------------
(***************************************************************************)
(* posix/lib/psort.c: psort_r sorts an array with thread_count threads.    *)
(*                                                                         *)
(* The caller's thread (main) cuts the array into thread_count consecutive *)
(* segments, starts one thread per segment and joins them all.  Each       *)
(* thread sorts its segment in place and then takes part in a binary       *)
(* merge tree: in the round with distance step, the thread whose index is  *)
(* a multiple of 2*step merges the segment of index + step into its own.   *)
(* The rounds are separated by one barrier, which all threads use again    *)
(* and again.  Nothing else orders the threads: that no two of them touch  *)
(* the same element or the same segment descriptor at the same time is a   *)
(* consequence of the barrier and of the arithmetic of the indices.        *)
(*                                                                         *)
(* Elements are the numbers 1..nmemb, named by the offset they had in the  *)
(* caller's array; key holds what the compare function sees of them.  A    *)
(* pointer is the offset of the element it points at.                      *)
(*                                                                         *)
(* An operator X_Fault is a wrong variant of X that nothing uses: put in   *)
(* the place of X it shows that the properties notice the fault.           *)
(***************************************************************************)
EXTENDS SortOrder, FiniteSets, Sequences, Functions

CONSTANTS
    nmemb,          \* number of elements of the array
    thread_count,   \* number of threads
    sort_type,      \* which algorithm sorts the segments
    Keys            \* the values the compare function tells apart

StableSortTypes == {"INSERTION_SORT", "MERGE_SORT"}
SortTypes == StableSortTypes \cup
             {"HEAP_SORT", "TERNARY_HEAP_SORT", "QUICK_SORT", "FLASH_SORT"}

ASSUME PsortAssumption ==
    /\ nmemb \in Nat
    /\ thread_count \in Nat \ {0}       \* assert(thread_count > 0)
    /\ sort_type \in SortTypes
    /\ Keys \subseteq Int

Threads  == 0 .. thread_count - 1
Offsets  == 0 .. nmemb - 1
Elements == 1 .. nmemb
NULL     == -1

VARIABLES
    key,        \* what compare sees of each element; never changes
    data,       \* the array behind base
    segments,   \* struct sortable_data segments[thread_count]
    mpc,        \* control state of the calling thread in psort_r
    part,       \* its loop variables: i, ptr, rest_len, rest_count
    pc,         \* control state of each thread in psort_thread_run
    own,        \* base and nmemb, the locals read from the own segment
    step,       \* loop variable of the merge rounds
    mrg,        \* left, right, m, n, i, j of the merge under way
    out,        \* merge_data: what the merge has produced so far
    arrived,    \* threads waiting in the barrier's current cycle
    released    \* threads the barrier let go that have not returned yet

mainVars    == <<mpc, part>>
barrierVars == <<arrived, released>>
vars == <<key, data, segments, mpc, part, pc, own, step, mrg, out,
          arrived, released>>

NoRun  == [base |-> NULL, nmemb |-> 0]
NoMerge == [left |-> NULL, right |-> NULL, m |-> 0, n |-> 0, i |-> 0, j |-> 0]

Init ==
    /\ key \in [Elements -> Keys]
    /\ data = [x \in Offsets |-> x + 1]
    /\ segments = [t \in Threads |-> NoRun]
    /\ mpc = "enter"
    /\ part = [i |-> 0, ptr |-> 0, rest_len |-> nmemb,
               rest_count |-> thread_count]
    /\ pc = [t \in Threads |-> "none"]
    /\ own = [t \in Threads |-> NoRun]
    /\ step = [t \in Threads |-> 1]
    /\ mrg = [t \in Threads |-> NoMerge]
    /\ out = [t \in Threads |-> <<>>]
    /\ arrived = {}
    /\ released = {}

-----------------------------------------------------------------------------
(* psort_r, executed by the calling thread *)

(* An array of at most one element is sorted already; otherwise the        *)
(* bookkeeping arrays and the barrier are set up.                          *)
PsortEnter ==
    /\ mpc = "enter"
    /\ mpc' = IF nmemb <= 1 THEN "returned" ELSE "partition"
    /\ UNCHANGED <<key, data, segments, part, pc, own, step, mrg, out,
                   barrierVars>>

LenPerThread == part.rest_len \div part.rest_count

(* One turn of the loop that hands each thread an equal share of what is   *)
(* left of the array.                                                      *)
Partition ==
    /\ mpc = "partition"
    /\ segments' = [segments EXCEPT
                      ![part.i] = [base |-> part.ptr, nmemb |-> LenPerThread]]
    /\ IF part.i + 1 = thread_count
         THEN /\ mpc' = "create"
              /\ part' = [part EXCEPT !.i = 0]
         ELSE /\ mpc' = "partition"
              /\ part' = [i          |-> part.i + 1,
                          ptr        |-> part.ptr + LenPerThread,
                          rest_len   |-> part.rest_len - LenPerThread,
                          rest_count |-> part.rest_count - 1]
    /\ UNCHANGED <<key, data, pc, own, step, mrg, out, barrierVars>>

(* One turn of the loop that starts the threads. *)
CreateThread ==
    /\ mpc = "create"
    /\ pc' = [pc EXCEPT ![part.i] = "start"]
    /\ IF part.i + 1 = thread_count
         THEN mpc' = "join" /\ part' = [part EXCEPT !.i = 0]
         ELSE mpc' = mpc /\ part' = [part EXCEPT !.i = @ + 1]
    /\ UNCHANGED <<key, data, segments, own, step, mrg, out, barrierVars>>

(* pthread_create reports an error: handle_thread_error ends the process,  *)
(* and with it the threads already started.                                *)
CreateThreadFails ==
    /\ mpc = "create"
    /\ mpc' = "exited"
    /\ UNCHANGED <<key, data, segments, part, pc, own, step, mrg, out,
                   barrierVars>>

(* pthread_join returns for a thread that has ended. *)
Joinable_Fault(t) == pc[t] # "none"
Joinable(t) == pc[t] \in {"done", "thread_exit"}

JoinThread ==
    /\ mpc = "join"
    /\ Joinable(part.i)
    /\ IF part.i + 1 = thread_count
         THEN mpc' = "finish" /\ part' = [part EXCEPT !.i = 0]
         ELSE mpc' = mpc /\ part' = [part EXCEPT !.i = @ + 1]
    /\ UNCHANGED <<key, data, segments, pc, own, step, mrg, out, barrierVars>>

(* The barrier is destroyed, the result is copied to base unless it is     *)
(* there already, the bookkeeping arrays are freed.                        *)
Finish ==
    /\ mpc = "finish"
    /\ mpc' = "returned"
    /\ data' = IF segments[0].base = 0 THEN data
               ELSE [x \in Offsets |-> data[segments[0].base + x]]
    /\ UNCHANGED <<key, segments, part, pc, own, step, mrg, out, barrierVars>>

-----------------------------------------------------------------------------
(* psort_thread_run, executed by the thread with index t *)

Running(t) == mpc # "exited" /\ pc[t] # "none"

(* The thread copies the descriptor of its own segment. *)
ThreadStart(t) ==
    /\ Running(t) /\ pc[t] = "start"
    /\ own' = [own EXCEPT ![t] = segments[t]]
    /\ pc' = [pc EXCEPT ![t] = "sort"]
    /\ UNCHANGED <<key, data, segments, mainVars, step, mrg, out, barrierVars>>

(* The rearrangements of the cells R a sort function of the given type may *)
(* leave behind: in order, and in the old order among equal elements when  *)
(* the algorithm is a stable one.                                          *)
Sorts(R, type) ==
    {p \in Bijection(R, R) :
        \A x, y \in R : x < y =>
            LET c == Compare(key, data[p[x]], data[p[y]])
            IN  c < 0 \/ (c = 0 /\ (type \in StableSortTypes => p[x] < p[y]))}

(* The for loop over step: another barrier, or the end of the thread. *)
NextRound(t, s) == IF s < thread_count THEN "barrier" ELSE "done"

(* The switch over selected_sort_type sorts the own segment in place. *)
SortSegment(t) ==
    LET R == Cells(own[t].base, own[t].nmemb) IN
    /\ Running(t) /\ pc[t] = "sort"
    /\ \E p \in Sorts(R, sort_type) :
          data' = [x \in Offsets |-> IF x \in R THEN data[p[x]] ELSE data[x]]
    /\ own' = [own EXCEPT ![t] = NoRun]
    /\ pc' = [pc EXCEPT ![t] = NextRound(t, step[t])]
    /\ UNCHANGED <<key, segments, mainVars, step, mrg, out, barrierVars>>

(* The number of threads pthread_barrier_init was given. *)
BarrierCount_Fault == thread_count - 1
BarrierCount == thread_count

(* A thread enters pthread_barrier_wait; the one that completes the cycle  *)
(* lets everybody go.                                                      *)
BarrierArrive(t) ==
    LET inside == arrived \cup {t} IN
    /\ Running(t) /\ pc[t] = "barrier"
    /\ pc' = [pc EXCEPT ![t] = "wait"]
    /\ IF Cardinality(inside) = BarrierCount
         THEN arrived' = {} /\ released' = released \cup inside
         ELSE arrived' = inside /\ released' = released
    /\ UNCHANGED <<key, data, segments, mainVars, own, step, mrg, out>>

(* pthread_barrier_wait returns 0 or, in one thread of each cycle,         *)
(* PTHREAD_BARRIER_SERIAL_THREAD; anything else would end the thread.      *)
BarrierReturns == {"0", "SERIAL_THREAD"}
Continues_Fault(retcode) == retcode = "0"
Continues(retcode) == retcode = "SERIAL_THREAD" \/ retcode = "0"

BarrierLeave(t) ==
    /\ Running(t) /\ pc[t] = "wait" /\ t \in released
    /\ released' = released \ {t}
    /\ \E retcode \in BarrierReturns :
          pc' = [pc EXCEPT
                   ![t] = IF Continues(retcode) THEN "merge" ELSE "thread_exit"]
    /\ UNCHANGED <<key, data, segments, mainVars, own, step, mrg, out, arrived>>

(* Whether this thread merges in this round, and with which segment. *)
Other(t) == t + step[t]
Merges_Fault(t) == t % step[t] = 0 /\ Other(t) < thread_count
Merges(t) == t % (2 * step[t]) = 0 /\ Other(t) < thread_count

(* A thread without a merge in this round goes on to the next one. *)
MergeSkip(t) ==
    /\ Running(t) /\ pc[t] = "merge" /\ ~Merges(t)
    /\ step' = [step EXCEPT ![t] = 2 * @]
    /\ pc' = [pc EXCEPT ![t] = NextRound(t, 2 * step[t])]
    /\ UNCHANGED <<key, data, segments, mainVars, own, mrg, out, barrierVars>>

(* The two descriptors are read, merge_data is allocated. *)
MergeBegin(t) ==
    /\ Running(t) /\ pc[t] = "merge" /\ Merges(t)
    /\ mrg' = [mrg EXCEPT ![t] =
                 [left |-> segments[t].base,  m |-> segments[t].nmemb,
                  right |-> segments[Other(t)].base,
                  n |-> segments[Other(t)].nmemb, i |-> 0, j |-> 0]]
    /\ pc' = [pc EXCEPT ![t] = "copy"]
    /\ UNCHANGED <<key, data, segments, mainVars, own, step, out, barrierVars>>

Merging(t) == Running(t) /\ pc[t] = "copy" /\ mrg[t].i + mrg[t].j < mrg[t].m + mrg[t].n
LeftElement(t)  == data[mrg[t].left + mrg[t].i]
RightElement(t) == data[mrg[t].right + mrg[t].j]

(* The left element goes first unless the right one is smaller. *)
LeftFirst(t) == Compare(key, LeftElement(t), RightElement(t)) <= 0

MergeTakeLeft(t) ==
    /\ Merging(t) /\ mrg[t].i < mrg[t].m /\ mrg[t].j < mrg[t].n
    /\ LeftFirst(t)
    /\ out' = [out EXCEPT ![t] = Append(@, LeftElement(t))]
    /\ mrg' = [mrg EXCEPT ![t].i = @ + 1]
    /\ UNCHANGED <<key, data, segments, mainVars, pc, own, step, barrierVars>>

MergeTakeRight(t) ==
    /\ Merging(t) /\ mrg[t].i < mrg[t].m /\ mrg[t].j < mrg[t].n
    /\ ~LeftFirst(t)
    /\ out' = [out EXCEPT ![t] = Append(@, RightElement(t))]
    /\ mrg' = [mrg EXCEPT ![t].j = @ + 1]
    /\ UNCHANGED <<key, data, segments, mainVars, pc, own, step, barrierVars>>

(* One side is used up: the rest of the other one is copied at once. *)
Slice_Fault(from, len) == [x \in 1 .. len |-> data[from]]
Slice(from, len) == [x \in 1 .. len |-> data[from + x - 1]]

MergeTakeRest(t) ==
    /\ Merging(t)
    /\ \/ /\ mrg[t].i >= mrg[t].m
          /\ out' = [out EXCEPT ![t] =
                       @ \o Slice(mrg[t].right + mrg[t].j, mrg[t].n - mrg[t].j)]
          /\ mrg' = [mrg EXCEPT ![t].j = mrg[t].n]
       \/ /\ mrg[t].i < mrg[t].m /\ mrg[t].j >= mrg[t].n
          /\ out' = [out EXCEPT ![t] =
                       @ \o Slice(mrg[t].left + mrg[t].i, mrg[t].m - mrg[t].i)]
          /\ mrg' = [mrg EXCEPT ![t].i = mrg[t].m]
    /\ UNCHANGED <<key, data, segments, mainVars, pc, own, step, barrierVars>>

(* All elements are merged: the own segment takes them, in place. *)
MergeStore(t) ==
    LET R == Cells(segments[t].base, mrg[t].m + mrg[t].n) IN
    /\ Running(t) /\ pc[t] = "copy" /\ ~Merging(t)
    /\ segments' = [segments EXCEPT ![t].nmemb = mrg[t].m + mrg[t].n]
    /\ data' = [x \in Offsets |->
                  IF x \in R THEN out[t][x - segments[t].base + 1] ELSE data[x]]
    /\ out' = [out EXCEPT ![t] = <<>>]
    /\ mrg' = [mrg EXCEPT ![t] = NoMerge]
    /\ pc' = [pc EXCEPT ![t] = "retire"]
    /\ UNCHANGED <<key, mainVars, own, step, barrierVars>>

(* The other segment is now empty; the round is over. *)
MergeRetire(t) ==
    /\ Running(t) /\ pc[t] = "retire"
    /\ segments' = [segments EXCEPT ![Other(t)] = NoRun]
    /\ step' = [step EXCEPT ![t] = 2 * @]
    /\ pc' = [pc EXCEPT ![t] = NextRound(t, 2 * step[t])]
    /\ UNCHANGED <<key, data, mainVars, own, mrg, out, barrierVars>>

-----------------------------------------------------------------------------
MainStep ==
    \/ PsortEnter \/ Partition \/ CreateThread \/ CreateThreadFails
    \/ JoinThread \/ Finish

MergeStep(t) ==
    \/ MergeSkip(t) \/ MergeBegin(t)
    \/ MergeTakeLeft(t) \/ MergeTakeRight(t) \/ MergeTakeRest(t)
    \/ MergeStore(t) \/ MergeRetire(t)

ThreadStep(t) ==
    \/ ThreadStart(t) \/ SortSegment(t)
    \/ BarrierArrive(t) \/ BarrierLeave(t)
    \/ MergeStep(t)

Next == MainStep \/ \E t \in Threads : ThreadStep(t)

Spec == Init /\ [][Next]_vars

(* The scheduler runs every thread that can run.  A thread blocked in the  *)
(* barrier or in join stays enabled once its condition holds, so weak      *)
(* fairness per thread is enough.                                          *)
FairSpec ==
    /\ Spec
    /\ WF_vars(MainStep)
    /\ \A t \in Threads : WF_vars(ThreadStep(t))

-----------------------------------------------------------------------------
(* Properties *)

Run   == [base : -1 .. nmemb, nmemb : 0 .. nmemb]
Merge == [left : -1 .. nmemb, right : -1 .. nmemb, m : 0 .. nmemb,
          n : 0 .. nmemb, i : 0 .. nmemb, j : 0 .. nmemb]

(* Every variable has its type.  step never grows beyond what the loop     *)
(* condition step < thread_count lets through, doubled once.               *)
TypeOK ==
    /\ key \in [Elements -> Keys]
    /\ data \in [Offsets -> Elements]
    /\ segments \in [Threads -> Run]
    /\ mpc \in {"enter", "partition", "create", "join", "finish",
               "returned", "exited"}
    /\ part \in [i : Threads, ptr : 0 .. nmemb, rest_len : 0 .. nmemb,
                rest_count : 1 .. thread_count]
    /\ pc \in [Threads -> {"none", "start", "sort", "barrier", "wait", "merge",
                          "copy", "retire", "done", "thread_exit"}]
    /\ own \in [Threads -> Run]
    /\ step \in [Threads -> 1 .. 2 * thread_count - 1]
    /\ mrg \in [Threads -> Merge]
    /\ out \in [Threads -> Seq(Elements)]
    /\ arrived \subseteq Threads
    /\ released \subseteq Threads

(* A thread is behind the barrier of its round from the moment the barrier *)
(* lets it go until its merge is over; otherwise it is on the way to the   *)
(* next barrier, or past the last one.                                     *)
Behind(t) ==
    \/ pc[t] \in {"merge", "copy", "retire"}
    \/ pc[t] = "wait" /\ t \in released

(* The rounds do not mix: threads on the same side of the barrier are in   *)
(* the same round, and a thread that has finished its merge is exactly one *)
(* round further than those that have not.  The barrier is used again      *)
(* while threads of the cycle before may still be inside of it.            *)
BarrierLockstep ==
    \A t, u \in Threads :
        IF Behind(t) <=> Behind(u) THEN step[t] = step[u]
        ELSE Behind(u) => step[t] = 2 * step[u]

(* What the next steps of a thread may read and write: descriptors of      *)
(* segments and elements of the array.                                     *)
Mem(base, len) == {<<"mem", x>> : x \in Cells(base, len)}
Seg(t) == {<<"seg", t>>}

Writes(t) ==
    CASE pc[t] = "sort"   -> Mem(own[t].base, own[t].nmemb)
      [] pc[t] = "copy"   -> Seg(t) \cup
                             Mem(segments[t].base, mrg[t].m + mrg[t].n)
      [] pc[t] = "retire" -> Seg(Other(t))
      [] OTHER            -> {}

Reads(t) ==
    CASE pc[t] = "start" -> Seg(t)
      [] pc[t] = "sort"  -> Mem(own[t].base, own[t].nmemb)
      [] pc[t] = "merge" /\ Merges(t) -> Seg(t) \cup Seg(Other(t))
      [] pc[t] = "copy"  -> Seg(t) \cup Mem(mrg[t].left, mrg[t].m)
                                  \cup Mem(mrg[t].right, mrg[t].n)
      [] OTHER           -> {}

(* No thread writes what another thread reads or writes at the same time,  *)
(* although no lock protects the array or the descriptors.                 *)
NoConflictingAccess ==
    \A t, u \in Threads :
        t # u => Writes(t) \cap (Reads(u) \cup Writes(u)) = {}

(* The calling thread destroys the barrier, copies the result and frees    *)
(* the descriptors only when no thread can touch them any more.            *)
FinishesLast ==
    mpc \in {"finish", "returned"} =>
        \A t \in Threads : pc[t] \in {"none", "done"} /\ t \notin arrived \cup released

(* The offset behind the segment of t.                                     *)
SegmentEnd(t) == segments[t].base + segments[t].nmemb
(* Called with any array, psort_r behaves as an atomic sort does.          *)
Promise == INSTANCE SortSpec WITH
    stable <- sort_type \in StableSortTypes,
    arr    <- IF mpc = "returned" THEN data ELSE [x \in Offsets |-> x + 1],
    status <- IF mpc \in {"returned", "exited"} THEN mpc ELSE "called"

ImplementsSort == Promise!Spec

(* No thread waits in the barrier for ever, and psort_r comes to its end.  *)
Termination == <>(mpc \in {"returned", "exited"})
=============================================================================
