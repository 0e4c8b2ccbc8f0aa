----------------------------- MODULE ThreadTexts -----------------------------
(***************************************************************************)
(* The texts of the programs of posix/threads: ...Run is the thread        *)
(* function, ...Main is what main does after it has read its options; an   *)
(* option that changes the calls is a parameter.  Times are in tenths of a *)
(* second.  Crowd threads stand for the 10 or 20 of the code.              *)
(***************************************************************************)
EXTENDS Instructions, SequencesExt

CONSTANTS
    Crowd,      \* number of threads in the programs with many of them
    Sorters     \* and in those that sort in threads

ASSUME CrowdAssumption == Crowd \in 1..4 /\ Sorters \in 1..4

\* What a thread does while it holds a lock: it prints and sleeps.  The
\* variable "inside" stands for what the lock protects.
Critical(s) == << Put("inside", 1), Sleep(s) >>

\* Lock, or timedlock with option -t: one that fails at the deadline ends the
\* program, one in a loop comes back after a pause.
Acquire(m, timed) == << IF timed THEN TimedLock(m) ELSE Lock(m) >>
AcquireRetry(m, timed, pause) ==
    IF timed THEN Retry(TimedLock(m), pause) ELSE << Lock(m) >>

-----------------------------------------------------------------------------
(* Mutexes.  The thread is created before the mutex is initialised; what   *)
(* keeps it from using the mutex too early is only its sleep.              *)

MutexThreadsRun(timed) ==
    << Sleep(20) >> \o Acquire("m", timed) \o Critical(50)
    \o << Unlock("m"), Sleep(100), End >>

MutexThreadsMain(timed) ==
    << Create(1), MutexInit("m"), Sleep(20) >> \o Acquire("m", timed)
    \o Critical(50) \o << Unlock("m"), Join(1), MutexDestroy("m"), Exit >>

\* The local variable timeout of main hides the global one: the thread works
\* with a timeout of 0, which is long past.
MutexAttrRun(timed) == MutexThreadsRun(timed)

MutexAttrMain(timed) ==
    << Future(2000), Create(1), MutexInit("m"), Sleep(20) >> \o Acquire("m", timed)
    \o Critical(50) \o << Unlock("m"), Join(1), MutexDestroy("m"), Exit >>

MutexManyRun(timed) ==
    << Sleep(20) >> \o AcquireRetry("m", timed, << Sleep(10) >>) \o Critical(50)
    \o << Unlock("m"), Sleep(100), End >>

MutexManyMain(timed) ==
    CreateAll(Crowd) \o << MutexInit("m"), Sleep(20) >>
    \o AcquireRetry("m", timed, << Sleep(10) >>) \o Critical(50)
    \o << Unlock("m") >> \o JoinAll(Crowd) \o << MutexDestroy("m"), Exit >>

MutexStdinRun(timed) ==
    << Sleep(20) >> \o AcquireRetry("m", timed, << Sleep(10) >>)
    \o << GetLine >> \o Critical(10) \o << Unlock("m"), Sleep(100), End >>

MutexStdinMain(timed) ==
    CreateAll(Crowd) \o << MutexInit("m"), Sleep(20) >>
    \o AcquireRetry("m", timed, << >>) \o Critical(50)
    \o << Unlock("m") >> \o JoinAll(Crowd) \o << MutexDestroy("m"), Exit >>

DeadlockRun ==
    << Unchecked(Lock("m2")), Sleep(50), Unchecked(Lock("m")), Sleep(50),
       Unlock("m"), Unlock("m2"), End >>

DeadlockMain(kind) ==
    << MutexInitAs("m", kind), MutexInitAs("m2", kind), Create(1),
       Unchecked(Lock("m")), Sleep(50), Unchecked(Lock("m2")), Sleep(50),
       Unlock("m2"), Unlock("m"), Join(1),
       MutexDestroy("m"), MutexDestroy("m2"), Exit >>

MutexOrderMain(kind) ==
    << MutexInitAs("m", kind), MutexInitAs("m2", kind),
       Unchecked(Lock("m")), Sleep(10), Unchecked(Lock("m2")), Sleep(10),
       Unlock("m"), Unlock("m2"), MutexDestroy("m"), MutexDestroy("m2"), Exit >>

MutexReentranceMain(kind) ==
    << MutexInitAs("m", kind), Lock("m"), Lock("m"), Sleep(50),
       Unlock("m"), Unlock("m"), MutexDestroy("m"), Exit >>

-----------------------------------------------------------------------------
(* Threads that share standard input; the one that sees its end tells the  *)
(* others after it has released the mutex.                                 *)

\* The deadline is computed once, before the loop: from the second round on
\* it is past, and a thread that finds the mutex taken then gives up.
TimedlockRun ==
    << Sleep(10), Future(1) >>
    \o Until(MemIs("done", 1), << OrEndTask(TimedLock("m")) >>
         \o Branch(GetLine, << Put("inside", 1), Sleep(10), Unlock("m"), Sleep(10) >>,
                            << Unlock("m"), Put("done", 1) >>))
    \o << End >>

TimedlockMain ==
    << MutexInit("m") >> \o CreateAll(Crowd) \o JoinAll(Crowd) \o << Exit >>

NonblockingRun ==
    << Sleep(10) >>
    \o Until(MemIs("done", 1), Branch(TryLock("m"),
         Branch(GetLine, << Put("inside", 1), Sleep(10), Unlock("m"), Sleep(10) >>,
                         << Unlock("m"), Put("done", 1) >>),
         << Sleep(10) >>))
    \o << End >>

NonblockingMain == TimedlockMain

-----------------------------------------------------------------------------
(* Semaphores between threads.                                             *)

PosixSemThreadsRun_Fault ==
    << SemOpen("sem", 1), SemWait("sem") >> \o Critical(50) \o << Sleep(100), End >>

PosixSemThreadsRun ==
    << SemOpen("sem", 1), SemWait("sem") >> \o Critical(50)
    \o << SemPost("sem"), Sleep(100), End >>

PosixSemThreadsMain ==
    << Create(1), SemOpen("sem", 1), SemWait("sem") >> \o Critical(50)
    \o << SemPost("sem"), Join(1), SemRemove("sem"), Exit >>

\* semget with IPC_CREAT in both; the value is 0 until the parent sets it.
SysvSemThreadsRun ==
    << Sleep(20), SemGet("sem"), SemWaitUndo("sem") >> \o Critical(50)
    \o << SemPostUndo("sem"), Sleep(100), End >>

SysvSemThreadsMain ==
    << Create(1), SemGet("sem"), SemSet("sem", 1), Sleep(20), SemWaitUndo("sem") >>
    \o Critical(50) \o << SemPostUndo("sem"), Join(1), SemRemove("sem"), Exit >>

-----------------------------------------------------------------------------
(* Conditions and barriers.                                                *)

\* No predicate is tested around the waits: a signal that comes too early is
\* lost.  Each thread has a mutex of its own, so the mutexes play no part.
ConditionRun(own) ==
    << MutexInit(own), OrEndTask(Lock(own)), CondWait("c1", own), Future(100),
       Unchecked(CondTimedWait("cm", own)), Unlock(own), MutexDestroy(own), End >>

ConditionMain ==
    CreateAll(2) \o << Sleep(50), CondSignal("c1"), Sleep(10), CondSignal("c1"),
       Sleep(10), Sleep(50), CondBroadcast("cm"), Sleep(50) >>
    \o JoinAll(2) \o << Exit >>

BarriereRun ==
    Count("wait_count") \o << OrEndTask(BarrierWait("start")) >>
    \o << OrEndTask(BarrierWait("b")), OrEndTask(BarrierWait("b")), End >>

BarriereMain ==
    << BarrierInit("b", Crowd), BarrierInit("start", Crowd + 1) >>
    \o CreateAll(Crowd) \o Count("wait_count")
    \o << BarrierWait("start") >> \o JoinAll(Crowd) \o << Exit >>

\* Every thread adds up its own file, the serial one adds the partial sums.
\* Main waits without holding the mutex and without a predicate, then it prints the
\* sums, and only then it joins the threads.
SummationRun(own) ==
    << Put(own, 0) >> \o Count(own)
    \o Branch(OrEndTask(BarrierWait("b")),
              << Put("total", 0), AddUp("total", "sum1"), AddUp("total", "sum2"),
                 Unchecked(CondSignal("c1")) >>, << >>)
    \o << Sleep(100), End >>

SummationMain ==
    << BarrierInit("b", 2), MutexInit("m") >> \o CreateAll(2)
    \o << CondWait("c1", "m"), Load("sum1"), Load("sum2"), Load("total") >>
    \o JoinAll(2) \o << Exit >>

-----------------------------------------------------------------------------
(* Life cycle of threads.  "stdout" is the lock of flockfile.              *)

ThreadIdMain == CreateAll(2) \o JoinAll(2) \o << Exit >>

ThreadReturnRun  == << Put("result", 1), End >>
ThreadReturnMain == << Create(1), Join(1), Load("result"), Exit >>

\* pthread_exit in main ends the last thread, and with it the process, which
\* does not go on after the call but runs its exit handler.
PthreadExitMain == << AtExit, End, Put("after", 1), Exit >>
ExitHandler     == << Put("exited", 1) >>

\* The buffer of the file is shared by the threads, so its text is written once.
WriteOnceRun  == << Sleep(10), End >>
WriteOnceMain ==
    << StdioWrite, Create(1), Create(2), Sleep(10) >> \o JoinAll(2) \o << Exit >>

\* The thread sets the length of the message that main reads.
ThreadRun  == << Put("message_len", 1), OrEndTask(PipeWrite(1)), PipeClose("w"), End >>
ThreadMain == << PipeOpen, Create(1), Sleep(10), PipeReadAs("message_len"),
                 PipeClose("r"), Join(1), Exit >>
ThreadfRun ==
    << Sleep(10), Put("message_len", 1), OrEndTask(PipeWrite(1)), PipeClose("w"), End >>
ThreadfMain == << PipeOpen, Create(1), PipeReadAs("message_len"),
                  PipeClose("r"), Join(1), Exit >>

\* main hands all threads the same buffer for their names.
ParamTrapRun  == << Load("name"), Sleep(50), Load("name"), End >>
ParamTrapMain ==
    << MutexInit("m") >>
    \o FlattenSeq([t \in 1..Crowd |-> << Put("name", t), Create(t), Sleep(10) >>])
    \o JoinAll(Crowd) \o << Exit >>

\* pthread_once: who does not come first waits for the end of once_fun.
ThreadOnceRun ==
    Branch(Once, << Put("content", 1), OnceDone >>, << >>)
    \o << Load("content"), Sleep(10), End >>
ThreadOnceMain == CreateAll(Crowd) \o << Sleep(100) >> \o JoinAll(Crowd) \o << Exit >>

\* Detached threads: nobody joins them, main only sleeps.
OnceDetachMain == CreateAll(Crowd) \o << Sleep(100), Exit >>

\* Each thread keeps its name under a key of its own, also in once_fun.
OnceKeyRun  == ThreadOnceRun
OnceKeyMain == ThreadOnceMain

FlockfileRun  == << Lock("stdout"), Put("inside", 1), Unlock("stdout"), End >>
FlockfileMain == CreateAll(Crowd) \o << Sleep(200), Exit >>

IncrementRun  == Count("x") \o << End >>
IncrementMain == << Put("x", 0), Create(1), Load("x"), Exit >>

-----------------------------------------------------------------------------
(* Counting: every thread counts the bytes of its file in shared counters, *)
(* then prints them all.  bytes is the file; acq and rel are the calls for *)
(* the lock of each counter, acqR the one to read it, acqO and relO those  *)
(* for the output.                                                         *)

Bytes    == {"A", "B"}
Unlocks  == [c \in Bytes |-> Unlock(c)]
Locks    == [c \in Bytes |-> OrEndTask(Lock(c))]
RdLocks  == [c \in Bytes |-> OrEndTask(ReadLock(c))]

Counting(bytes, acq, rel, acqR, acqO, relO) ==
    FlattenSeq([i \in 1..Len(bytes) |->
                  << acq[bytes[i]] >> \o Count(bytes[i]) \o << rel[bytes[i]] >>])
    \o << acqO, Put("inside", 1),
          acqR["A"], Load("A"), rel["A"], acqR["B"], Load("B"), rel["B"], relO, End >>

CountSemRun(bytes) ==
    LET acq == [c \in Bytes |-> OrEndTask(SemWait(c))]
        rel == [c \in Bytes |-> OrEndTask(SemPost(c))]
    IN  Counting(bytes, acq, rel, acq, SemWait("out"), SemPost("out"))

CountSemMain_Fault ==
    << SemOpen("A", 1), SemOpen("B", 1), SemOpen("out", 1) >> \o CreateAll(2)
    \o << SemWait("out"), Put("inside", 1), SemPost("out"),
          SemRemove("A"), SemRemove("B"), SemRemove("out") >> \o JoinAll(2) \o << Exit >>

CountSemMain ==
    << SemOpen("A", 1), SemOpen("B", 1), SemOpen("out", 1) >> \o CreateAll(2)
    \o << SemWait("out"), Put("inside", 1), SemPost("out") >> \o JoinAll(2)
    \o << SemRemove("A"), SemRemove("B"), SemRemove("out"), Exit >>

CountMutexRun(bytes) ==
    Counting(bytes, Locks, Unlocks, Locks, Lock("out"), Unlock("out"))

CountMutexMain ==
    << MutexInit("A"), MutexInit("B"), MutexInit("out") >> \o CreateAll(2)
    \o << Lock("out"), Put("inside", 1), Unlock("out") >> \o JoinAll(2)
    \o << MutexDestroy("A"), MutexDestroy("B"), MutexDestroy("out"), Exit >>

CountRwRun_Fault(bytes) ==
    Counting(bytes, RdLocks, Unlocks, RdLocks, Lock("out"), Unlock("out"))

CountRwRun(bytes) ==
    Counting(bytes, Locks, Unlocks, RdLocks, Lock("out"), Unlock("out"))

CountRwMain == CountMutexMain

\* Pairs of bytes: a last single byte is completed by a zero, so that the file
\* <<A, B, A>> has the pairs AB and A0, counted here as A and B.
Pairs(bytes) ==
    [i \in 1..((Len(bytes) + 1) \div 2) |-> IF 2 * i <= Len(bytes) THEN "A" ELSE "B"]
CountPairsRun(bytes) ==
    Counting(Pairs(bytes), Locks, Unlocks, Locks, Lock("out"), Unlock("out"))

CountPairsMain == CountMutexMain

\* Each file is counted in local counters, which nobody sets to zero.
CountByFileRun(own) ==
    << Garbage(own) >> \o Count(own) \o Count(own)
    \o << Lock("out"), Put("inside", 1), AddUp("A", own), Unlock("out"), End >>

CountByFileMain ==
    << MutexInit("out") >> \o CreateAll(2)
    \o << Lock("out"), Put("inside", 1), Unlock("out") >> \o JoinAll(2)
    \o << MutexDestroy("out"), Exit >>

-----------------------------------------------------------------------------
(* Sorting: threads sort their segments and merge them in rounds, with a   *)
(* barrier before each round; thread t has the segment with index t - 1.   *)

\* All segments have the same size, the last one takes the rest.
Segments(content, n) ==
    LET size == Len(content) \div n
    IN  [k \in 1..n |-> SubSeq(content, (k - 1) * size + 1,
                                IF k = n THEN Len(content) ELSE k * size)]

MergeRounds_Fault(t, serial) ==
    LET idx == t - 1
        Round(step) ==
            Branch(OrEndTask(BarrierWait("b")), serial, << >>)
            \o (IF idx % (2 * step) = 0 /\ idx + step < Sorters - 1
                THEN << MergeParts(t, t + step) >> ELSE << >>)
    IN  (IF Sorters > 1 THEN Round(1) ELSE << >>) \o (IF Sorters > 2 THEN Round(2) ELSE << >>)

\* The rounds of thread t of up to four, which has the segment with index t - 1; the one that
\* is released last by the barrier does "serial".
MergeRounds(t, serial) ==
    LET idx == t - 1
        Round(step) ==
            Branch(OrEndTask(BarrierWait("b")), serial, << >>)
            \o (IF idx % (2 * step) = 0 /\ idx + step < Sorters
                THEN << MergeParts(t, t + step) >> ELSE << >>)
    IN  (IF Sorters > 1 THEN Round(1) ELSE << >>) \o (IF Sorters > 2 THEN Round(2) ELSE << >>)

MultiSortRun(t) ==
    << SortPart(t) >>
    \o MergeRounds(t, << Unchecked(Lock("out")), Unlock("out") >>) \o << End >>

\* Main fills in the segment of a thread just before it creates the thread, when
\* those before it run already.
GiveAndCreate == FlattenSeq([t \in 1..Sorters |-> << GivePart(t), Create(t) >>])

MultiSortMain_Fault ==
    GiveAndCreate \o << BarrierInit("b", Sorters), MutexInit("out") >>
    \o JoinAll(Sorters) \o << Exit >>

MultiSortMain ==
    << BarrierInit("b", Sorters), MutexInit("out") >> \o GiveAndCreate
    \o JoinAll(Sorters) \o << Exit >>

\* Here main takes part in every barrier.
SortBytesRun(t) == << SortPart(t) >> \o MergeRounds(t, << >>) \o << End >>

SortBytesMain ==
    << Unchecked(BarrierInit("b", Sorters + 1)) >> \o GiveAndCreate
    \o [r \in 1..(IF Sorters > 2 THEN 2 ELSE Sorters - 1) |-> OrEndTask(BarrierWait("b"))]
    \o JoinAll(Sorters) \o << Exit >>

\* The file is read and sorted once; every thread then prints the result.
SortOnceRun ==
    << Sleep(10) >> \o Branch(OrEndTask(Once), << Put("content", 1), OnceDone >>, << >>)
    \o << Lock("stdout"), Load("content"), Put("inside", 1), Unlock("stdout"), End >>
SortOnceMain == CreateAll(Crowd) \o JoinAll(Crowd) \o << Exit >>

\* The same, with the arguments for once_fun under a key of the thread.
SortOncePdRun  == SortOnceRun
SortOncePdMain == SortOnceMain
=============================================================================
