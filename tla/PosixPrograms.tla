---------------------------- MODULE PosixPrograms ----------------------------
(***************************************************************************)
(* What the programs of posix/threads, posix/ipc and posix/processes do    *)
(* right, whatever the interleaving of their threads and processes.        *)
(***************************************************************************)
EXTENDS Posix, ProgramTable

\* Every task, and time, goes on if it can; nobody counts on a wake-up of a
\* condition without a signal.
Fairness ==
    /\ WF_vars(Tick)
    /\ \A t \in 0..4 : WF_vars(t \in Tasks /\ Step(t))

Spec     == Init /\ [][Next]_vars
FairSpec == Spec /\ Fairness

Name     == program.name
Over     == \A t \in Tasks : ~ Live(t)
OverWell == \A t \in Tasks : task[t].st = "ok"

-----------------------------------------------------------------------------
(* Memory.                                                                 *)

\* What a call reads and writes in shared memory.
WritesOf(i) ==
    CASE i.op \in {"store", "put", "addup", "garbage"} -> {<<"mem", i.on>>}
      [] i.op \in {"givepart", "sortpart"} -> {<<"seg", i.on>>}
      [] i.op = "mergeparts" -> {<<"seg", i.on>>, <<"seg", i.arg>>}
      [] OTHER -> {}
ReadsOf(i) ==
    CASE i.op \in {"load", "memis", "pipereadas"} -> {<<"mem", i.on>>}
      [] i.op = "addup" -> {<<"mem", i.arg>>}
      [] OTHER -> {}

\* What the next call of a task does.
Writes(t) == WritesOf(Now(t))
Reads(t)  == ReadsOf(Now(t))

Conflict(t, u) == Running(t) /\ Running(u) /\ Writes(t) \cap (Writes(u) \cup Reads(u)) # {}

\* Programs that share a variable without a lock: those that show what happens
\* then, the counter of started threads, and the flag that all input is read.
Unlocked == {"thread", "threadf", "increment-speed", "thread-param-trap",
             "barriere", "timedlock", "nonblocking"}

\* Programs in which who starts first creates what the other one uses, and a
\* sleep of the other one is all that keeps the order.
SleepOrdered == {"mutex-threads", "mutex-threads -t", "mutex-attr-threads -t",
                 "mutex-many-threads", "mutex-many-threads -t",
                 "mutex-many-threads-read-stdin", "mutex-ipc-separate",
                 "mutex-attr-ipc", "mutex-attr-ipc -t"}

\* Summation reads the sums after a wait for a condition that no loop repeats: the
\* sums are there unless the wait ends without a signal.
Unpredicated == {"summation"}

(* No two threads or processes are about to access the same variable, one  *)
(* of them writing: the locks, barriers and semaphores of the programs     *)
(* order all accesses, and a critical section has one task inside.  In two *)
(* kinds of programs that is so only while sleeps take their time and no   *)
(* wait ends without a signal.                                             *)
NoDataRace ==
    (Name \notin Unlocked /\ (punctual \/ Name \notin SleepOrdered \cup Unpredicated))
    => \A t, u \in Tasks : t # u => ~ Conflict(t, u)

(* A mutex, barrier or semaphore is used only between its initialisation   *)
(* and its removal; where only sleeps order the two tasks, as long as the  *)
(* sleeps take their time.                                                 *)
UsedReady == punctual \/ Name \notin SleepOrdered => ~ sync.early

-----------------------------------------------------------------------------
(* Results.                                                                *)

\* How often the byte or pair c is in the files.
Occurrences(c, files) ==
    LET all == FlattenSeq(files) IN Cardinality({ i \in DOMAIN all : all[i] = c })

\* The counters of all files together, when the threads have ended.
CountsAll(files) == \A c \in {"A", "B"} : data.mem[c] = Occurrences(c, files)

(* A program whose tasks all have ended normally has done its work: counts *)
(* and sums are those of all files, the whole content is sorted, all lines *)
(* of the input are read, the text is in the file as often as processes    *)
(* had it in their buffer, every client has the square of its own number.  *)
(* If its wait does not end without a signal, summation prints the sum of  *)
(* all files.                                                              *)
ResultsRight ==
    OverWell =>
      CASE Name \in {"thread-memory-count-posix-semaphore", "thread-memory-count-mutex",
                     "thread-memory-count-readwrite"} -> CountsAll(Files)
        [] Name = "thread-memory-count-shorts-mutex" -> CountsAll(<< Pairs(PairFiles[1]), Pairs(PairFiles[2]) >>)
        [] Name = "summation" -> data.mem["total"] = 2 /\ (punctual => task[0].reg = 2)
        [] Name \in {"multithreaded-sort", "thread-sort-bytes"} ->
             /\ data.seg[1] = SortSeq(Content, LAMBDA x, y : x < y)
             /\ \A k \in 2..Sorters : data.seg[k] = << >>
        [] Name \in {"timedlock", "nonblocking", "mutex-many-threads-read-stdin"} -> data.input = 0
        [] Name \in {"fork-write-once", "fork-write-once-simple", "thread_write_once"} -> data.file = 1
        [] Name \in {"fork-write-twice", "fork-write-twice-simple"} -> data.file = 2
        [] Name = "semaphore" -> \A t \in 2..4 : task[t].msg = t * t
        [] Name \in {"thread-once", "thread-once-key", "thread-sort-once", "thread-sort-once-pd"} ->
             \A t \in 1..Crowd : task[t].reg = 1
        [] OTHER -> TRUE

\* Programs that end early on purpose, that give up a lock at its deadline,
\* or that remove the queue under a receiver.
EndEarly == {"mutex-reentrance -e", "thread-once-detach", "flockfile-for-extended-output",
             "increment-speed", "signal", "send-signal", "threadf",
             "mutex-threads -t", "mutex-attr-threads -t", "mutex-ipc", "mutex-ipc-separate",
             "msgqueue-hello", "msgqueue-one-sender-multiple-receivers"}
EndEarlyLate == {"thread", "mutex-attr-ipc", "mutex-attr-ipc -t"}

\* Those of their tasks that may fail, or be killed when another task ends the
\* process or sends a signal.
MayFail ==
    CASE Name \in {"mutex-reentrance -e", "signal"} -> {0}
      [] Name \in {"send-signal", "msgqueue-hello", "mutex-attr-ipc"} -> {1}
      [] Name \in {"thread-once-detach", "flockfile-for-extended-output", "increment-speed",
                   "msgqueue-one-sender-multiple-receivers"} -> Tasks \ {0}
      [] OTHER -> Tasks

(* No task fails or is killed: no call of an interleaving returns an error *)
(* that stops the program half-way.  In programs that end early that may   *)
(* be so for some of the tasks, in a few of them only if sleeps order      *)
(* nothing.                                                                *)
EndsWell ==
    \A t \in Tasks : task[t].st \in {"failed", "killed"} =>
        /\ t \in MayFail
        /\ Name \in EndEarly \/ (Name \in EndEarlyLate /\ ~ punctual)

(* A queue is removed only when it is empty: the receiver has read all     *)
(* messages.  Three programs remove it regardless, see the README.         *)
NoMessageLost ==
    [][(data.queue.id # None /\ data'.queue.id = None)
       => (data.queue.msgs = << >>
           \/ Name \in {"msgqueue-hello", "msgqueue-one-sender-multiple-receivers",
                        "msgqueue-negative-typed"})]_vars

(* A daemon starts its work when the child that forked it has ended, so    *)
(* that it belongs to init; where its parent's parent gives it the signal  *)
(* or the message to start, that one has waited for the child.             *)
DaemonOrphaned ==
    ("working" \in DOMAIN data.mem /\ data.mem["working"] = 1)
    => /\ task[1].st = "ok"
       /\ Name # "daemonize" => task[1].reaped

-----------------------------------------------------------------------------
\* Who waits for ever, and for what: the other thread in a deadlock, the thread
\* itself, a semaphore that nobody raises, a signal of the condition that came
\* before the wait, a signal that came before pause, the message of a removed queue.
Hung(t) ==
    CASE Name \in {"deadlock", "deadlock -e"} ->
           Now(t).op = "lock" /\ Mutex(Now(t).on).owner = 1 - t
      [] Name = "mutex-reentrance" -> Now(t).op = "lock" /\ Mutex(Now(t).on).owner = t
      [] Name = "semaphore-simple" -> Now(t).op = "semwait" /\ sync.sem[Now(t).on] = 0
      [] Name = "summation" -> t = 0 /\ task[t].wait = "cond" /\ data.mem["total"] = 2
      [] Name \in {"daemonize-group-signal", "daemonize-group-signal-sigaction",
                   "daemonize-signal-and-pipe"} -> t = 2 /\ task[t].wait = "pause"
      [] Name = "daemonize-group-signal-and-response-signal" ->
           t \in {0, 2} /\ task[t].wait = "pause"
      [] Name = "msgqueue-hello" -> t = 1 /\ Now(t).op = "msgrcv"
      [] OTHER -> FALSE

(* Every program comes to its end, or to where the tasks that are left     *)
(* wait for what is known not to come.  "condition" does if its sleeps     *)
(* take their time; the one that polls without a pause only if time goes   *)
(* on while it polls.                                                      *)
Ends ==
    \/ Name = "condition" /\ ~ punctual
    \/ Name = "mutex-many-threads-read-stdin" /\ punctual
    \/ <>[](\A t \in Tasks : Live(t) => Hung(t))
=============================================================================
