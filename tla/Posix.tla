------------------------------- MODULE Posix -------------------------------
(***************************************************************************)
(* What the calls of the program texts do: threads and processes that run  *)
(* interleaved, one call at a time, with the mutexes, semaphores,          *)
(* conditions, barriers, pipes, queues, signals and memory that they share.*)
(*                                                                         *)
(* Two schedules: if punctual, a sleep takes its time while calls take     *)
(* none, so that time passes only when no task can run; otherwise a sleep  *)
(* may be over at once and a deadline may pass at any moment, as on a      *)
(* loaded machine.                                                         *)
(***************************************************************************)
EXTENDS Instructions, SequencesExt, FiniteSets

CONSTANTS
    Programs,       \* the programs, a sequence of records as in ProgramTable
    QueueRoom       \* messages that fit into a queue

ASSUME QueueRoomAssumption == QueueRoom \in Nat \ {0}

VARIABLES
    program,    \* the one of Programs that runs
    punctual,   \* the schedule
    task,       \* threads, or processes
    sync,       \* mutexes, semaphores, conditions, barriers, once
    data        \* memory, files, pipe, queue and shared memory

vars == << program, punctual, task, sync, data >>

None == -1

-----------------------------------------------------------------------------
(* The names that the calls of a program use, by kind of call.             *)

NamesIn(p, ops) ==
    LET calls == SelectSeq(FlattenSeq(p.texts) \o p.atexit, LAMBDA i : i.op \in ops)
    IN  { calls[k].on : k \in DOMAIN calls }
Names(ops) == NamesIn(program, ops)

MutexNames   == Names({"mutexinit", "lock", "trylock", "timedlock"})
SemNames     == Names({"semopen"})
BarrierNames == Names({"barrierwait"})
VariableNames ==
    Names({"load", "store", "put", "addup", "garbage", "memis", "pipereadas"})

-----------------------------------------------------------------------------
(* Tasks.  The threads of a program share process 0; otherwise every task  *)
(* is a process with flag, handlers, exit handler and buffer of its own.   *)

Tasks        == 0..(Len(program.texts) - 1)
Threaded     == program.threads
ProcessOf(t) == program.process[t + 1]
Text(t)      == program.texts[t + 1]
HandlerText  == program.atexit

Live(t) == task[t].st = "live"

\* After its own text a process does what its exit handler does, then it ends.
Now(t) ==
    LET pc   == task[t].pc
        last == Len(Text(t))
    IN  IF pc <= last THEN Text(t)[pc]
        ELSE IF task[ProcessOf(t)].atexit /\ pc <= last + Len(HandlerText)
             THEN HandlerText[pc - last]
             ELSE [Exit EXCEPT !.op = "finish"]

On(t)        == [task EXCEPT ![t].pc = @ + 1]
By(t, n)     == [task EXCEPT ![t].pc = @ + 1 + n]
Exiting(t, code) == [task EXCEPT ![t].pc = Len(Text(t)) + 1, ![t].code = code]

\* pthread_exit and return: the process lives on as long as it has a thread.
Leaving(t) ==
    IF \E u \in Tasks \ {t} : ProcessOf(u) = ProcessOf(t) /\ Live(u)
    THEN [task EXCEPT ![t].st = "ok"]
    ELSE Exiting(t, 0)

\* handle_error: NO_EXIT, PROCESS_EXIT and THREAD_EXIT
Failed(t) ==
    CASE Now(t).bad = "ignore"  -> On(t)
      [] Now(t).bad = "process" -> Exiting(t, 1)
      [] Now(t).bad = "task"    -> Leaving(t)

\* The onsignal call that gave t its handler for s, if there is one.
HandlerOf(t, s) == { h \in task[t].handler : h.on = s }

Children(t) == { u \in Tasks : task[u].parent = t /\ task[u].st # "unborn" /\ ~ task[u].reaped }

-----------------------------------------------------------------------------
(* Whether a call can be completed, or blocks.                             *)

Mutex(m)   == sync.mutex[m]
Free(m)    == Mutex(m).owner = None /\ Mutex(m).readers = {}
Shared(t, m) == ~ Threaded /\ Mutex(m).kind = "private"
TooLate(t) == IF punctual THEN task[t].left = 0 ELSE TRUE
Queued(t)  == data.queue.id = task[t].queue     \* its queue still exists

\* The message that msgrcv of type k takes: the first one, the first one of
\* this type, or for k < 0 the first one of the lowest type up to -k.
Wanted(k) ==
    LET ms   == data.queue.msgs
        fits == IF k > 0 THEN { j \in DOMAIN ms : ms[j].type = k }
                ELSE { j \in DOMAIN ms : ms[j].type <= 0 - k }
        lowest == { j \in fits : \A i \in fits : ms[j].type <= ms[i].type }
    IN  { j \in lowest : \A i \in lowest : j <= i }

Open(t) ==
    LET i == Now(t)
    IN  CASE i.op = "lock" ->
               Free(i.on) \/ (Mutex(i.on).owner = t /\ Mutex(i.on).kind \in {"errorcheck", "recursive"})
          [] i.op = "timedlock"  -> Free(i.on) \/ TooLate(t) \/ Shared(t, i.on)
          [] i.op = "readlock"   -> Mutex(i.on).owner = None
          [] i.op = "once"       -> sync.once # "running"
          [] i.op = "semwait"    -> sync.sem[i.on] # 0
          [] i.op \in {"join", "waitpid"} -> ~ Live(i.on)
          [] i.op = "waitany"    -> Children(t) = {} \/ \E u \in Children(t) : ~ Live(u)
          [] i.op = "piperead"   -> data.pipe.bytes > 0 \/ data.pipe.w = {}
          [] i.op = "pipereadas" -> data.mem[i.on] = 0 \/ data.pipe.bytes > 0
          [] i.op \in {"msgsnd", "msgreply"} -> Queued(t) => Len(data.queue.msgs) < QueueRoom
          [] i.op = "msgrcv"     -> Queued(t) => Wanted(i.arg) # {}
          [] OTHER -> TRUE

\* A task that runs does not sleep, is not within a call that waits, and has
\* no signal to be delivered first.
Running(t) ==
    Live(t) /\ task[t].wake = 0 /\ task[t].wait = "" /\ task[t].pending = {}

\* The guard of the actions below, together with Running(t) /\ Open(t) in Step.
Calls(t, op) == Now(t).op = op

KeepSync == UNCHANGED << program, punctual, sync >>
KeepData == UNCHANGED << program, punctual, data >>
KeepBoth == UNCHANGED << program, punctual, sync, data >>

-----------------------------------------------------------------------------
(* Control and time.                                                       *)

Holds(t) ==
    LET i == Now(t)
    IN  CASE i.op = "jump"   -> TRUE
          [] i.op = "memis"  -> data.mem[i.on] = i.arg
          [] i.op = "msgis"  -> task[t].msg = i.arg
          [] i.op = "flagis" -> task[ProcessOf(t)].flag = i.arg
          [] i.op = "orphan" -> ~ Live(task[t].parent)

Test(t) ==
    /\ \E op \in {"jump", "memis", "msgis", "flagis", "orphan"} : Calls(t, op)
    /\ task' = IF Holds(t) THEN By(t, Now(t).n) ELSE On(t)
    /\ KeepBoth

SleepCall(t) ==
    /\ Calls(t, "sleep")
    /\ task' = [On(t) EXCEPT ![t].wake = IF punctual THEN Now(t).n ELSE 0]
    /\ KeepBoth

\* get_future: the nanoseconds are added without a carry to the seconds; a sum
\* of more than a second is no valid time, and the call that waits for it fails
\* as if it had passed.
FutureCall(t) ==
    LET n == Now(t).n
    IN  /\ Calls(t, "future")
        /\ \E left \in {n} \cup (IF n % 10 = 0 THEN {} ELSE {0}) :
              task' = [On(t) EXCEPT ![t].left = left]
        /\ KeepBoth

-----------------------------------------------------------------------------
(* Threads and processes.                                                  *)

CreateCall(t) ==
    /\ Calls(t, "create")
    /\ task' = [On(t) EXCEPT ![Now(t).on].st = "live"]
    /\ KeepBoth

JoinCall(t) == Calls(t, "join") /\ task' = On(t) /\ KeepBoth

\* The child inherits flag, handlers, exit handler, buffer, and ends of the pipe.
ForkCall(t) ==
    LET u == Now(t).on
        Inherit(ps) == IF t \in ps THEN ps \cup {u} ELSE ps
    IN  /\ Calls(t, "fork")
        /\ task' = [On(t) EXCEPT ![u].st = "live", ![u].parent = t,
                       ![u].flag = task[t].flag, ![u].handler = task[t].handler,
                       ![u].atexit = task[t].atexit, ![u].left = task[t].left,
                       ![u].queue = task[t].queue]
        /\ data' = [data EXCEPT !.buf[u] = data.buf[t],
                       !.pipe.r = Inherit(@), !.pipe.w = Inherit(@)]
        /\ KeepSync

WaitCall(t) ==
    /\ \/ Calls(t, "waitpid") /\ task' = [On(t) EXCEPT ![Now(t).on].reaped = TRUE]
       \/ /\ Calls(t, "waitany")
          /\ IF Children(t) = {} THEN task' = Failed(t)
             ELSE \E u \in {c \in Children(t) : ~ Live(c)} :
                     task' = [On(t) EXCEPT ![u].reaped = TRUE]
    /\ KeepBoth

EndCall(t)  == Calls(t, "end") /\ task' = Leaving(t) /\ KeepBoth
ExitCall(t) == Calls(t, "exit") /\ task' = Exiting(t, 0) /\ KeepBoth

AtExitCall(t) ==
    /\ Calls(t, "atexit")
    /\ task' = [On(t) EXCEPT ![ProcessOf(t)].atexit = TRUE]
    /\ KeepBoth

\* The end of the process of t: its other threads are killed, its semaphore
\* operations undone, its ends of the pipe closed; exit writes its buffer, a
\* signal does not.  A parent with a handler gets SIGCHLD.
ProcessEnds(t, how) ==
    LET p == ProcessOf(t)
        parent == task[t].parent
        Ended(u) == IF u = t THEN how ELSE "killed"
        told == [u \in Tasks |->
                   IF u = parent /\ Live(u) /\ HandlerOf(u, "CHLD") # {}
                   THEN [task[u] EXCEPT !.pending = @ \cup {"CHLD"}] ELSE task[u]]
    IN  /\ task' = [u \in Tasks |-> IF ProcessOf(u) = p /\ Live(u)
                                    THEN [told[u] EXCEPT !.st = Ended(u), !.wait = "", !.wake = 0,
                                                         !.pending = {}]
                                    ELSE told[u]]
        /\ sync' = [sync EXCEPT
                      !.sem  = [s \in DOMAIN @ |-> IF @[s] = None THEN None
                                                   ELSE @[s] + sync.undo[p][s]],
                      !.undo[p] = [s \in DOMAIN @ |-> 0]]
        /\ data' = [data EXCEPT !.file = IF how = "killed" THEN @ ELSE @ + data.buf[p],
                      !.buf[p] = 0, !.pipe.r = @ \ {p}, !.pipe.w = @ \ {p}]
        /\ UNCHANGED << program, punctual >>

Finish(t) ==
    /\ Calls(t, "finish")
    /\ ProcessEnds(t, IF task[t].code = 0 THEN "ok" ELSE "failed")

-----------------------------------------------------------------------------
(* Mutexes and read-write locks.  "early" remembers the use of an object   *)
(* that was not initialised yet, or not any more.                          *)

Usable(m) == Mutex(m).kind \notin {"raw", "gone"}
Using(m, s) == [s EXCEPT !.early = @ \/ ~ Usable(m)]

Taken(t, m) == [sync EXCEPT !.mutex[m].owner = t, !.mutex[m].depth = 1]

MutexInitCall(t) ==
    /\ Calls(t, "mutexinit")
    /\ task' = On(t)
    /\ sync' = [sync EXCEPT !.mutex[Now(t).on] =
                  [kind |-> Now(t).arg, owner |-> None, depth |-> 0, readers |-> {}]]
    /\ KeepData

\* EBUSY if it is locked
MutexDestroyCall(t) ==
    /\ Calls(t, "mutexdestroy")
    /\ task' = On(t)
    /\ sync' = IF Free(Now(t).on) THEN [sync EXCEPT !.mutex[Now(t).on].kind = "gone"] ELSE sync
    /\ KeepData

\* The owner gets EDEADLK from an errorcheck mutex and once more the lock of
\* a recursive one.
LockCall(t) ==
    LET m == Now(t).on
    IN  /\ Calls(t, "lock")
        /\ IF Free(m) THEN task' = On(t) /\ sync' = Using(m, Taken(t, m))
           ELSE IF Mutex(m).kind = "recursive"
           THEN task' = On(t) /\ sync' = [sync EXCEPT !.mutex[m].depth = @ + 1]
           ELSE task' = Failed(t) /\ sync' = sync
        /\ KeepData

ReadLockCall(t) ==
    LET m == Now(t).on
    IN  /\ Calls(t, "readlock")
        /\ task' = On(t)
        /\ sync' = Using(m, [sync EXCEPT !.mutex[m].readers = @ \cup {t}])
        /\ KeepData

TryLockCall(t) ==
    LET m == Now(t).on
    IN  /\ Calls(t, "trylock")
        /\ IF Free(m) THEN task' = On(t) /\ sync' = Using(m, Taken(t, m))
           ELSE task' = By(t, Now(t).n) /\ sync' = sync
        /\ KeepData

\* In a loop, ETIMEDOUT leads to the next round.
TimedOut(t) == IF Now(t).n # 0 THEN By(t, Now(t).n) ELSE Failed(t)

TimedLockCall(t) ==
    LET m == Now(t).on
    IN  /\ Calls(t, "timedlock")
        /\ \/ Free(m) /\ task' = On(t) /\ sync' = Using(m, Taken(t, m))
           \/ ~ Free(m) /\ TooLate(t) /\ task' = TimedOut(t) /\ sync' = sync
           \/ /\ ~ Free(m) /\ Shared(t, m)
              /\ task' = [task EXCEPT ![t].wait = "stuck"] /\ sync' = sync
        /\ KeepData

\* The unlock of another process does not wake who waits for a mutex that is
\* not shared between processes; after the deadline it may find it free.
StuckEnds(t) ==
    LET m == Now(t).on
    IN  /\ Live(t) /\ task[t].wait = "stuck" /\ TooLate(t)
        /\ \/ task' = [Failed(t) EXCEPT ![t].wait = ""] /\ sync' = sync
           \/ Free(m) /\ task' = [On(t) EXCEPT ![t].wait = ""] /\ sync' = Taken(t, m)
        /\ KeepData

Released(t, m) ==
    IF t \in Mutex(m).readers THEN [sync EXCEPT !.mutex[m].readers = @ \ {t}]
    ELSE IF Mutex(m).kind \in {"errorcheck", "recursive"} /\ Mutex(m).owner # t THEN sync
    ELSE IF Mutex(m).depth > 1 THEN [sync EXCEPT !.mutex[m].depth = @ - 1]
    ELSE [sync EXCEPT !.mutex[m].owner = None, !.mutex[m].depth = 0]

UnlockCall(t) ==
    Calls(t, "unlock") /\ task' = On(t) /\ sync' = Released(t, Now(t).on) /\ KeepData

-----------------------------------------------------------------------------
(* Conditions, barriers and once.                                          *)

CondWaitCall(t) ==
    /\ Calls(t, "condwait") \/ Calls(t, "condtimedwait")
    /\ task' = [task EXCEPT ![t].wait = "cond"]
    /\ sync' = Released(t, Now(t).arg)
    /\ KeepData

\* Who is woken has to get the mutex again before its call returns.
Waiting(c) == { u \in Tasks : Live(u) /\ task[u].wait = "cond" /\ Now(u).on = c }

CondSignalCall(t) ==
    /\ Calls(t, "condsignal")
    /\ IF Waiting(Now(t).on) = {} THEN task' = On(t)
       ELSE \E u \in Waiting(Now(t).on) : task' = [On(t) EXCEPT ![u].wait = "relock"]
    /\ KeepBoth

CondBroadcastCall(t) ==
    /\ Calls(t, "condbroadcast")
    /\ task' = [u \in Tasks |-> IF u \in Waiting(Now(t).on)
                                THEN [task[u] EXCEPT !.wait = "relock"] ELSE On(t)[u]]
    /\ KeepBoth

\* A wait may end without a signal, and with a deadline when it has passed.
CondWakes(t) ==
    /\ Live(t) /\ task[t].wait = "cond"
    /\ ~ punctual \/ (Now(t).op = "condtimedwait" /\ TooLate(t))
    /\ task' = [task EXCEPT ![t].wait = "relock"]
    /\ KeepBoth

Relock(t) ==
    /\ Live(t) /\ task[t].wait = "relock" /\ Free(Now(t).arg)
    /\ task' = [On(t) EXCEPT ![t].wait = ""]
    /\ sync' = Using(Now(t).arg, Taken(t, Now(t).arg))
    /\ KeepData

BarrierInitCall(t) ==
    /\ Calls(t, "barrierinit")
    /\ task' = On(t)
    /\ sync' = [sync EXCEPT !.barrier[Now(t).on] = Now(t).n]
    /\ KeepData

\* The last one to come releases them all; one of them is the serial one.
AtBarrier(b) == { u \in Tasks : Live(u) /\ task[u].wait = "barrier" /\ Now(u).on = b }

BarrierWaitCall(t) ==
    LET b    == Now(t).on
        here == AtBarrier(b) \cup {t}
    IN  /\ Calls(t, "barrierwait")
        /\ IF Cardinality(here) < sync.barrier[b]
           THEN task' = [task EXCEPT ![t].wait = "barrier"]
           ELSE \E serial \in here :
                  task' = [u \in Tasks |->
                             IF u \notin here THEN task[u]
                             ELSE [task[u] EXCEPT !.wait = "",
                                     !.pc = @ + 1 + (IF u = serial THEN 0 ELSE Now(u).n)]]
        /\ sync' = [sync EXCEPT !.early = @ \/ sync.barrier[b] = 0]
        /\ KeepData

OnceCall(t) ==
    /\ Calls(t, "once")
    /\ IF sync.once = "never"
       THEN task' = On(t) /\ sync' = [sync EXCEPT !.once = "running"]
       ELSE task' = By(t, Now(t).n) /\ sync' = sync
    /\ KeepData

OnceDoneCall(t) ==
    /\ Calls(t, "oncedone")
    /\ task' = On(t)
    /\ sync' = [sync EXCEPT !.once = "done"]
    /\ KeepData

-----------------------------------------------------------------------------
(* Semaphores, None as long as they do not exist.  Those of POSIX are      *)
(* removed only when nobody uses them any more.                            *)

SemOpenCall(t) ==
    /\ Calls(t, "semopen")
    /\ task' = On(t)
    /\ sync' = [sync EXCEPT !.sem[Now(t).on] = IF @ = None THEN Now(t).n ELSE @]
    /\ KeepData

SemSetCall(t) ==
    /\ Calls(t, "semset")
    /\ task' = On(t)
    /\ sync' = [sync EXCEPT !.sem[Now(t).on] = Now(t).n]
    /\ KeepData

\* Now(t).n is 1 with SEM_UNDO
SemAdd(t, s, k) ==
    [sync EXCEPT !.sem[s] = @ + k, !.undo[ProcessOf(t)][s] = @ - k * Now(t).n]

SemWaitCall(t) ==
    /\ Calls(t, "semwait")
    /\ IF sync.sem[Now(t).on] = None
       THEN task' = Failed(t) /\ sync' = [sync EXCEPT !.early = TRUE]
       ELSE task' = On(t) /\ sync' = SemAdd(t, Now(t).on, -1)
    /\ KeepData

SemPostCall(t) ==
    Calls(t, "sempost") /\ task' = On(t) /\ sync' = SemAdd(t, Now(t).on, 1) /\ KeepData

SemRemoveCall(t) ==
    /\ Calls(t, "semremove")
    /\ task' = On(t)
    /\ sync' = [sync EXCEPT !.sem[Now(t).on] = None]
    /\ KeepData

-----------------------------------------------------------------------------
(* Shared memory, message queue and pipe.                                  *)

ShmGetCall(t) ==
    /\ Calls(t, "shmget")
    /\ IF Now(t).n = 1 \/ data.shm
       THEN task' = On(t) /\ data' = [data EXCEPT !.shm = TRUE]
       ELSE task' = Failed(t) /\ data' = data
    /\ KeepSync

\* The memory stays for those who have it attached.
ShmRemoveCall(t) ==
    Calls(t, "shmremove") /\ task' = On(t) /\ data' = [data EXCEPT !.shm = FALSE] /\ KeepSync

\* A new queue gets a new number; who has the old one gets errors from then on.
MsgGetCall(t) ==
    LET q == data.queue
        id == IF q.id = None THEN q.last + 1 ELSE q.id
    IN  /\ Calls(t, "msgget")
        /\ task' = [On(t) EXCEPT ![t].queue = id]
        /\ data' = [data EXCEPT !.queue.id = id, !.queue.last = id]
        /\ KeepSync

Appended(type, value, t) ==
    [data EXCEPT !.queue.msgs = Append(@, [type |-> type, value |-> value, from |-> t])]

\* The reply to a message has its sender as type and its square as value.
MsgSendCall(t) ==
    /\ Calls(t, "msgsnd") \/ Calls(t, "msgreply")
    /\ IF ~ Queued(t) THEN task' = Failed(t) /\ data' = data
       ELSE /\ task' = On(t)
            /\ data' = IF Now(t).op = "msgsnd" THEN Appended(Now(t).arg, Now(t).n, t)
                       ELSE Appended(task[t].from, task[t].msg * task[t].msg, t)
    /\ KeepSync

MsgReceiveCall(t) ==
    /\ Calls(t, "msgrcv")
    /\ IF ~ Queued(t) THEN task' = Failed(t) /\ data' = data
       ELSE \E j \in Wanted(Now(t).arg) :
              /\ task' = [On(t) EXCEPT ![t].msg = data.queue.msgs[j].value,
                                       ![t].from = data.queue.msgs[j].from]
              /\ data' = [data EXCEPT !.queue.msgs = RemoveAt(@, j)]
    /\ KeepSync

MsgRemoveCall(t) ==
    /\ Calls(t, "msgremove")
    /\ task' = On(t)
    /\ data' = IF Queued(t) THEN [data EXCEPT !.queue.id = None, !.queue.msgs = << >>] ELSE data
    /\ KeepSync

PipeOpenCall(t) ==
    /\ Calls(t, "pipeopen")
    /\ task' = On(t)
    /\ data' = [data EXCEPT !.pipe.r = {ProcessOf(t)}, !.pipe.w = {ProcessOf(t)}]
    /\ KeepSync

\* A write to a pipe without a reader kills the process (SIGPIPE).
PipeWriteCall(t) ==
    /\ Calls(t, "pipewrite")
    /\ IF data.pipe.r = {} THEN ProcessEnds(t, "killed")
       ELSE task' = On(t) /\ data' = [data EXCEPT !.pipe.bytes = @ + Now(t).n] /\ KeepSync

\* A read of some bytes, or of as many as a variable says, takes what is there.
PipeReadCall(t) ==
    LET n == IF Now(t).op = "piperead" THEN Now(t).n ELSE data.mem[Now(t).on]
    IN  /\ Calls(t, "piperead") \/ Calls(t, "pipereadas")
        /\ task' = [On(t) EXCEPT ![t].reg = IF n < data.pipe.bytes THEN n ELSE data.pipe.bytes]
        /\ data' = [data EXCEPT !.pipe.bytes = IF n < @ THEN @ - n ELSE 0]
        /\ KeepSync

PipeCloseCall(t) ==
    /\ Calls(t, "pipeclose")
    /\ task' = On(t)
    /\ data' = IF Now(t).on = "r" THEN [data EXCEPT !.pipe.r = @ \ {ProcessOf(t)}]
               ELSE [data EXCEPT !.pipe.w = @ \ {ProcessOf(t)}]
    /\ KeepSync

-----------------------------------------------------------------------------
(* Signals.                                                                *)

OnSignalCall(t) ==
    /\ Calls(t, "onsignal")
    /\ task' = [On(t) EXCEPT ![t].handler = (@ \ HandlerOf(t, Now(t).on)) \cup {Now(t)}]
    /\ KeepBoth

RestoreCall(t) ==
    /\ Calls(t, "restore")
    /\ task' = [On(t) EXCEPT ![t].handler = @ \ HandlerOf(t, Now(t).on)]
    /\ KeepBoth

KillCall(t) ==
    /\ Calls(t, "kill")
    /\ task' = [u \in Tasks |-> IF u \in Now(t).arg /\ Live(u)
                                THEN [On(t)[u] EXCEPT !.pending = @ \cup {Now(t).on}]
                                ELSE On(t)[u]]
    /\ KeepBoth

PauseCall(t) ==
    /\ Calls(t, "pause")
    /\ task' = [task EXCEPT ![t].wait = "pause"]
    /\ KeepBoth

\* What the handler h for s leaves of task t; it ends a pause and a sleep.
Handled(t, s, h) ==
    [task[t] EXCEPT !.pending = @ \ {s}, !.wake = 0,
                    !.flag = IF h.n # 0 /\ (h.arg = "all" \/ t # 0) THEN h.n ELSE @,
                    !.atexit = @ \/ (h.arg = "children" /\ t # 0),
                    !.pc = IF task[t].wait = "pause" THEN @ + 1 ELSE @,
                    !.wait = IF @ = "pause" THEN "" ELSE @]

\* Without a handler the signal ends the process.
Deliver(t) ==
    /\ Live(t)
    /\ \E s \in task[t].pending :
         \/ HandlerOf(t, s) = {} /\ ProcessEnds(t, "killed")
         \/ \E h \in HandlerOf(t, s) :
              /\ task' = [task EXCEPT ![t] = Handled(t, s, h)]
              /\ KeepBoth

-----------------------------------------------------------------------------
(* Memory and files.                                                       *)

LoadCall(t) ==
    Calls(t, "load") /\ task' = [On(t) EXCEPT ![t].reg = data.mem[Now(t).on]] /\ KeepBoth

\* What a store, an assignment or an addition leaves in the variable.
WriteCall(t) ==
    LET x == Now(t).on
    IN  /\ \/ /\ Calls(t, "store")
              /\ data' = [data EXCEPT !.mem[x] = task[t].reg + Now(t).n]
           \/ Calls(t, "put") /\ data' = [data EXCEPT !.mem[x] = Now(t).n]
           \/ Calls(t, "addup") /\ data' = [data EXCEPT !.mem[x] = @ + data.mem[Now(t).arg]]
           \/ Calls(t, "garbage") /\ \E v \in {0, 7} : data' = [data EXCEPT !.mem[x] = v]
        /\ task' = On(t)
        /\ KeepSync

GetLineCall(t) ==
    /\ Calls(t, "getline")
    /\ task' = IF data.input = 0 THEN By(t, Now(t).n) ELSE On(t)
    /\ data' = [data EXCEPT !.input = IF @ = 0 THEN 0 ELSE @ - 1]
    /\ KeepSync

FileCall(t) ==
    /\ \/ Calls(t, "filewrite") /\ data' = [data EXCEPT !.file = @ + 1]
       \/ Calls(t, "stdiowrite") /\ data' = [data EXCEPT !.buf[ProcessOf(t)] = @ + 1]
    /\ task' = On(t)
    /\ KeepSync

\* The merge of two sorted segments: the right one only gives when it is less.
MergeStep(acc, left, right) ==
    LET i == acc.i  j == acc.j
        fromLeft == j > Len(right) \/ (i <= Len(left) /\ left[i] <= right[j])
    IN  IF fromLeft THEN [acc EXCEPT !.i = @ + 1, !.out = Append(@, left[i])]
        ELSE [acc EXCEPT !.j = @ + 1, !.out = Append(@, right[j])]
Merge(left, right) ==
    FoldLeftDomain(LAMBDA acc, k : MergeStep(acc, left, right),
                   [i |-> 1, j |-> 1, out |-> << >>], left \o right).out

SortCall(t) ==
    LET k == Now(t).on
    IN  /\ \/ Calls(t, "givepart") /\ data' = [data EXCEPT !.seg[k] = program.segs[k]]
           \/ /\ Calls(t, "sortpart")
              /\ data' = [data EXCEPT !.seg[k] = SortSeq(@, LAMBDA x, y : x < y)]
           \/ /\ Calls(t, "mergeparts")
              /\ data' = [data EXCEPT !.seg[k] = Merge(@, data.seg[Now(t).arg]),
                                      !.seg[Now(t).arg] = << >>]
        /\ task' = On(t)
        /\ KeepSync

-----------------------------------------------------------------------------
(* Time passes to the next end of a sleep or deadline of a waiting task.   *)

CanGo(t) ==
    \/ Running(t) /\ Open(t)
    \/ Live(t) /\ \/ task[t].pending # {}
                  \/ task[t].wait = "relock" /\ Free(Now(t).arg)
                  \/ task[t].wait = "stuck" /\ TooLate(t)
                  \/ task[t].wait = "cond" /\ Now(t).op = "condtimedwait" /\ TooLate(t)

\* The sleep of a task, or its time to the deadline of a call it is in.
Delay(t) ==
    IF ~ Live(t) THEN 0
    ELSE IF task[t].wake > 0 THEN task[t].wake
    ELSE IF Now(t).op \in {"timedlock", "condtimedwait"} THEN task[t].left ELSE 0

Tick ==
    LET delays == { Delay(t) : t \in Tasks } \ {0}
        least  == CHOOSE d \in delays : \A e \in delays : d <= e
        Less(n) == IF n < least THEN 0 ELSE n - least
    IN  /\ punctual
        /\ \A t \in Tasks : ~ CanGo(t)
        /\ delays # {}
        /\ task' = [t \in Tasks |-> [task[t] EXCEPT !.wake = Less(@), !.left = Less(@)]]
        /\ KeepBoth

-----------------------------------------------------------------------------
NewTask(t) ==
    [pc |-> 1, st |-> IF t \in program.started THEN "live" ELSE "unborn",
     wait |-> "", wake |-> 0, left |-> 0, reg |-> 0, code |-> 0,
     msg |-> None, from |-> None, queue |-> 0,
     parent |-> 0, reaped |-> FALSE, flag |-> 0, atexit |-> FALSE, pending |-> {},
     handler |-> {}]

Init ==
    /\ \E p \in DOMAIN Programs : program = Programs[p]
    /\ punctual \in BOOLEAN
    /\ task = [t \in Tasks |-> NewTask(t)]
    /\ sync = [mutex   |-> [m \in MutexNames |->
                              [kind |-> IF m = "stdout" THEN "normal" ELSE "raw", owner |-> None, depth |-> 0, readers |-> {}]],
               sem     |-> [s \in SemNames |-> None],
               undo    |-> [t \in Tasks |-> [s \in SemNames |-> 0]],
               barrier |-> [b \in BarrierNames |-> 0],
               once    |-> "never",
               early   |-> FALSE]
    /\ data = [mem |-> [x \in VariableNames |-> 0],
               seg |-> [k \in DOMAIN program.segs |-> << >>],
               input |-> program.input,
               file |-> 0, buf |-> [t \in Tasks |-> 0],
               pipe |-> [r |-> {}, w |-> {}, bytes |-> 0],
               queue |-> [id |-> None, last |-> 0, msgs |-> << >>],
               shm |-> FALSE]

ThreadStep(t) ==
    \/ CreateCall(t) \/ JoinCall(t) \/ EndCall(t)
    \/ MutexInitCall(t) \/ MutexDestroyCall(t) \/ LockCall(t) \/ ReadLockCall(t)
    \/ TryLockCall(t) \/ TimedLockCall(t) \/ UnlockCall(t)
    \/ CondWaitCall(t) \/ CondSignalCall(t) \/ CondBroadcastCall(t)
    \/ BarrierInitCall(t) \/ BarrierWaitCall(t) \/ OnceCall(t) \/ OnceDoneCall(t)

ProcessStep(t) ==
    \/ Test(t) \/ SleepCall(t) \/ FutureCall(t) \/ ForkCall(t) \/ WaitCall(t)
    \/ ExitCall(t) \/ AtExitCall(t) \/ Finish(t)
    \/ OnSignalCall(t) \/ RestoreCall(t) \/ KillCall(t) \/ PauseCall(t)

DataStep(t) ==
    \/ SemOpenCall(t) \/ SemSetCall(t) \/ SemWaitCall(t) \/ SemPostCall(t) \/ SemRemoveCall(t)
    \/ ShmGetCall(t) \/ ShmRemoveCall(t)
    \/ MsgGetCall(t) \/ MsgSendCall(t) \/ MsgReceiveCall(t) \/ MsgRemoveCall(t)
    \/ PipeOpenCall(t) \/ PipeWriteCall(t) \/ PipeReadCall(t) \/ PipeCloseCall(t)
    \/ LoadCall(t) \/ WriteCall(t) \/ GetLineCall(t) \/ FileCall(t) \/ SortCall(t)

\* What a task does next: its next call, or the end of the one it waits in.
Step(t) ==
    \/ Running(t) /\ Open(t) /\ (ThreadStep(t) \/ ProcessStep(t) \/ DataStep(t))
    \/ Relock(t) \/ StuckEnds(t) \/ Deliver(t)

Next == (\E t \in Tasks : Step(t) \/ CondWakes(t)) \/ Tick
=============================================================================
