# sysprogramming-examples in TLA+

This directory holds the specifications of the programs of this repository. The modules
are model-checked with TLC; theorems about the sorts, the programs on shared memory,
the daemon and the machine that runs the smaller programs are proved with TLAPS.
`PROJECT.json` lists the runs, the map from definitions to source lines, the hazards, the
findings and the theorems.

## 1. Inventory of the repository

The repository is a collection of about 240 C programs for a course on system
programming (`posix/`, 20000 lines; `win32/`, 2600 lines) with a common library
(`posix/lib`) and some Scala and Java examples (`akka/`). Programs do not call each
other; what they share is the library, and processes of one program interact through
shared memory, semaphores, signals, message queues, pipes, sockets and files.

| Component | State it keeps | Operations and interaction | What is hard, and what makes it correct | Modelled in |
|---|---|---|---|---|
| Parallel sort, `lib/psort.c` | the caller's array, one descriptor (base, nmemb) per thread, one barrier | the caller partitions, starts and joins threads; threads sort their segment, then merge pairwise in rounds that the barrier separates | every interleaving: no two threads touch the same element, rounds do not mix, the result is a (stable) sort, no thread is left in the barrier | `Psort`, proved in `PsortProofs` |
| Sequential sorts, `lib/{fsort,hsort,isort,msort,ternary-hsort}.c` | the array and local indices | one call; fsort calls isort and hsort for its classes | index arithmetic, ties, stability of isort and msort, the classes of the flashsort | `SequentialSorts`, proved in `SequentialSortsProofs` |
| Counting with reader-writer units, `ipc/shared-memory-count.c`, `-output-semaphore.c`, `-shorts-segmented-semaphore.c` | counters in shared memory, a set of semaphores of SEM_LIMIT units, SEM_UNDO adjustments | set-up, counting, output, clean-up by different processes | lost updates, killed processes, removal of the set under running processes, output that is one moment of the counters, blocking | `ShmCount`, `ShmCountOutput`, `ShmCountSegmented`, side by side in `ShmCountPrograms`; proved in `ShmCountProofs` |
| Counting with one semaphore, `ipc/shared-memory-count-simple.c`, `-simple-posix.c`, `-shorts-simple.c`, `-shorts-simple-posix.c` | totals in shared memory, one semaphore, stdout shared by all | each process adds its own counts and prints the totals | whole inputs only, the totals of two processes do not mingle, a killed holder | `ShmBulk`, proved in `ShmBulkProofs` |
| Hand-over, `ipc/shared-memory.c` | a struct with two flags, number, result, command, pid | parent and worker take turns, SIGUSR1 wakes the other | no lock and no fence: order of the writes, lost or merged signals, the last command | `ShmHandoff`, proved in `ShmHandoffProofs` |
| Daemon, `daemon/daemon.c` | lock file with a pid, bound addresses, signal handlers, connections | start, stop, status as separate processes; SIGTERM, SIGPIPE, exit handlers; a thread for each listener and each connection | check and create are two steps, removal by name, stale and empty files, addresses that are still in use | `DaemonLock`, proved in `DaemonLockProofs`; connections in `Services` |
| Transmission protocols, `lib/transmission-protocols.c` | a stream | strings with their length before them, words of four letters | short reads, closed connections, values that are unsigned | `SocketTexts`, `Sockets` |
| Line sorting server and client, `socket/tcp-thread-sorted-once-*` | shared text, once control | a thread per connection | once with concurrent first users, errors of one connection that end the process | `Services` |
| Square servers and clients, `socket/tcp-square-*`, `udp-square-*`, `unix-domain-sockets.c` | a connection each | request, answer | short reads, closed connections, lost datagrams | `Services` |
| Sorting in threads, `threads/multithreaded-sort.c`, `thread-sort-*.c` | segments per thread, once control | partition, sort, merges in rounds | the last segment, threads that run before all segments are filled in, once | `PosixPrograms` |
| Counting in threads, `threads/thread-memory-count-*.c` | counters with mutex, semaphore or read-write lock | a thread per input | lost updates | `PosixPrograms` |
| Synchronisation and life of threads, the other `threads/*.c` | mutexes, condition variables, barriers, once | one program per call | signals before waits, absolute timeouts, lock order, arguments that main overwrites | `PosixPrograms` |
| Processes with semaphores, mutexes, queues and signals, the other `ipc/*.c` | queue, semaphore, mutex in shared memory, flags set by handlers | fork, exchange, remove at exit | removal while in use, use before initialisation, lost wake-ups | `PosixPrograms` |
| Processes and pipes, `processes/*.c` | descriptors, buffers that are inherited | fork, wait, pipe | the end of a pipe that somebody forgot, buffers written twice, daemons that are not orphans yet | `PosixPrograms` |
| Multiplexed I/O; files; language; tests; win32; akka | descriptors | fixed sequences of calls | mostly input and output | no, see 6 |

`PROJECT.json` has the same list with the files of each component.

## 2. Plan

Done:

1. `Psort` with `SortSpec` and its proofs: the code with the most interleavings in the
   library, where everything depends on one barrier and on index arithmetic.
2. The programs on shared memory: `CountSpec`, `ShmCount` and its two variants,
   `ShmBulk`, `ShmHandoff`.
3. `DaemonLock`.
4. The programs of `threads`, `ipc` and `processes` that are a short sequence of calls for
   each thread or process: one module for what the calls do (`Posix`), the programs as
   texts of calls (`ThreadTexts`, `ProcessTexts`), properties of all of them
   (`PosixPrograms`). That they share one kernel lets one run cover some seventy programs,
   and a property is stated once for all of them.
5. Servers and clients in the same form: `SocketTexts`, `Sockets`, `Services`.
6. `SequentialSorts`, against `SortOrder`.
7. `PsortProofs` (what is in the segments), `ShmCountProofs`, `ShmBulkProofs` and `DaemonLockProofs`: the
   safety properties and the refinements that the runs check of these modules, as theorems.
8. `ShmHandoffProofs` and `SequentialSortsProofs`, with `NumberTheorems`: the safety properties
   of the hand-over, for store buffers of any size, and of the five sorts, for arrays of any
   length.

9. `Outlines` and `PosixProofs`: the machine of `Posix` proved for every text, so that the
   properties of the programs follow from a condition on their texts.

Left: the same for sockets. Of the code: the division of text into lines, the
programs of `adv-io`, the daemon with a named pipe.

## 3. Modules

| Module | Extends | Models |
|---|---|---|
| `SortOrder` | | order and stability of a part of an array |
| `SortSpec` | `SortOrder` | abstract: a sort in one step |
| `Psort` | `SortOrder` | `psort_r` and `psort_thread_run`; implements `SortSpec` |
| `PsortProofs` | `Psort`, TLAPS | the rounds, the geometry of the segments, no conflicting access; what is in the segments, `Psort` implements `SortSpec` |
| `SequentialSorts` | `SortOrder` | `isort_r`, `hsort_r`, `ternary_hsort_r`, `msort_r`, `fsort_f` |
| `NumberTheorems` | TLAPS | least and greatest elements, induction over sets of numbers |
| `SequentialSortsProofs` | `SequentialSorts`, `NumberTheorems`, TLAPS | the five sorts sort; the flashsort stays within its arrays |
| `SysvSem` | | `semop` and the effect of SEM_UNDO (kernel, external) |
| `CountSpec` | | abstract: counting and looking at a counter are one step each |
| `ShmCount` | `SysvSem` | `shared-memory-count.c`; implements `CountSpec` |
| `ShmCountOutput` | `ShmCount` | adds the output semaphore; implements `CountSpec` |
| `ShmCountSegmented` | `ShmCount` | adds the unit kept during the output; implements `CountSpec` |
| `ShmCountPrograms` | `ShmCountOutput`, `ShmCountSegmented` | the three programs as a choice of the initial state |
| `ShmCountProofs` | `ShmCountPrograms`, TLAPS | theorems about the three programs, the refinement among them |
| `ShmBulk` | | `shared-memory-count-simple.c`, `-simple-posix.c`, `-shorts-simple.c`, `-shorts-simple-posix.c` |
| `ShmBulkProofs` | `ShmBulk`, TLAPS | theorems about totals, copies and output |
| `ShmHandoff` | | `shared-memory.c`, with store buffers |
| `ShmHandoffProofs` | `ShmHandoff`, `NumberTheorems`, TLAPS | theorems about turns, results and signals |
| `DaemonLock` | | lock file, signals and addresses of `daemon.c` |
| `DaemonLockProofs` | `DaemonLock`, TLAPS | theorems about who leaves a lock file and whom it names |
| `Instructions` | | the calls of a text, as records |
| `ThreadTexts`, `ProcessTexts` | `Instructions` | the programs of `threads`; of `ipc` and `processes`, as texts |
| `ProgramTable` | `ThreadTexts`, `ProcessTexts` | which text each thread or process of a program has |
| `Posix` | `Instructions` | what the calls do |
| `PosixPrograms` | `Posix`, `ProgramTable` | fairness and properties of the programs |
| `Outlines` | `PosixPrograms` | what a task may rely on at each position of its text, and when that fits the texts |
| `PosixProofs` | `Outlines`, TLAPS | theorems about the machine, for every text with an outline |
| `SocketTexts` | `Instructions` | the servers, listeners, handlers and clients, as texts |
| `ServiceTable` | `SocketTexts` | which texts a service has |
| `Sockets` | `Posix` | what the socket calls do: streams of pieces, datagrams |
| `Services` | `Sockets`, `ServiceTable` | fairness and properties of the services |
| `MCSequentialSorts`, `MCServices` | | arrays and numbers of the runs |

Operators named `X_Fault` are wrong variants of `X` that no action uses. Put in the
place of `X` they show that a property notices the fault.

### Psort

`mpc` and `part` are the control state and the loop variables of `psort_r`, `pc`,
`own`, `step`, `mrg` and `out` those of each thread. `segments` is the shared array of
descriptors, `data` the caller's array; an element is its original offset plus one, so
that stability can be stated, and `key` is what the compare function sees. A pointer is
an offset. The partition (`Partition`), creation, joins and the end are actions of the
caller; `ThreadStart`, `SortSegment`, `BarrierArrive`, `BarrierLeave` and the steps of the
merge are actions of the threads. The sort of one segment is one step with any result
that is sorted (and stable, for insertion and merge sort); during it the thread counts
as reading and writing all of its segment. Taking one element in a merge is one step.
The barrier lets the threads of a cycle go when the last one has arrived, and threads
of the next cycle may arrive while others have not left. `CreateThreadFails` ends the
process, as `handle_thread_error` does.

### ShmCount, ShmCountOutput, ShmCountSegmented, ShmCountPrograms

The model starts after the set-up run. `counter[c]++` is `Load` and `Store`; a process may
be killed anywhere (`Kill`, `MaxKills`), the clean-up run may remove the semaphores at
any time (`Cleanup`), after which every `semop` fails. `adj` is what the kernel has
recorded for SEM_UNDO. Inputs are all sequences over the counters up to `MaxInput` in
total. In `ShmCountSegmented` a number of 16 bits is one element of the input. The three
programs use the same state, `ShmCountOutput` adds its semaphore; `ShmCountPrograms` lets
`program` choose whose steps are taken, so that properties and runs are stated once.

### ShmBulk

What a process has counted in its own memory is chosen in `Init`; adding it to the
totals is a `Load` and a `Store` for each counter. `stdout` records who printed each line, and
whether it is a total, an error message or the `"done"` that every process prints when it has
released the semaphore (`shared-memory-count-simple.c:233`). That one may fall between the
totals of another process: `BlocksWhole` claims only that totals of two processes do not mingle,
and that a process writes nothing after its last line. A process killed halfway has added
some of its counters; `WholeInputsShown` says what others show of it.
`program` is one of three: `"simple"` (System V semaphore with SEM_UNDO; the program for
pairs of bytes without POSIX has the same steps on more counters), `"simple-posix"`, where
the unit of a killed process is lost, and `"shorts-simple-posix"`, which keeps a copy of
the totals, lets the semaphore go and takes it again to print the copy.

### ShmHandoff

Each write to the struct is an action. With store buffers of `size` 0 it is visible at once,
otherwise it waits in a first-in first-out buffer of that many writes; a process sees
its own writes, and system calls (`kill`, `sigsuspend`, `wait`) wait for the buffer to be
empty. This is the memory model of the machines the programs are written for (x86).
What the compiler may do to plain variables (the Makefile uses -O2) is not modelled;
the calls between the accesses leave it little room. `pending` is one bit per process,
since SIGUSR1 is not counted. The pid in the struct may be left over from an earlier
run, as nothing removes the segment.

### DaemonLock

A run of the program is one process with a command. A lock file is identified by the
process that created it; `lock` is the file that has the name, `written` are those that
hold their pid. `get_daemon_pid` is four actions: open, read, probe with `kill(pid, 0)`,
and the removal of a stale file. An empty file reads as pid 0. The end by a signal is
two calls of `exit_handler`, `ExitHandler` and `AtExit`; sockets are closed at the end of the
process. `bind` is called without SO_REUSEADDR (302), so that an address may stay in use after
its daemon for as long as old connections do (`lingers`, `Unbind`, `Expire`). `GiveUp` stands for
the failures of `getaddrinfo` (286) and `pthread_create` (311), which exit. A pid is not used again.
`around` is what may happen around the commands and lets each property say what it needs:
`"starts"` are starts and status calls at any time on a fresh system, `"orderly"` are
commands that are each given when those before are through, with daemons killed at any
point, `"fresh"` are any commands at any time without kills, `"any"` leaves everything open.
`Recovers` needs a free address, and names the one file nobody gets rid of: the empty
one (`EmptyFile`) of a daemon killed before it has written its pid.

### Posix and the programs

A program is a sequence of texts, one for each thread or process, and a text a sequence of
calls (`Instructions`): what the code does on anything that another task can see, in its
order, with what `handle_error` does when the call fails (`bad` is its last argument). Loops
over all threads are unrolled, other loops are jumps. Local computations, output and
formatting are left out, so that a text is a fraction of its program; `map` names the function
it stands for. Options that change the calls are programs of their own (`"mutex-ipc -t"`).

`Posix` says what a call does. `task` holds for each task where it is, what it waits for and
what it has read; `sync` mutexes, semaphores, conditions, barriers and once; `data` memory,
files, pipe, queue and shared memory. A call is one step, or two where it blocks (conditions,
barriers, sleeps). The kernel is modelled from how the programs use it and as the standard
describes it: the signal of a condition without a waiter is lost, SIGPIPE comes without
a reader, SEM_UNDO at the end of a process, a queue that is removed fails its users, an
unlock in another process does not wake who waits for a mutex that is not shared.
A read-modify-write of memory is a `Load` and a `Store`. Where main starts the sorting threads, it
fills in the segment of each before it creates it (`GivePart`). `get_future` adds nanoseconds
without a carry, so that a deadline with a fraction may be none.

The programs order much of what they do by sleeps, so two schedules are checked. If
`punctual`, a sleep takes its time and everything else takes none: time passes (`Tick`) only
when no task can go on. If not, a sleep may be over at once and a deadline may pass at any
moment: what holds then holds whatever the load of the machine. The exceptions are named
sets in `PosixPrograms`:

| Set | Why |
|---|---|
| `Unlocked` | these programs share a variable without a lock, most of them to show it (`thread-param-trap.c`, `increment-speed.c`), `timedlock.c` and `nonblocking.c` with the flag `done` |
| `Unpredicated` | `summation.c` waits for a condition without a predicate (116) and then prints the sums (120-125) before it joins the threads: a wait that ends without a signal makes main read while they write |
| `Disturbed` (in `Outlines`) | programs that end before their threads (`EndEarly`, `EndEarlyLate`), or with signals, pipes, queues that may be removed, or errorcheck mutexes: their outlines are not calm |
| `SleepOrdered` | the thread or child is started before main initialises the mutex or the memory; a sleep of two seconds is all that orders them |
| `EndEarly` | killed or failing on purpose (`signal.c`, `send-signal.c`, `mutex-reentrance.c -e`), threads that end with main (`thread-once-detach.c`, `increment-speed.c`, `threadf.c`, `flockfile-for-extended-output.c`), a deadline that is past (`mutex-threads.c -t`; `mutex-attr-threads.c`, where a local variable hides the global one), a mutex that is not shared between its two processes (`mutex-ipc*.c`), a queue that is removed under a receiver (`msgqueue-hello.c`, `-one-sender-multiple-receivers.c`). `MayFail` says which of the tasks |
| `EndEarlyLate` | the same when the sleeps are too short: the pipe without a reader (`thread.c`), shared memory that does not exist yet (`mutex-attr-ipc.c`) |
| `Hung` | who may wait for ever, and in which call: deadlocks on purpose (`deadlock.c`, `mutex-reentrance.c`, `semaphore-simple.c`), and wake-ups that may be lost: the signal of a condition without a predicate (`summation.c:116`), a signal between the test of the flag and `pause` (`daemonize-group-signal*.c`, `daemonize-signal-and-pipe.c`), the message of a removed queue |

`ResultsRight` has the results of those programs that compute something. The bounds:
`Crowd` = 2 threads where the code starts 10 or 20, `Sorters` = 3 so that there are two
rounds of merges, one without a partner, `Numbers` = 3 messages for 100, `QueueRoom` = 4; files
of two or three bytes.

### Services

Servers and clients are texts in the same form. A service is a server with one client that
asks for several numbers, or with two; handlers are threads or processes that the accepting
task starts. `net` has the ports, who has which end of a connection open, what is on its way
in each direction (`flow`), what each task has read (`buf`), and what each client has shown
(`got`). The twelve characters of a number are two pieces, and so are the four bytes of a
length and the four letters of a word: two pieces are enough to tell a read that gets all
from one that gets a part, which is what the code depends on.

Trouble comes on the connection of the last client, `Unlucky`: its reads may get a part of what
was sent at once, it may start too early and be refused, its datagrams may be lost or
doubled, and it may go away at any moment (`Leave`). The other clients' connections are
sound, so that `AnswersRight`, `ServerStands` and `Served` say what the trouble of one does to the
others. `net.odd` remembers what happened; an exception counts only when it did. Only the
schedule that is not punctual is used. Calls without an effect that another task could tell
from a later one (`Immediate`) are taken at once, and so are those of the lucky client (`Prompt`)
when they do not wait; this only removes orders of independent steps. After the peer has
refused data, one read reports an error: its -1 is an unsigned length, so that the loop of
`read_and_store_string` asks for one byte more (`ErrorRound`, `transmission-protocols.c:128`) and
ends in its next round.

What the exceptions say of the code:

- `Plain`: `recv` is taken for a whole message, by the servers and by `tcp-square-client.c`, which
  ends the string after as many characters as the last read got (line 102). The request or
  its answer may be cut off (`CutOff`), but there is no other wrong value.
- `EndedBySplit`: in those servers a request that comes in two parts ends the process with all
  connections: `send` of the parts is shorter than expected (`die_with_error` in
  the handler), or the word is an unknown one. The daemon closes a connection on which half
  of a length has come, and so does its client. If the other half is still unread then, the next
  write raises SIGPIPE, for which `signal_handler` is installed (`daemon.c:240-243`): it
  removes the lock file and ends the process (50-58), with all listeners.
- `EndedByLeave`: servers whose handlers are threads end when a client leaves, the ones of the
  protocol when it leaves within a string (`transmission-protocols.c:129`); forking servers do not.
- `KeptBy`: which process may keep a connection: the listening process of `tcp-square-server-dns-fork.c` never closes the connection
  it has handed over (219-221), and a handler whose `write_string` to a client that has left
  goes round for ever (`transmission-protocols.c:52-55`), as `write` returns -1 and the rest
  grows. The daemon does not get there: SIGPIPE has ended it.
- `WaitsForEver`: a datagram that was lost; and the end of a connection that is kept.

### SequentialSorts

One action is one turn of a loop that changes the array; `call` is the function that runs and `lo`,
`len` its part of the array, since the flashsort calls `isort_r` or `hsort_r` for each of its classes.
Elements are their original offsets, so that stability can be stated. The metric of the
flashsort is exact, or one that has the same value for `Coarse` neighbouring keys: the least and
the greatest element may then have the same metric although they differ, and the
division gives an infinite step and classes that are no numbers (`at = "outside"`,
`fsort.c:102`), the only way in which the sort leaves its arrays. Floating-point rounding is
left out: classes are computed with integers, rounded down.

## 4. Runs

Between them the runs take every action of every module.

| Run | Instance | Shows |
|---|---|---|
| `psort` | 5 threads, 4 elements, 2 keys, stable, fair | lockstep of the rounds, no conflicting access, the caller ends last; refinement of `SortSpec`, termination. Five threads give three rounds, with merges side by side, a missing partner and an empty segment |
| `shm_counts_order` | 3 processes, 2 counters, 1 semaphore, 2 bytes, 1 kill | writers are alone, refinement of `CountSpec`, outputs in one order (needs a third process that still counts) |
| `shm_counts_units` | 2 processes, 3 counters, 2 semaphores, 2 bytes, 1 kill, fair | units conserved, own input shown, everybody ends |
| `shm_segmented_full` | 3 processes, 3 units | violation: see below |
| `shm_bulk` | 3 processes, 2 counters, counts 0 or 1, 1 kill, fair | totals of whole inputs and known parts of those of killed processes, totals of two processes never mixed on the common stdout, copies that are moments of the totals; only a killed holder of a POSIX semaphore blocks |
| `shm_handoff` | 4 requests, store buffers of 0, 1 and 3 writes, fair | turns, results and wake-ups are right; without store buffers both processes end |
| `shm_handoff_quit` | 2 requests, 1 buffered write, fair | violation: see below |
| `daemon` | 3 commands, 2 addresses, 1 kill, circumstances `"starts"`, `"orderly"` and `"any"`, fair | one daemon, which the file names; only a killed daemon leaves its file; recovery after a kill, unless that file is empty; stop stops |
| `daemon_lock_lost` | 3 commands, fresh system without kills, any overlap | violation: see below |
| `programs` | the 70 programs of `ProgramTable`, both schedules | no data race, nothing used before it is ready, right results, no failure, no lost message, orphaned daemons, every program ends or waits where `Hung` says; every program but those that only sleeps order has an outline that fits |
| `sorts` | all arrays of up to 5 elements with 4 keys, some of 9 to 11, both metrics | results are sorted, and stable where they should be; the flashsort stays inside its arrays; every sort ends |
| `services` | the 11 services of `ServiceTable` | right answers, servers that stand, clients that are served, connections that are closed |

Why the bounds are enough: the properties of `Psort` concern pairs of neighbours in one
or two successive rounds, and the theorems cover the rest; a lost update needs two
processes and a semaphore shared by two counters; different orders of two outputs need a
third process; the double removal needs a daemon, the stop that ends it and a second
start that overlaps with its end. SEM_LIMIT
is 10 in the programs; the run `shm_segmented_full` has 3 so that three processes can
hold all units. The larger buffer of `shm_handoff` holds more writes than a process makes
between two system calls, but for one. In the sorts five elements give heaps with three levels
and merges of runs of 1, 2 and 4; the longer arrays have one class of more than
seven elements, which the flashsort gives to the heapsort. What goes wrong in the programs
and services takes two tasks, one of which may have trouble.

Deadlock is not checked: all these programs end, or are servers that wait, and the liveness
properties say what must come to its end.

Fairness is weak fairness of each process or thread: the scheduler runs what can run. For
the daemon and the services less is enough, that some task runs as long as one can. In
`PosixPrograms` time is fair as well. Nothing is assumed about `Kill`, `Cleanup`, `Pipe`, the
commands, `Leave`, or wake-ups without a signal. A semaphore serves who can be
served; with these programs every wait ends by weak fairness alone, because what a
process waits for stays available once it has come or the waiting is
repeated finitely often. Store buffers empty themselves in the end.

The definitions `TypeOK` of the modules on shared memory and of `DaemonLock` state the types of
their variables; their runs leave them out, as the other invariants would fail first. The type
invariant of `Psort` is the theorem `TypeCorrect`.

### Findings

1. `shm_segmented_full`: the unit of data semaphore 0 taken before the output and not
   given back blocks as many processes as the semaphore has units.
2. `shm_handoff_quit`: the last command does not wait for `cready`, so that with store
   buffers its flag can be overwritten by a late write, and both processes wait for ever.
3. `daemon_lock_lost`: `signal_handler` and then `exit` (by `atexit`) each remove the lock file by
   name (`daemon.c:56`, `203`, both by `exit_handler`, 46). In the trace a stop sends SIGTERM to a
   daemon whose handlers are installed, the handler removes the file, a second start finds
   none and creates its own, and the second removal of the first daemon takes that away.

Met while modelling, without a run of its own: a lock file that is still empty reads as pid 0,
and stop then sends SIGTERM to its own process group (`daemon.c:121`, `daemon.c:207`; in
`DaemonLock` the command ends as `"interrupted"`). The behaviours that the named exceptions of
`PosixPrograms` and `Services` describe are in section 3.

## 5. Proofs

Every proof assumes the named assumption of its module only: the constants have their types,
the set of processes is finite, there is at least one thread, counter, semaphore or unit,
arrays are finite. Nothing else is taken for granted; `NumberTheorems` is proved from the
facts on finite sets and well-founded orders of the prover's library. Each invariant was first
checked with TLC on the instance of the run of its module.

### PsortProofs

`PsortProofs` proves for every `nmemb`, `thread_count` and every key function, from
`PsortAssumption` alone (the constants have their types and there is at least one thread;
the code asserts this):

- `Lockstep`: `Spec => []BarrierLockstep`
- `TypeCorrect`: `Spec => []TypeOK`
- `RaceFree`: `Spec => []NoConflictingAccess`
- `Invariance`: `Spec => []IInv`

None of the properties is inductive by itself. The argument has three layers.

*Control* (`ControlInv`): the rounds. A thread that waits in the barrier, has been let
go, or is behind it, is in a round `step`; all threads on one side of the barrier agree
on it. The barrier opens only when all threads have arrived (`AllThreads`, which needs
the cardinality of an interval), so no one can be two rounds ahead. This layer does not
mention the data and is proved first.

*Geometry* (`GeometryInv`): the partition cuts the array at offsets `O[0..thread_count]`. In
round `step` the descriptor of a thread whose index is a multiple of `step` stands for the
pieces from its index to index + step, cut off at the end; a merge joins two of them.
The lemmas `Multiple`, `Remainder`, `Halves`, `Apart` and `Partners` are the arithmetic:
indices that merge in one round are at least `2*step` apart, so that their ranges do not
overlap. `StoreGeometry` and `RetireGeometry` show that writing the result and striking
out the partner keep it. `RaceFree` follows from the geometry: in each phase of a round
a thread reads and writes only within its own pieces.

The number of rounds is never bounded in the proofs: `step` is any positive number,
its doubling is compared with `thread_count` only.

*Contents* (`ContentInv`): `Implements`: `Spec => ImplementsSort`, from the same assumption: whatever the threads do in
which order, the array `psort_r` returns is a permutation of the caller's, in ascending order,
and in stable order if the segments are sorted by a stable algorithm. `JoinsAll`
(`FinishesLast`) says that no thread is left that could still change it.

`Content` is the invariant behind it (`ContentInv`), on top of `IInv`:

- `PermInv`: the array holds every element once.
- `ApartInv`: segments do not overlap. The one exception is a partner whose segment has been
  merged but whose descriptor is not yet struck out (`Given`); `Partners` shows that nobody
  uses that one.
- `FreshInv`, `SettledInv`: a segment not yet sorted is as the caller left it; a sorted one is in
  order and holds the elements the caller had at its offsets (`Keeps`). That the left partner's
  elements come from smaller offsets is what makes taking the left one of two equal elements
  stable (`LeftBeforeRight`).
- `MergeInv`: a merge under way has put out, in order, exactly what it has taken (`Merged`), and
  nothing that belongs behind an element that is left. `PutOut` is the one lemma for a single
  element and for the rest of a run, `WrittenBack` the one for writing a rearranged part back.

Sorting a segment is one step of the model; that the algorithms of the library sort is what
`SequentialSortsProofs` proves.

### SequentialSortsProofs

From `InputsAssumption` (the arrays are finite sequences of natural numbers, of any length;
`Coarse` is positive): `Sorted` (`ResultSorted`), `Inside` (`FlashInside`), `Invariant`
(`IInv`). `ResultSorted` speaks of the end only, and `FlashInside` of the few states in which
a search or a cycle has just ended, so that the invariant has to say what each loop has done so
far:

- `CallInv`, `ElementsInv`: which part of the array the running function sorts, and that
  no element is lost. `RearrangedElements` and `SortStep` show once that exchanging
  elements of a part loses none, and that a class sorted on its own leaves the other
  classes what they were.
- `IsortInv`: the cells below `i` are in order; for the isort of the caller also in stable order,
  and the rest is untouched.
- `HeapInv`: no element is greater than its parent, except below `root`, the one that
  sinks; there the children are compared with the grandparent. That the first element is the greatest
  (`TopGreatest`) is shown by the least offset of a counterexample, whose parent would be one
  too. The arithmetic of `Parent` and `Children` is the same for 2 and 3 children.
- `MsortInv`: the runs of 2 * step elements below `i`, and of step elements from `i` on, are
  done: in order, stable, with the elements of the caller's cells. The last run is cut off at
  the end of the array.
- `MetricInv`, `SeekInv`, `ClassesInv`: the class of an element does not fall with its key
  (`ClassType`), and the classes have exactly as many cells as elements (`Distribution`). While a cycle runs,
  one element is in hand and the cell it came from is open; the class of the element in hand
  has fewer filled cells than elements, hence room (`Room`). As the cells are all
  different, `nmove` is the number of filled ones, and the cycle that ends has
  its first cell filled. If the metric is the same for the least and the greatest element, the
  function leaves its arrays at once, and nothing is claimed of it but that.

`Merged` is a recursive function. `MergeRestDef` proves that its recursive definition has a solution
(each call looks at fewer elements), `MergeInOrder` that what is merged is in order and
keeps the order of equal elements. Both go by induction over the number of elements left, with
`InductiveSet` of `NumberTheorems`: the induction theorems of the library take an operator and
cannot be used, but the set of the numbers up to which a statement holds can be formed.

### ShmCountProofs

For `ProgramSpec`, so for all three programs, any number of processes, counters, semaphores
and units, any inputs, and any process killed at any point: `Excluded` (`ReadersWriters`),
`UnitsNeverLost` (`NoUnitLost`), `ShowsOwn` (`OwnInputShown`), `Ordered`
(`OneOutputAtATime`), `FrozenOutput` (`OutputFrozen`) and `Implements` (`ImplementsCount`, the
refinement of `CountSpec`).

`Moves` reduces the steps of the three programs to one list. The invariant has five layers:

- `LocalInv`: where a process is in its input and its output, and that SEM_UNDO has recorded
  for it at least what it holds (`Holder`). Nobody else changes any of this
  (`Untouched`), so that it is proved one action at a time, without interference.
- `UnitsInv`: a semaphore and what is recorded for all processes add up to SEM_LIMIT. A
  sum over processes is the cardinality of a set of numbered units (`Units`), so that it
  needs no recursion: `UnitsChange` is a change of one summand. Every step only exchanges
  units between the semaphore and one process (`Conserving`), the end of a process as well.
  Hence who has all units is alone with them (`AloneWithUnits`), which gives exclusion, and
  `OutputFrozen` since the kept unit is one the writer lacks.
- `ExactInv`: without the kept unit, what is recorded is exactly what the process holds.
- `RegisterInv`, `ShownInv`, `CountedInv`: the register of an increment is still the value of
  its counter when it is written back (by exclusion), outputs are never ahead of the counters
  (which only grow), counters contain what each process has counted. With the first one
  `Store` is the abstract `Count` and `ReadValue` the abstract `Show`.
- `OutInv`: the output semaphore is held by at most one process, and that one shows nowhere
  less than any other (`LatestInv`): it reads the counters after all the others have.

### ShmBulkProofs

For `Spec`, for all programs, with or without SEM_UNDO: `TotalsRight` (`NoLostUpdate`),
`ShownWhole` (`WholeInputsShown`), `Blocks` (`BlocksWhole`), `Moments` (`CopiesAreMoments`).

`ControlInv` says that at most one process is between taking and giving the unit; a killed
holder returns it (SEM_UNDO) or leaves the semaphore at 0 for ever. Who adds finds in each
counter the inputs of those who have added it before (`StoreAdds`): all of those in `Full`, and
of those killed halfway (`Half`) the ones that got beyond that counter (`AddedWhole`). Both sets
only grow, by processes that are adding (`FullHalf`), so that what a process has shown stays a
sum of that kind (`PrintInv`, and `KeepInv` for copies) when others go on. Copies only ever
contain earlier totals (`CopyInv`). Only the holder prints totals; a process that has written a
line without the semaphore, `"done"` or an error, has ended (`BlockInv`), so that it neither
writes again nor has totals still to come.

### ShmHandoffProofs

From `HandoffAssumption` (`REQUESTS` is a natural number, `BufferSizes` are): `Exclusive`
(`TurnsExclusive`), `Results` (`ResultOfLastRequest`), `Signals` (`SignalsItsParent`),
`TypeCorrect` (`TypeOK`), `Invariant` (`IInv`), for any number of requests and store buffers of
any size, 0 (no buffer) among them.

There is no lock, so that the only reason why the worker does not read what the parent
is still writing is the order of the writes. `IInv` says it in these parts:

- `Seen(p, f)` is what process p would read of field f: its own last buffered write or memory. A
  write that leaves a buffer does not change it for the writer (`Draining`), and
  `Transparency` says for which fields it is what memory holds.
- `BufferInv`: which writes can be in a buffer at each point. A process that gives the turn
  away writes its flag last and then calls `kill`, which waits for the buffer; hence a flag that is
  in memory has all that was written before it in memory as well (`FlagLast`).
- `TurnInv`: worker not yet announced, parent's turn (`cready` in memory, or it is asking),
  worker's turn (`pready` in memory, or it works) exclude each other. It holds until the last
  command, which the parent gives without its turn (`Quitting`).
- `PidInv`, `AskingInv`, `AnswerInv`: what is in the fields at each point of a turn; `Last` is the
  number of the last request. `Results` follows since the parent in `"clear"` has the turn, so that
  the buffer of the worker is empty.

`Writing`, `Draining` and `Keeping` reduce the actions to a change of one field; then there is a lemma
for each action, with a step for each part of the invariant.

### DaemonLockProofs

For any number of commands, addresses and kills: `OnlyKilled` (`OnlyKilledLeaveLock`),
`Named` (`LockNamesServer`), `TypeCorrect`.

The first rests on `LockOwner`: the creator of the file is a daemon between `Create` and
`AtExit`, or was killed there. It needs nothing about the other commands, because a
removal by name, even of the wrong file, only makes it true. Addresses that linger do not matter
either: a daemon that gets none leaves through its exit handler. The second needs two invariants,
one for each circumstance. If only starts run (`StartsInv`), no one removes a file that has an
owner. If the commands come one by one (`OrderlyInv`), at most one process acts besides the
daemon that serves, and what it has read of the file is still there when it acts on it.

### PosixProofs

The programs of `threads`, `ipc` and `processes` are concrete texts, each with its own reason
why it is right. What can be proved is what that reason has to look like: the theorems are
about the machine of `Posix` with any programs, any texts, any number of tasks, in both
schedules.

An *outline* (`Outlines`) is a proof outline in the manner of Owicki and Gries, reduced
to what matters for synchronisation: for each position of each text the mutexes, read locks
and semaphore tokens its task has there, where it stands with the function that is called
once, how many barriers are behind it and whether it was the serial thread of the
last one, which tasks have been started, have ended or cannot have been started, and which
objects are ready. `Outlined(o)` says that the outline fits: a
condition on one position and its successors (`FlowFits`), on calls that another position could
disturb (an unlock by who is not the owner, a removal of what others use), and on the
beginning. It mentions no interleaving; it does not say what holds in any state.

- `Invariance`: `Outlined(o) /\ Spec => []IInv(o)`
- `RaceFree`: `Outlined(o) /\ Separate(o) /\ Spec => []NoDataRace`
- `ReadyUse`: `Outlined(o) /\ Prepared(o) /\ Spec => []UsedReady`
- `EndsInPeace`: `Outlined(o) /\ Prepared(o) /\ Calm(o) /\ Spec => []EndsWell`

`Separate(o)` says that positions with conflicting accesses have facts that exclude each
other (`Exclude`; one of them is that nobody can have a barrier behind it which counts on a
task that has not been started, `TooEarly`), `Prepared(o)` that the object of each call is ready at its position.
`Calm(o)` says of the texts that nobody sends signals or may lose the reader of a pipe, that
calls that may fail do not end the process, that no mutex reports a second lock as an error,
and of the outline that a task that ends its process is alone in it: the others have ended
at its position, or it has not started them. The hypotheses are not empty: `OutlinesHold`,
an invariant of the run `programs`, computes the outline of each program from its texts and
evaluates all four conditions. They hold for every program but those of `SleepOrdered`
(nothing but sleeps order them), `barriere.c` (its threads go round in a loop, so that no
number of rounds belongs to a position), and, for `Separate`, those of `Unlocked` and `Unpredicated`, for
`Calm`, those of `Disturbed`: 60 programs have an outline that fits, 36 of them a calm one.
For these `NoDataRace`, `UsedReady` and `EndsWell` follow from a condition on the texts that
TLC evaluates in seconds for more threads than it could interleave.

`NoDataRace` says nothing about locks, so that it is far from inductive. `IInv(o)` says that in
every state the facts of each task's position are true (`View`: what a task relies on;
while it waits for a condition, not on the mutex) and consistent:

- `LockInv`: a mutex is owned by who relies on it, and has no readers then. A second task
  that relies on it would have to be the owner as well.
- `TokenInv`, `CountInv`: a semaphore used as a lock has one owner, the value 1, or has been
  removed; with SEM_UNDO the adjustment of the owner's process is 1, so that its death gives the unit
  back and nobody else's does. Before the one `semset` its value is 0.
- `OnceInv`: only one task is within the function that is called once, and who is behind it
  knows that it has ended.
- `LifeInv`: tasks that are relied on to have ended have; those relied on to be unborn are. This is what
  lets main initialise before `create` and destroy after `join` without a lock.
- `RoundInv`: tasks that know their round are in the same one, and one task at most was serial. A
  barrier lets all its tasks go in one step (`BarrierWaitKeeps`): they were
  waiting at the same barrier with the same round, hence have the same round afterwards.
- `ReadyInv`, `WaitInv`: what is relied on to be ready is; what a task waits in is the call at its
  position.

Lemmas such as `GoesStep`, `CallStep` and `JumpStep` say what a task that goes to another position
may rely on there; there is one lemma for each call (`LockKeeps`, `SemPostKeeps`, ...),
`LeavingKeeps` and `ProcessEndsKeeps` for ends of tasks and of processes with all their threads,
`DeliverKeeps` for signals. A task that another one kills relies on nothing any more,
so that facts of dead tasks disturb nobody.

`EndsWell` needs more: `CalmInv(o)` adds that no task has an error code, a pending signal or
a handler (`Unhurt`), that a task behind the end of its text is alone in its process
(`ApartInv`), and that no mutex is an errorcheck mutex (`KindInv`). A process has further
threads to kill only when one of them ends it, which then is behind its text or at an
`exit`; the facts there say that the others have ended. That a semaphore is never waited for
before it is opened, the one failure of the text that no condition on a single call
excludes, comes from `Prepared(o)` and `ReadyInv`.

### Model-checked only

Liveness (under fairness, which the prover does not reach): termination, recovery after a
kill, the stop that stops, the wake-ups, the ends of the sorts' loops (`Ends`). Of
`PosixPrograms`, results (`ResultsRight`) and daemons and messages (`DaemonOrphaned`,
`NoMessageLost`), and the properties of `Services`: they speak of what a certain program
computes or exchanges, with no constant to generalise over. So do `EndsWell` for the
programs of `Disturbed`, where each call may fail for a reason of its own, and `NoDataRace`
and `UsedReady` for the programs without an outline.

## 6. Not modelled

Everywhere: formatting, logging, measurement of time and error texts; failures of `malloc`;
overflow of the 64-bit counters; reordering by the compiler. In particular:

- `Psort`: SIGKILL (the array is private to the process); the error exits after `barrier_init` and
  after a join (`psort.c:187`, `228`).
- the set-up run (`-s`) of the shared counters while others count; the assembly of pairs of
  bytes from blocks of odd length in `shared-memory-count-shorts-*.c`.
- `lib.c`: `readn`, `writen` and the division of text into lines and words, which are loops over a
  local buffer.
- `tcp-thread-sorted-once-server.c:259-283`: heading and lines are one string here, while the
  code divides the words at LINE_SIZE.
- `tcp-square-client-protocol.c:83`: at the end of standard input the client asks for its last number
  again; the clients here leave with QUIT. Errors of `getnameinfo`, `socket` and `bind`.
- `thread-sort-shorts.c` addresses its elements as bytes; `find-extreme-strings.c` is a
  sequential computation.
- `udp-square-client.c:102-108`: the checks of the length and the source address of an answer, which
  end the client; the datagrams here come from the server and are whole.
- `barriere.c`: its threads meet at the barrier twice, not ten times.
- the sorting programs of `threads`: printing the sorted content after all joins.
- `fsort.c:153-157`: the exit with "wrong order", which no sorted class reaches.
- `shared-memory.c:111`: the parent prints x and y while the worker may already write y.
- `daemon.c`: failures of `write`, `close`, `sigaction` and `fork`.
- `address.c` and `socket-ipc-1.c` only create a socket.
- `adv-io`: copying between descriptors; `io`: files, whose locks are those of the kernel; `c`:
  arithmetic and pointers; `test`: read as documentation; `win32` and `akka`: other systems.

`PROJECT.json` marks every component.
