---------------------------- MODULE ProgramTable ----------------------------
(***************************************************************************)
(* The programs of posix/threads, posix/ipc and posix/processes, each with *)
(* the texts of its tasks: task 0 is the first one, task t has the text    *)
(* t + 1.  A program with several ways to run has an entry for each.       *)
(* process tells the process of each task by its first task, atexit is the *)
(* text of its exit handler, started are the tasks that run from the       *)
(* beginning, input the lines of standard input, segs the parts of the     *)
(* array that is sorted.                                                   *)
(***************************************************************************)
EXTENDS ProcessTexts

Program(name, threads, texts) ==
    [name |-> name, threads |-> threads, texts |-> texts, atexit |-> << >>,
     process |-> [t \in DOMAIN texts |-> IF threads THEN 0 ELSE t - 1],
     started |-> {0}, input |-> 0, segs |-> << >>]

Threads(name, main, runs)     == Program(name, TRUE, << main >> \o runs)
Processes(name, main, others) == Program(name, FALSE, << main >> \o others)

Same(text)   == [t \in 1..Crowd |-> text]
Each(Text(_)) == [t \in 1..Crowd |-> Text(t)]
WithAtExit(p, text) == [p EXCEPT !.atexit = text]
WithInput(p, lines) == [p EXCEPT !.input = lines]
StartedToo(p)       == [p EXCEPT !.started = {0, 1}]

\* The files of the two counting threads, as bytes A and B, and what is sorted.
Files     == << <<"A", "B">>, <<"A", "A">> >>
PairFiles == << <<"A", "B", "A">>, <<"A", "B">> >>
Content   == <<5, 2, 4, 1, 5, 3, 2>>

CountThreads(name, main, Run(_)) ==
    Threads(name, main, << Run(Files[1]), Run(Files[2]) >>)

Sorting(name, main, Run(_)) ==
    [Threads(name, main, [t \in 1..Sorters |-> Run(t)])
        EXCEPT !.segs = Segments(Content, Sorters)]

ThreadPrograms == <<
    Threads("mutex-threads", MutexThreadsMain(FALSE), << MutexThreadsRun(FALSE) >>),
    Threads("mutex-threads -t", MutexThreadsMain(TRUE), << MutexThreadsRun(TRUE) >>),
    Threads("mutex-attr-threads -t", MutexAttrMain(TRUE), << MutexAttrRun(TRUE) >>),
    Threads("mutex-many-threads", MutexManyMain(FALSE), Same(MutexManyRun(FALSE))),
    Threads("mutex-many-threads -t", MutexManyMain(TRUE), Same(MutexManyRun(TRUE))),
    WithInput(Threads("mutex-many-threads-read-stdin", MutexStdinMain(TRUE),
                      Same(MutexStdinRun(TRUE))), 2),
    Threads("deadlock", DeadlockMain("normal"), << DeadlockRun >>),
    Threads("deadlock -e", DeadlockMain("errorcheck"), << DeadlockRun >>),
    Threads("mutex-order", MutexOrderMain("errorcheck"), << >>),
    Threads("mutex-reentrance", MutexReentranceMain("normal"), << >>),
    Threads("mutex-reentrance -e", MutexReentranceMain("errorcheck"), << >>),
    Threads("mutex-reentrance -r", MutexReentranceMain("recursive"), << >>),
    WithInput(Threads("timedlock", TimedlockMain, Same(TimedlockRun)), 2),
    WithInput(Threads("nonblocking", NonblockingMain, Same(NonblockingRun)), 2),
    Threads("posix-sem-threads", PosixSemThreadsMain, << PosixSemThreadsRun >>),
    Threads("sysv-sem-threads", SysvSemThreadsMain, << SysvSemThreadsRun >>),
    Threads("condition", ConditionMain, << ConditionRun("own1"), ConditionRun("own2") >>),
    Threads("barriere", BarriereMain, Same(BarriereRun)),
    Threads("summation", SummationMain, << SummationRun("sum1"), SummationRun("sum2") >>),
    Threads("thread-id", ThreadIdMain, << << End >>, << End >> >>),
    Threads("thread_return", ThreadReturnMain, << ThreadReturnRun >>),
    WithAtExit(Threads("exit-pthread-exit", PthreadExitMain, << >>), ExitHandler),
    Threads("thread_write_once", WriteOnceMain, << WriteOnceRun, WriteOnceRun >>),
    Threads("thread", ThreadMain, << ThreadRun >>),
    Threads("threadf", ThreadfMain, << ThreadfRun >>),
    Threads("thread-param-trap", ParamTrapMain, Same(ParamTrapRun)),
    Threads("thread-once", ThreadOnceMain, Same(ThreadOnceRun)),
    Threads("thread-once-detach", OnceDetachMain, Same(ThreadOnceRun)),
    Threads("thread-once-key", OnceKeyMain, Same(OnceKeyRun)),
    Threads("flockfile-for-extended-output", FlockfileMain, Same(FlockfileRun)),
    Threads("increment-speed", IncrementMain, << IncrementRun >>),
    CountThreads("thread-memory-count-posix-semaphore", CountSemMain, CountSemRun),
    CountThreads("thread-memory-count-mutex", CountMutexMain, CountMutexRun),
    CountThreads("thread-memory-count-readwrite", CountRwMain, CountRwRun),
    Threads("thread-memory-count-shorts-mutex", CountPairsMain,
            << CountPairsRun(PairFiles[1]), CountPairsRun(PairFiles[2]) >>),
    Threads("thread-memory-count-by-file", CountByFileMain,
            << CountByFileRun("own1"), CountByFileRun("own2") >>),
    Sorting("multithreaded-sort", MultiSortMain, MultiSortRun),
    Sorting("thread-sort-bytes", SortBytesMain, SortBytesRun),
    Threads("thread-sort-once", SortOnceMain, Same(SortOnceRun)),
    Threads("thread-sort-once-pd", SortOncePdMain, Same(SortOncePdRun)) >>

CleanQueue(p) == WithAtExit(p, CleanupQueue)

ProcessPrograms == <<
    Processes("fork-wait", ForkWaitMain, << ForkWaitChild(100), ForkWaitChild(50) >>),
    Processes("wait-processes", WaitProcessesMain,
              Each(LAMBDA t : << Sleep(10 * (Crowd + 1 - t)), Exit >>)),
    Processes("fork-write-once-simple", WriteOnceSimpleMain, << << Exit >> >>),
    Processes("fork-write-once", WriteOnceForkMain, << << Exit >> >>),
    Processes("fork-write-twice-simple", WriteTwiceSimpleMain, << << Exit >> >>),
    Processes("fork-write-twice", WriteTwiceForkMain, << << Exit >> >>),
    Processes("extract", ExtractMain, << ExtractChild >>),
    Processes("transmit-via-pipe", TransmitMain, << TransmitChild >>),
    Processes("daemonize", DaemonizeMain, << DaemonChild, DaemonizeDaemon >>),
    Processes("daemonize-with-pipe", DaemonPipeMain, << DaemonChild, DaemonPipeDaemon >>),
    Processes("daemonize-group-signal", GroupSignalMain,
              << DaemonChild, GroupSignalDaemon >>),
    Processes("daemonize-group-signal-sigaction", SigactionMain,
              << DaemonChild, SigactionDaemon >>),
    Processes("daemonize-signal-and-pipe", SignalPipeMain,
              << SignalPipeChild, SignalPipeDaemon >>),
    WithAtExit(Processes("daemonize-group-signal-and-response-signal", ResponseMain,
                         << DaemonChild, ResponseDaemon >>), ResponseAtExit),
    StartedToo(Processes("signal", SignalMain,
                         << << Kill({0}, "TERM"), Kill({0}, "INT"), Exit >> >>)),
    Processes("send-signal", SendSignalParent, << SendSignalChild >>),
    Processes("posix-sem-ipc", PosixSemParent, << PosixSemChild >>),
    Processes("sysv-sem-ipc", SysvSemParent, << SysvSemChild >>),
    Processes("semaphore-simple", SemaphoreSimpleMain, << >>),
    Processes("mutex-ipc", MutexIpcParent, << MutexIpcChild >>),
    Processes("mutex-ipc-separate", MutexSeparateParent, << MutexSeparateChild >>),
    WithAtExit(Processes("mutex-attr-ipc", MutexAttrIpcParent(FALSE),
                         << MutexAttrIpcChild(FALSE) >>), MutexAttrIpcAtExit),
    WithAtExit(Processes("mutex-attr-ipc -t", MutexAttrIpcParent(TRUE),
                         << MutexAttrIpcChild(TRUE) >>), MutexAttrIpcAtExit),
    CleanQueue(Processes("msgqueue", MsgqueueReceiver, << MsgqueueSender >>)),
    Processes("msgqueue-simple", MsgSimpleReceiver, << MsgSimpleSender >>),
    CleanQueue(Processes("msgqueue-positive-typed", PositiveReceiver, << TypedSender >>)),
    CleanQueue(Processes("msgqueue-negative-typed", NegativeReceiver, << TypedSender >>)),
    CleanQueue(Processes("msgqueue-one-sender-multiple-receivers", OneSenderParent,
                         << OneSenderChild(1), OneSenderChild(2) >>)),
    CleanQueue(StartedToo(Processes("msgqueue-hello", HelloSend, << HelloReceive >>))),
    Processes("semaphore", SemaphoreParent,
              << SemaphoreWorker, SemaphoreClient(2), SemaphoreClient(3), SemaphoreClient(4) >>) >>

-----------------------------------------------------------------------------
AllPrograms == ThreadPrograms \o ProcessPrograms
=============================================================================
