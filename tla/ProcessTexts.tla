---------------------------- MODULE ProcessTexts ----------------------------
(***************************************************************************)
(* The texts of the programs of posix/processes and posix/ipc: ...Main or  *)
(* ...Parent is the first process, the others are named for what they do.  *)
(* A loop that sends a hundred numbers sends Numbers of them.              *)
(***************************************************************************)
EXTENDS ThreadTexts

CONSTANT Numbers   \* how many numbers a sender of the message queues sends

ASSUME NumbersAssumption == Numbers \in 1..5

-----------------------------------------------------------------------------
(* Parents that wait for their children.                                   *)

ForkWaitChild(s) == << Sleep(s), Exit >>
ForkWaitMain     == << Fork(1), Fork(2), Sleep(200), Unchecked(WaitAny),
                       Unchecked(WaitAny), Exit >>

\* The children end in the order of their numbers reversed, and main waits so.
WaitProcessesMain ==
    FlattenSeq([t \in 1..Crowd |-> << Fork(t), Sleep(10) >>])
    \o [t \in 1..Crowd |-> Unchecked(WaitPid(Crowd + 1 - t))] \o << Exit >>

\* write before the fork: the text is in the file.  fwrite before the fork:
\* it is still in the buffer, and the child gets a copy of the buffer.
WriteOnceSimpleMain  == << FileWrite, Fork(1), Exit >>
WriteOnceForkMain    == << FileWrite, Fork(1), Exit >>
WriteTwiceSimpleMain == << StdioWrite, Fork(1), Exit >>
WriteTwiceForkMain   == << StdioWrite, Fork(1), Exit >>

-----------------------------------------------------------------------------
(* Pipes.                                                                  *)

ExtractMain_Fault ==
    << PipeOpen, Fork(1), PipeClose("r"), PipeRead(1), PipeClose("w"), Exit >>

ExtractMain ==
    << PipeOpen, Fork(1), PipeClose("w"), PipeRead(1), PipeClose("r"), Exit >>
ExtractChild == << PipeClose("r"), PipeWrite(1), PipeClose("w"), Exit >>

TransmitMain ==
    << PipeOpen, Fork(1), PipeClose("w"), PipeRead(1), PipeClose("r"), Sleep(200), Exit >>
TransmitChild == << PipeClose("r"), PipeWrite(1), PipeClose("w"), Sleep(200), Exit >>

-----------------------------------------------------------------------------
(* Daemons: the first process forks a child, the child forks the daemon    *)
(* and ends; the daemon starts its work when it has lost its parent.       *)

DaemonChild == << Fork(2), Exit >>
DaemonWork  == << Put("working", 1), Sleep(300), Exit >>

DaemonizeMain == << Fork(1), Sleep(100), Exit >>
DaemonizeDaemon == Until(Orphan, << Sleep(10) >>) \o DaemonWork

DaemonPipeMain_Fault ==
    << PipeOpen, Fork(1), PipeClose("r"), PipeWrite(1), PipeClose("w"), Exit >>

DaemonPipeMain ==
    << PipeOpen, Fork(1), PipeClose("r"), Unchecked(WaitAny), PipeWrite(1),
       PipeClose("w"), Exit >>
DaemonPipeDaemon == << PipeClose("w"), PipeRead(1), PipeClose("r") >> \o DaemonWork

\* pause is called after the test of the flag that the handler sets.
PauseForFlag == Until(FlagIs(1), << Pause >>)

GroupSignalMain ==
    << OnSignal("USR1", 1), Fork(1), WaitAny, Kill({0, 1, 2}, "USR1"), Exit >>
GroupSignalDaemon == PauseForFlag \o DaemonWork

SigactionMain   == GroupSignalMain
SigactionDaemon == PauseForFlag \o << Restore("USR1") >> \o DaemonWork

\* The number of the daemon comes back through a pipe.
SignalPipeMain ==
    << PipeOpen, OnSignal("USR1", 1), Fork(1), PipeClose("w"), Unchecked(PipeRead(1)),
       PipeClose("r"), WaitAny, Kill({2}, "USR1"), Exit >>
SignalPipeChild ==
    << Fork(2), PipeClose("r"), PipeWrite(1), PipeClose("w"), Exit >>
SignalPipeDaemon == PauseForFlag \o << Restore("USR1") >> \o DaemonWork

\* The daemon answers: with USR2 when it is ready (status 0, flag 1), with
\* CHLD when it ends (status 1, flag 2).
ResponseMain ==
    << OnSignalChild("USR1", 1), Fork(1), WaitAny, OnSignal("USR2", 1),
       OnSignal("CHLD", 2), Kill({0, 1, 2}, "USR1") >>
    \o Again(FlagIs(0), << Pause >>) \o << Exit >>
ResponseDaemon ==
    PauseForFlag \o << Kill({0}, "USR2"), Restore("USR1") >> \o DaemonWork
ResponseAtExit == << Kill({0}, "CHLD") >>

-----------------------------------------------------------------------------
(* Signals.                                                                *)

SignalMain ==
    << OnSignal("TERM", 0), OnSignal("INT", 0), OnSignal("TSTP", 0),
       Sleep(10), Sleep(10), Exit >>

SendSignalParent == << Fork(1), Sleep(10), Kill({1}, "TERM"), Exit >>
SendSignalChild  == << Sleep(10), Jump(-2) >>

-----------------------------------------------------------------------------
(* Semaphores and mutexes between processes.                               *)

PosixSemChild ==
    << SemOpen("sem", 1), SemWait("sem") >> \o Critical(50)
    \o << SemPost("sem"), Sleep(100), Exit >>
PosixSemParent ==
    << Fork(1), SemOpen("sem", 1), SemWait("sem") >> \o Critical(50)
    \o << SemPost("sem"), WaitPid(1), SemRemove("sem"), Exit >>

SysvSemChild ==
    << Sleep(20), SemGet("sem"), SemWaitUndo("sem") >> \o Critical(50)
    \o << SemPostUndo("sem"), Sleep(100), Exit >>
SysvSemParent ==
    << Fork(1), SemGet("sem"), SemSet("sem", 1), Sleep(20), SemWaitUndo("sem") >>
    \o Critical(50) \o << SemPostUndo("sem"), Unchecked(WaitPid(1)), SemRemove("sem"), Exit >>

\* More resources are taken than there are: the process waits for ever.
SemaphoreSimpleMain ==
    << SemGet("sem"), SemSet("sem", 2), SemWaitUndo("sem"), SemWaitUndo("sem"),
       SemWaitUndo("sem"), Exit >>

\* A mutex that is not declared as shared, in shared memory.
MutexIpcChild ==
    << TimedLock("m") >> \o Critical(50) \o << Unlock("m"), Sleep(100), Exit >>
MutexIpcParent ==
    << ShmGet(1), MutexInitAs("m", "private"), Future(2000), Fork(1), TimedLock("m") >>
    \o Critical(50) \o << Unlock("m"), Unchecked(WaitPid(1)), MutexDestroy("m"), ShmRemove, Exit >>

MutexSeparateChild == << Sleep(20), ShmGet(0) >> \o MutexIpcChild
MutexSeparateParent ==
    << Future(2000), Fork(1), ShmGet(1), MutexInitAs("m", "private"), Sleep(20),
       TimedLock("m") >>
    \o Critical(50) \o << Unlock("m"), Unchecked(WaitPid(1)), MutexDestroy("m"), ShmRemove, Exit >>

MutexAttrIpcChild(timed) ==
    << Sleep(20), ShmGet(0) >> \o Acquire("m", timed) \o Critical(50)
    \o << Unlock("m"), Sleep(100), Exit >>
MutexAttrIpcParent(timed) ==
    << Future(2000), Fork(1), AtExit, ShmGet(1), MutexInit("m"), Sleep(20) >>
    \o Acquire("m", timed) \o Critical(50)
    \o << Unlock("m"), Unchecked(WaitPid(1)), MutexDestroy("m"), ShmRemove, Exit >>
MutexAttrIpcAtExit == << MutexDestroy("m"), ShmRemove >>

-----------------------------------------------------------------------------
(* Message queues; the message 0 is the one that ends the receiver.        *)

ReceiveLoop(k) == Again(MsgIs(1), << MsgReceive(k) >>)

MsgqueueSender ==
    << MsgGet >> \o FlattenSeq([i \in 1..Numbers |-> << MsgSend(10, 1), Sleep(10) >>])
    \o << MsgSend(10, 0), Exit >>
MsgqueueReceiver ==
    << Fork(1), AtExit, Sleep(10), MsgGet >> \o ReceiveLoop(10) \o << MsgRemove, Exit >>
CleanupQueue == << MsgRemove >>

MsgSimpleSender ==
    << Unchecked(MsgGet) >>
    \o FlattenSeq([i \in 1..Numbers |-> << Unchecked(MsgSend(10, 1)), Sleep(10) >>])
    \o << Unchecked(MsgSend(10, 0)), Exit >>
MsgSimpleReceiver ==
    << Fork(1), Sleep(10), Unchecked(MsgGet) >>
    \o Again(MsgIs(1), << Unchecked(MsgReceive(10)) >>) \o << Exit >>

\* Types 101 and up are sent and received from the last one downwards; type
\* 100 is the end.
TypedSender ==
    << MsgGet >> \o FlattenSeq([i \in 1..Numbers |-> << MsgSend(100 + i, 1), Sleep(1) >>])
    \o << Unchecked(MsgSend(100, 0)), Exit >>
PositiveReceiver_Fault ==
    << Fork(1), AtExit, Sleep(10), MsgGet >>
    \o [i \in 1..Numbers |-> MsgReceive(100 + Numbers + 1 - i)]
    \o << MsgRemove, Exit >>

PositiveReceiver ==
    << Fork(1), AtExit, Sleep(10), MsgGet >>
    \o [i \in 1..(Numbers + 1) |-> MsgReceive(100 + Numbers + 1 - i)]
    \o << MsgRemove, Exit >>

\* Here any type up to a bound that sinks with every message is taken, the
\* lowest first; the numbers above the bound are never read.
NegativeReceiver ==
    << Fork(1), AtExit, Sleep(10), MsgGet >>
    \o FlattenSeq([i \in 1..Numbers |->
          << MsgReceive(0 - (99 + Numbers + 1 - i)),
             [MsgIs(0) EXCEPT !.n = 2 * (Numbers - i)] >>])
    \o << MsgRemove, Exit >>

\* One sender, one receiver for each type; the sender removes the queue when
\* it ends, after it has sent the last messages.
OneSenderParent ==
    << MsgGet, Fork(1), Fork(2), AtExit >>
    \o FlattenSeq([i \in 1..Numbers |-> << MsgSend((i % 2) + 1, 1), Sleep(1) >>])
    \o << Unchecked(MsgSend(1, 0)), Unchecked(MsgSend(2, 0)), Exit >>
OneSenderChild(t) == ReceiveLoop(t) \o << Exit >>

\* Every run of the program removes the queue when it ends.
HelloSend    == << MsgGet, AtExit, MsgSend(10, 1), Exit >>
HelloReceive == << MsgGet, AtExit, MsgReceive(10), Exit >>

\* Clients ask a worker for squares; the semaphore limits the open requests.
SemaphoreWorker ==
    << MsgGet, MsgReceive(1000) >>
    \o Until(MsgIs(0), << Sleep(10), MsgReply, MsgReceive(1000) >>) \o << Exit >>
SemaphoreClient(i) ==
    << MsgGet, SemGet("sem"), SemWaitUndo("sem"), MsgSend(1000, i), MsgReceive(i),
       SemPostUndo("sem"), Exit >>
SemaphoreParent ==
    << SemGet("sem"), SemSet("sem", 2), Fork(1), Sleep(10), Fork(2), Fork(3), Fork(4),
       MsgGet, SemGet("sem"), WaitAny, WaitAny, WaitAny, MsgSend(1000, 0), Exit >>
=============================================================================
