---------------------------- MODULE Instructions ----------------------------
(***************************************************************************)
(* The calls from which the small programs of posix/threads, posix/ipc and *)
(* posix/processes are made.  A program text is a sequence of such calls,  *)
(* one text per thread function or process; local computations and output  *)
(* without consequence are left out.  What a call does is in Posix.tla.    *)
(*                                                                         *)
(* Fields: op the call, on the object it is about, n a number (a value, a  *)
(* time or a distance to jump), arg a second argument, and bad what        *)
(* happens when the call fails: the argument of handle_error after it      *)
(* ("process", "task") or "ignore" where the return code is not looked at. *)
(***************************************************************************)
EXTENDS Integers, Sequences

LOCAL Call(op, on, n, arg) ==
    [op |-> op, on |-> on, n |-> n, arg |-> arg, bad |-> "process"]

\* The same call with its return code ignored, or followed by a handle_error
\* that ends only the thread (THREAD_EXIT).
Unchecked(i) == [i EXCEPT !.bad = "ignore"]
OrEndTask(i) == [i EXCEPT !.bad = "task"]

-----------------------------------------------------------------------------
\* Control: a jump is relative to the next call.  A test is a call that jumps
\* in one of its outcomes; what follows it decides how far.
Jump(n)       == Call("jump", "", n, 0)
MemIs(x, v)   == Call("memis", x, 0, v)    \* test: the variable x is v
MsgIs(v)      == Call("msgis", "", 0, v)   \* test: the message received is v
Sleep(n)        == Call("sleep", "", n, 0)
Future(n)       == Call("future", "", n, 0)  \* get_future: a deadline n ahead
End             == Call("end", "", 0, 0)     \* return from a thread function
Exit            == Call("exit", "", 0, 0)
AtExit          == Call("atexit", "", 0, 0)

\* Threads and processes
Create(t)       == Call("create", t, 0, 0)
Join(t)         == Call("join", t, 0, 0)
Fork(t)         == Call("fork", t, 0, 0)
WaitPid(t)      == Call("waitpid", t, 0, 0)
WaitAny         == Call("waitany", 0, 0, 0)

\* Mutexes and read-write locks
MutexInit(m)       == Call("mutexinit", m, 0, "normal")
MutexInitAs(m, k)  == Call("mutexinit", m, 0, k)
MutexDestroy(m)    == Unchecked(Call("mutexdestroy", m, 0, 0))
Lock(m)            == Call("lock", m, 0, 0)
ReadLock(m)        == Call("readlock", m, 0, 0)
TryLock(m)         == Call("trylock", m, 0, 0)    \* test: it is held
TimedLock(m)       == Call("timedlock", m, 0, 0)  \* test or failure: too late
Unlock(m)          == Unchecked(Call("unlock", m, 0, 0))

\* Condition variables, barriers and once
CondWait(c, m)       == Call("condwait", c, 0, m)
CondTimedWait(c, m)  == Call("condtimedwait", c, 0, m)
CondSignal(c)        == Call("condsignal", c, 0, 0)
CondBroadcast(c)     == Call("condbroadcast", c, 0, 0)
BarrierInit(b, n)    == Call("barrierinit", b, n, 0)
BarrierWait(b)       == Call("barrierwait", b, 0, 0)  \* test: not the serial thread
Once                 == Call("once", "", 0, 0)        \* test: it is done already
OnceDone             == Call("oncedone", "", 0, 0)

\* Semaphores; SemUndo is semop with SEM_UNDO
SemOpen(s, v)    == Call("semopen", s, v, 0)
SemGet(s)        == Call("semopen", s, 0, 0)
SemSet(s, v)     == Call("semset", s, v, 0)
SemWait(s)       == Call("semwait", s, 0, 0)
SemPost(s)       == Call("sempost", s, 0, 0)
SemWaitUndo(s)   == Call("semwait", s, 1, 0)
SemPostUndo(s)   == Call("sempost", s, 1, 0)
SemRemove(s)     == Unchecked(Call("semremove", s, 0, 0))

\* Shared memory, message queue and pipe
ShmGet(create)     == Call("shmget", "", create, 0)
ShmRemove          == Unchecked(Call("shmremove", "", 0, 0))
MsgGet             == Call("msgget", "", 0, 0)
MsgSend(k, v)      == Call("msgsnd", "", v, k)
MsgReply           == Call("msgreply", "", 0, 0)
MsgReceive(k)      == Call("msgrcv", "", 0, k)
MsgRemove          == Unchecked(Call("msgremove", "", 0, 0))
PipeOpen           == Call("pipeopen", "", 0, 0)
PipeWrite(n)       == Call("pipewrite", "", n, 0)
PipeRead(n)        == Call("piperead", "", n, 0)
PipeReadAs(x)      == Call("pipereadas", x, 0, 0)
PipeClose(e)       == Call("pipeclose", e, 0, 0)

\* Signals.  A handler sets the flag of its process to v, if v is not 0; the
\* one of OnSignalChild does so outside of main only, and registers the exit
\* handler there; the one of OnSignalExit ends the process (for SIGPIPE, see
\* Sockets).
OnSignal(s, v)      == Call("onsignal", s, v, "all")
OnSignalChild(s, v) == Call("onsignal", s, v, "children")
OnSignalExit(s)     == Call("onsignal", s, 0, "exit")
Restore(s)          == Call("restore", s, 0, 0)
Kill(ts, s)         == Call("kill", s, 0, ts)
Pause               == Call("pause", "", 0, 0)
FlagIs(v)           == Call("flagis", "", 0, v)   \* test: the flag is v
Orphan              == Call("orphan", "", 0, 0)   \* test: the parent has ended

\* Memory that tasks share: a load, a store of the loaded value plus n, a
\* constant; a line of standard input (test: its end); a buffered and an
\* unbuffered write to a file; segments of an array, by number
Load(x)         == Call("load", x, 0, 0)
Store(x, n)     == Call("store", x, n, 0)
Put(x, v)       == Call("put", x, v, 0)
AddUp(x, y)     == Call("addup", x, 0, y)     \* x += y
Garbage(x)      == Call("garbage", x, 0, 0)   \* a variable without initial value
GetLine         == Call("getline", "", 0, 0)
FileWrite       == Call("filewrite", "", 0, 0)
StdioWrite      == Call("stdiowrite", "", 0, 0)
GivePart(k)     == Call("givepart", k, 0, 0)  \* the segment gets its content
SortPart(k)     == Call("sortpart", k, 0, k)
MergeParts(k,j) == Call("mergeparts", k, 0, j)

\* Sockets: the objects of listen, accept and connect are ports; TryConnect is a
\* test that goes on to the next address after a refusal.  HandOver gives the
\* accepted connection to a new thread or process.  What is sent is named by
\* its kind; after a send of a string that fails the loop of write_string goes
\* round for ever.
Listen(p)      == Call("listen", p, 0, 0)
Accept(p)      == Call("accept", p, 0, 0)
HandOver       == Call("handover", "", 0, 0)
Connect(p)     == Call("connect", p, 0, "only")
TryConnect(p)  == Call("connect", p, 0, "first")   \* test: it is connected
SocketPair(t, u) == Call("socketpair", t, 0, u)
Close          == Call("close", "", 0, 0)
Send(what, n)  == Call("send", what, n, "")
SendAsMany     == Call("send", "square", 0, "asmany")
SendAllOf(what, n) == [Send(what, n) EXCEPT !.bad = "spin"]
Receive        == Call("recv", "", 0, 0)           \* test: the stream has ended
ReceiveAll     == Call("recvall", "", 0, 0)
ReadLength     == Call("readlength", "", 0, "stop")  \* test: it is 0
ReadLengthOrDie == Call("readlength", "", 0, "die")  \* test: it is 0
ReadContent    == Call("readcontent", "", 0, 0)
ReadWord(w)    == Call("readword", "", 0, w)       \* test: it is another one
Show(x)        == Call("show", "", x, 0)
SendTo(what, u, n) == Call("sendto", what, n, u)
ReceiveFrom    == Call("recvfrom", "", 0, 0)

-----------------------------------------------------------------------------
\* Statements: if the test holds do no, else yes; repeat until the test holds;
\* repeat the test, with body in between, while it holds.
Branch(test, yes, no) ==
    << [test EXCEPT !.n = Len(yes) + 1] >> \o yes \o << Jump(Len(no)) >> \o no
Until(test, body) ==
    << [test EXCEPT !.n = Len(body) + 1] >> \o body \o << Jump(0 - (Len(body) + 2)) >>
Retry(test, body) ==
    << [test EXCEPT !.n = 1], Jump(Len(body) + 1) >> \o body
    \o << Jump(0 - (Len(body) + 3)) >>

\* Do body while the test holds.
Again(test, body) == body \o << [test EXCEPT !.n = 0 - (Len(body) + 1)] >>

\* The loops over all threads, unrolled.
CreateAll(n) == [t \in 1..n |-> Create(t)]
JoinAll(n)   == [t \in 1..n |-> Join(t)]

Count(x) == << Load(x), Store(x, 1) >>
=============================================================================
