----------------------------- MODULE DaemonLock -----------------------------
(***************************************************************************)
(* posix/daemon/daemon.c: the life of the daemon and its lock file.        *)
(*                                                                         *)
(* Each run of the program is a process that starts the daemon, stops it   *)
(* or shows its status. A start checks the lock file, forks twice, creates *)
(* the file exclusively, writes its pid into it, installs signal handlers, *)
(* binds the addresses of the service and serves. The parents of the two   *)
(* forks only exit, so one process of the model carries the whole start.   *)
(*                                                                         *)
(* The file is named by the process that created it, so that a lock file   *)
(* removed and created anew is another one. A pid is not reused.           *)
(*                                                                         *)
(* An operator X_Fault is a wrong variant of X that nothing uses.          *)
(***************************************************************************)
EXTENDS Naturals, FiniteSets

CONSTANTS
    Procs,          \* the runs of the program
    Circumstances,  \* what may happen around them
    NumAddrs,       \* addresses getaddrinfo gives for the service
    MaxKills,       \* bound on the number of daemons that are killed
    Old,            \* the daemon that died before the model begins
    NONE            \* no lock file, address not bound

ASSUME DaemonAssumption ==
    /\ Circumstances \subseteq {"starts", "orderly", "fresh", "any"}
    /\ NumAddrs \in Nat \ {0} /\ MaxKills \in Nat
    /\ Old \notin Procs /\ NONE \notin Procs \cup {Old}

(* The circumstances:                                                      *)
(*   starts   starts and status calls at any time, on a fresh system       *)
(*   orderly  any commands, each when those before are through; daemons    *)
(*            may be killed, one may have been long before                 *)
(*   fresh    any commands at any time, on a fresh system; stop is all     *)
(*            that ends a daemon                                           *)
(*   any      any commands at any time, kills, clients that go away,       *)
(*            daemons that fail while they set up their service            *)

Addrs == 1 .. NumAddrs
Files == Procs \cup {Old}

VARIABLES
    around,     \* the circumstances
    command,    \* what each process has been asked to do
    again,      \* the process is in show_status
    pc,
    lock,       \* the file that has the name lock_file
    written,    \* the files that hold the pid of their creator
    fd, pid,    \* file opened and pid read by get_daemon_pid, while in use
    bound,      \* which process has bound each address
    lingers,    \* addresses that connections of a former daemon still use
    addr        \* next address of the loop over getaddrinfo's result

vars == <<around, command, again, pc, lock, written, fd, pid, bound, lingers, addr>>

Fresh  == around \in {"starts", "fresh"}
Ended  == {"done", "failed", "killed", "interrupted"}
Alive(p) == p \in Procs /\ pc[p] \notin Ended \cup {"idle"}
Daemon == {"write", "handlers", "bind", "serve", "exit1", "exit2", "exit_failed"}

Init ==
    /\ around \in Circumstances
    /\ command \in [Procs -> {"start", "stop", "status"}]
    /\ around = "starts" => \A p \in Procs : command[p] # "stop"
    /\ again = [p \in Procs |-> command[p] = "status"]
    /\ pc = [p \in Procs |-> "idle"]
    /\ lock \in IF Fresh THEN {NONE} ELSE {NONE, Old}
    /\ written = {Old}
    /\ fd = [p \in Procs |-> NONE]
    /\ pid = [p \in Procs |-> NONE]
    /\ bound = [a \in Addrs |-> NONE]
    /\ lingers = {}
    /\ addr = [p \in Procs |-> 1]

Step(p, from, to) == pc[p] = from /\ pc' = [pc EXCEPT ![p] = to]

Begin(p) ==
    /\ around = "orderly" => \A q \in Procs : ~Alive(q) \/ pc[q] = "serve"
    /\ Step(p, "idle", "open")
    /\ UNCHANGED <<around, command, again, lock, written, fd, pid, bound, lingers, addr>>

-----------------------------------------------------------------------------
(* get_daemon_pid *)

(* The pid 0 stands for an empty file: atoi("") is 0, and kill(0, 0)       *)
(* succeeds, because it is about the own process group.                    *)
Exists(q) == q = 0 \/ Alive(q)

(* Where the caller goes with the answer "no daemon". *)
NotRunning(p) == IF command[p] = "start" THEN "create" ELSE "done"

(* Where the caller goes with the pid q; a start does not take 0 for a     *)
(* running daemon.                                                         *)
Running(p, q) ==
    CASE command[p] = "start" -> IF q = 0 THEN "create" ELSE "done"
      [] command[p] # "start" /\ ~again[p] -> "term"
      [] OTHER -> "done"

OpenLock(p) ==
    /\ Step(p, "open", IF lock = NONE THEN NotRunning(p) ELSE "read")
    /\ fd' = [fd EXCEPT ![p] = lock]
    /\ UNCHANGED <<around, command, again, lock, written, pid, bound, lingers, addr>>

ReadLock(p) ==
    /\ Step(p, "read", "probe")
    /\ pid' = [pid EXCEPT ![p] = IF fd[p] \in written THEN fd[p] ELSE 0]
    /\ fd' = [fd EXCEPT ![p] = NONE]
    /\ UNCHANGED <<around, command, again, lock, written, bound, lingers, addr>>

Stale_Fault(p) == FALSE
Stale(p) == ~Exists(pid[p])

Probe(p) ==
    /\ Step(p, "probe", IF Stale(p) THEN "unlink" ELSE Running(p, pid[p]))
    /\ pid' = [pid EXCEPT ![p] = IF pc'[p] = "term" THEN @ ELSE NONE]
    /\ UNCHANGED <<around, command, again, lock, written, fd, bound, lingers, addr>>

(* unlink removes whatever file has the name by now. *)
UnlinkStale(p) ==
    /\ Step(p, "unlink", NotRunning(p))
    /\ lock' = NONE
    /\ UNCHANGED <<around, command, again, written, fd, pid, bound, lingers, addr>>

GetDaemonPid(p) == OpenLock(p) \/ ReadLock(p) \/ Probe(p) \/ UnlinkStale(p)

-----------------------------------------------------------------------------
(* The end of a process *)

(* The kernel closes the sockets.  Where a connection has been closed by   *)
(* the daemon before its client did, the address stays in use for a while: *)
(* bind is called without SO_REUSEADDR.                                    *)
Unbind(d) ==
    LET own == {a \in Addrs : bound[a] = d} IN
    /\ bound' = [a \in Addrs |-> IF a \in own THEN NONE ELSE bound[a]]
    /\ \E L \in SUBSET own : lingers' = lingers \cup L

Expire(a) ==
    /\ a \in lingers /\ lingers' = lingers \ {a}
    /\ UNCHANGED <<around, command, again, pc, lock, written, fd, pid, bound, addr>>

(* What SIGTERM does to a daemon: before the handlers are installed it     *)
(* kills, then it runs signal_handler; while that runs it is blocked. A    *)
(* daemon that is already in exit may begin with the handler again.        *)
AfterTerm_Fault(d) == {pc[d]}
AfterTerm(d) ==
    CASE pc[d] \in {"write", "handlers"} -> {"killed"}
      [] pc[d] \in {"bind", "serve"} -> {"exit1"}
      [] pc[d] = "exit_failed" -> {"exit1", "exit_failed"}
      [] OTHER -> {pc[d]}

(* The first call of exit_handler, by signal_handler, and the second one,  *)
(* which atexit has registered.                                            *)
Unlinked_Fault == lock
Unlinked == NONE

ExitHandler(p) ==
    /\ Step(p, "exit1", "exit2")
    /\ lock' = Unlinked
    /\ UNCHANGED <<around, command, again, written, fd, pid, bound, lingers, addr>>

AtExit(p) ==
    /\ \/ Step(p, "exit2", "done") \/ Step(p, "exit_failed", "failed")
    /\ lock' = Unlinked
    /\ Unbind(p)
    /\ UNCHANGED <<around, command, again, written, fd, pid, addr>>

(* An answer to a client that has gone away raises SIGPIPE, for which the  *)
(* same handler is installed.                                              *)
Pipe(d) ==
    /\ around = "any"
    /\ Step(d, "serve", "exit1")
    /\ UNCHANGED <<around, command, again, lock, written, fd, pid, bound, lingers, addr>>

Kill(d) ==
    /\ ~Fresh
    /\ pc[d] \in Daemon
    /\ Cardinality({q \in Procs : pc[q] = "killed"}) < MaxKills
    /\ Step(d, pc[d], "killed")
    /\ Unbind(d)
    /\ UNCHANGED <<around, command, again, lock, written, fd, pid, addr>>

-----------------------------------------------------------------------------
(* start *)

CreateLock_Fault == TRUE
CreateLock == lock = NONE

(* open with O_CREAT and O_EXCL. *)
Create(p) ==
    /\ pc[p] = "create"
    /\ IF CreateLock
         THEN lock' = p /\ pc' = [pc EXCEPT ![p] = "write"]
         ELSE pc' = [pc EXCEPT ![p] = "failed"] /\ UNCHANGED lock
    /\ UNCHANGED <<around, command, again, written, fd, pid, bound, lingers, addr>>

WritePid(p) ==
    /\ Step(p, "write", "handlers")
    /\ written' = written \cup {p}
    /\ UNCHANGED <<around, command, again, lock, fd, pid, bound, lingers, addr>>

InstallHandlers(p) ==
    /\ Step(p, "handlers", "bind")
    /\ UNCHANGED <<around, command, again, lock, written, fd, pid, bound, lingers, addr>>

(* One address after the other; an address that is in use is skipped.      *)
MoreAddrs(p) == addr[p] <= NumAddrs

Bind(p) ==
    /\ pc[p] = "bind" /\ MoreAddrs(p)
    /\ bound' = [bound EXCEPT
                   ![addr[p]] = IF @ = NONE /\ addr[p] \notin lingers THEN p ELSE @]
    /\ addr' = [addr EXCEPT ![p] = @ + 1]
    /\ UNCHANGED <<around, command, again, pc, lock, written, fd, pid, lingers>>

(* getaddrinfo fails, or pthread_create for an address that is bound. *)
GiveUp(p) ==
    /\ around = "any"
    /\ Step(p, "bind", "exit_failed")
    /\ UNCHANGED <<around, command, again, lock, written, fd, pid, bound, lingers, addr>>

Served(p) == \E a \in Addrs : bound[a] = p

Serve(p) ==
    /\ ~MoreAddrs(p)
    /\ Step(p, "bind", IF Served(p) THEN "serve" ELSE "exit_failed")
    /\ UNCHANGED <<around, command, again, lock, written, fd, pid, bound, lingers, addr>>

Start(p) ==
    \/ Create(p) \/ WritePid(p) \/ InstallHandlers(p) \/ Bind(p) \/ GiveUp(p)
    \/ Serve(p) \/ ExitHandler(p) \/ AtExit(p)

-----------------------------------------------------------------------------
(* stop *)

(* kill(0, SIGTERM) goes to the own process group. *)
TermGroup(p) ==
    /\ pid[p] = 0
    /\ Step(p, "term", "interrupted")
    /\ UNCHANGED <<around, command, again, lock, written, fd, pid, bound, lingers, addr>>

(* A daemon it kills, one without handlers, has not bound an address yet.  *)
TermDaemon(p) ==
    /\ pc[p] = "term" /\ pid[p] # 0 /\ Alive(pid[p])
    /\ \E next \in AfterTerm(pid[p]) :
          pc' = [pc EXCEPT ![p] = "open", ![pid[p]] = next]
    /\ again' = [again EXCEPT ![p] = TRUE]
    /\ pid' = [pid EXCEPT ![p] = NONE]
    /\ UNCHANGED <<around, command, lock, written, fd, bound, lingers, addr>>

TermFails(p) ==
    /\ pid[p] # 0 /\ ~Alive(pid[p])
    /\ Step(p, "term", "failed")
    /\ UNCHANGED <<around, command, again, lock, written, fd, pid, bound, lingers, addr>>

Stop(p) == TermGroup(p) \/ TermDaemon(p) \/ TermFails(p)

-----------------------------------------------------------------------------
ProcStep(p) == Begin(p) \/ GetDaemonPid(p) \/ Start(p) \/ Stop(p)

Next ==
    \/ \E p \in Procs : ProcStep(p) \/ Kill(p) \/ Pipe(p)
    \/ \E a \in Addrs : Expire(a)

Spec == Init /\ [][Next]_vars

(* The scheduler does not stand still while a process can run; nobody has  *)
(* to give a command.  That much is enough, as no process loops.           *)
FairSpec ==
    Spec /\ WF_vars(\E p \in Procs : GetDaemonPid(p) \/ Start(p) \/ Stop(p))

-----------------------------------------------------------------------------
(* Properties *)

PCs == {"idle", "open", "read", "probe", "unlink", "create", "term"}
       \cup Daemon \cup Ended

(* Every variable has its type. *)
TypeOK ==
    /\ around \in Circumstances
    /\ command \in [Procs -> {"start", "stop", "status"}] /\ again \in [Procs -> BOOLEAN]
    /\ pc \in [Procs -> PCs]
    /\ lock \in Files \cup {NONE} /\ written \subseteq Files
    /\ fd \in [Procs -> Files \cup {NONE}]
    /\ pid \in [Procs -> Files \cup {NONE, 0}]
    /\ bound \in [Addrs -> Procs \cup {NONE}] /\ lingers \subseteq Addrs
    /\ addr \in [Procs -> 1 .. NumAddrs + 1]

(* While a daemon serves, the lock file holds its pid: stop finds it, and  *)
(* status does not say "not running". (Creation, line 200, against the two *)
(* removals by name, lines 46 and 99.)                                     *)
ServerNamed ==
    \A d \in Procs : pc[d] = "serve" => lock = d /\ d \in written

(* The lock file names the daemon that serves as long as nothing removes a *)
(* file while another command runs: on a fresh system with any starts at   *)
(* the same time, and with any commands one by one.                        *)
LockNamesServer == around \in {"starts", "orderly"} => ServerNamed

(* The file of a daemon that is gone stays behind only if it was killed,   *)
(* with SIGKILL or by a SIGTERM before its handlers: every other end       *)
(* removes it, whatever the others do.                                     *)
OnlyKilledLeaveLock ==
    lock \in Procs => Alive(lock) \/ pc[lock] = "killed"

(* A start that meets nobody serving, and no address in use, comes to      *)
(* serve, also if the daemon before it was killed and left its file.  What *)
(* it does not get over is the file of a daemon killed before it has       *)
(* written its pid: nobody removes that one.                               *)
Recoverable == lingers = {} /\ \A q \in Procs : pc[q] # "serve"
EmptyFile   == lock # NONE /\ lock \notin written

Recovers ==
    \A p \in Procs :
        (around = "orderly" /\ pc[p] = "open" /\ command[p] = "start" /\ Recoverable)
            ~> (pc[p] \in {"serve", "killed"} \/ (pc[p] = "failed" /\ EmptyFile))

(* stop stops: a daemon that serves when the command begins, in orderly    *)
(* circumstances, does not serve for ever.                                 *)
StopStops ==
    (\E p \in Procs : /\ around = "orderly" /\ pc[p] = "open"
                      /\ command[p] = "stop" /\ ~again[p])
        ~> (\A d \in Procs : pc[d] # "serve")
=============================================================================
