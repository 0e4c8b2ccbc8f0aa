--------------------------- MODULE DaemonLockProofs ---------------------------
(***************************************************************************)
(* Proofs about the lock file of the daemon, for any number of commands,   *)
(* of addresses and of kills.                                              *)
(***************************************************************************)
EXTENDS DaemonLock, TLAPS

-----------------------------------------------------------------------------
(* Types.                                                                  *)

LEMMA TypeInit == Init => TypeOK
BY DaemonAssumption DEF Init, TypeOK, PCs, Addrs, Files, Fresh

LEMMA UnbindType ==
    ASSUME TypeOK, NEW d, Unbind(d)
    PROVE  bound' \in [Addrs -> Procs \cup {NONE}] /\ lingers' \subseteq Addrs
BY DEF TypeOK, Unbind

LEMMA TypeStep == TypeOK /\ [Next]_vars => TypeOK'
<1> SUFFICES ASSUME TypeOK, [Next]_vars PROVE TypeOK'
    OBVIOUS
<1> USE DaemonAssumption DEF TypeOK, PCs, Daemon, Ended, Files, Addrs
<1>1. CASE UNCHANGED vars
    BY <1>1 DEF vars
<1>2. ASSUME NEW p \in Procs, Begin(p) PROVE TypeOK'
    BY <1>2 DEF Begin, Step
<1>3. ASSUME NEW p \in Procs, GetDaemonPid(p) PROVE TypeOK'
  <2>1. CASE OpenLock(p)
    BY <2>1 DEF OpenLock, NotRunning, Step
  <2>2. CASE ReadLock(p)
    BY <2>2 DEF ReadLock, Step
  <2>3. CASE Probe(p)
    BY <2>3 DEF Probe, Running, NotRunning, Step
  <2>4. CASE UnlinkStale(p)
    BY <2>4 DEF UnlinkStale, NotRunning, Step
  <2> QED BY <1>3, <2>1, <2>2, <2>3, <2>4 DEF GetDaemonPid
<1>4. ASSUME NEW p \in Procs, Start(p) PROVE TypeOK'
  <2>1. CASE Create(p)
    BY <2>1 DEF Create
  <2>2. CASE WritePid(p)
    BY <2>2 DEF WritePid, Step
  <2>3. CASE InstallHandlers(p)
    BY <2>3 DEF InstallHandlers, Step
  <2>4. CASE Bind(p)
    BY <2>4 DEF Bind, MoreAddrs
  <2>5. CASE Serve(p)
    BY <2>5 DEF Serve, Step
  <2>8. CASE GiveUp(p)
    BY <2>8 DEF GiveUp, Step
  <2>6. CASE ExitHandler(p)
    BY <2>6 DEF ExitHandler, Unlinked, Step
  <2>7. CASE AtExit(p)
    <3>1. bound' \in [Addrs -> Procs \cup {NONE}] /\ lingers' \subseteq Addrs
        BY <2>7, UnbindType DEF AtExit
    <3>2. pc' = [pc EXCEPT ![p] = "done"] \/ pc' = [pc EXCEPT ![p] = "failed"]
        BY <2>7 DEF AtExit, Step
    <3>3. lock' = NONE
        BY <2>7 DEF AtExit, Unlinked
    <3>4. UNCHANGED <<around, command, again, written, fd, pid, addr>>
        BY <2>7 DEF AtExit
    <3>5. pc' \in [Procs -> PCs]
        BY <3>2
    <3> QED BY <3>1, <3>3, <3>4, <3>5
  <2> QED BY <1>4, <2>1, <2>2, <2>3, <2>4, <2>5, <2>6, <2>7, <2>8 DEF Start
<1>5. ASSUME NEW p \in Procs, Stop(p) PROVE TypeOK'
  <2>1. CASE TermGroup(p)
    BY <2>1 DEF TermGroup, Step
  <2>2. CASE TermDaemon(p)
    <3>1. PICK next \in AfterTerm(pid[p]) :
            pc' = [pc EXCEPT ![p] = "open", ![pid[p]] = next]
        BY <2>2 DEF TermDaemon
    <3>2. pid[p] \in Procs
        BY <2>2 DEF TermDaemon, Alive
    <3>3. next \in PCs
        BY <3>1, <3>2 DEF AfterTerm
    <3> QED BY <2>2, <3>1, <3>2, <3>3 DEF TermDaemon
  <2>3. CASE TermFails(p)
    BY <2>3 DEF TermFails, Step
  <2> QED BY <1>5, <2>1, <2>2, <2>3 DEF Stop
<1>6. ASSUME NEW p \in Procs, Kill(p) PROVE TypeOK'
  <2>1. bound' \in [Addrs -> Procs \cup {NONE}] /\ lingers' \subseteq Addrs
      BY <1>6, UnbindType DEF Kill
  <2> QED BY <1>6, <2>1 DEF Kill, Step
<1>7. ASSUME NEW p \in Procs, Pipe(p) PROVE TypeOK'
    BY <1>7 DEF Pipe, Step
<1>8. ASSUME NEW a \in Addrs, Expire(a) PROVE TypeOK'
    BY <1>8 DEF Expire
<1> QED BY <1>1, <1>2, <1>3, <1>4, <1>5, <1>6, <1>7, <1>8 DEF Next, ProcStep

(* The variables of all commands have their types: the loop over the       *)
(* addresses stays within them, only processes have an address bound.      *)
THEOREM TypeCorrect == Spec => []TypeOK
<1>1. Init => TypeOK
    BY TypeInit
<1>2. TypeOK /\ [Next]_vars => TypeOK'
    BY TypeStep
<1> QED BY <1>1, <1>2, PTL DEF Spec

-----------------------------------------------------------------------------
(* Who leaves the file.                                                    *)

\* The creator of the file is a daemon on its way, or was killed.
LockOwner == lock \in Procs => pc[lock] \in Daemon \cup {"killed"}

LEMMA OwnerStep == TypeOK /\ LockOwner /\ [Next]_vars => LockOwner'
<1> SUFFICES ASSUME TypeOK, LockOwner, [Next]_vars PROVE LockOwner'
    OBVIOUS
<1> USE DaemonAssumption DEF TypeOK, LockOwner, PCs, Daemon, Ended
<1>1. CASE UNCHANGED vars
    BY <1>1 DEF vars
<1>2. ASSUME NEW p \in Procs, Begin(p) PROVE LockOwner'
    BY <1>2 DEF Begin, Step
<1>3. ASSUME NEW p \in Procs, GetDaemonPid(p) PROVE LockOwner'
  <2>1. CASE OpenLock(p)
    BY <2>1 DEF OpenLock, Step
  <2>2. CASE ReadLock(p)
    BY <2>2 DEF ReadLock, Step
  <2>3. CASE Probe(p)
    BY <2>3 DEF Probe, Step
  <2>4. CASE UnlinkStale(p)
    BY <2>4 DEF UnlinkStale
  <2> QED BY <1>3, <2>1, <2>2, <2>3, <2>4 DEF GetDaemonPid
<1>4. ASSUME NEW p \in Procs, Start(p) PROVE LockOwner'
  <2>1. CASE Create(p)
    BY <2>1 DEF Create
  <2>2. CASE WritePid(p) \/ InstallHandlers(p) \/ GiveUp(p) \/ Serve(p)
    BY <2>2 DEF WritePid, InstallHandlers, GiveUp, Serve, Step
  <2>3. CASE Bind(p)
    BY <2>3 DEF Bind
  <2>4. CASE ExitHandler(p) \/ AtExit(p)
    BY <2>4 DEF ExitHandler, AtExit, Unlinked
  <2> QED BY <1>4, <2>1, <2>2, <2>3, <2>4 DEF Start
<1>5. ASSUME NEW p \in Procs, Stop(p) PROVE LockOwner'
  <2>1. CASE TermGroup(p) \/ TermFails(p)
    BY <2>1 DEF TermGroup, TermFails, Step
  <2>2. CASE TermDaemon(p)
    <3>1. PICK next \in AfterTerm(pid[p]) :
            pc' = [pc EXCEPT ![p] = "open", ![pid[p]] = next]
        BY <2>2 DEF TermDaemon
    <3>2. lock' = lock /\ pc[p] = "term" /\ pid[p] \in Procs
        BY <2>2 DEF TermDaemon, Alive
    <3>3. pc[pid[p]] \in Daemon => next \in Daemon \cup {"killed"}
        BY <3>1 DEF AfterTerm
    <3>4. pc[pid[p]] = "killed" => next = "killed"
        BY <3>1 DEF AfterTerm
    <3> QED BY <3>1, <3>2, <3>3, <3>4
  <2> QED BY <1>5, <2>1, <2>2 DEF Stop
<1>6. ASSUME NEW p \in Procs, Kill(p) PROVE LockOwner'
    BY <1>6 DEF Kill, Step
<1>7. ASSUME NEW p \in Procs, Pipe(p) PROVE LockOwner'
    BY <1>7 DEF Pipe, Step
<1>8. ASSUME NEW a \in Addrs, Expire(a) PROVE LockOwner'
    BY <1>8 DEF Expire
<1> QED BY <1>1, <1>2, <1>3, <1>4, <1>5, <1>6, <1>7, <1>8 DEF Next, ProcStep

(* Whatever the commands do and however they overlap, a lock file stays    *)
(* behind only if its daemon was killed: every other end removes it.       *)
THEOREM OnlyKilled == Spec => []OnlyKilledLeaveLock
<1>1. Init => LockOwner
    BY DaemonAssumption DEF Init, LockOwner, Fresh
<1>2. TypeOK /\ LockOwner => OnlyKilledLeaveLock
    BY DEF LockOwner, OnlyKilledLeaveLock, Alive, Daemon, Ended
<1> QED BY <1>1, <1>2, OwnerStep, TypeCorrect, PTL DEF Spec

-----------------------------------------------------------------------------
(* Whom the file names.  On a fresh system with starts and status calls    *)
(* only, the first daemon that creates the file stays.                     *)

Young == {"write", "handlers", "bind"}

StartsOnly ==
    \A p \in Procs :
        /\ command[p] # "stop" /\ (again[p] <=> command[p] = "status")
        /\ pc[p] \notin {"term", "unlink", "exit1", "exit2", "exit_failed"}

OneCreator ==
    \A p \in Procs : p # lock => pc[p] \notin Young \cup {"serve"} /\ addr[p] = 1

CreatorWell ==
    lock # NONE =>
        /\ lock \in Procs /\ pc[lock] \in Young \cup {"serve"}
        /\ pc[lock] # "write" => lock \in written
        /\ \A a \in Addrs : a < addr[lock] => bound[a] = lock

BoundByCreator == lingers = {} /\ \A a \in Addrs : bound[a] \in {NONE, lock}

ReadersFollow ==
    \A p \in Procs :
        /\ pc[p] = "read" => lock # NONE /\ fd[p] = lock
        /\ pc[p] = "probe" => pid[p] = 0 \/ (lock # NONE /\ pid[p] = lock)

StartsInv ==
    around = "starts" =>
        StartsOnly /\ OneCreator /\ CreatorWell /\ BoundByCreator /\ ReadersFollow

-----------------------------------------------------------------------------
(* With commands that are given one by one, at most one of them is at work *)
(* beside daemons that serve or come to their end.                         *)

Acting  == {"open", "read", "probe", "unlink", "create", "term"} \cup Young
Leaving == {"exit1", "exit2", "exit_failed"}

OneActs == \A p, q \in Procs : pc[p] \in Acting /\ pc[q] \in Acting => p = q

StartsAct ==
    \A p \in Procs :
        /\ pc[p] \in Young \cup {"create"} => command[p] = "start"
        /\ pc[p] = "term" => command[p] # "start"

\* Nobody starts a daemon while another one comes to its end.
StartAlone ==
    \A p, q \in Procs :
        pc[p] \in Acting /\ command[p] = "start" => pc[q] \notin Leaving

NoneServes == \A d \in Procs : pc[d] # "serve"

LeavingAlone == (\E p \in Procs : pc[p] \in Leaving \cup {"unlink"}) => NoneServes

YoungNamed ==
    \A p \in Procs :
        /\ pc[p] \in Young => lock = p
        /\ pc[p] \in {"handlers", "bind"} => p \in written

\* What a command has read is still in the file, if there is one.
ReadStays ==
    \A p \in Procs :
        /\ pc[p] = "read" => lock \in {NONE, fd[p]}
        /\ pc[p] = "probe" => pid[p] = 0 \/ lock \in {NONE, pid[p]}

OrderlyInv ==
    around = "orderly" =>
        /\ OneActs /\ StartsAct /\ StartAlone /\ LeavingAlone
        /\ ServerNamed /\ YoungNamed /\ ReadStays

-----------------------------------------------------------------------------
LEMMA AroundStays == [Next]_vars => around' = around /\ command' = command
<1>1. ASSUME NEW p, Begin(p) PROVE UNCHANGED <<around, command>>
    BY <1>1 DEF Begin
<1>2. ASSUME NEW p, GetDaemonPid(p) PROVE UNCHANGED <<around, command>>
    BY <1>2 DEF GetDaemonPid, OpenLock, ReadLock, Probe, UnlinkStale
<1>3. ASSUME NEW p, Start(p) PROVE UNCHANGED <<around, command>>
    BY <1>3 DEF Start, Create, WritePid, InstallHandlers, Bind, GiveUp, Serve,
                ExitHandler, AtExit
<1>4. ASSUME NEW p, Stop(p) PROVE UNCHANGED <<around, command>>
    BY <1>4 DEF Stop, TermGroup, TermDaemon, TermFails
<1>5. ASSUME NEW p, Kill(p) \/ Pipe(p) PROVE UNCHANGED <<around, command>>
    BY <1>5 DEF Kill, Pipe
<1>6. ASSUME NEW a, Expire(a) PROVE UNCHANGED <<around, command>>
    BY <1>6 DEF Expire
<1> QED BY <1>1, <1>2, <1>3, <1>4, <1>5, <1>6 DEF Next, ProcStep, vars

LEMMA StartsStep == TypeOK /\ StartsInv /\ [Next]_vars => StartsInv'
<1> SUFFICES ASSUME TypeOK, around = "starts", [Next]_vars,
                    StartsOnly, OneCreator, CreatorWell, BoundByCreator, ReadersFollow
             PROVE  StartsOnly' /\ OneCreator' /\ CreatorWell' /\ BoundByCreator' /\ ReadersFollow'
    BY AroundStays DEF StartsInv
<1> USE DaemonAssumption DEF TypeOK, Young, StartsOnly, OneCreator, CreatorWell,
        BoundByCreator, ReadersFollow
<1> DEFINE Inv == StartsOnly /\ OneCreator /\ CreatorWell /\ BoundByCreator /\ ReadersFollow
<1>1. CASE UNCHANGED vars
    BY <1>1 DEF vars
<1>2. ASSUME NEW p \in Procs, Begin(p) PROVE Inv'
    BY <1>2 DEF Begin, Step
<1>3. ASSUME NEW p \in Procs, GetDaemonPid(p) PROVE Inv'
  <2>1. CASE OpenLock(p)
    <3>1. pc[p] = "open" /\ fd' = [fd EXCEPT ![p] = lock]
          /\ UNCHANGED <<around, command, again, lock, written, pid, bound, lingers, addr>>
        BY <2>1 DEF OpenLock, Step
    <3>2. \E to \in {"read", "create", "done"} :
              pc' = [pc EXCEPT ![p] = to] /\ (to = "read" => lock # NONE)
        BY <2>1 DEF OpenLock, NotRunning, Step
    <3> QED BY <3>1, <3>2
  <2>2. CASE ReadLock(p)
    BY <2>2 DEF ReadLock, Step
  <2>3. CASE Probe(p)
    <3>1. ~ Stale(p)
        BY <2>3 DEF Probe, Step, Stale, Exists, Alive, Ended
    <3>2. Running(p, pid[p]) \in {"create", "done"}
        BY <2>3 DEF Running, Probe, Step
    <3> QED BY <2>3, <3>1, <3>2 DEF Probe, Step
  <2>4. CASE UnlinkStale(p)
    BY <2>4 DEF UnlinkStale, Step
  <2> QED BY <1>3, <2>1, <2>2, <2>3, <2>4 DEF GetDaemonPid
<1>4. ASSUME NEW p \in Procs, Start(p) PROVE Inv'
  <2>1. CASE Create(p)
    <3>1. pc[p] = "create"
          /\ UNCHANGED <<around, command, again, written, fd, pid, bound, lingers, addr>>
        BY <2>1 DEF Create
    <3>2. CASE lock = NONE /\ lock' = p /\ pc' = [pc EXCEPT ![p] = "write"]
      <4>1. \A q \in Procs : q # lock
          BY <3>2
      <4>2. \A q \in Procs : pc[q] # "read" /\ addr[q] = 1 /\ pc[q] \notin Young \cup {"serve"}
          BY <3>2, <4>1
      <4>3. StartsOnly' /\ OneCreator'
          BY <3>1, <3>2, <4>2
      <4>4. CreatorWell' /\ BoundByCreator'
          BY <3>1, <3>2, <4>2 DEF Addrs
      <4>5. ReadersFollow'
          BY <3>1, <3>2, <4>2
      <4> QED BY <4>3, <4>4, <4>5
    <3>3. CASE lock' = lock /\ pc' = [pc EXCEPT ![p] = "failed"]
      BY <3>1, <3>3
    <3> QED BY <2>1, <3>2, <3>3 DEF Create, CreateLock
  <2>2. CASE WritePid(p)
    BY <2>2 DEF WritePid, Step
  <2>3. CASE InstallHandlers(p)
    BY <2>3 DEF InstallHandlers, Step
  <2>4. CASE Bind(p)
    BY <2>4 DEF Bind, MoreAddrs, Addrs
  <2>5. CASE Serve(p)
    <3>1. p = lock /\ pc[p] = "bind" /\ addr[p] = NumAddrs + 1
        BY <2>5 DEF Serve, Step, MoreAddrs
    <3>2. 1 \in Addrs /\ 1 < addr[p]
        BY <3>1 DEF Addrs
    <3>3. Served(p)
        BY <3>1, <3>2 DEF Served
    <3> QED BY <2>5, <3>1, <3>3 DEF Serve, Step
  <2>6. CASE ExitHandler(p) \/ AtExit(p) \/ GiveUp(p)
    BY <2>6 DEF ExitHandler, AtExit, GiveUp, Step
  <2> QED BY <1>4, <2>1, <2>2, <2>3, <2>4, <2>5, <2>6 DEF Start
<1>5. ASSUME NEW p \in Procs, Stop(p) PROVE Inv'
    BY <1>5 DEF Stop, TermGroup, TermDaemon, TermFails, Step
<1>6. ASSUME NEW p \in Procs, Kill(p) \/ Pipe(p) PROVE Inv'
    BY <1>6 DEF Kill, Pipe, Fresh
<1>7. ASSUME NEW a \in Addrs, Expire(a) PROVE Inv'
    BY <1>7 DEF Expire
<1> QED BY <1>1, <1>2, <1>3, <1>4, <1>5, <1>6, <1>7 DEF Next, ProcStep

LEMMA OrderlyStep == TypeOK /\ OrderlyInv /\ [Next]_vars => OrderlyInv'
<1> DEFINE Inv == /\ OneActs /\ StartsAct /\ StartAlone /\ LeavingAlone
                  /\ ServerNamed /\ YoungNamed /\ ReadStays
<1> SUFFICES ASSUME TypeOK, around = "orderly", [Next]_vars, Inv PROVE Inv'
    BY AroundStays DEF OrderlyInv
<1>0. command' = command
    BY AroundStays
<1> USE <1>0, DaemonAssumption DEF TypeOK, Young, Acting, Leaving, NoneServes,
        OneActs, StartsAct, StartAlone, LeavingAlone, ServerNamed, YoungNamed, ReadStays
<1>1. CASE UNCHANGED vars
    BY <1>1 DEF vars
<1>2. ASSUME NEW p \in Procs, Begin(p) PROVE Inv'
  <2>1. pc[p] = "idle" /\ pc' = [pc EXCEPT ![p] = "open"] /\ UNCHANGED <<lock, written, fd, pid>>
      BY <1>2 DEF Begin, Step
  <2>2. \A q \in Procs : pc[q] \notin Acting \cup Leaving
      BY <1>2 DEF Begin, Alive, Ended
  <2> QED BY <2>1, <2>2
<1>3. ASSUME NEW p \in Procs, GetDaemonPid(p) PROVE Inv'
  <2>1. CASE OpenLock(p)
    <3>1. pc[p] = "open" /\ fd' = [fd EXCEPT ![p] = lock] /\ UNCHANGED <<lock, written, pid>>
        BY <2>1 DEF OpenLock, Step
    <3>2. \E to \in {"read", "create", "done"} :
              /\ pc' = [pc EXCEPT ![p] = to]
              /\ to = "create" => command[p] = "start"
        BY <2>1 DEF OpenLock, NotRunning, Step
    <3> QED BY <3>1, <3>2
  <2>2. CASE ReadLock(p)
    BY <2>2 DEF ReadLock, Step
  <2>3. CASE Probe(p)
    <3>1. pc[p] = "probe" /\ UNCHANGED <<lock, written, fd>>
        BY <2>3 DEF Probe, Step
    <3>2. \A q \in Procs : q # p => pid'[q] = pid[q]
        BY <2>3 DEF Probe
    <3>3. CASE Stale(p)
      <4>1. pc' = [pc EXCEPT ![p] = "unlink"]
          BY <2>3, <3>3 DEF Probe, Step
      <4>2. NoneServes
          BY <3>1, <3>3 DEF Stale, Exists, Alive, Ended
      <4> QED BY <3>1, <3>2, <4>1, <4>2
    <3>4. CASE ~ Stale(p)
      <4>1. \E to \in {"create", "done", "term"} :
              /\ pc' = [pc EXCEPT ![p] = to]
              /\ to = "create" => command[p] = "start"
              /\ to = "term" => command[p] # "start"
          BY <2>3, <3>4 DEF Probe, Running, Step
      <4> QED BY <3>1, <3>2, <4>1
    <3> QED BY <3>3, <3>4
  <2>4. CASE UnlinkStale(p)
    <3>1. pc[p] = "unlink" /\ lock' = NONE /\ UNCHANGED <<written, fd, pid>>
        BY <2>4 DEF UnlinkStale, Step
    <3>2. \E to \in {"create", "done"} :
              /\ pc' = [pc EXCEPT ![p] = to]
              /\ to = "create" => command[p] = "start"
        BY <2>4 DEF UnlinkStale, NotRunning, Step
    <3>3. \A q \in Procs : pc[q] \notin Young \cup {"serve"}
        BY <3>1
    <3> QED BY <3>1, <3>2, <3>3
  <2> QED BY <1>3, <2>1, <2>2, <2>3, <2>4 DEF GetDaemonPid
<1>4. ASSUME NEW p \in Procs, Start(p) PROVE Inv'
  <2>1. CASE Create(p)
    <3>1. pc[p] = "create" /\ UNCHANGED <<written, fd, pid>>
        BY <2>1 DEF Create
    <3>2. CASE lock = NONE /\ lock' = p /\ pc' = [pc EXCEPT ![p] = "write"]
      <4>1. NoneServes /\ \A q \in Procs : q # p => pc[q] \notin Acting
          BY <3>1, <3>2
      <4>2. OneActs' /\ StartsAct' /\ StartAlone' /\ LeavingAlone'
          BY <3>1, <3>2, <4>1
      <4>3. ServerNamed' /\ YoungNamed' /\ ReadStays'
          BY <3>1, <3>2, <4>1
      <4> QED BY <4>2, <4>3
    <3>3. CASE lock' = lock /\ pc' = [pc EXCEPT ![p] = "failed"]
      BY <3>1, <3>3
    <3> QED BY <2>1, <3>2, <3>3 DEF Create, CreateLock
  <2>2. CASE WritePid(p)
    BY <2>2 DEF WritePid, Step
  <2>3. CASE InstallHandlers(p)
    BY <2>3 DEF InstallHandlers, Step
  <2>4. CASE Bind(p)
    BY <2>4 DEF Bind
  <2>5. CASE Serve(p)
    <3>1. pc[p] = "bind" /\ UNCHANGED <<lock, written, fd, pid>>
        BY <2>5 DEF Serve, Step
    <3>2. \E to \in {"serve", "exit_failed"} : pc' = [pc EXCEPT ![p] = to]
        BY <2>5 DEF Serve, Step
    <3>3. lock = p /\ NoneServes
        BY <3>1
    <3>4. \A q \in Procs : pc[q] \notin Leaving \cup {"unlink"}
        BY <3>1
    <3> QED BY <3>1, <3>2, <3>3, <3>4
  <2>6. CASE ExitHandler(p) \/ AtExit(p)
    <3>1. lock' = NONE /\ UNCHANGED <<written, fd, pid>>
        BY <2>6 DEF ExitHandler, AtExit, Unlinked
    <3>2. \/ pc[p] = "exit1" /\ pc' = [pc EXCEPT ![p] = "exit2"]
          \/ pc[p] = "exit2" /\ pc' = [pc EXCEPT ![p] = "done"]
          \/ pc[p] = "exit_failed" /\ pc' = [pc EXCEPT ![p] = "failed"]
        BY <2>6 DEF ExitHandler, AtExit, Step
    <3>3. \A q \in Procs : pc[q] \notin Young \cup {"serve"}
        BY <3>2
    <3> QED BY <3>1, <3>2, <3>3
  <2>7. CASE GiveUp(p)
    BY <2>7 DEF GiveUp
  <2> QED BY <1>4, <2>1, <2>2, <2>3, <2>4, <2>5, <2>6, <2>7 DEF Start
<1>5. ASSUME NEW p \in Procs, Stop(p) PROVE Inv'
  <2>1. CASE TermGroup(p) \/ TermFails(p)
    BY <2>1 DEF TermGroup, TermFails, Step
  <2>2. CASE TermDaemon(p)
    <3> DEFINE d == pid[p]
    <3>1. PICK next \in AfterTerm(d) : pc' = [pc EXCEPT ![p] = "open", ![d] = next]
        BY <2>2 DEF TermDaemon
    <3>2. d \in Procs /\ pc[p] = "term" /\ UNCHANGED <<lock, written, fd>>
        BY <2>2 DEF TermDaemon, Alive
    <3>3. \A q \in Procs : q # p => pid'[q] = pid[q]
        BY <2>2 DEF TermDaemon
    <3>4. command[p] # "start"
        BY <3>2
    <3>5. CASE d = p
      <4>1. next = "term"
          BY <3>1, <3>2, <3>5 DEF AfterTerm
      <4> QED BY <3>1, <3>2, <3>3, <3>4, <3>5, <4>1
    <3>6. CASE d # p
      <4>1. pc[d] \notin Acting
          BY <3>2, <3>6
      <4>2. \/ pc[d] = "serve" /\ next = "exit1"
            \/ pc[d] = "exit_failed" /\ next \in {"exit1", "exit_failed"}
            \/ next = pc[d]
          BY <3>1, <3>2, <4>1 DEF AfterTerm
      <4>3. pc'[p] = "open" /\ pc'[d] = next /\ \A q \in Procs \ {p, d} : pc'[q] = pc[q]
          BY <3>1, <3>2, <3>6
      <4>4. OneActs' /\ StartsAct' /\ StartAlone' /\ YoungNamed' /\ ReadStays'
          BY <3>2, <3>3, <3>4, <4>1, <4>2, <4>3
      <4>5. LeavingAlone' /\ ServerNamed'
          BY <3>2, <4>1, <4>2, <4>3
      <4> QED BY <4>4, <4>5
    <3> QED BY <3>5, <3>6
  <2> QED BY <1>5, <2>1, <2>2 DEF Stop
<1>6. ASSUME NEW p \in Procs, Kill(p) PROVE Inv'
    BY <1>6 DEF Kill, Step, Daemon
<1>7. ASSUME NEW p \in Procs, Pipe(p) PROVE Inv'
    BY <1>7 DEF Pipe
<1>8. ASSUME NEW a \in Addrs, Expire(a) PROVE Inv'
    BY <1>8 DEF Expire
<1> QED BY <1>1, <1>2, <1>3, <1>4, <1>5, <1>6, <1>7, <1>8 DEF Next, ProcStep

(* On a fresh system with any starts at the same time, and with any        *)
(* commands one by one, the lock file names the daemon that serves.        *)
THEOREM Named == Spec => []LockNamesServer
<1>1. Init => StartsInv /\ OrderlyInv
  <2> SUFFICES ASSUME Init PROVE StartsInv /\ OrderlyInv
      OBVIOUS
  <2> USE DaemonAssumption DEF Init, Young, Fresh
  <2>1. StartsInv
      BY DEF StartsInv, StartsOnly, OneCreator, CreatorWell, BoundByCreator, ReadersFollow
  <2>2. OrderlyInv
      BY DEF OrderlyInv, OneActs, StartsAct, StartAlone, LeavingAlone, NoneServes,
             ServerNamed, YoungNamed, ReadStays, Acting, Leaving
  <2> QED BY <2>1, <2>2
<1>2. TypeOK /\ StartsInv /\ OrderlyInv => LockNamesServer
  <2> SUFFICES ASSUME TypeOK, StartsInv, OrderlyInv, around \in {"starts", "orderly"}
               PROVE  ServerNamed
      BY DEF LockNamesServer
  <2>1. CASE around = "starts"
      BY <2>1, DaemonAssumption DEF StartsInv, OneCreator, CreatorWell, ServerNamed, Young
  <2>2. CASE around = "orderly"
      BY <2>2 DEF OrderlyInv
  <2> QED BY <2>1, <2>2
<1> QED BY <1>1, <1>2, StartsStep, OrderlyStep, TypeCorrect, PTL DEF Spec
=============================================================================
