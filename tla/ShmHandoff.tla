----------------------------- MODULE ShmHandoff -----------------------------
(***************************************************************************)
(* posix/ipc/shared-memory.c: a parent hands one number after the other to *)
(* a worker process through a struct in shared memory and gets its square  *)
(* back.  The two flags pready and cready say whose turn it is; SIGUSR1,   *)
(* blocked except within sigsuspend, wakes the other process.              *)
(*                                                                         *)
(* The fields of the struct are plain variables.  On the usual hardware a  *)
(* process may read memory while its own earlier writes still wait in a    *)
(* store buffer; they reach memory later, in their order.  A system call   *)
(* empties the buffer.  The size of the store buffers is a choice of the   *)
(* initial state; with size 0 every write is visible at once.              *)
(***************************************************************************)
EXTENDS Integers, Sequences

CONSTANTS
    REQUESTS,       \* number of requests, 100 in the program
    BufferSizes     \* how many writes a store buffer may hold

ASSUME HandoffAssumption == REQUESTS \in Nat /\ BufferSizes \subseteq Nat

Parent == "parent"
Child  == "child"
Procs  == {Parent, Child}
Stale  == "stale"       \* a pid left by an earlier run: the segment is never removed
Fields == {"ppid", "pready", "cready", "x", "y", "cmd"}

VARIABLES
    mem,        \* struct data in shared memory
    buf,        \* writes of a process that have not reached memory
    pending,    \* SIGUSR1 pending at a process
    pc,         \* control state of both processes
    i,          \* loop variable of the parent
    size        \* the size of the store buffers

vars == <<mem, buf, pending, pc, i, size>>

(* main resets the flags, blocks the signal and forks; the other fields    *)
(* are those of the run before.                                            *)
Init ==
    /\ mem = [ppid |-> Stale, pready |-> FALSE, cready |-> FALSE,
              x |-> 0, y |-> 0, cmd |-> "Q"]
    /\ buf = [p \in Procs |-> <<>>]
    /\ pending = [p \in Procs |-> FALSE]
    /\ pc = [p \in Procs |-> IF p = Parent THEN "attach" ELSE "announce"]
    /\ i = 0
    /\ size \in BufferSizes

-----------------------------------------------------------------------------
(* Memory and signals *)

(* A process sees its own last write to a field, else what memory holds.   *)
Read(p, f) ==
    LET own == {k \in 1 .. Len(buf[p]) : buf[p][k][1] = f}
        last == CHOOSE k \in own : \A l \in own : l <= k
    IN  IF own = {} THEN mem[f] ELSE buf[p][last][2]

Write(p, f, v) ==
    IF size = 0
      THEN mem' = [mem EXCEPT ![f] = v] /\ UNCHANGED buf
      ELSE /\ Len(buf[p]) < size
           /\ buf' = [buf EXCEPT ![p] = Append(@, <<f, v>>)]
           /\ UNCHANGED mem

Drain(p) ==
    /\ buf[p] # <<>>
    /\ mem' = [mem EXCEPT ![buf[p][1][1]] = buf[p][1][2]]
    /\ buf' = [buf EXCEPT ![p] = Tail(@)]
    /\ UNCHANGED <<pending, pc, i>>

Goto(p, from, to) == pc[p] = from /\ pc' = [pc EXCEPT ![p] = to]

Assign(p, from, f, v, to) ==
    Goto(p, from, to) /\ Write(p, f, v) /\ UNCHANGED <<pending, i>>

(* sigsuspend waits for the signal; the handler only sets a variable that  *)
(* nobody reads.                                                           *)
Suspend(p, from, to) ==
    /\ Goto(p, from, to)
    /\ buf[p] = <<>>
    /\ pending[p] /\ pending' = [pending EXCEPT ![p] = FALSE]
    /\ UNCHANGED <<mem, buf, i>>

(* kill; a second signal does not count while the first one is pending.    *)
Signal(p, from, target, to) ==
    /\ Goto(p, from, to)
    /\ buf[p] = <<>>
    /\ pending' = [q \in Procs |-> pending[q] \/ q = target]
    /\ UNCHANGED <<mem, buf>>

-----------------------------------------------------------------------------
(* parent *)

Attach_Fault == Goto(Parent, "attach", "check") /\ UNCHANGED <<mem, buf, pending, i>>
Attach == Assign(Parent, "attach", "ppid", Parent, "check")

(* The head of the for loop and of the loop that waits for the child.      *)
ReadyFlag_Fault == TRUE
ReadyFlag == Read(Parent, "cready")

MoreRequests == i < REQUESTS

Check ==
    /\ Goto(Parent, "check",
            IF ~MoreRequests THEN "clear_q"
            ELSE IF ReadyFlag THEN "clear" ELSE "suspend")
    /\ UNCHANGED <<mem, buf, pending, i>>

ParentSuspend == Suspend(Parent, "suspend", "check")

(* The request.  The printf that follows it is left out: y is the result   *)
(* of this request or of the one before.                                   *)
ClearReady   == Assign(Parent, "clear", "cready", FALSE, "set_x")
SetX         == Assign(Parent, "set_x", "x", i, "set_cmd")
SetCmd       == Assign(Parent, "set_cmd", "cmd", "*", "set_pready")
SetPready    == Assign(Parent, "set_pready", "pready", TRUE, "kill")
SignalChild  ==
    /\ Signal(Parent, "kill", Child, "check")
    /\ i' = i + 1

(* The last command does not wait for cready. *)
ClearReadyQ  == Assign(Parent, "clear_q", "cready", FALSE, "set_cmd_q")
SetCmdQ      == Assign(Parent, "set_cmd_q", "cmd", "Q", "set_pready_q")
SetPreadyQ   == Assign(Parent, "set_pready_q", "pready", TRUE, "kill_q")
SignalChildQ_Fault ==
    Goto(Parent, "kill_q", "wait") /\ UNCHANGED <<mem, buf, pending, i>>
SignalChildQ ==
    /\ Signal(Parent, "kill_q", Child, "wait")
    /\ UNCHANGED i

WaitChild ==
    /\ pc[Child] = "exited"
    /\ Goto(Parent, "wait", "exited")
    /\ UNCHANGED <<mem, buf, pending, i>>

-----------------------------------------------------------------------------
(* child *)

Announce_Fault ==
    Goto(Child, "announce", "first_kill") /\ UNCHANGED <<mem, buf, pending, i>>
Announce       == Assign(Child, "announce", "cready", TRUE, "first_kill")
SignalParent1  == Signal(Child, "first_kill", Parent, "check") /\ UNCHANGED i

ChildCheck ==
    /\ Goto(Child, "check", IF Read(Child, "pready") THEN "take" ELSE "suspend")
    /\ UNCHANGED <<mem, buf, pending, i>>

ChildSuspend == Suspend(Child, "suspend", "check")

Take == Assign(Child, "take", "pready", FALSE, "cmd")

Obey ==
    /\ Goto(Child, "cmd", IF Read(Child, "cmd") = "Q" THEN "exited" ELSE "square")
    /\ UNCHANGED <<mem, buf, pending, i>>

Square     == Assign(Child, "square", "y", Read(Child, "x") * Read(Child, "x"), "ready")
ChildReady == Assign(Child, "ready", "cready", TRUE, "kill")

(* kill to the pid the parent has left in shared memory *)
SignalParent == Signal(Child, "kill", Read(Child, "ppid"), "check") /\ UNCHANGED i

-----------------------------------------------------------------------------
ParentStep ==
    \/ Attach \/ Check \/ ParentSuspend
    \/ ClearReady \/ SetX \/ SetCmd \/ SetPready \/ SignalChild
    \/ ClearReadyQ \/ SetCmdQ \/ SetPreadyQ \/ SignalChildQ \/ WaitChild

ChildStep ==
    \/ Announce \/ SignalParent1 \/ ChildCheck \/ ChildSuspend
    \/ Take \/ Obey \/ Square \/ ChildReady \/ SignalParent

Next ==
    /\ \/ ParentStep \/ ChildStep
       \/ \E p \in Procs : Drain(p)
    /\ UNCHANGED size

Spec == Init /\ [][Next]_vars

(* Both processes run whenever they can, and a write reaches memory in the *)
(* end.                                                                    *)
FairSpec ==
    /\ Spec
    /\ WF_vars(ParentStep /\ UNCHANGED size)
    /\ WF_vars(ChildStep /\ UNCHANGED size)
    /\ \A p \in Procs : WF_vars(Drain(p) /\ UNCHANGED size)

-----------------------------------------------------------------------------
(* Properties *)

(* Every variable has its type. *)
TypeOK ==
    /\ mem \in [ppid : {Stale, Parent}, pready : BOOLEAN, cready : BOOLEAN,
                x : Nat, y : Nat, cmd : {"*", "Q"}]
    /\ \A p \in Procs : Len(buf[p]) <= size
    /\ pending \in [Procs -> BOOLEAN]
    /\ i \in 0 .. REQUESTS
    /\ size \in BufferSizes

(* Whenever the parent finds the worker ready again, y is the square of    *)
(* the number of the request before.                                       *)
ResultOfLastRequest ==
    pc[Parent] = "clear" /\ i > 0 => Read(Parent, "y") = (i - 1) * (i - 1)

(* While the parent writes a request, the worker is not reading one.       *)
TurnsExclusive ==
    ~ /\ pc[Parent] \in {"clear", "set_x", "set_cmd", "set_pready"}
      /\ pc[Child] \in {"take", "cmd", "square", "ready"}

(* The worker never signals a process of an earlier run: it looks at ppid  *)
(* only after the parent has set it.                                       *)
SignalsItsParent == pc[Child] = "kill" => Read(Child, "ppid") = Parent

(* No wake-up is lost: all requests are handed over and, but for the last  *)
(* one, answered.                                                          *)
AllRequestsSent == <>(pc[Parent] = "clear_q")

(* If every write is visible at once, the worker obeys the command to quit *)
(* and the parent ends after it, although the last command does not wait   *)
(* for the answer to the request before.                                   *)
Termination == (size = 0) ~> (\A p \in Procs : pc[p] = "exited")

(* "Q for quit": a worker that has been sent the command Q quits.          *)
QuitObeyed == (pc[Parent] = "wait") ~> (pc[Child] = "exited")
=============================================================================
