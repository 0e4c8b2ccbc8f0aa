-------------------------- MODULE ShmHandoffProofs --------------------------
(***************************************************************************)
(* The turns of parent and worker, for any number of requests and store    *)
(* buffers of any size.                                                    *)
(*                                                                         *)
(* What a process reads of a field is what memory will hold of it when the *)
(* buffer of the process is empty, unless the other process writes it too. *)
(* The invariant is therefore stated with Seen, so that a write leaving    *)
(* the buffer changes nothing for its own process.  The order in which     *)
(* writes leave the buffer counts only for the two flags: a process writes *)
(* its flag last before a system call, so that who sees the flag in memory *)
(* sees all that was written before it.                                    *)
(***************************************************************************)
EXTENDS ShmHandoff, NumberTheorems, SequenceTheorems, TLAPS

(* What a process with the store buffer b sees of field f of memory m. *)
Own(b, f)     == {k \in 1 .. Len(b) : b[k][1] = f}
Sees(m, b, f) ==
    IF Own(b, f) = {} THEN m[f]
    ELSE b[CHOOSE k \in Own(b, f) : \A l \in Own(b, f) : l <= k][2]
Seen(p, f)    == Sees(mem, buf[p], f)

(* What a process may have in its store buffer. *)
WritesOf(p) ==
    IF p = Parent
    THEN ({"ppid"} \X {Parent}) \cup ({"cready"} \X {FALSE}) \cup ({"pready"} \X {TRUE})
         \cup ({"x"} \X Nat) \cup ({"cmd"} \X {"*", "Q"})
    ELSE ({"pready"} \X {FALSE}) \cup ({"cready"} \X {TRUE}) \cup ({"y"} \X Nat)

InBuffer(p) == {buf[p][k][1] : k \in 1 .. Len(buf[p])}

(* The flag by which p gives the turn away is its last write. *)
FlagOf(p)  == IF p = Parent THEN "pready" ELSE "cready"
FlagLast(p) ==
    \A k \in 1 .. Len(buf[p]) : buf[p][k][1] = FlagOf(p) => k = Len(buf[p])

Quitting == pc[Parent] \in {"clear_q", "set_cmd_q", "set_pready_q", "kill_q", "wait", "exited"}
Asking   == \/ pc[Parent] \in {"clear", "set_x", "set_cmd", "set_pready"}
            \/ pc[Parent] = "kill" /\ buf[Parent] # <<>>
Waiting  == pc[Parent] \in {"check", "suspend"} \/ (pc[Parent] = "kill" /\ buf[Parent] = <<>>)
Working  == \/ pc[Child] \in {"take", "cmd", "square", "ready"}
            \/ pc[Child] = "kill" /\ buf[Child] # <<>>
Fresh    == pc[Child] = "announce" \/ (pc[Child] = "first_kill" /\ buf[Child] # <<>>)

(* The number of the last request. *)
Last == IF pc[Parent] = "kill" THEN i ELSE i - 1

PcType ==
    /\ pc \in [Procs -> {"attach", "check", "suspend", "clear", "set_x", "set_cmd", "set_pready",
                         "kill", "clear_q", "set_cmd_q", "set_pready_q", "kill_q", "wait",
                         "exited", "announce", "first_kill", "take", "cmd", "square", "ready"}]
    /\ pc[Parent] \in {"attach", "check", "suspend", "clear", "set_x", "set_cmd", "set_pready",
                       "kill", "wait"} \/ Quitting
    /\ pc[Child] \in {"announce", "first_kill", "check", "suspend", "take", "cmd", "square",
                      "ready", "kill", "exited"}

LoopInv ==
    /\ pc[Parent] \in {"clear", "set_x", "set_cmd", "set_pready", "kill"} => i < REQUESTS
    /\ pc[Parent] = "attach" => i = 0

(* Which writes may be in the buffers. *)
BufferInv ==
    /\ buf \in [Procs -> Seq(WritesOf(Parent) \cup WritesOf(Child))]
    /\ \A p \in Procs : buf[p] \in Seq(WritesOf(p)) /\ FlagLast(p)
    /\ "pready" \in InBuffer(Parent) => pc[Parent] \in {"kill", "kill_q"}
    /\ pc[Parent] \in {"attach", "wait", "exited"} => buf[Parent] = <<>>
    /\ pc[Parent] \in {"check", "suspend", "clear", "clear_q"} =>
           InBuffer(Parent) \subseteq {"ppid"} /\ (i > 0 => buf[Parent] = <<>>)
    /\ "cready" \in InBuffer(Child) => pc[Child] \in {"first_kill", "kill"}
    /\ pc[Child] \in {"announce", "check", "suspend", "take"} => buf[Child] = <<>>
    /\ pc[Child] = "first_kill" => InBuffer(Child) \subseteq {"cready"}
    /\ pc[Child] \in {"cmd", "square", "exited"} => InBuffer(Child) \subseteq {"pready"}

(* The worker that has seen a request sees the pid of its parent. *)
PidInv ==
    /\ pc[Parent] # "attach" => Seen(Parent, "ppid") = Parent
    /\ mem["pready"] \/ Working => mem["ppid"] = Parent
    /\ pc[Child] = "kill" => mem["ppid"] = Parent

(* Whose turn it is.  At most one of the following is the case: the worker *)
(* has not announced itself, it is ready or the parent is asking, it has   *)
(* been asked or works.                                                    *)
TurnInv ==
    ~Quitting =>
        /\ mem["cready"] \/ Asking =>
               /\ buf[Child] = <<>> /\ ~mem["pready"]
               /\ pc[Child] \in {"first_kill", "kill", "check", "suspend"}
        /\ mem["pready"] \/ Working => Waiting /\ buf[Parent] = <<>> /\ ~mem["cready"]
        /\ Fresh => /\ ~mem["cready"] /\ ~mem["pready"] /\ i = 0
                    /\ pc[Parent] \in {"attach", "check", "suspend"}
        /\ mem["pready"] /\ ~Working => buf[Child] = <<>>
        /\ Working /\ pc[Child] # "take" => ~Seen(Child, "pready")

(* What the parent has written of a request. *)
AskingInv ==
    /\ pc[Parent] = "clear" => mem["cready"]
    /\ pc[Parent] \in {"set_x", "set_cmd", "set_pready"} => ~Seen(Parent, "cready")
    /\ pc[Parent] \in {"set_cmd", "set_pready"} => Seen(Parent, "x") = i
    /\ pc[Parent] = "set_pready" => Seen(Parent, "cmd") = "*"
    /\ pc[Parent] = "kill" /\ buf[Parent] # <<>> =>
           ~Seen(Parent, "cready") /\ Seen(Parent, "x") = i /\ Seen(Parent, "cmd") = "*"

(* What the worker finds and what it answers. *)
AnswerInv ==
    ~Quitting =>
        /\ Seen(Child, "pready") \/ pc[Child] \in {"take", "cmd", "square"} =>
               mem["x"] = Last /\ mem["cmd"] = "*"
        /\ /\ pc[Child] = "ready" \/ Seen(Child, "cready")
           /\ Last >= 0
           /\ Asking => pc[Parent] = "clear"
           => Seen(Child, "y") = Last * Last

IInv ==
    /\ TypeOK /\ PcType /\ LoopInv /\ BufferInv
    /\ PidInv /\ TurnInv /\ AskingInv /\ AnswerInv

-----------------------------------------------------------------------------
(* Reading *)

LEMMA ReadSees == \A p \in Procs : \A f : Read(p, f) = Seen(p, f)
BY DEF Read, Seen, Sees, Own

LEMMA SeesLast ==
    ASSUME NEW m, NEW W, NEW b \in Seq(W), NEW f,
           NEW k \in Own(b, f), \A l \in Own(b, f) : l <= k
    PROVE  Sees(m, b, f) = b[k][2]
<1>. DEFINE last == CHOOSE j \in Own(b, f) : \A l \in Own(b, f) : l <= j
<1>1. last \in Own(b, f) /\ \A l \in Own(b, f) : l <= last
  OBVIOUS
<1>2. last = k
  BY <1>1 DEF Own
<1>. QED
  BY <1>2 DEF Sees

LEMMA HasLast ==
    ASSUME NEW W, NEW b \in Seq(W), NEW f, Own(b, f) # {}
    PROVE  \E k \in Own(b, f) : \A l \in Own(b, f) : l <= k
<1>1. Own(b, f) \in SUBSET (0 .. Len(b)) /\ Len(b) \in Nat
  BY DEF Own
<1>. QED
  BY <1>1, GreatestOf

(* A write is what its process sees of the field. *)
LEMMA SeesAppended ==
    ASSUME NEW m, NEW W, NEW b \in Seq(W), NEW f, NEW v, <<f, v>> \in W
    PROVE  /\ Sees(m, Append(b, <<f, v>>), f) = v
           /\ \A g : g # f => Sees(m, Append(b, <<f, v>>), g) = Sees(m, b, g)
<1>. DEFINE c == Append(b, <<f, v>>)
            n == Len(b)
<1>1. /\ c \in Seq(W) /\ n \in Nat /\ Len(c) = n + 1 /\ c[n + 1] = <<f, v>>
      /\ \A k \in 1 .. n : c[k] = b[k]
  OBVIOUS
<1>. HIDE DEF c, n
<1>2. Sees(m, c, f) = v
  <2>1. n + 1 \in Own(c, f) /\ \A l \in Own(c, f) : l <= n + 1
    BY <1>1 DEF Own
  <2>2. Sees(m, c, f) = c[n + 1][2]
    BY <1>1, <2>1, SeesLast
  <2>. QED
    BY <1>1, <2>2
<1>3. ASSUME NEW g, g # f PROVE Sees(m, c, g) = Sees(m, b, g)
  <2>1. Own(c, g) = Own(b, g)
    BY <1>1, <1>3 DEF Own, n
  <2>2. CASE Own(b, g) = {}
    BY <2>1, <2>2 DEF Sees
  <2>3. CASE Own(b, g) # {}
    <3>1. PICK k \in Own(b, g) : \A l \in Own(b, g) : l <= k
      BY <2>3, HasLast
    <3>2. Sees(m, c, g) = c[k][2] /\ Sees(m, b, g) = b[k][2]
      BY <1>1, <2>1, <3>1, SeesLast
    <3>. QED
      BY <1>1, <3>2 DEF Own, n
  <2>. QED
    BY <2>2, <2>3
<1>. QED
  BY <1>2, <1>3 DEF c

(* When a write reaches memory, its process sees no difference. *)
LEMMA SeesDrained ==
    ASSUME NEW m, NEW W, NEW b \in Seq(W), b # <<>>, b[1][1] \in DOMAIN m
    PROVE  \A g : Sees([m EXCEPT ![b[1][1]] = b[1][2]], Tail(b), g) = Sees(m, b, g)
<1>. DEFINE c == Tail(b)
            n == Len(c)
            o == [m EXCEPT ![b[1][1]] = b[1][2]]
<1>1. /\ c \in Seq(W) /\ n \in Nat /\ Len(b) = n + 1
      /\ \A k \in 1 .. n : c[k] = b[k + 1]
  OBVIOUS
<1>a. o[b[1][1]] = b[1][2] /\ \A g : g # b[1][1] => o[g] = m[g]
  OBVIOUS
<1>. HIDE DEF c, n, o
<1>. SUFFICES ASSUME NEW g PROVE Sees(o, c, g) = Sees(m, b, g)
  BY DEF c, o
<1>2. /\ \A k \in Own(c, g) : k + 1 \in Own(b, g)
      /\ \A k \in Own(b, g) : k = 1 \/ (k \in Nat /\ k - 1 \in Own(c, g))
  BY <1>1 DEF Own, n
<1>3. CASE Own(c, g) # {}
  <2>1. PICK k \in Own(c, g) : \A l \in Own(c, g) : l <= k
    BY <1>1, <1>3, HasLast
  <2>2. k \in 1 .. n
    BY DEF Own, n
  <2>3. k + 1 \in Own(b, g) /\ \A l \in Own(b, g) : l <= k + 1
    BY <1>2, <2>1, <2>2
  <2>4. Sees(o, c, g) = c[k][2] /\ Sees(m, b, g) = b[k + 1][2]
    BY <1>1, <2>1, <2>3, SeesLast
  <2>. QED
    BY <1>1, <2>2, <2>4
<1>4. CASE Own(c, g) = {} /\ Own(b, g) # {}
  <2>1. 1 \in Own(b, g) /\ \A l \in Own(b, g) : l <= 1
    BY <1>2, <1>4
  <2>2. Sees(m, b, g) = b[1][2] /\ b[1][1] = g
    <3>1. PICK k \in Own(b, g) : k = 1
      BY <2>1
    <3>2. Sees(m, b, g) = b[k][2]
      BY <2>1, <3>1, SeesLast
    <3>. QED
      BY <3>1, <3>2 DEF Own
  <2>. QED
    BY <1>4, <1>a, <2>2 DEF Sees
<1>5. CASE Own(c, g) = {} /\ Own(b, g) = {}
  <2>1. b[1][1] # g
    BY <1>1, <1>5 DEF Own
  <2>. QED
    BY <1>5, <1>a, <2>1 DEF Sees
<1>. QED
  BY <1>3, <1>4, <1>5

(* What a process sees of a field that memory has not changed. *)
LEMMA SeesSame ==
    ASSUME NEW m, NEW o, NEW b, NEW g, m[g] = o[g]
    PROVE  Sees(m, b, g) = Sees(o, b, g)
BY DEF Sees

-----------------------------------------------------------------------------
(* Writing *)

USE DEF Seen

(* Memory, and what p sees of it, are the same but for the field f. *)
SameMemory(f) ==
    /\ f # "ppid"   => mem'["ppid"] = mem["ppid"]
    /\ f # "pready" => mem'["pready"] = mem["pready"]
    /\ f # "cready" => mem'["cready"] = mem["cready"]
    /\ f # "x"      => mem'["x"] = mem["x"]
    /\ f # "y"      => mem'["y"] = mem["y"]
    /\ f # "cmd"    => mem'["cmd"] = mem["cmd"]

SameSight(p, f) ==
    /\ f # "ppid"   => Seen(p, "ppid")' = Seen(p, "ppid")
    /\ f # "pready" => Seen(p, "pready")' = Seen(p, "pready")
    /\ f # "cready" => Seen(p, "cready")' = Seen(p, "cready")
    /\ f # "x"      => Seen(p, "x")' = Seen(p, "x")
    /\ f # "y"      => Seen(p, "y")' = Seen(p, "y")
    /\ f # "cmd"    => Seen(p, "cmd")' = Seen(p, "cmd")

Peer(p) == IF p = Parent THEN Child ELSE Parent

(* What p sees of a field that is not in its buffer is what is in memory. *)
Transparent(p) ==
    /\ buf[p] = <<>> => InBuffer(p) = {}
    /\ "ppid"   \notin InBuffer(p) => Seen(p, "ppid") = mem["ppid"]
    /\ "pready" \notin InBuffer(p) => Seen(p, "pready") = mem["pready"]
    /\ "cready" \notin InBuffer(p) => Seen(p, "cready") = mem["cready"]
    /\ "x"      \notin InBuffer(p) => Seen(p, "x") = mem["x"]
    /\ "y"      \notin InBuffer(p) => Seen(p, "y") = mem["y"]
    /\ "cmd"    \notin InBuffer(p) => Seen(p, "cmd") = mem["cmd"]

LEMMA Transparency ==
    /\ Transparent(Parent) /\ Transparent(Child)
    /\ Transparent(Parent)' /\ Transparent(Child)'
<1>1. ASSUME NEW m, NEW b, NEW g, g \notin {b[k][1] : k \in 1 .. Len(b)}
      PROVE  Sees(m, b, g) = m[g]
  <2>1. Own(b, g) = {}
    BY <1>1 DEF Own
  <2>. QED
    BY <2>1 DEF Sees
<1>2. ASSUME NEW b, b = <<>> PROVE {b[k][1] : k \in 1 .. Len(b)} = {}
  BY <1>2
<1>. QED
  BY <1>1, <1>2 DEF Transparent, InBuffer

(* The buffers stay what they are, that of the other process the same. *)
BuffersKept(p) ==
    /\ buf' \in [Procs -> Seq(WritesOf(Parent) \cup WritesOf(Child))]
    /\ \A q \in Procs : buf'[q] \in Seq(WritesOf(q)) /\ FlagLast(q)' /\ Len(buf'[q]) <= size
    /\ buf'[Peer(p)] = buf[Peer(p)] /\ InBuffer(Peer(p))' = InBuffer(Peer(p))

(* The effect of a write: it is in memory at once if there is no buffer,   *)
(* and in the buffer of its process otherwise.                             *)
Written(p, f, v) ==
    /\ BuffersKept(p)
    /\ InBuffer(p)' \subseteq InBuffer(p) \cup {f}
    /\ SameMemory(f) /\ SameSight(p, f) /\ SameSight(Peer(p), f)
    /\ Seen(p, f)' = v
    /\ \/ buf'[p] # <<>> /\ mem'[f] = mem[f] /\ Seen(Peer(p), f)' = Seen(Peer(p), f)
       \/ buf'[p] = <<>> /\ buf[p] = <<>> /\ mem'[f] = v
    /\ mem' \in [Fields -> {mem[g] : g \in Fields} \cup {v}]

LEMMA Writing ==
    ASSUME TypeOK, BufferInv, NEW p \in Procs, NEW f \in Fields, NEW v,
           <<f, v>> \in WritesOf(p), FlagOf(p) \notin InBuffer(p), Write(p, f, v)
    PROVE  Written(p, f, v)
<1>. DEFINE b == buf[p]
            e == <<f, v>>
            n == Len(b)
            o == Peer(p)
<1>1. /\ b \in Seq(WritesOf(p)) /\ n \in Nat /\ n <= size /\ size \in Nat
      /\ e \in WritesOf(p) /\ e[1] = f
      /\ WritesOf(p) \subseteq WritesOf(Parent) \cup WritesOf(Child)
      /\ buf \in [Procs -> Seq(WritesOf(Parent) \cup WritesOf(Child))]
      /\ DOMAIN mem = Fields
  BY HandoffAssumption DEF TypeOK, BufferInv, Procs, Fields
<1>2. \A k \in 1 .. n : b[k][1] # FlagOf(p)
  BY DEF InBuffer
<1>a. /\ o \in Procs /\ o # p /\ Procs = {p, o} /\ buf[o] \in Seq(WritesOf(o))
      /\ FlagLast(o) /\ Len(buf[o]) <= size
  BY DEF Peer, Procs, Parent, Child, BufferInv, TypeOK
<1>. HIDE DEF o
<1>3. CASE size = 0
  <2>1. buf' = buf /\ b = <<>> /\ mem' = [mem EXCEPT ![f] = v]
    BY <1>1, <1>3 DEF Write
  <2>2. mem'[f] = v /\ \A g \in Fields \ {f} : mem'[g] = mem[g]
    BY <1>1, <2>1
  <2>3. mem' \in [Fields -> {mem[g] : g \in Fields} \cup {v}]
    BY <1>1, <2>1
  <2>4. Own(b, f) = {} 
    BY <2>1 DEF Own
  <2>5. Seen(p, f)' = v
    BY <2>1, <2>2, <2>4 DEF Sees
  <2>6. SameMemory(f)
    BY <2>2 DEF SameMemory, Fields
  <2>7. ASSUME NEW q \in Procs PROVE SameSight(q, f)
    <3>1. ASSUME NEW g, mem'[g] = mem[g] PROVE Seen(q, g)' = Seen(q, g)
      <4>1. Sees(mem', buf[q], g) = Sees(mem, buf[q], g)
        BY <3>1, SeesSame
      <4>. QED
        BY <2>1, <4>1
    <3>. QED
      BY <2>6, <3>1 DEF SameSight, SameMemory
  <2>8. BuffersKept(p) /\ InBuffer(p)' = InBuffer(p)
    BY <1>1, <1>a, <2>1 DEF BufferInv, TypeOK, BuffersKept, FlagLast, InBuffer, o
  <2>. QED
    BY <1>a, <2>1, <2>2, <2>3, <2>5, <2>6, <2>7, <2>8 DEF Written, o
<1>4. CASE size # 0
  <2>1. buf' = [buf EXCEPT ![p] = Append(b, e)] /\ mem' = mem /\ n < size
    BY <1>4 DEF Write
  <2>2. buf'[p] = Append(b, e) /\ buf'[o] = buf[o]
    BY <1>1, <1>a, <2>1
  <2>3. /\ Append(b, e) \in Seq(WritesOf(p)) /\ Len(Append(b, e)) = n + 1
        /\ Append(b, e)[n + 1] = e /\ \A k \in 1 .. n : Append(b, e)[k] = b[k]
        /\ Append(b, e) \in Seq(WritesOf(Parent) \cup WritesOf(Child))
    BY <1>1
  <2>. HIDE DEF e
  <2>4. /\ Sees(mem, Append(b, e), f) = v
        /\ \A g : g # f => Sees(mem, Append(b, e), g) = Sees(mem, b, g)
    <3>. HIDE DEF b
    <3>. QED
      BY <1>1, SeesAppended DEF e
  <2>5. Seen(p, f)' = v /\ SameSight(p, f)
    BY <2>1, <2>2, <2>4 DEF SameSight
  <2>6. SameSight(o, f) /\ Seen(o, f)' = Seen(o, f)
    BY <2>1, <2>2 DEF SameSight
  <2>7. FlagLast(p)' 
    BY <1>1, <1>2, <2>2, <2>3 DEF FlagLast
  <2>8. InBuffer(p)' \subseteq InBuffer(p) \cup {f}
    BY <1>1, <2>2, <2>3 DEF InBuffer
  <2>9. buf' \in [Procs -> Seq(WritesOf(Parent) \cup WritesOf(Child))]
    BY <1>1, <2>1, <2>3
  <2>10. FlagLast(o)' /\ InBuffer(o)' = InBuffer(o)
    BY <1>a, <2>2 DEF FlagLast, InBuffer
  <2>11. BuffersKept(p)
    <3>1. Len(buf'[p]) <= size
      BY <1>1, <2>1, <2>2, <2>3
    <3>2. ASSUME NEW q \in Procs
          PROVE  buf'[q] \in Seq(WritesOf(q)) /\ FlagLast(q)' /\ Len(buf'[q]) <= size
      <4>1. CASE q = p
        BY <2>2, <2>3, <2>7, <3>1, <4>1
      <4>2. CASE q = o
        BY <1>a, <2>2, <2>10, <4>2
      <4>. QED
        BY <1>a, <4>1, <4>2
    <3>. QED
      BY <2>2, <2>9, <2>10, <3>2 DEF BuffersKept, o
  <2>12. SameMemory(f) /\ mem' \in [Fields -> {mem[g] : g \in Fields} \cup {v}]
    <3>1. mem \in [Fields -> {mem[g] : g \in Fields} \cup {v}]
      BY <1>1 DEF TypeOK
    <3>. QED
      BY <2>1, <3>1 DEF SameMemory
  <2>13. buf'[p] # <<>>
    BY <2>2, <2>3
  <2>. QED
    BY <2>1, <2>5, <2>6, <2>8, <2>11, <2>12, <2>13 DEF Written, o
<1>. QED
  BY <1>3, <1>4

(* The effect of the oldest write of p reaching memory. *)
Drained(p) ==
    /\ BuffersKept(p) /\ InBuffer(p)' \subseteq InBuffer(p) /\ buf[p] # <<>>
    /\ SameSight(p, "none")
    /\ buf'[p] = <<>> => /\ mem'["ppid"] = Seen(p, "ppid") /\ mem'["pready"] = Seen(p, "pready")
                        /\ mem'["cready"] = Seen(p, "cready") /\ mem'["x"] = Seen(p, "x")
                        /\ mem'["y"] = Seen(p, "y") /\ mem'["cmd"] = Seen(p, "cmd")
    /\ \E f \in InBuffer(p) : \E v :
           /\ <<f, v>> \in WritesOf(p)
           /\ mem'[f] = v /\ SameMemory(f) /\ SameSight(Peer(p), f)
           /\ f = FlagOf(p) => buf'[p] = <<>>
           /\ mem' \in [Fields -> {mem[g] : g \in Fields} \cup {v}]

LEMMA Draining ==
    ASSUME TypeOK, BufferInv, NEW p \in Procs, Drain(p)
    PROVE  Drained(p)
<1>. DEFINE b == buf[p]
            c == Tail(b)
            f == b[1][1]
            v == b[1][2]
            n == Len(c)
<1>1. /\ b \in Seq(WritesOf(p)) /\ Len(b) <= size /\ size \in Nat
      /\ WritesOf(p) \subseteq WritesOf(Parent) \cup WritesOf(Child)
      /\ buf \in [Procs -> Seq(WritesOf(Parent) \cup WritesOf(Child))]
      /\ DOMAIN mem = Fields /\ FlagLast(p)
  BY HandoffAssumption DEF TypeOK, BufferInv, Procs, Fields
<1>2. b # <<>> /\ mem' = [mem EXCEPT ![f] = v] /\ buf' = [buf EXCEPT ![p] = c]
  BY DEF Drain
<1>3. /\ c \in Seq(WritesOf(p)) /\ n \in Nat /\ Len(b) = n + 1
      /\ \A k \in 1 .. n : c[k] = b[k + 1]
      /\ c \in Seq(WritesOf(Parent) \cup WritesOf(Child))
      /\ b[1] \in WritesOf(p)
  BY <1>1, <1>2
<1>4. f \in Fields /\ <<f, v>> \in WritesOf(p)
  BY <1>3 DEF WritesOf, Fields
<1>. DEFINE o == Peer(p)
<1>5. /\ o \in Procs /\ o # p /\ Procs = {p, o} /\ buf[o] \in Seq(WritesOf(o))
      /\ FlagLast(o) /\ Len(buf[o]) <= size
  BY DEF Peer, Procs, Parent, Child, BufferInv, TypeOK
<1>. HIDE DEF o
<1>6. buf'[p] = c /\ buf'[o] = buf[o]
  BY <1>1, <1>2, <1>5
<1>7. mem'[f] = v /\ \A g \in Fields \ {f} : mem'[g] = mem[g]
  BY <1>1, <1>2, <1>4
<1>8. \A g : Seen(p, g)' = Seen(p, g)
  <2>1. \A g : Sees([mem EXCEPT ![b[1][1]] = b[1][2]], Tail(b), g) = Sees(mem, b, g)
    <3>. HIDE DEF b
    <3>. QED
      BY <1>1, <1>2, <1>4, SeesDrained
  <2>. QED
    BY <1>2, <1>6, <2>1
<1>9. SameMemory(f) /\ SameSight(o, f) /\ SameSight(p, "none")
  <2>1. SameMemory(f)
    <3>. HIDE DEF f, v
    <3>. QED
      BY <1>7 DEF SameMemory, Fields
  <2>2. SameSight(o, f)
    <3>. HIDE DEF f, v
    <3>. QED
      BY <1>6, <2>1, SeesSame DEF SameSight, SameMemory
  <2>. QED
    BY <1>8, <2>1, <2>2 DEF SameSight
<1>10. /\ f \in InBuffer(p) /\ InBuffer(p)' \subseteq InBuffer(p)
       /\ f = FlagOf(p) => n = 0
       /\ FlagLast(p)'
  <2>. HIDE DEF c, n, f, v
  <2>1. f = b[1][1] /\ n = Len(c)
    BY DEF f, n
  <2>2. \A k \in 1 .. n : k + 1 \in 1 .. Len(b)
    BY <1>3
  <2>3. 1 \in 1 .. Len(b)
    BY <1>3
  <2>a. f \in InBuffer(p)
    BY <2>1, <2>3 DEF InBuffer
  <2>4. InBuffer(p)' \subseteq InBuffer(p)
    <3>1. InBuffer(p)' = {c[k][1] : k \in 1 .. n}
      BY <1>6, <2>1 DEF InBuffer
    <3>2. \A k \in 1 .. n : c[k][1] \in InBuffer(p)
      BY <1>3, <2>2 DEF InBuffer
    <3>. QED
      BY <3>1, <3>2
  <2>5. ASSUME f = FlagOf(p) PROVE n = 0
    <3>1. 1 = Len(b)
      BY <1>1, <2>1, <2>3, <2>5 DEF FlagLast
    <3>. QED
      BY <1>3, <3>1
  <2>6. FlagLast(p)'
    <3>1. SUFFICES ASSUME NEW k \in 1 .. n, c[k][1] = FlagOf(p) PROVE k = n
      BY <1>6, <2>1 DEF FlagLast
    <3>2. b[k + 1][1] = FlagOf(p) /\ k + 1 \in 1 .. Len(b)
      BY <1>3, <2>2, <3>1
    <3>3. k + 1 = Len(b)
      BY <1>1, <3>2 DEF FlagLast
    <3>. QED
      BY <1>3, <3>3
  <2>. QED
    BY <2>a, <2>4, <2>5, <2>6
<1>11. ASSUME c = <<>>, NEW g PROVE mem'[g] = Seen(p, g)
  <2>1. Own(c, g) = {}
    BY <1>11 DEF Own
  <2>2. Sees(mem', c, g) = mem'[g]
    BY <2>1 DEF Sees
  <2>. QED
    BY <1>6, <1>8, <2>2
<1>12. n = 0 => c = <<>>
  <2>. HIDE DEF c
  <2>. QED
    BY <1>3, EmptySeq
<1>13. BuffersKept(p)
  <2>. HIDE DEF c, f, v, n
  <2>1. buf' \in [Procs -> Seq(WritesOf(Parent) \cup WritesOf(Child))]
    <3>1. c \in Seq(WritesOf(Parent) \cup WritesOf(Child))
      BY <1>1, <1>3
    <3>. QED
      BY <1>1, <1>2, <3>1
  <2>2. Len(buf'[p]) <= size
    BY <1>1, <1>3, <1>6 DEF n
  <2>3. FlagLast(o)' /\ InBuffer(o)' = InBuffer(o)
    BY <1>5, <1>6 DEF FlagLast, InBuffer
  <2>4. ASSUME NEW q \in Procs
        PROVE  buf'[q] \in Seq(WritesOf(q)) /\ FlagLast(q)' /\ Len(buf'[q]) <= size
    <3>1. CASE q = p
      BY <1>3, <1>6, <1>10, <2>2, <3>1
    <3>2. CASE q = o
      BY <1>5, <1>6, <2>3, <3>2
    <3>. QED
      BY <1>5, <3>1, <3>2
  <2>. QED
    BY <1>6, <2>1, <2>3, <2>4 DEF BuffersKept, o
<1>14. mem' \in [Fields -> {mem[g] : g \in Fields} \cup {v}]
  <2>. HIDE DEF c, f, v, n
  <2>. QED
    BY <1>1, <1>2 DEF TypeOK
<1>. HIDE DEF c, f, v, n
<1>15. buf'[p] = <<>> => \A g : mem'[g] = Seen(p, g)
  BY <1>6, <1>11
<1>16. f = FlagOf(p) => buf'[p] = <<>>
  BY <1>6, <1>10, <1>12
<1>17. mem'[f] = v /\ SameMemory(f) /\ SameSight(Peer(p), f)
  BY <1>7, <1>9 DEF o
<1>. QED
  BY <1>2, <1>4, <1>9, <1>10, <1>13, <1>14, <1>15, <1>16, <1>17 DEF Drained

(* The steps: in each proof <1>1 says where the processes go, <1>2 and     *)
(* <1>a what becomes of memory and buffers; then there is a step for each  *)
(* conjunct of the invariant.                                              *)

LEMMA AttachStep == ASSUME IInv, Attach, size' = size PROVE IInv'
<1>1. /\ pc[Parent] = "attach" /\ pc'[Parent] = "check" /\ pc'[Child] = pc[Child]
      /\ pc' = [pc EXCEPT ![Parent] = "check"] /\ UNCHANGED <<pending, i>>
  BY DEF Attach, Assign, Goto, IInv, PcType, Procs, Parent, Child
<1>2. Written(Parent, "ppid", Parent)
  <2>0. i \in Nat
    BY HandoffAssumption DEF IInv, TypeOK
  <2>1. <<"ppid", Parent>> \in WritesOf(Parent) /\ "ppid" \in Fields /\ Parent \in Procs
    BY <2>0, HandoffAssumption DEF WritesOf, Fields, Parent, Child, Procs
  <2>2. FlagOf(Parent) \notin InBuffer(Parent)
    BY <1>1 DEF FlagOf, IInv, BufferInv, Parent, Child
  <2>. QED
    BY <2>1, <2>2, Writing DEF Attach, Assign, IInv
<1>a. /\ BuffersKept(Parent) /\ buf'[Child] = buf[Child] /\ InBuffer(Child)' = InBuffer(Child)
      /\ InBuffer(Parent)' \subseteq InBuffer(Parent) \cup {"ppid"}
      /\ SameMemory("ppid") /\ SameSight(Parent, "ppid") /\ SameSight(Child, "ppid")
      /\ Seen(Parent, "ppid")' = Parent
      /\ \/ buf'[Parent] # <<>> /\ mem'["ppid"] = mem["ppid"] /\ Seen(Child, "ppid")' = Seen(Child, "ppid")
         \/ buf'[Parent] = <<>> /\ buf[Parent] = <<>> /\ mem'["ppid"] = Parent
      /\ mem' \in [Fields -> {mem[g] : g \in Fields} \cup {Parent}]
  BY <1>2 DEF Written, BuffersKept, Peer, Parent, Child
<1>b. /\ Transparent(Parent) /\ Transparent(Child)
      /\ Transparent(Parent)' /\ Transparent(Child)'
  BY Transparency
<1>3. TypeOK'
  BY <1>1, <1>a, HandoffAssumption DEF IInv, TypeOK, BuffersKept, SameMemory, Fields, Procs,
     Parent, Child
<1>4. PcType'
  BY <1>1, <1>a DEF IInv, PcType, Quitting, Parent, Child
<1>5. LoopInv'
  BY <1>1, <1>a DEF IInv, LoopInv, Parent, Child
<1>6. BufferInv'
  BY <1>1, <1>a, <1>b DEF IInv, Transparent, LoopInv, BufferInv, BuffersKept, Procs, Parent,
     Child
<1>7. PidInv'
  BY <1>1, <1>a, <1>b DEF IInv, Transparent, PidInv, BufferInv, SameMemory, SameSight, Working,
     Parent, Child
<1>8. TurnInv'
  BY <1>1, <1>a, <1>b DEF IInv, Transparent, TurnInv, AskingInv, BufferInv, SameMemory,
     SameSight, Working, Asking, Waiting, Fresh, Quitting, Parent, Child
<1>9. AskingInv'
  BY <1>1, <1>a, <1>b DEF IInv, Transparent, AskingInv, TurnInv, BufferInv, SameMemory,
     SameSight, Asking, Working, Waiting, Fresh, Quitting, Parent, Child
<1>10. AnswerInv'
  BY <1>1, <1>a, <1>b DEF IInv, Transparent, AnswerInv, AskingInv, TurnInv, BufferInv,
     SameMemory, SameSight, Asking, Working, Waiting, Fresh, Last, Quitting, Parent, Child
<1>. QED
  BY <1>3, <1>4, <1>5, <1>6, <1>7, <1>8, <1>9, <1>10 DEF IInv

LEMMA ClearReadyStep == ASSUME IInv, ClearReady, size' = size PROVE IInv'
<1>1. /\ pc[Parent] = "clear" /\ pc'[Parent] = "set_x" /\ pc'[Child] = pc[Child]
      /\ pc' = [pc EXCEPT ![Parent] = "set_x"] /\ UNCHANGED <<pending, i>>
  BY DEF ClearReady, Assign, Goto, IInv, PcType, Procs, Parent, Child
<1>2. Written(Parent, "cready", FALSE)
  <2>0. i \in Nat
    BY HandoffAssumption DEF IInv, TypeOK
  <2>1. <<"cready", FALSE>> \in WritesOf(Parent) /\ "cready" \in Fields /\ Parent \in Procs
    BY <2>0, HandoffAssumption DEF WritesOf, Fields, Parent, Child, Procs
  <2>2. FlagOf(Parent) \notin InBuffer(Parent)
    BY <1>1 DEF FlagOf, IInv, BufferInv, Parent, Child
  <2>. QED
    BY <2>1, <2>2, Writing DEF ClearReady, Assign, IInv
<1>a. /\ BuffersKept(Parent) /\ buf'[Child] = buf[Child] /\ InBuffer(Child)' = InBuffer(Child)
      /\ InBuffer(Parent)' \subseteq InBuffer(Parent) \cup {"cready"}
      /\ SameMemory("cready") /\ SameSight(Parent, "cready") /\ SameSight(Child, "cready")
      /\ Seen(Parent, "cready")' = FALSE
      /\ \/ buf'[Parent] # <<>> /\ mem'["cready"] = mem["cready"] /\ Seen(Child, "cready")' = Seen(Child, "cready")
         \/ buf'[Parent] = <<>> /\ buf[Parent] = <<>> /\ mem'["cready"] = FALSE
      /\ mem' \in [Fields -> {mem[g] : g \in Fields} \cup {FALSE}]
  BY <1>2 DEF Written, BuffersKept, Peer, Parent, Child
<1>b. /\ Transparent(Parent) /\ Transparent(Child)
      /\ Transparent(Parent)' /\ Transparent(Child)'
  BY Transparency
<1>3. TypeOK'
  BY <1>1, <1>a, HandoffAssumption DEF IInv, TypeOK, BuffersKept, SameMemory, Fields, Procs,
     Parent, Child
<1>4. PcType'
  BY <1>1, <1>a DEF IInv, PcType, Quitting, Parent, Child
<1>5. LoopInv'
  BY <1>1, <1>a DEF IInv, LoopInv, Parent, Child
<1>6. BufferInv'
  BY <1>1, <1>a, <1>b DEF IInv, Transparent, LoopInv, BufferInv, BuffersKept, Procs, Parent,
     Child
<1>7. PidInv'
  BY <1>1, <1>a, <1>b DEF IInv, Transparent, PidInv, BufferInv, SameMemory, SameSight, Working,
     Parent, Child
<1>8. TurnInv'
  BY <1>1, <1>a, <1>b DEF IInv, Transparent, TurnInv, AskingInv, BufferInv, SameMemory,
     SameSight, Working, Asking, Waiting, Fresh, Quitting, Parent, Child
<1>9. AskingInv'
  BY <1>1, <1>a, <1>b DEF IInv, Transparent, AskingInv, TurnInv, BufferInv, SameMemory,
     SameSight, Asking, Working, Waiting, Fresh, Quitting, Parent, Child
<1>10. AnswerInv'
  BY <1>1, <1>a, <1>b DEF IInv, Transparent, AnswerInv, AskingInv, TurnInv, BufferInv,
     SameMemory, SameSight, Asking, Working, Waiting, Fresh, Last, Quitting, Parent, Child
<1>. QED
  BY <1>3, <1>4, <1>5, <1>6, <1>7, <1>8, <1>9, <1>10 DEF IInv

LEMMA SetXStep == ASSUME IInv, SetX, size' = size PROVE IInv'
<1>1. /\ pc[Parent] = "set_x" /\ pc'[Parent] = "set_cmd" /\ pc'[Child] = pc[Child]
      /\ pc' = [pc EXCEPT ![Parent] = "set_cmd"] /\ UNCHANGED <<pending, i>>
  BY DEF SetX, Assign, Goto, IInv, PcType, Procs, Parent, Child
<1>2. Written(Parent, "x", i)
  <2>0. i \in Nat
    BY HandoffAssumption DEF IInv, TypeOK
  <2>1. <<"x", i>> \in WritesOf(Parent) /\ "x" \in Fields /\ Parent \in Procs
    BY <2>0, HandoffAssumption DEF WritesOf, Fields, Parent, Child, Procs
  <2>2. FlagOf(Parent) \notin InBuffer(Parent)
    BY <1>1 DEF FlagOf, IInv, BufferInv, Parent, Child
  <2>. QED
    BY <2>1, <2>2, Writing DEF SetX, Assign, IInv
<1>a. /\ BuffersKept(Parent) /\ buf'[Child] = buf[Child] /\ InBuffer(Child)' = InBuffer(Child)
      /\ InBuffer(Parent)' \subseteq InBuffer(Parent) \cup {"x"}
      /\ SameMemory("x") /\ SameSight(Parent, "x") /\ SameSight(Child, "x")
      /\ Seen(Parent, "x")' = i
      /\ \/ buf'[Parent] # <<>> /\ mem'["x"] = mem["x"] /\ Seen(Child, "x")' = Seen(Child, "x")
         \/ buf'[Parent] = <<>> /\ buf[Parent] = <<>> /\ mem'["x"] = i
      /\ mem' \in [Fields -> {mem[g] : g \in Fields} \cup {i}]
  BY <1>2 DEF Written, BuffersKept, Peer, Parent, Child
<1>b. /\ Transparent(Parent) /\ Transparent(Child)
      /\ Transparent(Parent)' /\ Transparent(Child)'
  BY Transparency
<1>3. TypeOK'
  BY <1>1, <1>a, HandoffAssumption DEF IInv, TypeOK, BuffersKept, SameMemory, Fields, Procs,
     Parent, Child
<1>4. PcType'
  BY <1>1, <1>a DEF IInv, PcType, Quitting, Parent, Child
<1>5. LoopInv'
  BY <1>1, <1>a DEF IInv, LoopInv, Parent, Child
<1>6. BufferInv'
  BY <1>1, <1>a, <1>b DEF IInv, Transparent, LoopInv, BufferInv, BuffersKept, Procs, Parent,
     Child
<1>7. PidInv'
  BY <1>1, <1>a, <1>b DEF IInv, Transparent, PidInv, BufferInv, SameMemory, SameSight, Working,
     Parent, Child
<1>8. TurnInv'
  BY <1>1, <1>a, <1>b DEF IInv, Transparent, TurnInv, AskingInv, BufferInv, SameMemory,
     SameSight, Working, Asking, Waiting, Fresh, Quitting, Parent, Child
<1>9. AskingInv'
  BY <1>1, <1>a, <1>b DEF IInv, Transparent, AskingInv, TurnInv, BufferInv, SameMemory,
     SameSight, Asking, Working, Waiting, Fresh, Quitting, Parent, Child
<1>10. AnswerInv'
  BY <1>1, <1>a, <1>b DEF IInv, Transparent, AnswerInv, AskingInv, TurnInv, BufferInv,
     SameMemory, SameSight, Asking, Working, Waiting, Fresh, Last, Quitting, Parent, Child
<1>. QED
  BY <1>3, <1>4, <1>5, <1>6, <1>7, <1>8, <1>9, <1>10 DEF IInv

LEMMA SetCmdStep == ASSUME IInv, SetCmd, size' = size PROVE IInv'
<1>1. /\ pc[Parent] = "set_cmd" /\ pc'[Parent] = "set_pready" /\ pc'[Child] = pc[Child]
      /\ pc' = [pc EXCEPT ![Parent] = "set_pready"] /\ UNCHANGED <<pending, i>>
  BY DEF SetCmd, Assign, Goto, IInv, PcType, Procs, Parent, Child
<1>2. Written(Parent, "cmd", "*")
  <2>0. i \in Nat
    BY HandoffAssumption DEF IInv, TypeOK
  <2>1. <<"cmd", "*">> \in WritesOf(Parent) /\ "cmd" \in Fields /\ Parent \in Procs
    BY <2>0, HandoffAssumption DEF WritesOf, Fields, Parent, Child, Procs
  <2>2. FlagOf(Parent) \notin InBuffer(Parent)
    BY <1>1 DEF FlagOf, IInv, BufferInv, Parent, Child
  <2>. QED
    BY <2>1, <2>2, Writing DEF SetCmd, Assign, IInv
<1>a. /\ BuffersKept(Parent) /\ buf'[Child] = buf[Child] /\ InBuffer(Child)' = InBuffer(Child)
      /\ InBuffer(Parent)' \subseteq InBuffer(Parent) \cup {"cmd"}
      /\ SameMemory("cmd") /\ SameSight(Parent, "cmd") /\ SameSight(Child, "cmd")
      /\ Seen(Parent, "cmd")' = "*"
      /\ \/ buf'[Parent] # <<>> /\ mem'["cmd"] = mem["cmd"] /\ Seen(Child, "cmd")' = Seen(Child, "cmd")
         \/ buf'[Parent] = <<>> /\ buf[Parent] = <<>> /\ mem'["cmd"] = "*"
      /\ mem' \in [Fields -> {mem[g] : g \in Fields} \cup {"*"}]
  BY <1>2 DEF Written, BuffersKept, Peer, Parent, Child
<1>b. /\ Transparent(Parent) /\ Transparent(Child)
      /\ Transparent(Parent)' /\ Transparent(Child)'
  BY Transparency
<1>3. TypeOK'
  BY <1>1, <1>a, HandoffAssumption DEF IInv, TypeOK, BuffersKept, SameMemory, Fields, Procs,
     Parent, Child
<1>4. PcType'
  BY <1>1, <1>a DEF IInv, PcType, Quitting, Parent, Child
<1>5. LoopInv'
  BY <1>1, <1>a DEF IInv, LoopInv, Parent, Child
<1>6. BufferInv'
  BY <1>1, <1>a, <1>b DEF IInv, Transparent, LoopInv, BufferInv, BuffersKept, Procs, Parent,
     Child
<1>7. PidInv'
  BY <1>1, <1>a, <1>b DEF IInv, Transparent, PidInv, BufferInv, SameMemory, SameSight, Working,
     Parent, Child
<1>8. TurnInv'
  BY <1>1, <1>a, <1>b DEF IInv, Transparent, TurnInv, AskingInv, BufferInv, SameMemory,
     SameSight, Working, Asking, Waiting, Fresh, Quitting, Parent, Child
<1>9. AskingInv'
  BY <1>1, <1>a, <1>b DEF IInv, Transparent, AskingInv, TurnInv, BufferInv, SameMemory,
     SameSight, Asking, Working, Waiting, Fresh, Quitting, Parent, Child
<1>10. AnswerInv'
  BY <1>1, <1>a, <1>b DEF IInv, Transparent, AnswerInv, AskingInv, TurnInv, BufferInv,
     SameMemory, SameSight, Asking, Working, Waiting, Fresh, Last, Quitting, Parent, Child
<1>. QED
  BY <1>3, <1>4, <1>5, <1>6, <1>7, <1>8, <1>9, <1>10 DEF IInv

LEMMA SetPreadyStep == ASSUME IInv, SetPready, size' = size PROVE IInv'
<1>1. /\ pc[Parent] = "set_pready" /\ pc'[Parent] = "kill" /\ pc'[Child] = pc[Child]
      /\ pc' = [pc EXCEPT ![Parent] = "kill"] /\ UNCHANGED <<pending, i>>
  BY DEF SetPready, Assign, Goto, IInv, PcType, Procs, Parent, Child
<1>2. Written(Parent, "pready", TRUE)
  <2>0. i \in Nat
    BY HandoffAssumption DEF IInv, TypeOK
  <2>1. <<"pready", TRUE>> \in WritesOf(Parent) /\ "pready" \in Fields /\ Parent \in Procs
    BY <2>0, HandoffAssumption DEF WritesOf, Fields, Parent, Child, Procs
  <2>2. FlagOf(Parent) \notin InBuffer(Parent)
    BY <1>1 DEF FlagOf, IInv, BufferInv, Parent, Child
  <2>. QED
    BY <2>1, <2>2, Writing DEF SetPready, Assign, IInv
<1>a. /\ BuffersKept(Parent) /\ buf'[Child] = buf[Child] /\ InBuffer(Child)' = InBuffer(Child)
      /\ InBuffer(Parent)' \subseteq InBuffer(Parent) \cup {"pready"}
      /\ SameMemory("pready") /\ SameSight(Parent, "pready") /\ SameSight(Child, "pready")
      /\ Seen(Parent, "pready")' = TRUE
      /\ \/ buf'[Parent] # <<>> /\ mem'["pready"] = mem["pready"] /\ Seen(Child, "pready")' = Seen(Child, "pready")
         \/ buf'[Parent] = <<>> /\ buf[Parent] = <<>> /\ mem'["pready"] = TRUE
      /\ mem' \in [Fields -> {mem[g] : g \in Fields} \cup {TRUE}]
  BY <1>2 DEF Written, BuffersKept, Peer, Parent, Child
<1>b. /\ Transparent(Parent) /\ Transparent(Child)
      /\ Transparent(Parent)' /\ Transparent(Child)'
  BY Transparency
<1>3. TypeOK'
  BY <1>1, <1>a, HandoffAssumption DEF IInv, TypeOK, BuffersKept, SameMemory, Fields, Procs,
     Parent, Child
<1>4. PcType'
  BY <1>1, <1>a DEF IInv, PcType, Quitting, Parent, Child
<1>5. LoopInv'
  BY <1>1, <1>a DEF IInv, LoopInv, Parent, Child
<1>6. BufferInv'
  BY <1>1, <1>a, <1>b DEF IInv, Transparent, LoopInv, BufferInv, BuffersKept, Procs, Parent,
     Child
<1>7. PidInv'
  BY <1>1, <1>a, <1>b DEF IInv, Transparent, PidInv, BufferInv, SameMemory, SameSight, Working,
     Parent, Child
<1>8. TurnInv'
  <2>1. CASE buf'[Parent] # <<>>
    BY <1>1, <1>a, <1>b, <2>1 DEF IInv, Transparent, TurnInv, AskingInv, BufferInv, SameMemory,
       SameSight, Working, Asking, Waiting, Fresh, Quitting, Parent, Child
  <2>2. CASE buf'[Parent] = <<>>
    BY <1>1, <1>a, <1>b, <2>2 DEF IInv, Transparent, TurnInv, AskingInv, BufferInv, SameMemory,
       SameSight, Working, Asking, Waiting, Fresh, Quitting, Parent, Child
  <2>. QED
    BY <2>1, <2>2
<1>9. AskingInv'
  BY <1>1, <1>a, <1>b DEF IInv, Transparent, AskingInv, TurnInv, BufferInv, SameMemory,
     SameSight, Asking, Working, Waiting, Fresh, Quitting, Parent, Child
<1>10. AnswerInv'
  BY <1>1, <1>a, <1>b DEF IInv, Transparent, AnswerInv, AskingInv, TurnInv, BufferInv,
     SameMemory, SameSight, Asking, Working, Waiting, Fresh, Last, Quitting, Parent, Child
<1>. QED
  BY <1>3, <1>4, <1>5, <1>6, <1>7, <1>8, <1>9, <1>10 DEF IInv

LEMMA ClearReadyQStep == ASSUME IInv, ClearReadyQ, size' = size PROVE IInv'
<1>1. /\ pc[Parent] = "clear_q" /\ pc'[Parent] = "set_cmd_q" /\ pc'[Child] = pc[Child]
      /\ pc' = [pc EXCEPT ![Parent] = "set_cmd_q"] /\ UNCHANGED <<pending, i>>
  BY DEF ClearReadyQ, Assign, Goto, IInv, PcType, Procs, Parent, Child
<1>2. Written(Parent, "cready", FALSE)
  <2>0. i \in Nat
    BY HandoffAssumption DEF IInv, TypeOK
  <2>1. <<"cready", FALSE>> \in WritesOf(Parent) /\ "cready" \in Fields /\ Parent \in Procs
    BY <2>0, HandoffAssumption DEF WritesOf, Fields, Parent, Child, Procs
  <2>2. FlagOf(Parent) \notin InBuffer(Parent)
    BY <1>1 DEF FlagOf, IInv, BufferInv, Parent, Child
  <2>. QED
    BY <2>1, <2>2, Writing DEF ClearReadyQ, Assign, IInv
<1>a. /\ BuffersKept(Parent) /\ buf'[Child] = buf[Child] /\ InBuffer(Child)' = InBuffer(Child)
      /\ InBuffer(Parent)' \subseteq InBuffer(Parent) \cup {"cready"}
      /\ SameMemory("cready") /\ SameSight(Parent, "cready") /\ SameSight(Child, "cready")
      /\ Seen(Parent, "cready")' = FALSE
      /\ \/ buf'[Parent] # <<>> /\ mem'["cready"] = mem["cready"] /\ Seen(Child, "cready")' = Seen(Child, "cready")
         \/ buf'[Parent] = <<>> /\ buf[Parent] = <<>> /\ mem'["cready"] = FALSE
      /\ mem' \in [Fields -> {mem[g] : g \in Fields} \cup {FALSE}]
  BY <1>2 DEF Written, BuffersKept, Peer, Parent, Child
<1>b. /\ Transparent(Parent) /\ Transparent(Child)
      /\ Transparent(Parent)' /\ Transparent(Child)'
  BY Transparency
<1>3. TypeOK'
  BY <1>1, <1>a, HandoffAssumption DEF IInv, TypeOK, BuffersKept, SameMemory, Fields, Procs,
     Parent, Child
<1>4. PcType'
  BY <1>1, <1>a DEF IInv, PcType, Quitting, Parent, Child
<1>5. LoopInv'
  BY <1>1, <1>a DEF IInv, LoopInv, Parent, Child
<1>6. BufferInv'
  BY <1>1, <1>a, <1>b DEF IInv, Transparent, LoopInv, BufferInv, BuffersKept, Procs, Parent,
     Child
<1>7. PidInv'
  BY <1>1, <1>a, <1>b DEF IInv, Transparent, PidInv, BufferInv, SameMemory, SameSight, Working,
     Parent, Child
<1>8. TurnInv'
  BY <1>1, <1>a, <1>b DEF IInv, Transparent, TurnInv, AskingInv, BufferInv, SameMemory,
     SameSight, Working, Asking, Waiting, Fresh, Quitting, Parent, Child
<1>9. AskingInv'
  BY <1>1, <1>a, <1>b DEF IInv, Transparent, AskingInv, TurnInv, BufferInv, SameMemory,
     SameSight, Asking, Working, Waiting, Fresh, Quitting, Parent, Child
<1>10. AnswerInv'
  BY <1>1, <1>a, <1>b DEF IInv, Transparent, AnswerInv, AskingInv, TurnInv, BufferInv,
     SameMemory, SameSight, Asking, Working, Waiting, Fresh, Last, Quitting, Parent, Child
<1>. QED
  BY <1>3, <1>4, <1>5, <1>6, <1>7, <1>8, <1>9, <1>10 DEF IInv

LEMMA SetCmdQStep == ASSUME IInv, SetCmdQ, size' = size PROVE IInv'
<1>1. /\ pc[Parent] = "set_cmd_q" /\ pc'[Parent] = "set_pready_q" /\ pc'[Child] = pc[Child]
      /\ pc' = [pc EXCEPT ![Parent] = "set_pready_q"] /\ UNCHANGED <<pending, i>>
  BY DEF SetCmdQ, Assign, Goto, IInv, PcType, Procs, Parent, Child
<1>2. Written(Parent, "cmd", "Q")
  <2>0. i \in Nat
    BY HandoffAssumption DEF IInv, TypeOK
  <2>1. <<"cmd", "Q">> \in WritesOf(Parent) /\ "cmd" \in Fields /\ Parent \in Procs
    BY <2>0, HandoffAssumption DEF WritesOf, Fields, Parent, Child, Procs
  <2>2. FlagOf(Parent) \notin InBuffer(Parent)
    BY <1>1 DEF FlagOf, IInv, BufferInv, Parent, Child
  <2>. QED
    BY <2>1, <2>2, Writing DEF SetCmdQ, Assign, IInv
<1>a. /\ BuffersKept(Parent) /\ buf'[Child] = buf[Child] /\ InBuffer(Child)' = InBuffer(Child)
      /\ InBuffer(Parent)' \subseteq InBuffer(Parent) \cup {"cmd"}
      /\ SameMemory("cmd") /\ SameSight(Parent, "cmd") /\ SameSight(Child, "cmd")
      /\ Seen(Parent, "cmd")' = "Q"
      /\ \/ buf'[Parent] # <<>> /\ mem'["cmd"] = mem["cmd"] /\ Seen(Child, "cmd")' = Seen(Child, "cmd")
         \/ buf'[Parent] = <<>> /\ buf[Parent] = <<>> /\ mem'["cmd"] = "Q"
      /\ mem' \in [Fields -> {mem[g] : g \in Fields} \cup {"Q"}]
  BY <1>2 DEF Written, BuffersKept, Peer, Parent, Child
<1>b. /\ Transparent(Parent) /\ Transparent(Child)
      /\ Transparent(Parent)' /\ Transparent(Child)'
  BY Transparency
<1>3. TypeOK'
  BY <1>1, <1>a, HandoffAssumption DEF IInv, TypeOK, BuffersKept, SameMemory, Fields, Procs,
     Parent, Child
<1>4. PcType'
  BY <1>1, <1>a DEF IInv, PcType, Quitting, Parent, Child
<1>5. LoopInv'
  BY <1>1, <1>a DEF IInv, LoopInv, Parent, Child
<1>6. BufferInv'
  BY <1>1, <1>a, <1>b DEF IInv, Transparent, LoopInv, BufferInv, BuffersKept, Procs, Parent,
     Child
<1>7. PidInv'
  BY <1>1, <1>a, <1>b DEF IInv, Transparent, PidInv, BufferInv, SameMemory, SameSight, Working,
     Parent, Child
<1>8. TurnInv'
  BY <1>1, <1>a, <1>b DEF IInv, Transparent, TurnInv, AskingInv, BufferInv, SameMemory,
     SameSight, Working, Asking, Waiting, Fresh, Quitting, Parent, Child
<1>9. AskingInv'
  BY <1>1, <1>a, <1>b DEF IInv, Transparent, AskingInv, TurnInv, BufferInv, SameMemory,
     SameSight, Asking, Working, Waiting, Fresh, Quitting, Parent, Child
<1>10. AnswerInv'
  BY <1>1, <1>a, <1>b DEF IInv, Transparent, AnswerInv, AskingInv, TurnInv, BufferInv,
     SameMemory, SameSight, Asking, Working, Waiting, Fresh, Last, Quitting, Parent, Child
<1>. QED
  BY <1>3, <1>4, <1>5, <1>6, <1>7, <1>8, <1>9, <1>10 DEF IInv

LEMMA SetPreadyQStep == ASSUME IInv, SetPreadyQ, size' = size PROVE IInv'
<1>1. /\ pc[Parent] = "set_pready_q" /\ pc'[Parent] = "kill_q" /\ pc'[Child] = pc[Child]
      /\ pc' = [pc EXCEPT ![Parent] = "kill_q"] /\ UNCHANGED <<pending, i>>
  BY DEF SetPreadyQ, Assign, Goto, IInv, PcType, Procs, Parent, Child
<1>2. Written(Parent, "pready", TRUE)
  <2>0. i \in Nat
    BY HandoffAssumption DEF IInv, TypeOK
  <2>1. <<"pready", TRUE>> \in WritesOf(Parent) /\ "pready" \in Fields /\ Parent \in Procs
    BY <2>0, HandoffAssumption DEF WritesOf, Fields, Parent, Child, Procs
  <2>2. FlagOf(Parent) \notin InBuffer(Parent)
    BY <1>1 DEF FlagOf, IInv, BufferInv, Parent, Child
  <2>. QED
    BY <2>1, <2>2, Writing DEF SetPreadyQ, Assign, IInv
<1>a. /\ BuffersKept(Parent) /\ buf'[Child] = buf[Child] /\ InBuffer(Child)' = InBuffer(Child)
      /\ InBuffer(Parent)' \subseteq InBuffer(Parent) \cup {"pready"}
      /\ SameMemory("pready") /\ SameSight(Parent, "pready") /\ SameSight(Child, "pready")
      /\ Seen(Parent, "pready")' = TRUE
      /\ \/ buf'[Parent] # <<>> /\ mem'["pready"] = mem["pready"] /\ Seen(Child, "pready")' = Seen(Child, "pready")
         \/ buf'[Parent] = <<>> /\ buf[Parent] = <<>> /\ mem'["pready"] = TRUE
      /\ mem' \in [Fields -> {mem[g] : g \in Fields} \cup {TRUE}]
  BY <1>2 DEF Written, BuffersKept, Peer, Parent, Child
<1>b. /\ Transparent(Parent) /\ Transparent(Child)
      /\ Transparent(Parent)' /\ Transparent(Child)'
  BY Transparency
<1>3. TypeOK'
  BY <1>1, <1>a, HandoffAssumption DEF IInv, TypeOK, BuffersKept, SameMemory, Fields, Procs,
     Parent, Child
<1>4. PcType'
  BY <1>1, <1>a DEF IInv, PcType, Quitting, Parent, Child
<1>5. LoopInv'
  BY <1>1, <1>a DEF IInv, LoopInv, Parent, Child
<1>6. BufferInv'
  BY <1>1, <1>a, <1>b DEF IInv, Transparent, LoopInv, BufferInv, BuffersKept, Procs, Parent,
     Child
<1>7. PidInv'
  BY <1>1, <1>a, <1>b DEF IInv, Transparent, PidInv, BufferInv, SameMemory, SameSight, Working,
     Parent, Child
<1>8. TurnInv'
  BY <1>1, <1>a, <1>b DEF IInv, Transparent, TurnInv, AskingInv, BufferInv, SameMemory,
     SameSight, Working, Asking, Waiting, Fresh, Quitting, Parent, Child
<1>9. AskingInv'
  BY <1>1, <1>a, <1>b DEF IInv, Transparent, AskingInv, TurnInv, BufferInv, SameMemory,
     SameSight, Asking, Working, Waiting, Fresh, Quitting, Parent, Child
<1>10. AnswerInv'
  BY <1>1, <1>a, <1>b DEF IInv, Transparent, AnswerInv, AskingInv, TurnInv, BufferInv,
     SameMemory, SameSight, Asking, Working, Waiting, Fresh, Last, Quitting, Parent, Child
<1>. QED
  BY <1>3, <1>4, <1>5, <1>6, <1>7, <1>8, <1>9, <1>10 DEF IInv

LEMMA AnnounceStep == ASSUME IInv, Announce, size' = size PROVE IInv'
<1>1. /\ pc[Child] = "announce" /\ pc'[Child] = "first_kill" /\ pc'[Parent] = pc[Parent]
      /\ pc' = [pc EXCEPT ![Child] = "first_kill"] /\ UNCHANGED <<pending, i>>
  BY DEF Announce, Assign, Goto, IInv, PcType, Procs, Parent, Child
<1>2. Written(Child, "cready", TRUE)
  <2>0. i \in Nat
    BY HandoffAssumption DEF IInv, TypeOK
  <2>1. <<"cready", TRUE>> \in WritesOf(Child) /\ "cready" \in Fields /\ Child \in Procs
    BY <2>0, HandoffAssumption DEF WritesOf, Fields, Parent, Child, Procs
  <2>2. FlagOf(Child) \notin InBuffer(Child)
    BY <1>1 DEF FlagOf, IInv, BufferInv, Parent, Child
  <2>. QED
    BY <2>1, <2>2, Writing DEF Announce, Assign, IInv
<1>a. /\ BuffersKept(Child) /\ buf'[Parent] = buf[Parent] /\ InBuffer(Parent)' = InBuffer(Parent)
      /\ InBuffer(Child)' \subseteq InBuffer(Child) \cup {"cready"}
      /\ SameMemory("cready") /\ SameSight(Child, "cready") /\ SameSight(Parent, "cready")
      /\ Seen(Child, "cready")' = TRUE
      /\ \/ buf'[Child] # <<>> /\ mem'["cready"] = mem["cready"] /\ Seen(Parent, "cready")' = Seen(Parent, "cready")
         \/ buf'[Child] = <<>> /\ buf[Child] = <<>> /\ mem'["cready"] = TRUE
      /\ mem' \in [Fields -> {mem[g] : g \in Fields} \cup {TRUE}]
  BY <1>2 DEF Written, BuffersKept, Peer, Parent, Child
<1>b. /\ Transparent(Parent) /\ Transparent(Child)
      /\ Transparent(Parent)' /\ Transparent(Child)'
  BY Transparency
<1>3. TypeOK'
  BY <1>1, <1>a, HandoffAssumption DEF IInv, TypeOK, BuffersKept, SameMemory, Fields, Procs,
     Parent, Child
<1>4. PcType'
  BY <1>1, <1>a DEF IInv, PcType, Quitting, Parent, Child
<1>5. LoopInv'
  BY <1>1, <1>a DEF IInv, LoopInv, Parent, Child
<1>6. BufferInv'
  BY <1>1, <1>a, <1>b DEF IInv, Transparent, LoopInv, BufferInv, BuffersKept, Procs, Parent,
     Child
<1>7. PidInv'
  BY <1>1, <1>a, <1>b DEF IInv, Transparent, PidInv, BufferInv, SameMemory, SameSight, Working,
     Parent, Child
<1>8. TurnInv'
  BY <1>1, <1>a, <1>b DEF IInv, Transparent, TurnInv, AskingInv, BufferInv, SameMemory,
     SameSight, Working, Asking, Waiting, Fresh, Quitting, Parent, Child
<1>9. AskingInv'
  BY <1>1, <1>a, <1>b DEF IInv, Transparent, AskingInv, TurnInv, BufferInv, SameMemory,
     SameSight, Asking, Working, Waiting, Fresh, Quitting, Parent, Child
<1>10. AnswerInv'
  BY <1>1, <1>a, <1>b DEF IInv, Transparent, AnswerInv, AskingInv, TurnInv, BufferInv,
     SameMemory, SameSight, Asking, Working, Waiting, Fresh, Last, Quitting, Parent, Child
<1>. QED
  BY <1>3, <1>4, <1>5, <1>6, <1>7, <1>8, <1>9, <1>10 DEF IInv

LEMMA TakeStep == ASSUME IInv, Take, size' = size PROVE IInv'
<1>1. /\ pc[Child] = "take" /\ pc'[Child] = "cmd" /\ pc'[Parent] = pc[Parent]
      /\ pc' = [pc EXCEPT ![Child] = "cmd"] /\ UNCHANGED <<pending, i>>
  BY DEF Take, Assign, Goto, IInv, PcType, Procs, Parent, Child
<1>2. Written(Child, "pready", FALSE)
  <2>0. i \in Nat
    BY HandoffAssumption DEF IInv, TypeOK
  <2>1. <<"pready", FALSE>> \in WritesOf(Child) /\ "pready" \in Fields /\ Child \in Procs
    BY <2>0, HandoffAssumption DEF WritesOf, Fields, Parent, Child, Procs
  <2>2. FlagOf(Child) \notin InBuffer(Child)
    BY <1>1 DEF FlagOf, IInv, BufferInv, Parent, Child
  <2>. QED
    BY <2>1, <2>2, Writing DEF Take, Assign, IInv
<1>a. /\ BuffersKept(Child) /\ buf'[Parent] = buf[Parent] /\ InBuffer(Parent)' = InBuffer(Parent)
      /\ InBuffer(Child)' \subseteq InBuffer(Child) \cup {"pready"}
      /\ SameMemory("pready") /\ SameSight(Child, "pready") /\ SameSight(Parent, "pready")
      /\ Seen(Child, "pready")' = FALSE
      /\ \/ buf'[Child] # <<>> /\ mem'["pready"] = mem["pready"] /\ Seen(Parent, "pready")' = Seen(Parent, "pready")
         \/ buf'[Child] = <<>> /\ buf[Child] = <<>> /\ mem'["pready"] = FALSE
      /\ mem' \in [Fields -> {mem[g] : g \in Fields} \cup {FALSE}]
  BY <1>2 DEF Written, BuffersKept, Peer, Parent, Child
<1>b. /\ Transparent(Parent) /\ Transparent(Child)
      /\ Transparent(Parent)' /\ Transparent(Child)'
  BY Transparency
<1>3. TypeOK'
  BY <1>1, <1>a, HandoffAssumption DEF IInv, TypeOK, BuffersKept, SameMemory, Fields, Procs,
     Parent, Child
<1>4. PcType'
  BY <1>1, <1>a DEF IInv, PcType, Quitting, Parent, Child
<1>5. LoopInv'
  BY <1>1, <1>a DEF IInv, LoopInv, Parent, Child
<1>6. BufferInv'
  BY <1>1, <1>a, <1>b DEF IInv, Transparent, LoopInv, BufferInv, BuffersKept, Procs, Parent,
     Child
<1>7. PidInv'
  BY <1>1, <1>a, <1>b DEF IInv, Transparent, PidInv, BufferInv, SameMemory, SameSight, Working,
     Parent, Child
<1>8. TurnInv'
  BY <1>1, <1>a, <1>b DEF IInv, Transparent, TurnInv, AskingInv, BufferInv, SameMemory,
     SameSight, Working, Asking, Waiting, Fresh, Quitting, Parent, Child
<1>9. AskingInv'
  BY <1>1, <1>a, <1>b DEF IInv, Transparent, AskingInv, TurnInv, BufferInv, SameMemory,
     SameSight, Asking, Working, Waiting, Fresh, Quitting, Parent, Child
<1>10. AnswerInv'
  BY <1>1, <1>a, <1>b DEF IInv, Transparent, AnswerInv, AskingInv, TurnInv, BufferInv,
     SameMemory, SameSight, Asking, Working, Waiting, Fresh, Last, Quitting, Parent, Child
<1>. QED
  BY <1>3, <1>4, <1>5, <1>6, <1>7, <1>8, <1>9, <1>10 DEF IInv

LEMMA SquareStep == ASSUME IInv, Square, size' = size PROVE IInv'
<1>0. Read(Child, "x") = mem["x"] /\ mem["x"] \in Nat /\ mem["x"] * mem["x"] \in Nat
  <2>1. Read(Child, "x") = mem["x"]
    BY Transparency, ReadSees DEF Square, Assign, Goto, Transparent, IInv, BufferInv, Child,
       Procs
  <2>2. mem["x"] \in Nat
    BY DEF IInv, TypeOK
  <2>. QED
    BY <2>1, <2>2
<1>1. /\ pc[Child] = "square" /\ pc'[Child] = "ready" /\ pc'[Parent] = pc[Parent]
      /\ pc' = [pc EXCEPT ![Child] = "ready"] /\ UNCHANGED <<pending, i>>
  BY DEF Square, Assign, Goto, IInv, PcType, Procs, Parent, Child
<1>2. Written(Child, "y", Read(Child, "x") * Read(Child, "x"))
  <2>0. i \in Nat
    BY HandoffAssumption DEF IInv, TypeOK
  <2>1. <<"y", Read(Child, "x") * Read(Child, "x")>> \in WritesOf(Child) /\ "y" \in Fields /\ Child \in Procs
    BY <2>0, <1>0, HandoffAssumption DEF WritesOf, Fields, Parent, Child, Procs
  <2>2. FlagOf(Child) \notin InBuffer(Child)
    BY <1>1 DEF FlagOf, IInv, BufferInv, Parent, Child
  <2>. QED
    BY <2>1, <2>2, Writing DEF Square, Assign, IInv
<1>a. /\ BuffersKept(Child) /\ buf'[Parent] = buf[Parent] /\ InBuffer(Parent)' = InBuffer(Parent)
      /\ InBuffer(Child)' \subseteq InBuffer(Child) \cup {"y"}
      /\ SameMemory("y") /\ SameSight(Child, "y") /\ SameSight(Parent, "y")
      /\ Seen(Child, "y")' = Read(Child, "x") * Read(Child, "x")
      /\ \/ buf'[Child] # <<>> /\ mem'["y"] = mem["y"] /\ Seen(Parent, "y")' = Seen(Parent, "y")
         \/ buf'[Child] = <<>> /\ buf[Child] = <<>> /\ mem'["y"] = Read(Child, "x") * Read(Child, "x")
      /\ mem' \in [Fields -> {mem[g] : g \in Fields} \cup {Read(Child, "x") * Read(Child, "x")}]
  BY <1>2 DEF Written, BuffersKept, Peer, Parent, Child
<1>b. /\ Transparent(Parent) /\ Transparent(Child)
      /\ Transparent(Parent)' /\ Transparent(Child)'
  BY Transparency
<1>3. TypeOK'
  BY <1>1, <1>0, <1>a, HandoffAssumption DEF IInv, TypeOK, BuffersKept, SameMemory, Fields,
     Procs, Parent, Child
<1>4. PcType'
  BY <1>1, <1>0, <1>a DEF IInv, PcType, Quitting, Parent, Child
<1>5. LoopInv'
  BY <1>1, <1>0, <1>a DEF IInv, LoopInv, Parent, Child
<1>6. BufferInv'
  BY <1>1, <1>0, <1>a, <1>b DEF IInv, Transparent, LoopInv, BufferInv, BuffersKept, Procs,
     Parent, Child
<1>7. PidInv'
  BY <1>1, <1>0, <1>a, <1>b DEF IInv, Transparent, PidInv, BufferInv, SameMemory, SameSight,
     Working, Parent, Child
<1>8. TurnInv'
  BY <1>1, <1>0, <1>a, <1>b DEF IInv, Transparent, TurnInv, AskingInv, BufferInv, SameMemory,
     SameSight, Working, Asking, Waiting, Fresh, Quitting, Parent, Child
<1>9. AskingInv'
  BY <1>1, <1>0, <1>a, <1>b DEF IInv, Transparent, AskingInv, TurnInv, BufferInv, SameMemory,
     SameSight, Asking, Working, Waiting, Fresh, Quitting, Parent, Child
<1>10. AnswerInv'
  BY <1>1, <1>0, <1>a, <1>b DEF IInv, Transparent, AnswerInv, AskingInv, TurnInv, BufferInv,
     SameMemory, SameSight, Asking, Working, Waiting, Fresh, Last, Quitting, Parent, Child
<1>. QED
  BY <1>3, <1>4, <1>5, <1>6, <1>7, <1>8, <1>9, <1>10 DEF IInv

LEMMA ChildReadyStep == ASSUME IInv, ChildReady, size' = size PROVE IInv'
<1>1. /\ pc[Child] = "ready" /\ pc'[Child] = "kill" /\ pc'[Parent] = pc[Parent]
      /\ pc' = [pc EXCEPT ![Child] = "kill"] /\ UNCHANGED <<pending, i>>
  BY DEF ChildReady, Assign, Goto, IInv, PcType, Procs, Parent, Child
<1>2. Written(Child, "cready", TRUE)
  <2>0. i \in Nat
    BY HandoffAssumption DEF IInv, TypeOK
  <2>1. <<"cready", TRUE>> \in WritesOf(Child) /\ "cready" \in Fields /\ Child \in Procs
    BY <2>0, HandoffAssumption DEF WritesOf, Fields, Parent, Child, Procs
  <2>2. FlagOf(Child) \notin InBuffer(Child)
    BY <1>1 DEF FlagOf, IInv, BufferInv, Parent, Child
  <2>. QED
    BY <2>1, <2>2, Writing DEF ChildReady, Assign, IInv
<1>a. /\ BuffersKept(Child) /\ buf'[Parent] = buf[Parent] /\ InBuffer(Parent)' = InBuffer(Parent)
      /\ InBuffer(Child)' \subseteq InBuffer(Child) \cup {"cready"}
      /\ SameMemory("cready") /\ SameSight(Child, "cready") /\ SameSight(Parent, "cready")
      /\ Seen(Child, "cready")' = TRUE
      /\ \/ buf'[Child] # <<>> /\ mem'["cready"] = mem["cready"] /\ Seen(Parent, "cready")' = Seen(Parent, "cready")
         \/ buf'[Child] = <<>> /\ buf[Child] = <<>> /\ mem'["cready"] = TRUE
      /\ mem' \in [Fields -> {mem[g] : g \in Fields} \cup {TRUE}]
  BY <1>2 DEF Written, BuffersKept, Peer, Parent, Child
<1>b. /\ Transparent(Parent) /\ Transparent(Child)
      /\ Transparent(Parent)' /\ Transparent(Child)'
  BY Transparency
<1>3. TypeOK'
  BY <1>1, <1>a, HandoffAssumption DEF IInv, TypeOK, BuffersKept, SameMemory, Fields, Procs,
     Parent, Child
<1>4. PcType'
  BY <1>1, <1>a DEF IInv, PcType, Quitting, Parent, Child
<1>5. LoopInv'
  BY <1>1, <1>a DEF IInv, LoopInv, Parent, Child
<1>6. BufferInv'
  BY <1>1, <1>a, <1>b DEF IInv, Transparent, LoopInv, BufferInv, BuffersKept, Procs, Parent,
     Child
<1>7. PidInv'
  BY <1>1, <1>a, <1>b DEF IInv, Transparent, PidInv, BufferInv, SameMemory, SameSight, Working,
     Parent, Child
<1>8. TurnInv'
  <2>1. CASE buf'[Child] # <<>>
    BY <1>1, <1>a, <1>b, <2>1 DEF IInv, Transparent, TurnInv, AskingInv, BufferInv, SameMemory,
       SameSight, Working, Asking, Waiting, Fresh, Quitting, Parent, Child
  <2>2. CASE buf'[Child] = <<>>
    BY <1>1, <1>a, <1>b, <2>2 DEF IInv, Transparent, TurnInv, AskingInv, BufferInv, SameMemory,
       SameSight, Working, Asking, Waiting, Fresh, Quitting, Parent, Child
  <2>. QED
    BY <2>1, <2>2
<1>9. AskingInv'
  BY <1>1, <1>a, <1>b DEF IInv, Transparent, AskingInv, TurnInv, BufferInv, SameMemory,
     SameSight, Asking, Working, Waiting, Fresh, Quitting, Parent, Child
<1>10. AnswerInv'
  BY <1>1, <1>a, <1>b DEF IInv, Transparent, AnswerInv, AskingInv, TurnInv, BufferInv,
     SameMemory, SameSight, Asking, Working, Waiting, Fresh, Last, Quitting, Parent, Child
<1>. QED
  BY <1>3, <1>4, <1>5, <1>6, <1>7, <1>8, <1>9, <1>10 DEF IInv

(* Steps that write nothing. *)
Kept ==
    /\ mem' = mem /\ buf' = buf
    /\ SameMemory("none") /\ SameSight(Parent, "none") /\ SameSight(Child, "none")
    /\ InBuffer(Parent)' = InBuffer(Parent) /\ InBuffer(Child)' = InBuffer(Child)
    /\ \A p \in Procs : FlagLast(p)' <=> FlagLast(p)

LEMMA Keeping == ASSUME mem' = mem, buf' = buf PROVE Kept
BY DEF Kept, SameMemory, SameSight, InBuffer, FlagLast

LEMMA CheckStep == ASSUME IInv, Check, size' = size PROVE IInv'
<1>1. mem' = mem /\ buf' = buf
  BY DEF Check, MoreRequests, ReadyFlag
<1>2. /\ pc[Parent] = "check" /\ pc'[Child] = pc[Child] /\ pc' \in [Procs -> {pc[Parent], pc[Child], pc'[Parent]}]
      /\ UNCHANGED <<pending, i>>
      /\ \/ pc'[Parent] = "clear_q"
         \/ pc'[Parent] = "clear" /\ i < REQUESTS /\ Seen(Parent, "cready")
         \/ pc'[Parent] = "suspend"
  BY <1>1, Transparency, ReadSees DEF Check, MoreRequests, ReadyFlag, Goto, IInv, TypeOK,
     PcType, BufferInv, PidInv, Transparent, Procs, Parent, Child
<1>3. Kept
  BY <1>1, Keeping
<1>4. /\ Transparent(Parent) /\ Transparent(Child)
      /\ Transparent(Parent)' /\ Transparent(Child)'
  BY Transparency
<1>5. TypeOK'
  BY <1>1, <1>2, <1>3, <1>4, HandoffAssumption DEF IInv, TypeOK, PcType, LoopInv, Fields,
     Procs, Parent, Child
<1>6. PcType'
  BY <1>1, <1>2, <1>3, <1>4 DEF IInv, PcType, Quitting, Procs, Parent, Child
<1>7. LoopInv'
  BY <1>1, <1>2, <1>3, <1>4 DEF IInv, TypeOK, LoopInv, Quitting, Parent, Child
<1>8. BufferInv'
  BY <1>1, <1>2, <1>3, <1>4 DEF IInv, BufferInv, LoopInv, PcType, Transparent, Kept, TypeOK,
     Parent, Child
<1>9. PidInv'
  BY <1>1, <1>2, <1>3, <1>4 DEF IInv, PidInv, BufferInv, Transparent, Kept, SameMemory,
     SameSight, Working, Parent, Child
<1>10. TurnInv'
  BY <1>1, <1>2, <1>3, <1>4 DEF IInv, TurnInv, AskingInv, AnswerInv, BufferInv, Transparent,
     Kept, SameMemory, SameSight, Working, Asking, Waiting, Fresh, Quitting, Parent, Child
<1>11. AskingInv'
  BY <1>1, <1>2, <1>3, <1>4 DEF IInv, AskingInv, TurnInv, BufferInv, Transparent, Kept,
     SameMemory, SameSight, Asking, Working, Waiting, Fresh, Quitting, Parent, Child
<1>12. AnswerInv'
  BY <1>1, <1>2, <1>3, <1>4 DEF IInv, AnswerInv, AskingInv, TurnInv, BufferInv, PcType,
     LoopInv, TypeOK, Transparent, Kept, SameMemory, SameSight, Asking, Working, Waiting,
     Fresh, Last, Quitting, Parent, Child
<1>. QED
  BY <1>5, <1>6, <1>7, <1>8, <1>9, <1>10, <1>11, <1>12 DEF IInv

LEMMA ParentSuspendStep == ASSUME IInv, ParentSuspend, size' = size PROVE IInv'
<1>1. mem' = mem /\ buf' = buf
  BY DEF ParentSuspend, Suspend
<1>2. /\ pc[Parent] = "suspend" /\ pc'[Child] = pc[Child] /\ pc' \in [Procs -> {pc[Parent], pc[Child], pc'[Parent]}]
      /\ pc'[Parent] = "check"
      /\ buf[Parent] = <<>> /\ i' = i /\ pending' \in [Procs -> BOOLEAN]
  BY <1>1, Transparency, ReadSees DEF ParentSuspend, Suspend, Goto, IInv, TypeOK, PcType,
     BufferInv, PidInv, Transparent, Procs, Parent, Child
<1>3. Kept
  BY <1>1, Keeping
<1>4. /\ Transparent(Parent) /\ Transparent(Child)
      /\ Transparent(Parent)' /\ Transparent(Child)'
  BY Transparency
<1>5. TypeOK'
  BY <1>1, <1>2, <1>3, <1>4, HandoffAssumption DEF IInv, TypeOK, PcType, LoopInv, Fields,
     Procs, Parent, Child
<1>6. PcType'
  BY <1>1, <1>2, <1>3, <1>4 DEF IInv, PcType, Quitting, Procs, Parent, Child
<1>7. LoopInv'
  BY <1>1, <1>2, <1>3, <1>4 DEF IInv, TypeOK, LoopInv, Quitting, Parent, Child
<1>8. BufferInv'
  BY <1>1, <1>2, <1>3, <1>4 DEF IInv, BufferInv, LoopInv, PcType, Transparent, Kept, TypeOK,
     Parent, Child
<1>9. PidInv'
  BY <1>1, <1>2, <1>3, <1>4 DEF IInv, PidInv, BufferInv, Transparent, Kept, SameMemory,
     SameSight, Working, Parent, Child
<1>10. TurnInv'
  BY <1>1, <1>2, <1>3, <1>4 DEF IInv, TurnInv, AskingInv, AnswerInv, BufferInv, Transparent,
     Kept, SameMemory, SameSight, Working, Asking, Waiting, Fresh, Quitting, Parent, Child
<1>11. AskingInv'
  BY <1>1, <1>2, <1>3, <1>4 DEF IInv, AskingInv, TurnInv, BufferInv, Transparent, Kept,
     SameMemory, SameSight, Asking, Working, Waiting, Fresh, Quitting, Parent, Child
<1>12. AnswerInv'
  BY <1>1, <1>2, <1>3, <1>4 DEF IInv, AnswerInv, AskingInv, TurnInv, BufferInv, PcType,
     LoopInv, TypeOK, Transparent, Kept, SameMemory, SameSight, Asking, Working, Waiting,
     Fresh, Last, Quitting, Parent, Child
<1>. QED
  BY <1>5, <1>6, <1>7, <1>8, <1>9, <1>10, <1>11, <1>12 DEF IInv

LEMMA SignalChildStep == ASSUME IInv, SignalChild, size' = size PROVE IInv'
<1>1. mem' = mem /\ buf' = buf
  BY DEF SignalChild, Signal
<1>2. /\ pc[Parent] = "kill" /\ pc'[Child] = pc[Child] /\ pc' \in [Procs -> {pc[Parent], pc[Child], pc'[Parent]}]
      /\ pc'[Parent] = "check"
      /\ buf[Parent] = <<>> /\ i' = i + 1 /\ pending' \in [Procs -> BOOLEAN]
  BY <1>1, Transparency, ReadSees DEF SignalChild, Signal, Goto, IInv, TypeOK, PcType,
     BufferInv, PidInv, Transparent, Procs, Parent, Child
<1>3. Kept
  BY <1>1, Keeping
<1>4. /\ Transparent(Parent) /\ Transparent(Child)
      /\ Transparent(Parent)' /\ Transparent(Child)'
  BY Transparency
<1>5. TypeOK'
  BY <1>1, <1>2, <1>3, <1>4, HandoffAssumption DEF IInv, TypeOK, PcType, LoopInv, Fields,
     Procs, Parent, Child
<1>6. PcType'
  BY <1>1, <1>2, <1>3, <1>4 DEF IInv, PcType, Quitting, Procs, Parent, Child
<1>7. LoopInv'
  BY <1>1, <1>2, <1>3, <1>4 DEF IInv, TypeOK, LoopInv, Quitting, Parent, Child
<1>8. BufferInv'
  BY <1>1, <1>2, <1>3, <1>4 DEF IInv, BufferInv, LoopInv, PcType, Transparent, Kept, TypeOK,
     Parent, Child
<1>9. PidInv'
  BY <1>1, <1>2, <1>3, <1>4 DEF IInv, PidInv, BufferInv, Transparent, Kept, SameMemory,
     SameSight, Working, Parent, Child
<1>10. TurnInv'
  BY <1>1, <1>2, <1>3, <1>4 DEF IInv, TurnInv, AskingInv, AnswerInv, BufferInv, Transparent,
     Kept, SameMemory, SameSight, Working, Asking, Waiting, Fresh, Quitting, Parent, Child
<1>11. AskingInv'
  BY <1>1, <1>2, <1>3, <1>4 DEF IInv, AskingInv, TurnInv, BufferInv, Transparent, Kept,
     SameMemory, SameSight, Asking, Working, Waiting, Fresh, Quitting, Parent, Child
<1>12. AnswerInv'
  BY <1>1, <1>2, <1>3, <1>4 DEF IInv, AnswerInv, AskingInv, TurnInv, BufferInv, PcType,
     LoopInv, TypeOK, Transparent, Kept, SameMemory, SameSight, Asking, Working, Waiting,
     Fresh, Last, Quitting, Parent, Child
<1>. QED
  BY <1>5, <1>6, <1>7, <1>8, <1>9, <1>10, <1>11, <1>12 DEF IInv

LEMMA SignalChildQStep == ASSUME IInv, SignalChildQ, size' = size PROVE IInv'
<1>1. mem' = mem /\ buf' = buf
  BY DEF SignalChildQ, Signal
<1>2. /\ pc[Parent] = "kill_q" /\ pc'[Child] = pc[Child] /\ pc' \in [Procs -> {pc[Parent], pc[Child], pc'[Parent]}]
      /\ pc'[Parent] = "wait"
      /\ buf[Parent] = <<>> /\ i' = i /\ pending' \in [Procs -> BOOLEAN]
  BY <1>1, Transparency, ReadSees DEF SignalChildQ, Signal, Goto, IInv, TypeOK, PcType,
     BufferInv, PidInv, Transparent, Procs, Parent, Child
<1>3. Kept
  BY <1>1, Keeping
<1>4. /\ Transparent(Parent) /\ Transparent(Child)
      /\ Transparent(Parent)' /\ Transparent(Child)'
  BY Transparency
<1>5. TypeOK'
  BY <1>1, <1>2, <1>3, <1>4, HandoffAssumption DEF IInv, TypeOK, PcType, LoopInv, Fields,
     Procs, Parent, Child
<1>6. PcType'
  BY <1>1, <1>2, <1>3, <1>4 DEF IInv, PcType, Quitting, Procs, Parent, Child
<1>7. LoopInv'
  BY <1>1, <1>2, <1>3, <1>4 DEF IInv, TypeOK, LoopInv, Quitting, Parent, Child
<1>8. BufferInv'
  BY <1>1, <1>2, <1>3, <1>4 DEF IInv, BufferInv, LoopInv, PcType, Transparent, Kept, TypeOK,
     Parent, Child
<1>9. PidInv'
  BY <1>1, <1>2, <1>3, <1>4 DEF IInv, PidInv, BufferInv, Transparent, Kept, SameMemory,
     SameSight, Working, Parent, Child
<1>10. TurnInv'
  BY <1>1, <1>2, <1>3, <1>4 DEF IInv, TurnInv, AskingInv, AnswerInv, BufferInv, Transparent,
     Kept, SameMemory, SameSight, Working, Asking, Waiting, Fresh, Quitting, Parent, Child
<1>11. AskingInv'
  BY <1>1, <1>2, <1>3, <1>4 DEF IInv, AskingInv, TurnInv, BufferInv, Transparent, Kept,
     SameMemory, SameSight, Asking, Working, Waiting, Fresh, Quitting, Parent, Child
<1>12. AnswerInv'
  BY <1>1, <1>2, <1>3, <1>4 DEF IInv, AnswerInv, AskingInv, TurnInv, BufferInv, PcType,
     LoopInv, TypeOK, Transparent, Kept, SameMemory, SameSight, Asking, Working, Waiting,
     Fresh, Last, Quitting, Parent, Child
<1>. QED
  BY <1>5, <1>6, <1>7, <1>8, <1>9, <1>10, <1>11, <1>12 DEF IInv

LEMMA WaitChildStep == ASSUME IInv, WaitChild, size' = size PROVE IInv'
<1>1. mem' = mem /\ buf' = buf
  BY DEF WaitChild
<1>2. /\ pc[Parent] = "wait" /\ pc'[Child] = pc[Child] /\ pc' \in [Procs -> {pc[Parent], pc[Child], pc'[Parent]}]
      /\ pc'[Parent] = "exited"
      /\ buf[Parent] = <<>> /\ UNCHANGED <<pending, i>>
  BY <1>1, Transparency, ReadSees DEF WaitChild, Goto, IInv, TypeOK, PcType, BufferInv, PidInv,
     Transparent, Procs, Parent, Child
<1>3. Kept
  BY <1>1, Keeping
<1>4. /\ Transparent(Parent) /\ Transparent(Child)
      /\ Transparent(Parent)' /\ Transparent(Child)'
  BY Transparency
<1>5. TypeOK'
  BY <1>1, <1>2, <1>3, <1>4, HandoffAssumption DEF IInv, TypeOK, PcType, LoopInv, Fields,
     Procs, Parent, Child
<1>6. PcType'
  BY <1>1, <1>2, <1>3, <1>4 DEF IInv, PcType, Quitting, Procs, Parent, Child
<1>7. LoopInv'
  BY <1>1, <1>2, <1>3, <1>4 DEF IInv, TypeOK, LoopInv, Quitting, Parent, Child
<1>8. BufferInv'
  BY <1>1, <1>2, <1>3, <1>4 DEF IInv, BufferInv, LoopInv, PcType, Transparent, Kept, TypeOK,
     Parent, Child
<1>9. PidInv'
  BY <1>1, <1>2, <1>3, <1>4 DEF IInv, PidInv, BufferInv, Transparent, Kept, SameMemory,
     SameSight, Working, Parent, Child
<1>10. TurnInv'
  BY <1>1, <1>2, <1>3, <1>4 DEF IInv, TurnInv, AskingInv, AnswerInv, BufferInv, Transparent,
     Kept, SameMemory, SameSight, Working, Asking, Waiting, Fresh, Quitting, Parent, Child
<1>11. AskingInv'
  BY <1>1, <1>2, <1>3, <1>4 DEF IInv, AskingInv, TurnInv, BufferInv, Transparent, Kept,
     SameMemory, SameSight, Asking, Working, Waiting, Fresh, Quitting, Parent, Child
<1>12. AnswerInv'
  BY <1>1, <1>2, <1>3, <1>4 DEF IInv, AnswerInv, AskingInv, TurnInv, BufferInv, PcType,
     LoopInv, TypeOK, Transparent, Kept, SameMemory, SameSight, Asking, Working, Waiting,
     Fresh, Last, Quitting, Parent, Child
<1>. QED
  BY <1>5, <1>6, <1>7, <1>8, <1>9, <1>10, <1>11, <1>12 DEF IInv

LEMMA SignalParent1Step == ASSUME IInv, SignalParent1, size' = size PROVE IInv'
<1>1. mem' = mem /\ buf' = buf
  BY DEF SignalParent1, Signal
<1>2. /\ pc[Child] = "first_kill" /\ pc'[Parent] = pc[Parent] /\ pc' \in [Procs -> {pc[Parent], pc[Child], pc'[Child]}]
      /\ pc'[Child] = "check"
      /\ buf[Child] = <<>> /\ i' = i /\ pending' \in [Procs -> BOOLEAN]
  BY <1>1, Transparency, ReadSees DEF SignalParent1, Signal, Goto, IInv, TypeOK, PcType,
     BufferInv, PidInv, Transparent, Procs, Parent, Child
<1>3. Kept
  BY <1>1, Keeping
<1>4. /\ Transparent(Parent) /\ Transparent(Child)
      /\ Transparent(Parent)' /\ Transparent(Child)'
  BY Transparency
<1>5. TypeOK'
  BY <1>1, <1>2, <1>3, <1>4, HandoffAssumption DEF IInv, TypeOK, PcType, LoopInv, Fields,
     Procs, Parent, Child
<1>6. PcType'
  BY <1>1, <1>2, <1>3, <1>4 DEF IInv, PcType, Quitting, Procs, Parent, Child
<1>7. LoopInv'
  BY <1>1, <1>2, <1>3, <1>4 DEF IInv, TypeOK, LoopInv, Quitting, Parent, Child
<1>8. BufferInv'
  BY <1>1, <1>2, <1>3, <1>4 DEF IInv, BufferInv, LoopInv, PcType, Transparent, Kept, TypeOK,
     Parent, Child
<1>9. PidInv'
  BY <1>1, <1>2, <1>3, <1>4 DEF IInv, PidInv, BufferInv, Transparent, Kept, SameMemory,
     SameSight, Working, Parent, Child
<1>10. TurnInv'
  BY <1>1, <1>2, <1>3, <1>4 DEF IInv, TurnInv, AskingInv, AnswerInv, BufferInv, Transparent,
     Kept, SameMemory, SameSight, Working, Asking, Waiting, Fresh, Quitting, Parent, Child
<1>11. AskingInv'
  BY <1>1, <1>2, <1>3, <1>4 DEF IInv, AskingInv, TurnInv, BufferInv, Transparent, Kept,
     SameMemory, SameSight, Asking, Working, Waiting, Fresh, Quitting, Parent, Child
<1>12. AnswerInv'
  BY <1>1, <1>2, <1>3, <1>4 DEF IInv, AnswerInv, AskingInv, TurnInv, BufferInv, PcType,
     LoopInv, TypeOK, Transparent, Kept, SameMemory, SameSight, Asking, Working, Waiting,
     Fresh, Last, Quitting, Parent, Child
<1>. QED
  BY <1>5, <1>6, <1>7, <1>8, <1>9, <1>10, <1>11, <1>12 DEF IInv

LEMMA ChildCheckStep == ASSUME IInv, ChildCheck, size' = size PROVE IInv'
<1>1. mem' = mem /\ buf' = buf
  BY DEF ChildCheck
<1>2. /\ pc[Child] = "check" /\ pc'[Parent] = pc[Parent] /\ pc' \in [Procs -> {pc[Parent], pc[Child], pc'[Child]}]
      /\ UNCHANGED <<pending, i>>
      /\ \/ pc'[Child] = "take" /\ mem["pready"]
         \/ pc'[Child] = "suspend"
  BY <1>1, Transparency, ReadSees DEF ChildCheck, Goto, IInv, TypeOK, PcType, BufferInv,
     PidInv, Transparent, Procs, Parent, Child
<1>3. Kept
  BY <1>1, Keeping
<1>4. /\ Transparent(Parent) /\ Transparent(Child)
      /\ Transparent(Parent)' /\ Transparent(Child)'
  BY Transparency
<1>5. TypeOK'
  BY <1>1, <1>2, <1>3, <1>4, HandoffAssumption DEF IInv, TypeOK, PcType, LoopInv, Fields,
     Procs, Parent, Child
<1>6. PcType'
  BY <1>1, <1>2, <1>3, <1>4 DEF IInv, PcType, Quitting, Procs, Parent, Child
<1>7. LoopInv'
  BY <1>1, <1>2, <1>3, <1>4 DEF IInv, TypeOK, LoopInv, Quitting, Parent, Child
<1>8. BufferInv'
  BY <1>1, <1>2, <1>3, <1>4 DEF IInv, BufferInv, LoopInv, PcType, Transparent, Kept, TypeOK,
     Parent, Child
<1>9. PidInv'
  BY <1>1, <1>2, <1>3, <1>4 DEF IInv, PidInv, BufferInv, Transparent, Kept, SameMemory,
     SameSight, Working, Parent, Child
<1>10. TurnInv'
  BY <1>1, <1>2, <1>3, <1>4 DEF IInv, TurnInv, AskingInv, AnswerInv, BufferInv, Transparent,
     Kept, SameMemory, SameSight, Working, Asking, Waiting, Fresh, Quitting, Parent, Child
<1>11. AskingInv'
  BY <1>1, <1>2, <1>3, <1>4 DEF IInv, AskingInv, TurnInv, BufferInv, Transparent, Kept,
     SameMemory, SameSight, Asking, Working, Waiting, Fresh, Quitting, Parent, Child
<1>12. AnswerInv'
  BY <1>1, <1>2, <1>3, <1>4 DEF IInv, AnswerInv, AskingInv, TurnInv, BufferInv, PcType,
     LoopInv, TypeOK, Transparent, Kept, SameMemory, SameSight, Asking, Working, Waiting,
     Fresh, Last, Quitting, Parent, Child
<1>. QED
  BY <1>5, <1>6, <1>7, <1>8, <1>9, <1>10, <1>11, <1>12 DEF IInv

LEMMA ChildSuspendStep == ASSUME IInv, ChildSuspend, size' = size PROVE IInv'
<1>1. mem' = mem /\ buf' = buf
  BY DEF ChildSuspend, Suspend
<1>2. /\ pc[Child] = "suspend" /\ pc'[Parent] = pc[Parent] /\ pc' \in [Procs -> {pc[Parent], pc[Child], pc'[Child]}]
      /\ pc'[Child] = "check"
      /\ buf[Child] = <<>> /\ i' = i /\ pending' \in [Procs -> BOOLEAN]
  BY <1>1, Transparency, ReadSees DEF ChildSuspend, Suspend, Goto, IInv, TypeOK, PcType,
     BufferInv, PidInv, Transparent, Procs, Parent, Child
<1>3. Kept
  BY <1>1, Keeping
<1>4. /\ Transparent(Parent) /\ Transparent(Child)
      /\ Transparent(Parent)' /\ Transparent(Child)'
  BY Transparency
<1>5. TypeOK'
  BY <1>1, <1>2, <1>3, <1>4, HandoffAssumption DEF IInv, TypeOK, PcType, LoopInv, Fields,
     Procs, Parent, Child
<1>6. PcType'
  BY <1>1, <1>2, <1>3, <1>4 DEF IInv, PcType, Quitting, Procs, Parent, Child
<1>7. LoopInv'
  BY <1>1, <1>2, <1>3, <1>4 DEF IInv, TypeOK, LoopInv, Quitting, Parent, Child
<1>8. BufferInv'
  BY <1>1, <1>2, <1>3, <1>4 DEF IInv, BufferInv, LoopInv, PcType, Transparent, Kept, TypeOK,
     Parent, Child
<1>9. PidInv'
  BY <1>1, <1>2, <1>3, <1>4 DEF IInv, PidInv, BufferInv, Transparent, Kept, SameMemory,
     SameSight, Working, Parent, Child
<1>10. TurnInv'
  BY <1>1, <1>2, <1>3, <1>4 DEF IInv, TurnInv, AskingInv, AnswerInv, BufferInv, Transparent,
     Kept, SameMemory, SameSight, Working, Asking, Waiting, Fresh, Quitting, Parent, Child
<1>11. AskingInv'
  BY <1>1, <1>2, <1>3, <1>4 DEF IInv, AskingInv, TurnInv, BufferInv, Transparent, Kept,
     SameMemory, SameSight, Asking, Working, Waiting, Fresh, Quitting, Parent, Child
<1>12. AnswerInv'
  BY <1>1, <1>2, <1>3, <1>4 DEF IInv, AnswerInv, AskingInv, TurnInv, BufferInv, PcType,
     LoopInv, TypeOK, Transparent, Kept, SameMemory, SameSight, Asking, Working, Waiting,
     Fresh, Last, Quitting, Parent, Child
<1>. QED
  BY <1>5, <1>6, <1>7, <1>8, <1>9, <1>10, <1>11, <1>12 DEF IInv

LEMMA ObeyStep == ASSUME IInv, Obey, size' = size PROVE IInv'
<1>1. mem' = mem /\ buf' = buf
  BY DEF Obey
<1>2. /\ pc[Child] = "cmd" /\ pc'[Parent] = pc[Parent] /\ pc' \in [Procs -> {pc[Parent], pc[Child], pc'[Child]}]
      /\ UNCHANGED <<pending, i>>
      /\ \/ pc'[Child] = "exited" /\ mem["cmd"] = "Q"
         \/ pc'[Child] = "square"
  BY <1>1, Transparency, ReadSees DEF Obey, Goto, IInv, TypeOK, PcType, BufferInv, PidInv,
     Transparent, Procs, Parent, Child
<1>3. Kept
  BY <1>1, Keeping
<1>4. /\ Transparent(Parent) /\ Transparent(Child)
      /\ Transparent(Parent)' /\ Transparent(Child)'
  BY Transparency
<1>5. TypeOK'
  BY <1>1, <1>2, <1>3, <1>4, HandoffAssumption DEF IInv, TypeOK, PcType, LoopInv, Fields,
     Procs, Parent, Child
<1>6. PcType'
  BY <1>1, <1>2, <1>3, <1>4 DEF IInv, PcType, Quitting, Procs, Parent, Child
<1>7. LoopInv'
  BY <1>1, <1>2, <1>3, <1>4 DEF IInv, TypeOK, LoopInv, Quitting, Parent, Child
<1>8. BufferInv'
  BY <1>1, <1>2, <1>3, <1>4 DEF IInv, BufferInv, LoopInv, PcType, Transparent, Kept, TypeOK,
     Parent, Child
<1>9. PidInv'
  BY <1>1, <1>2, <1>3, <1>4 DEF IInv, PidInv, BufferInv, Transparent, Kept, SameMemory,
     SameSight, Working, Parent, Child
<1>10. TurnInv'
  BY <1>1, <1>2, <1>3, <1>4 DEF IInv, TurnInv, AskingInv, AnswerInv, BufferInv, Transparent,
     Kept, SameMemory, SameSight, Working, Asking, Waiting, Fresh, Quitting, Parent, Child
<1>11. AskingInv'
  BY <1>1, <1>2, <1>3, <1>4 DEF IInv, AskingInv, TurnInv, BufferInv, Transparent, Kept,
     SameMemory, SameSight, Asking, Working, Waiting, Fresh, Quitting, Parent, Child
<1>12. AnswerInv'
  BY <1>1, <1>2, <1>3, <1>4 DEF IInv, AnswerInv, AskingInv, TurnInv, BufferInv, PcType,
     LoopInv, TypeOK, Transparent, Kept, SameMemory, SameSight, Asking, Working, Waiting,
     Fresh, Last, Quitting, Parent, Child
<1>. QED
  BY <1>5, <1>6, <1>7, <1>8, <1>9, <1>10, <1>11, <1>12 DEF IInv

LEMMA SignalParentStep == ASSUME IInv, SignalParent, size' = size PROVE IInv'
<1>1. mem' = mem /\ buf' = buf
  BY DEF SignalParent, Signal
<1>2. /\ pc[Child] = "kill" /\ pc'[Parent] = pc[Parent] /\ pc' \in [Procs -> {pc[Parent], pc[Child], pc'[Child]}]
      /\ pc'[Child] = "check"
      /\ buf[Child] = <<>> /\ i' = i /\ pending' \in [Procs -> BOOLEAN]
  BY <1>1, Transparency, ReadSees DEF SignalParent, Signal, Goto, IInv, TypeOK, PcType,
     BufferInv, PidInv, Transparent, Procs, Parent, Child
<1>3. Kept
  BY <1>1, Keeping
<1>4. /\ Transparent(Parent) /\ Transparent(Child)
      /\ Transparent(Parent)' /\ Transparent(Child)'
  BY Transparency
<1>5. TypeOK'
  BY <1>1, <1>2, <1>3, <1>4, HandoffAssumption DEF IInv, TypeOK, PcType, LoopInv, Fields,
     Procs, Parent, Child
<1>6. PcType'
  BY <1>1, <1>2, <1>3, <1>4 DEF IInv, PcType, Quitting, Procs, Parent, Child
<1>7. LoopInv'
  BY <1>1, <1>2, <1>3, <1>4 DEF IInv, TypeOK, LoopInv, Quitting, Parent, Child
<1>8. BufferInv'
  BY <1>1, <1>2, <1>3, <1>4 DEF IInv, BufferInv, LoopInv, PcType, Transparent, Kept, TypeOK,
     Parent, Child
<1>9. PidInv'
  BY <1>1, <1>2, <1>3, <1>4 DEF IInv, PidInv, BufferInv, Transparent, Kept, SameMemory,
     SameSight, Working, Parent, Child
<1>10. TurnInv'
  BY <1>1, <1>2, <1>3, <1>4 DEF IInv, TurnInv, AskingInv, AnswerInv, BufferInv, Transparent,
     Kept, SameMemory, SameSight, Working, Asking, Waiting, Fresh, Quitting, Parent, Child
<1>11. AskingInv'
  BY <1>1, <1>2, <1>3, <1>4 DEF IInv, AskingInv, TurnInv, BufferInv, Transparent, Kept,
     SameMemory, SameSight, Asking, Working, Waiting, Fresh, Quitting, Parent, Child
<1>12. AnswerInv'
  BY <1>1, <1>2, <1>3, <1>4 DEF IInv, AnswerInv, AskingInv, TurnInv, BufferInv, PcType,
     LoopInv, TypeOK, Transparent, Kept, SameMemory, SameSight, Asking, Working, Waiting,
     Fresh, Last, Quitting, Parent, Child
<1>. QED
  BY <1>5, <1>6, <1>7, <1>8, <1>9, <1>10, <1>11, <1>12 DEF IInv

LEMMA DrainParentStep == ASSUME IInv, Drain(Parent), size' = size PROVE IInv'
<1>1. Drained(Parent) /\ UNCHANGED <<pending, pc, i>>
  BY Draining DEF Drain, IInv, Procs, Parent, Child
<1>2. PICK f, v :
          /\ f \in InBuffer(Parent)
          /\ <<f, v>> \in WritesOf(Parent)
          /\ mem'[f] = v /\ SameMemory(f) /\ SameSight(Child, f)
          /\ f = FlagOf(Parent) => buf'[Parent] = <<>>
          /\ mem' \in [Fields -> {mem[g] : g \in Fields} \cup {v}]
  BY <1>1 DEF Drained, Peer, Parent, Child
<1>3. /\ BuffersKept(Parent) /\ InBuffer(Parent)' \subseteq InBuffer(Parent) /\ buf[Parent] # <<>>
      /\ buf'[Child] = buf[Child] /\ InBuffer(Child)' = InBuffer(Child)
      /\ SameSight(Parent, "none")
      /\ buf'[Parent] = <<>> => /\ mem'["ppid"] = Seen(Parent, "ppid") /\ mem'["pready"] = Seen(Parent, "pready")
                          /\ mem'["cready"] = Seen(Parent, "cready") /\ mem'["x"] = Seen(Parent, "x")
                          /\ mem'["y"] = Seen(Parent, "y") /\ mem'["cmd"] = Seen(Parent, "cmd")
  BY <1>1 DEF Drained, BuffersKept, Peer, Parent, Child
<1>4. /\ Transparent(Parent) /\ Transparent(Child)
      /\ Transparent(Parent)' /\ Transparent(Child)'
  BY Transparency
<1>5. f = "ppid" \/ f = "cready" \/ f = "pready" \/ f = "x" \/ f = "cmd"
  BY <1>2 DEF WritesOf, Parent, Child
<1>. HIDE DEF Seen
<1>6. TypeOK'
  <2>1. CASE f = "ppid"
    BY <1>1, <1>2, <1>3, <1>4, <2>1, HandoffAssumption DEF IInv, TypeOK, BuffersKept, WritesOf,
       SameMemory, Fields, Procs, Parent, Child
  <2>2. CASE f = "cready"
    BY <1>1, <1>2, <1>3, <1>4, <2>2, HandoffAssumption DEF IInv, TypeOK, BuffersKept, WritesOf,
       SameMemory, Fields, Procs, Parent, Child
  <2>3. CASE f = "pready"
    BY <1>1, <1>2, <1>3, <1>4, <2>3, HandoffAssumption DEF IInv, TypeOK, BuffersKept, WritesOf,
       SameMemory, Fields, Procs, Parent, Child
  <2>4. CASE f = "x"
    BY <1>1, <1>2, <1>3, <1>4, <2>4, HandoffAssumption DEF IInv, TypeOK, BuffersKept, WritesOf,
       SameMemory, Fields, Procs, Parent, Child
  <2>5. CASE f = "cmd"
    BY <1>1, <1>2, <1>3, <1>4, <2>5, HandoffAssumption DEF IInv, TypeOK, BuffersKept, WritesOf,
       SameMemory, Fields, Procs, Parent, Child
  <2>. QED
    BY <1>5, <2>1, <2>2, <2>3, <2>4, <2>5
<1>7. PcType'
  BY <1>1, <1>3 DEF IInv, PcType, Quitting, Procs, Parent, Child
<1>8. LoopInv'
  BY <1>1, <1>3 DEF IInv, TypeOK, LoopInv, Quitting, Parent, Child
<1>9. BufferInv'
  BY <1>1, <1>2, <1>3, <1>4, <1>5 DEF IInv, BufferInv, BuffersKept, Transparent, Procs, Parent,
     Child
<1>10. PidInv'
  <2>1. CASE f = "ppid"
    BY <1>1, <1>2, <1>3, <1>4, <2>1 DEF IInv, PidInv, BufferInv, Transparent, SameMemory,
       SameSight, Working, WritesOf, FlagOf, Parent, Child
  <2>2. CASE f = "cready"
    BY <1>1, <1>2, <1>3, <1>4, <2>2 DEF IInv, PidInv, BufferInv, Transparent, SameMemory,
       SameSight, Working, WritesOf, FlagOf, Parent, Child
  <2>3. CASE f = "pready"
    BY <1>1, <1>2, <1>3, <1>4, <2>3 DEF IInv, PidInv, BufferInv, Transparent, SameMemory,
       SameSight, Working, WritesOf, FlagOf, Parent, Child
  <2>4. CASE f = "x"
    BY <1>1, <1>2, <1>3, <1>4, <2>4 DEF IInv, PidInv, BufferInv, Transparent, SameMemory,
       SameSight, Working, WritesOf, FlagOf, Parent, Child
  <2>5. CASE f = "cmd"
    BY <1>1, <1>2, <1>3, <1>4, <2>5 DEF IInv, PidInv, BufferInv, Transparent, SameMemory,
       SameSight, Working, WritesOf, FlagOf, Parent, Child
  <2>. QED
    BY <1>5, <2>1, <2>2, <2>3, <2>4, <2>5
<1>11. TurnInv'
  <2>1. CASE f = "ppid"
    BY <1>1, <1>2, <1>3, <1>4, <2>1 DEF IInv, TurnInv, AskingInv, AnswerInv, BufferInv,
       Transparent, SameMemory, SameSight, Working, Asking, Waiting, Fresh, Quitting, WritesOf,
       FlagOf, Parent, Child
  <2>2. CASE f = "cready"
    BY <1>1, <1>2, <1>3, <1>4, <2>2 DEF IInv, TurnInv, AskingInv, AnswerInv, BufferInv,
       Transparent, SameMemory, SameSight, Working, Asking, Waiting, Fresh, Quitting, WritesOf,
       FlagOf, Parent, Child
  <2>3. CASE f = "pready"
    BY <1>1, <1>2, <1>3, <1>4, <2>3 DEF IInv, TurnInv, AskingInv, AnswerInv, BufferInv,
       Transparent, SameMemory, SameSight, Working, Asking, Waiting, Fresh, Quitting, WritesOf,
       FlagOf, Parent, Child
  <2>4. CASE f = "x"
    BY <1>1, <1>2, <1>3, <1>4, <2>4 DEF IInv, TurnInv, AskingInv, AnswerInv, BufferInv,
       Transparent, SameMemory, SameSight, Working, Asking, Waiting, Fresh, Quitting, WritesOf,
       FlagOf, Parent, Child
  <2>5. CASE f = "cmd"
    BY <1>1, <1>2, <1>3, <1>4, <2>5 DEF IInv, TurnInv, AskingInv, AnswerInv, BufferInv,
       Transparent, SameMemory, SameSight, Working, Asking, Waiting, Fresh, Quitting, WritesOf,
       FlagOf, Parent, Child
  <2>. QED
    BY <1>5, <2>1, <2>2, <2>3, <2>4, <2>5
<1>12. AskingInv'
  <2>1. CASE f = "ppid"
    BY <1>1, <1>2, <1>3, <1>4, <2>1 DEF IInv, AskingInv, TurnInv, BufferInv, Transparent,
       SameMemory, SameSight, Asking, Working, Waiting, Fresh, Quitting, WritesOf, FlagOf,
       Parent, Child
  <2>2. CASE f = "cready"
    BY <1>1, <1>2, <1>3, <1>4, <2>2 DEF IInv, AskingInv, TurnInv, BufferInv, Transparent,
       SameMemory, SameSight, Asking, Working, Waiting, Fresh, Quitting, WritesOf, FlagOf,
       Parent, Child
  <2>3. CASE f = "pready"
    BY <1>1, <1>2, <1>3, <1>4, <2>3 DEF IInv, AskingInv, TurnInv, BufferInv, Transparent,
       SameMemory, SameSight, Asking, Working, Waiting, Fresh, Quitting, WritesOf, FlagOf,
       Parent, Child
  <2>4. CASE f = "x"
    BY <1>1, <1>2, <1>3, <1>4, <2>4 DEF IInv, AskingInv, TurnInv, BufferInv, Transparent,
       SameMemory, SameSight, Asking, Working, Waiting, Fresh, Quitting, WritesOf, FlagOf,
       Parent, Child
  <2>5. CASE f = "cmd"
    BY <1>1, <1>2, <1>3, <1>4, <2>5 DEF IInv, AskingInv, TurnInv, BufferInv, Transparent,
       SameMemory, SameSight, Asking, Working, Waiting, Fresh, Quitting, WritesOf, FlagOf,
       Parent, Child
  <2>. QED
    BY <1>5, <2>1, <2>2, <2>3, <2>4, <2>5
<1>13. AnswerInv'
  <2>1. CASE f = "ppid"
    BY <1>1, <1>2, <1>3, <1>4, <2>1 DEF IInv, AnswerInv, AskingInv, TurnInv, BufferInv, PcType,
       LoopInv, TypeOK, Transparent, SameMemory, SameSight, Asking, Working, Waiting, Fresh,
       Last, Quitting, WritesOf, FlagOf, Parent, Child
  <2>2. CASE f = "cready"
    BY <1>1, <1>2, <1>3, <1>4, <2>2 DEF IInv, AnswerInv, AskingInv, TurnInv, BufferInv, PcType,
       LoopInv, TypeOK, Transparent, SameMemory, SameSight, Asking, Working, Waiting, Fresh,
       Last, Quitting, WritesOf, FlagOf, Parent, Child
  <2>3. CASE f = "pready"
    BY <1>1, <1>2, <1>3, <1>4, <2>3 DEF IInv, AnswerInv, AskingInv, TurnInv, BufferInv, PcType,
       LoopInv, TypeOK, Transparent, SameMemory, SameSight, Asking, Working, Waiting, Fresh,
       Last, Quitting, WritesOf, FlagOf, Parent, Child
  <2>4. CASE f = "x"
    BY <1>1, <1>2, <1>3, <1>4, <2>4 DEF IInv, AnswerInv, AskingInv, TurnInv, BufferInv, PcType,
       LoopInv, TypeOK, Transparent, SameMemory, SameSight, Asking, Working, Waiting, Fresh,
       Last, Quitting, WritesOf, FlagOf, Parent, Child
  <2>5. CASE f = "cmd"
    BY <1>1, <1>2, <1>3, <1>4, <2>5 DEF IInv, AnswerInv, AskingInv, TurnInv, BufferInv, PcType,
       LoopInv, TypeOK, Transparent, SameMemory, SameSight, Asking, Working, Waiting, Fresh,
       Last, Quitting, WritesOf, FlagOf, Parent, Child
  <2>. QED
    BY <1>5, <2>1, <2>2, <2>3, <2>4, <2>5
<1>. QED
  BY <1>6, <1>7, <1>8, <1>9, <1>10, <1>11, <1>12, <1>13 DEF IInv

LEMMA DrainChildStep == ASSUME IInv, Drain(Child), size' = size PROVE IInv'
<1>1. Drained(Child) /\ UNCHANGED <<pending, pc, i>>
  BY Draining DEF Drain, IInv, Procs, Parent, Child
<1>2. PICK f, v :
          /\ f \in InBuffer(Child)
          /\ <<f, v>> \in WritesOf(Child)
          /\ mem'[f] = v /\ SameMemory(f) /\ SameSight(Parent, f)
          /\ f = FlagOf(Child) => buf'[Child] = <<>>
          /\ mem' \in [Fields -> {mem[g] : g \in Fields} \cup {v}]
  BY <1>1 DEF Drained, Peer, Parent, Child
<1>3. /\ BuffersKept(Child) /\ InBuffer(Child)' \subseteq InBuffer(Child) /\ buf[Child] # <<>>
      /\ buf'[Parent] = buf[Parent] /\ InBuffer(Parent)' = InBuffer(Parent)
      /\ SameSight(Child, "none")
      /\ buf'[Child] = <<>> => /\ mem'["ppid"] = Seen(Child, "ppid") /\ mem'["pready"] = Seen(Child, "pready")
                          /\ mem'["cready"] = Seen(Child, "cready") /\ mem'["x"] = Seen(Child, "x")
                          /\ mem'["y"] = Seen(Child, "y") /\ mem'["cmd"] = Seen(Child, "cmd")
  BY <1>1 DEF Drained, BuffersKept, Peer, Parent, Child
<1>4. /\ Transparent(Parent) /\ Transparent(Child)
      /\ Transparent(Parent)' /\ Transparent(Child)'
  BY Transparency
<1>5. f = "pready" \/ f = "cready" \/ f = "y"
  BY <1>2 DEF WritesOf, Parent, Child
<1>. HIDE DEF Seen
<1>6. TypeOK'
  <2>1. CASE f = "pready"
    BY <1>1, <1>2, <1>3, <1>4, <2>1, HandoffAssumption DEF IInv, TypeOK, BuffersKept, WritesOf,
       SameMemory, Fields, Procs, Parent, Child
  <2>2. CASE f = "cready"
    BY <1>1, <1>2, <1>3, <1>4, <2>2, HandoffAssumption DEF IInv, TypeOK, BuffersKept, WritesOf,
       SameMemory, Fields, Procs, Parent, Child
  <2>3. CASE f = "y"
    BY <1>1, <1>2, <1>3, <1>4, <2>3, HandoffAssumption DEF IInv, TypeOK, BuffersKept, WritesOf,
       SameMemory, Fields, Procs, Parent, Child
  <2>. QED
    BY <1>5, <2>1, <2>2, <2>3
<1>7. PcType'
  BY <1>1, <1>3 DEF IInv, PcType, Quitting, Procs, Parent, Child
<1>8. LoopInv'
  BY <1>1, <1>3 DEF IInv, TypeOK, LoopInv, Quitting, Parent, Child
<1>9. BufferInv'
  BY <1>1, <1>2, <1>3, <1>4, <1>5 DEF IInv, BufferInv, BuffersKept, Transparent, Procs, Parent,
     Child
<1>10. PidInv'
  <2>1. CASE f = "pready"
    BY <1>1, <1>2, <1>3, <1>4, <2>1 DEF IInv, PidInv, BufferInv, Transparent, SameMemory,
       SameSight, Working, WritesOf, FlagOf, Parent, Child
  <2>2. CASE f = "cready"
    BY <1>1, <1>2, <1>3, <1>4, <2>2 DEF IInv, PidInv, BufferInv, Transparent, SameMemory,
       SameSight, Working, WritesOf, FlagOf, Parent, Child
  <2>3. CASE f = "y"
    BY <1>1, <1>2, <1>3, <1>4, <2>3 DEF IInv, PidInv, BufferInv, Transparent, SameMemory,
       SameSight, Working, WritesOf, FlagOf, Parent, Child
  <2>. QED
    BY <1>5, <2>1, <2>2, <2>3
<1>11. TurnInv'
  <2>1. CASE f = "pready"
    BY <1>1, <1>2, <1>3, <1>4, <2>1 DEF IInv, TurnInv, AskingInv, AnswerInv, BufferInv,
       Transparent, SameMemory, SameSight, Working, Asking, Waiting, Fresh, Quitting, WritesOf,
       FlagOf, Parent, Child
  <2>2. CASE f = "cready"
    BY <1>1, <1>2, <1>3, <1>4, <2>2 DEF IInv, TurnInv, AskingInv, AnswerInv, BufferInv,
       Transparent, SameMemory, SameSight, Working, Asking, Waiting, Fresh, Quitting, WritesOf,
       FlagOf, Parent, Child
  <2>3. CASE f = "y"
    BY <1>1, <1>2, <1>3, <1>4, <2>3 DEF IInv, TurnInv, AskingInv, AnswerInv, BufferInv,
       Transparent, SameMemory, SameSight, Working, Asking, Waiting, Fresh, Quitting, WritesOf,
       FlagOf, Parent, Child
  <2>. QED
    BY <1>5, <2>1, <2>2, <2>3
<1>12. AskingInv'
  <2>1. CASE f = "pready"
    BY <1>1, <1>2, <1>3, <1>4, <2>1 DEF IInv, AskingInv, TurnInv, BufferInv, Transparent,
       SameMemory, SameSight, Asking, Working, Waiting, Fresh, Quitting, WritesOf, FlagOf,
       Parent, Child
  <2>2. CASE f = "cready"
    BY <1>1, <1>2, <1>3, <1>4, <2>2 DEF IInv, AskingInv, TurnInv, BufferInv, Transparent,
       SameMemory, SameSight, Asking, Working, Waiting, Fresh, Quitting, WritesOf, FlagOf,
       Parent, Child
  <2>3. CASE f = "y"
    BY <1>1, <1>2, <1>3, <1>4, <2>3 DEF IInv, AskingInv, TurnInv, BufferInv, Transparent,
       SameMemory, SameSight, Asking, Working, Waiting, Fresh, Quitting, WritesOf, FlagOf,
       Parent, Child
  <2>. QED
    BY <1>5, <2>1, <2>2, <2>3
<1>13. AnswerInv'
  <2>1. CASE f = "pready"
    BY <1>1, <1>2, <1>3, <1>4, <2>1 DEF IInv, AnswerInv, AskingInv, TurnInv, BufferInv, PcType,
       LoopInv, TypeOK, Transparent, SameMemory, SameSight, Asking, Working, Waiting, Fresh,
       Last, Quitting, WritesOf, FlagOf, Parent, Child
  <2>2. CASE f = "cready"
    BY <1>1, <1>2, <1>3, <1>4, <2>2 DEF IInv, AnswerInv, AskingInv, TurnInv, BufferInv, PcType,
       LoopInv, TypeOK, Transparent, SameMemory, SameSight, Asking, Working, Waiting, Fresh,
       Last, Quitting, WritesOf, FlagOf, Parent, Child
  <2>3. CASE f = "y"
    BY <1>1, <1>2, <1>3, <1>4, <2>3 DEF IInv, AnswerInv, AskingInv, TurnInv, BufferInv, PcType,
       LoopInv, TypeOK, Transparent, SameMemory, SameSight, Asking, Working, Waiting, Fresh,
       Last, Quitting, WritesOf, FlagOf, Parent, Child
  <2>. QED
    BY <1>5, <2>1, <2>2, <2>3
<1>. QED
  BY <1>6, <1>7, <1>8, <1>9, <1>10, <1>11, <1>12, <1>13 DEF IInv

-----------------------------------------------------------------------------
(* The theorems *)

LEMMA InitIInv == Init => IInv
<1>. SUFFICES ASSUME Init PROVE IInv
  OBVIOUS
<1>1. /\ \A p \in Procs : buf[p] = <<>>
      /\ buf[Parent] = <<>> /\ buf[Child] = <<>>
      /\ pc[Parent] = "attach" /\ pc[Child] = "announce" /\ i = 0
  BY DEF Init, Procs, Parent, Child
<1>2. TypeOK
  <2>1. mem \in [ppid : {Stale, Parent}, pready : BOOLEAN, cready : BOOLEAN,
                x : Nat, y : Nat, cmd : {"*", "Q"}]
    BY DEF Init
  <2>2. i \in 0 .. REQUESTS /\ size \in BufferSizes
    BY HandoffAssumption DEF Init
  <2>3. \A p \in Procs : Len(buf[p]) <= size
    BY <1>1, <2>2, HandoffAssumption
  <2>. QED
    BY <2>1, <2>2, <2>3 DEF TypeOK, Init
<1>3. PcType /\ LoopInv
  BY <1>1 DEF PcType, LoopInv, Init, Procs, Parent, Child
<1>4. BufferInv
  BY <1>1 DEF BufferInv, FlagLast, InBuffer, Init, Parent, Child
<1>5. PidInv /\ TurnInv /\ AskingInv /\ AnswerInv
  BY <1>1, Transparency DEF PidInv, TurnInv, AskingInv, AnswerInv, Transparent, Init, Working,
     Asking, Waiting, Fresh, Last, Quitting, Parent, Child
<1>. QED
  BY <1>2, <1>3, <1>4, <1>5 DEF IInv

LEMMA StutterStep == ASSUME IInv, UNCHANGED vars PROVE IInv'
<1>1. /\ mem' = mem /\ buf' = buf /\ pending' = pending /\ pc' = pc /\ i' = i /\ size' = size
  BY DEF vars
<1>2. Kept
  BY <1>1, Keeping
<1>. QED
  BY <1>1, <1>2 DEF Kept, SameSight, IInv, TypeOK, PcType, LoopInv, BufferInv, PidInv, TurnInv,
     AskingInv, AnswerInv, Working, Asking, Waiting, Fresh, Last, Quitting

LEMMA NextIInv == IInv /\ [Next]_vars => IInv'
<1>. SUFFICES ASSUME IInv, [Next]_vars PROVE IInv'
  OBVIOUS
<1>1. CASE ParentStep /\ UNCHANGED size
  BY <1>1, AttachStep, CheckStep, ParentSuspendStep, ClearReadyStep, SetXStep, SetCmdStep,
     SetPreadyStep, SignalChildStep, ClearReadyQStep, SetCmdQStep, SetPreadyQStep,
     SignalChildQStep, WaitChildStep DEF ParentStep
<1>2. CASE ChildStep /\ UNCHANGED size
  BY <1>2, AnnounceStep, SignalParent1Step, ChildCheckStep, ChildSuspendStep, TakeStep,
     ObeyStep, SquareStep, ChildReadyStep, SignalParentStep DEF ChildStep
<1>3. CASE (\E p \in Procs : Drain(p)) /\ UNCHANGED size
  BY <1>3, DrainParentStep, DrainChildStep DEF Procs
<1>4. CASE UNCHANGED vars
  BY <1>4, StutterStep
<1>. QED
  BY <1>1, <1>2, <1>3, <1>4 DEF Next

(* The types, the control and the turns of shared-memory.c: the conjunction*)
(* from which the properties below follow holds in every state.            *)
THEOREM Invariant == Spec => []IInv
BY InitIInv, NextIInv, PTL DEF Spec

(* Every variable has its type: the memory that both processes map, the    *)
(* store buffers, the pending signals and the loop variable of             *)
(* shared-memory.c.                                                        *)
THEOREM TypeCorrect == Spec => []TypeOK
<1>1. IInv => TypeOK
  BY DEF IInv
<1>. QED
  BY <1>1, Invariant, PTL

(* The flags keep the turns of parent and worker apart: while the parent   *)
(* writes a request into the struct, the worker reads none, for any number *)
(* of requests and however long the writes of the flags stay in a buffer.  *)
THEOREM Exclusive == Spec => []TurnsExclusive
<1>1. IInv => TurnsExclusive
  BY DEF IInv, TurnInv, TurnsExclusive, Working, Asking, Waiting, Quitting, PcType
<1>. QED
  BY <1>1, Invariant, PTL

(* Whenever the parent finds cready set again, the y it reads is the       *)
(* square of the number of its last request and not of an earlier one.     *)
THEOREM Results == Spec => []ResultOfLastRequest
<1>1. ASSUME IInv PROVE ResultOfLastRequest
  <2>. SUFFICES ASSUME pc[Parent] = "clear", i > 0
                PROVE  Read(Parent, "y") = (i - 1) * (i - 1)
    BY DEF ResultOfLastRequest
  <2>1. /\ Read(Parent, "y") = mem["y"] /\ Seen(Child, "y") = mem["y"]
        /\ Seen(Child, "cready") = mem["cready"]
    BY <1>1, Transparency, ReadSees DEF IInv, AskingInv, TurnInv, BufferInv, Transparent,
       Quitting, Procs, Parent, Child
  <2>2. Last = i - 1 /\ Last >= 0
    BY <1>1, HandoffAssumption DEF IInv, TypeOK, Last
  <2>. QED
    BY <1>1, <2>1, <2>2 DEF IInv, AskingInv, AnswerInv, Asking, Quitting
<1>. QED
  BY <1>1, Invariant, PTL

(* The worker reads the pid it signals only after the parent has set it:   *)
(* it never signals a process of an earlier run that left the segment.     *)
THEOREM Signals == Spec => []SignalsItsParent
<1>1. ASSUME IInv PROVE SignalsItsParent
  <2>1. buf[Child] \in Seq(WritesOf(Child))
    BY <1>1 DEF IInv, BufferInv, Procs
  <2>2. \A k \in 1 .. Len(buf[Child]) : buf[Child][k] \in WritesOf(Child)
    BY <2>1
  <2>3. "ppid" \notin InBuffer(Child)
    BY <2>2 DEF InBuffer, WritesOf, Parent, Child
  <2>4. Read(Child, "ppid") = mem["ppid"]
    BY <2>3, Transparency, ReadSees DEF Transparent, Procs
  <2>. QED
    BY <1>1, <2>4 DEF IInv, PidInv, SignalsItsParent
<1>. QED
  BY <1>1, Invariant, PTL
=============================================================================
