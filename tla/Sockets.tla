------------------------------ MODULE Sockets ------------------------------
(***************************************************************************)
(* What the socket calls of the texts do, beside the calls of Posix.tla:   *)
(* connections that carry two streams of pieces, and datagrams.            *)
(*                                                                         *)
(* A stream keeps the order and loses nothing while both ends are open,    *)
(* but a read may get less than was written at once.  A datagram is lost,  *)
(* delivered, or delivered twice.  Such trouble comes on the connection of *)
(* the last client, which may also go away at any moment.                  *)
(***************************************************************************)
EXTENDS Posix

VARIABLES
    net         \* ports, connections, streams, and what the tasks read from them

netvars == << program, punctual, task, sync, data, net >>

Ports     == {1, 2}
Clients   == program.clients
Handler(c) == c - Cardinality(Clients)

\* The client on whose connection something may go wrong.
Unlucky == IF program.serving = {} THEN None ELSE CHOOSE c \in Clients : \A d \in Clients : d <= c

-----------------------------------------------------------------------------
(* Connections.  The one of a client has the number of the client.         *)

ProcessLive(p) == \E u \in Tasks : ProcessOf(u) = p /\ Live(u)

Side(t)    == IF t \in Clients THEN "client" ELSE "server"
Other(s)   == IF s = "client" THEN "server" ELSE "client"
Conn(t)    == net.conn[t]

\* An end is open as long as a process that lives has it; it is closed with
\* the process, too.
EndOpen(c, s) == \E p \in net.held[c][s] : ProcessLive(p)
PeerGone(t)   == ~ EndOpen(Conn(t), Other(Side(t)))

\* What has been sent to an end and not yet read there.
Incoming(t) == net.flow[Conn(t)][Side(t)]
Outgoing(t) == net.flow[Conn(t)][Other(Side(t))]

\* The peer has refused data: it has closed its end before it read all, or
\* something was sent to it later.
Refused(t)  == PeerGone(t) /\ Outgoing(t) # << >>

NetCall(t) == UNCHANGED << program, punctual, sync, data >>
Odd(t, what, n) == [n EXCEPT !.odd[Conn(t)] = @ \cup {what}]

ListenCall(t) ==
    /\ task' = On(t)
    /\ net' = [net EXCEPT !.listen[Now(t).on] = ProcessOf(t)]
    /\ NetCall(t)

\* Without a listener the connection is refused.  Only the unlucky client may
\* be started before the server is ready (or has ended already).
ServerReady ==
    \/ \A p \in Names({"listen"}) : net.listen[p] # None
    \/ \E l \in program.serving : ~ ProcessLive(ProcessOf(l))

ConnectCall(t) ==
    LET p == Now(t).on
        listener == net.listen[p]
    IN  /\ (t = Unlucky \/ ServerReady)
        /\ IF listener # None /\ ProcessLive(listener)
           THEN /\ task' = By(t, Now(t).n)
                /\ net' = [net EXCEPT !.queue[p] = Append(@, t), !.conn[t] = t,
                              !.held[t] = [client |-> {ProcessOf(t)}, server |-> {listener}]]
           ELSE IF Now(t).arg = "first"
           THEN task' = On(t) /\ net' = net
           ELSE task' = Failed(t) /\ net' = [net EXCEPT !.odd[t] = @ \cup {"refused"}]
        /\ NetCall(t)

AcceptCall(t) ==
    LET queue == net.queue[Now(t).on]
    IN  /\ queue # << >>
        /\ task' = On(t)
        /\ net' = [net EXCEPT !.queue[Now(t).on] = Tail(@), !.conn[t] = Head(queue),
                              !.held[Head(queue)].server = {ProcessOf(t)}]
        /\ NetCall(t)

\* pthread_create or fork for the connection accepted; a new process has all
\* connections of the one that forks it.
HandOverCall(t) ==
    LET h == Handler(Conn(t))
    IN  /\ task' = [On(t) EXCEPT ![h].st = "live", ![h].parent = t,
                                 ![h].handler = IF ProcessOf(h) = h THEN task[t].handler ELSE @]
        /\ net' = [net EXCEPT !.conn[h] = Conn(t),
                     !.held = [c \in Clients |->
                        IF ProcessOf(t) \in @[c].server
                        THEN [@[c] EXCEPT !.server = @ \cup {ProcessOf(h)}] ELSE @[c]]]
        /\ NetCall(t)

SocketPairCall(t) ==
    LET s == Now(t).on  c == Now(t).arg
    IN  /\ task' = On(t)
        /\ net' = [net EXCEPT !.conn[s] = c, !.conn[c] = c,
                     !.held[c] = [client |-> {ProcessOf(t)}, server |-> {ProcessOf(t)}]]
        /\ NetCall(t)

CloseCall(t) ==
    /\ task' = On(t)
    /\ net' = [net EXCEPT !.held[Conn(t)][Side(t)] = @ \ {ProcessOf(t)}]
    /\ NetCall(t)

-----------------------------------------------------------------------------
(* Sending.                                                                *)

Digits(x) == << x \div 10, x % 10 >>
Value(pieces) == IF Len(pieces) = 2 THEN 10 * pieces[1] + pieces[2] ELSE pieces[1]

\* A send of what is a number, its square, a length, a word or a line.
Pieces(t) ==
    LET i == Now(t)
        buf == net.buf[t]
    IN  CASE i.on = "number"  -> Digits(i.n)
          [] i.on = "square"  -> Digits(Value(buf) * Value(buf))
          [] i.on = "length"  -> << 0, i.n >>
          [] i.on = "word"    -> << i.n, 0 >>
          [] i.on = "content" -> << data.mem["content"] >>

\* The servers without a protocol want to send as much as they received.
Sent(t) ==
    IF Now(t).arg = "asmany" /\ Len(net.buf[t]) # 2 THEN Exiting(t, 1) ELSE On(t)

\* SIGPIPE ends a process without a handler for it, and one whose handler calls
\* exit; behind a handler that returns the send fails.  The loop of write_string
\* counts -1 bytes and goes on for ever.
BrokenPipe(t) ==
    LET handler == HandlerOf(ProcessOf(t), "PIPE")
        exits   == \E h \in handler : h.arg = "exit"
    IN
    /\ Refused(t)
    /\ \/ handler = {} /\ ProcessEnds(t, "killed")
       \/ exits /\ ProcessEnds(t, "ok")
       \/ /\ handler # {} /\ ~ exits
          /\ task' = IF Now(t).bad = "spin" THEN [task EXCEPT ![t].wait = "spin"] ELSE Failed(t)
          /\ NetCall(t)
    /\ UNCHANGED net

\* To a peer that is gone one may send until its refusal comes back.
SendCall(t) ==
    /\ \/ /\ task' = Sent(t)
          /\ net' = IF Refused(t) THEN net
                    ELSE [net EXCEPT !.flow[Conn(t)][Other(Side(t))] = @ \o Pieces(t)]
          /\ NetCall(t)
       \/ BrokenPipe(t)

-----------------------------------------------------------------------------
(* Receiving.                                                              *)

\* k pieces read into the buffer of t, alone or after those it has
Reading(t, k) ==
    [net EXCEPT !.flow[Conn(t)][Side(t)] = SubSeq(@, k + 1, Len(@)),
                !.buf[t] = SubSeq(Incoming(t), 1, k)]
ReadingOn(t, k) ==
    [net EXCEPT !.flow[Conn(t)][Side(t)] = SubSeq(@, k + 1, Len(@)),
                !.buf[t] = @ \o SubSeq(Incoming(t), 1, k)]

\* How many of n pieces a read gets: on the unlucky connection it may be a
\* part of what was sent at once, on the other one all is delivered as a whole.
Gets(t, n) ==
    LET most == IF n < Len(Incoming(t)) THEN n ELSE Len(Incoming(t))
    IN  IF Conn(t) = Unlucky THEN 1..most ELSE {most} \ {0}

\* The end of the stream, and an error after the peer has refused data.
AtEnd(t) == Incoming(t) = << >> /\ PeerGone(t)

Die(t) == task' = Exiting(t, 1)

ReceiveCall(t) ==
    /\ \/ \E k \in Gets(t, 2) :
            /\ task' = On(t)
            /\ net' = IF k < 2 THEN Odd(t, "split", Reading(t, k)) ELSE Reading(t, k)
       \/ AtEnd(t) /\ task' = By(t, Now(t).n) /\ net' = net
       \/ AtEnd(t) /\ Refused(t) /\ task' = Failed(t) /\ net' = net
    /\ NetCall(t)

\* The client's loop ends the string after as many characters as the last
\* read got, so that of two reads only the first counts.
ReceiveAllCall(t) ==
    LET first == net.buf[t]
    IN  /\ \/ \E k \in Gets(t, 2 - Len(first)) :
                IF Len(first) + k = 2
                THEN /\ task' = On(t)
                     /\ net' = IF first = << >> THEN Reading(t, k)
                               ELSE [Reading(t, k) EXCEPT !.buf[t] = first]
                ELSE task' = task /\ net' = Odd(t, "split", Reading(t, k))
           \/ AtEnd(t) /\ Die(t) /\ net' = net
        /\ NetCall(t)

\* The length, when its four bytes came at once.  A length of which the high
\* half is not 0 is more than ever comes.
Length(pieces) == IF pieces[1] = 0 THEN pieces[2] ELSE 99

ReadLengthCall(t) ==
    LET Zero == IF Now(t).arg = "die" THEN Exiting(t, 1) ELSE By(t, Now(t).n)
        n == Length(Incoming(t))
    IN  /\ \/ /\ 2 \in Gets(t, 2)
              /\ task' = IF n = 0 THEN By(t, Now(t).n) ELSE On(t)
              /\ net' = [Reading(t, 2) EXCEPT !.rest[t] = n, !.buf[t] = << >>]
           \/ 1 \in Gets(t, 2) /\ task' = Zero /\ net' = Odd(t, "split", Reading(t, 1))
           \/ AtEnd(t) /\ task' = Zero /\ net' = net
        /\ NetCall(t)

\* The loop over the content.  The number of bytes has no sign, so that an error,
\* which comes once after a refusal, counts as -1 bytes: one more is missing, and
\* the next round finds the end of the stream.
ErrorRound(t) ==
    /\ AtEnd(t) /\ Refused(t) /\ "reset" \notin net.odd[Conn(t)]
    /\ task' = task
    /\ net' = Odd(t, "reset", [net EXCEPT !.rest[t] = @ + 1])
ReadContentCall_Fault(t) ==
    /\ \/ \E k \in Gets(t, net.rest[t]) :
            task' = On(t) /\ net' = [ReadingOn(t, k) EXCEPT !.rest[t] = 0]
       \/ ErrorRound(t)
       \/ AtEnd(t) /\ Die(t) /\ net' = net
    /\ NetCall(t)
ReadContentCall(t) ==
    /\ \/ \E k \in Gets(t, net.rest[t]) :
            /\ task' = IF k = net.rest[t] THEN On(t) ELSE task
            /\ net' = [ReadingOn(t, k) EXCEPT !.rest[t] = @ - k]
       \/ ErrorRound(t)
       \/ AtEnd(t) /\ Die(t) /\ net' = net
    /\ NetCall(t)

ReadWordCall(t) ==
    /\ \/ /\ 2 \in Gets(t, 2)
          /\ task' = IF Head(Incoming(t)) = Now(t).arg THEN On(t) ELSE By(t, Now(t).n)
          /\ net' = Reading(t, 2)
       \/ 1 \in Gets(t, 2) /\ Die(t) /\ net' = Odd(t, "split", Reading(t, 1))
       \/ AtEnd(t) /\ Die(t) /\ net' = net
    /\ NetCall(t)

\* What the client prints: the number it asked for with the answer.
ShowCall(t) ==
    /\ task' = On(t)
    /\ net' = [net EXCEPT !.got[t] = Append(@, << Now(t).n, Value(net.buf[t]) >>), !.buf[t] = << >>]
    /\ NetCall(t)

-----------------------------------------------------------------------------
(* Datagrams.                                                              *)

\* To the server, which is task 0, or back to the sender.
SendToCall(t) ==
    LET to == IF Now(t).arg = "sender" THEN Conn(t) ELSE 0
        client == IF to = 0 THEN t ELSE to
        Delivered(n) == [net EXCEPT !.mail[to] = @ \o [k \in 1..n |-> << t, Pieces(t) >>]]
    IN  /\ task' = On(t)
        /\ \/ /\ to # 0 \/ net.listen[1] # None
              /\ \E n \in {1, 2} : (n = 2 => client = Unlucky) /\ net' = Delivered(n)
           \/ /\ client = Unlucky \/ net.listen[1] = None
              /\ net' = [net EXCEPT !.odd[client] = @ \cup {"lost"}]
        /\ NetCall(t)

ReceiveFromCall(t) ==
    LET mail == net.mail[t]
    IN  /\ mail # << >>
        /\ task' = On(t)
        /\ net' = [net EXCEPT !.mail[t] = Tail(@), !.conn[t] = Head(mail)[1],
                              !.buf[t] = Head(mail)[2]]
        /\ NetCall(t)

-----------------------------------------------------------------------------
\* Calls without an effect that another task could tell from a later one are
\* made at once; so are those of the other clients when they do not wait.
Immediate == {"jump", "show", "sleep", "onsignal", "create", "fork", "handover"}
Prompt    == {"send", "close", "exit", "finish"}

InHurry(t) ==
    /\ Running(t)
    /\ Now(t).op \in IF t \in Clients /\ t # Unlucky THEN Immediate \cup Prompt ELSE Immediate

\* The user interrupts the client, or its computer fails.
Leave(t) ==
    /\ t = Unlucky /\ Live(t)
    /\ ProcessEnds(t, "killed")
    /\ net' = [net EXCEPT !.odd[t] = @ \cup {"left"}]

NetInit ==
    /\ Init /\ ~ punctual
    /\ net = [listen |-> [p \in Ports |-> None],
              queue  |-> [p \in Ports |-> << >>],
              held   |-> [c \in Clients |-> [client |-> {}, server |-> {}]],
              flow   |-> [c \in Clients |-> [client |-> << >>, server |-> << >>]],
              odd    |-> [c \in Clients |-> {}],
              got    |-> [c \in Clients |-> << >>],
              conn   |-> [t \in Tasks |-> None],
              buf    |-> [t \in Tasks |-> << >>],
              rest   |-> [t \in Tasks |-> 0],
              mail   |-> [t \in Tasks |-> << >>]]

NetOps == {"listen", "connect", "accept", "handover", "socketpair", "close", "send",
           "recv", "recvall", "readlength", "readcontent", "readword", "show",
           "sendto", "recvfrom"}

NetStep(t) ==
    LET op == Now(t).op
    IN  \/ op = "listen"        /\ ListenCall(t)
        \/ op = "connect"       /\ ConnectCall(t)
        \/ op = "accept"        /\ AcceptCall(t)
        \/ op = "handover"      /\ HandOverCall(t)
        \/ op = "socketpair"    /\ SocketPairCall(t)
        \/ op = "close"         /\ CloseCall(t)
        \/ op = "send"          /\ SendCall(t)
        \/ op = "recv"          /\ ReceiveCall(t)
        \/ op = "recvall"       /\ ReceiveAllCall(t)
        \/ op = "readlength"    /\ ReadLengthCall(t)
        \/ op = "readcontent"   /\ ReadContentCall(t)
        \/ op = "readword"      /\ ReadWordCall(t)
        \/ op = "show"          /\ ShowCall(t)
        \/ op = "sendto"        /\ SendToCall(t)
        \/ op = "recvfrom"      /\ ReceiveFromCall(t)

ServiceStep(t) ==
    IF Running(t) /\ Now(t).op \in NetOps THEN NetStep(t) ELSE Step(t) /\ UNCHANGED net

\* The next step of the server or a client.
Proceed ==
    LET hurry == { t \in Tasks : InHurry(t) }
    IN  \E t \in IF hurry = {} THEN Tasks ELSE { CHOOSE u \in hurry : TRUE } : ServiceStep(t)

NetNext == Proceed \/ \E t \in Clients : Leave(t)
=============================================================================
