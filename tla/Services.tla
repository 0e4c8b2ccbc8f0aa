------------------------------ MODULE Services ------------------------------
(***************************************************************************)
(* What the servers of posix/socket and posix/daemon and their clients do  *)
(* right: one or two clients, of which the last may go away at any moment, *)
(* reads that get less than a message, datagrams lost or delivered twice.  *)
(***************************************************************************)
EXTENDS Sockets, ServiceTable

\* As long as some task can go on, one of them does; nobody has to leave.
Spec == NetInit /\ [][NetNext]_netvars /\ WF_netvars(Proceed)

Name == program.name

\* Servers that take what a read gets for a whole number, as their clients do.
Plain == {"tcp-square-server", "tcp-square-server-ipv6", "tcp-square-server-thread",
          "tcp-square-server-fork"}

\* What has gone wrong outside the server: a message that did not come as a
\* whole, a client that left, a lost datagram, a connection refused.
Trouble == UNION { net.odd[c] : c \in Clients }

-----------------------------------------------------------------------------
\* The content of the server of sorted words, 1 when it is read and sorted.
Words == << 1 >>

\* What may be left of a number of two digits.
CutOff(x) == { x, x \div 10 }

(* A client shows only answers to what it asked for itself, in its order:  *)
(* squares of its own numbers, or the words when they are sorted.          *)
(* Without a protocol a message that does not come as a whole may be cut   *)
(* off, the number or its square, but nothing else takes its place; with   *)
(* one the answers are right however the stream is cut.                    *)
AnswersRight ==
    \A c \in Clients :
        \A k \in DOMAIN net.got[c] :
            LET asked == net.got[c][k][1]  answer == net.got[c][k][2]
            IN  IF Name = "tcp-thread-sorted-once-server" THEN answer = Words[k]
                ELSE \/ answer = asked * asked
                     \/ /\ Name \in Plain /\ "split" \in net.odd[c]
                        /\ \E x \in CutOff(asked) : answer \in CutOff(x * x)

\* Servers that a single client can end: by a message that does not come as a
\* whole, after which the daemon closes a connection on which more was sent, or its
\* client does, and the next write meets SIGPIPE; and by going away.
EndedBySplit == {"tcp-square-server", "tcp-square-server-ipv6", "tcp-square-server-thread",
                 "tcp-thread-sorted-once-server", "daemon"}
EndedByLeave == EndedBySplit \cup {"tcp-square-server-protocol", "tcp-square-server-dns"}

(* Who accepts connections goes on doing so whatever happens on one of the *)
(* connections, where the code keeps them apart.                           *)
ServerStands ==
    \/ Name \in EndedBySplit /\ "split" \in Trouble
    \/ Name \in EndedByLeave /\ "left" \in Trouble
    \/ \A t \in program.serving : task[t].st \in {"unborn", "live"}

-----------------------------------------------------------------------------
\* How many answers the client c gets if all goes well.
Expected(c) ==
    CASE Name = "tcp-thread-sorted-once-server" -> Len(Words)
      [] Cardinality(Clients) = 1 -> Len(Several)
      [] OTHER -> 1

Over(c)  == ~ Live(c) /\ (Trouble = {} => task[c].st = "ok" /\ Len(net.got[c]) = Expected(c))

\* Which processes of the server may keep the connection of c for ever: the
\* listening one that forks does not close it, and one that has a handler in the
\* endless loop of write_string, after the client has left.
KeptBy(c, p) ==
    \/ Name = "tcp-square-server-dns-fork" /\ \E l \in program.serving : p = ProcessOf(l)
    \/ /\ "left" \in net.odd[c]
       /\ p = ProcessOf(Handler(c)) /\ task[Handler(c)].wait = "spin"
Freed(c) == \A p \in net.held[c]["server"] : ProcessLive(p) => KeptBy(c, p)

\* Clients that may wait for ever: for a datagram that was lost, and for the
\* end of a connection that the listening process has not closed.
WaitsForEver(c) ==
    \/ Name = "udp-square-server" /\ "lost" \in net.odd[c]
    \/ Name = "tcp-square-server-dns-fork" /\ "split" \in net.odd[c]

(* Every client comes to its end, with all its answers if nothing has gone *)
(* wrong, and the server closes its connection, but for the processes of   *)
(* which the two known leaks say that they keep it.                        *)
Served ==
    <>[](\A c \in Clients : (Over(c) /\ Freed(c)) \/ WaitsForEver(c))
=============================================================================
