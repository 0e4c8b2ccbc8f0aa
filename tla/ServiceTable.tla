---------------------------- MODULE ServiceTable ----------------------------
(***************************************************************************)
(* The services of posix/socket and posix/daemon: a server and its         *)
(* clients.  The handler of the client c is the task c - Clients.  Each    *)
(* client is a process; process tells those of the server's tasks.         *)
(* serving are the tasks that accept connections.                          *)
(***************************************************************************)
EXTENDS SocketTexts

CONSTANTS
    First, Second,  \* the numbers for which the two clients ask,
    Several         \* and those of the only client of a service

\* Numbers with squares of at most two digits.
ASSUME NumbersAssumption ==
    \A asked \in {First, Second, Several} :
        asked # << >> /\ \A k \in DOMAIN asked : asked[k] \in 0..9

Service(name, process, serving, servers, clients) ==
    LET n == Len(servers)  k == Len(clients)
    IN  [name |-> name, threads |-> FALSE, texts |-> servers \o clients,
         process |-> process \o [c \in 1..k |-> n + c - 1], atexit |-> << >>,
         started |-> {0} \cup n..(n + k - 1), input |-> 0, segs |-> << >>,
         serving |-> serving, clients |-> n..(n + k - 1)]

\* One task that serves one client after the other, one with a thread or a
\* process per client, and one with two listening threads or processes.
Alone(name, server, clients)  == Service(name, <<0>>, {0}, << server >>, clients)
Threaded2(name, server, handler, clients) ==
    Service(name, <<0, 0, 0>>, {0}, << server, handler, handler >>, clients)
Forked2(name, server, handler, clients) ==
    Service(name, <<0, 1, 2>>, {0}, << server, handler, handler >>, clients)
Listeners(name, process, server, listeners, handler, clients) ==
    Service(name, process, DOMAIN listeners,
            << server >> \o listeners \o [c \in DOMAIN clients |-> handler], clients)

SquareClients   == << SquareClient(First[1]), SquareClient(Second[1]) >>
SquareClients6  == << SquareClient6(First[1]), SquareClient6(Second[1]) >>
UdpClients      == << UdpClient(First[1]), UdpClient(Second[1]) >>
ProtocolClients == << ProtocolClient(First), ProtocolClient(Second) >>

AllServices == <<
    Alone("tcp-square-server", SquareServer, SquareClients),
    Alone("tcp-square-server-ipv6", SquareServer6, SquareClients6),
    Threaded2("tcp-square-server-thread", ThreadServer, ThreadHandler, SquareClients),
    Forked2("tcp-square-server-fork", ForkServer, ForkHandler, SquareClients),
    Threaded2("tcp-square-server-protocol", ProtocolServer, ProtocolHandler,
              ProtocolClients),
    Listeners("tcp-square-server-dns", <<0, 0, 0, 0>>, DnsServer(2),
              << DnsListener(1), DnsListener(2) >>, DnsHandler, << DnsClient6(Several) >>),
    Listeners("tcp-square-server-dns-fork", <<0, 1, 2, 3>>, DnsForkServer(2),
              << DnsForkListener(1), DnsForkListener(2) >>, DnsForkHandler,
              << DnsClient(Several) >>),
    Listeners("daemon", <<0, 0, 0>>, DaemonServer(1), << DaemonListener(2) >>,
              DaemonHandler, << DnsClient(Several) >>),
    Threaded2("tcp-thread-sorted-once-server", WordsServer, WordsHandler,
              << WordsClient, WordsClient >>),
    Alone("udp-square-server", UdpServer, UdpClients),
    [Service("unix-domain-sockets", <<0, 0, 0>>, {}, << UnixMain, UnixServer, UnixClient(Several) >>, << >>)
        EXCEPT !.clients = {2}] >>
=============================================================================
