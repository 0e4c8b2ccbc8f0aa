----------------------------- MODULE SocketTexts -----------------------------
(***************************************************************************)
(* The texts of the servers and clients of posix/socket, the server of     *)
(* posix/daemon, and the functions of transmission-protocols.c.  A number  *)
(* travels in 12 characters, which are two pieces here; the length before  *)
(* a string of the protocol is two pieces as well, and so is a word of     *)
(* the server of sorted words.                                             *)
(***************************************************************************)
EXTENDS Instructions, SequencesExt

Forever(body) == body \o << Jump(0 - (Len(body) + 1)) >>

-----------------------------------------------------------------------------
(* transmission-protocols.c                                                *)

WriteString(what, n, pieces) ==
    << Unchecked(Send("length", pieces)), SendAllOf(what, n) >>
WriteEot == << Unchecked(Send("length", 0)) >>

\* read_and_store_string: body is for a string of a length other than 0.
ReadAndStore(body, ended) == Branch(ReadLength, << ReadContent >> \o body, ended)
ReadFragmentable(body, ended) == Branch(ReadLengthOrDie, << ReadContent >> \o body, ended)

Write4Bytes(w) == << Send("word", w) >>

-----------------------------------------------------------------------------
(* Numbers without a protocol: one request of 12 characters per client.    *)

SquareHandler == Until(Receive, << SendAsMany >>)

SquareServer == << Listen(1) >> \o Forever(<< Accept(1) >> \o SquareHandler \o << Close >>)

SquareServer6 == SquareServer

ThreadHandler == SquareHandler \o << Close, End >>
ThreadServer  == << Listen(1) >> \o Forever(<< Accept(1), HandOver >>)

ForkHandler   == SquareHandler \o << Close, Exit >>
ForkServer_Fault == << Listen(1) >> \o Forever(<< Accept(1), HandOver >>)
ForkServer    == << Listen(1) >> \o Forever(<< Accept(1), HandOver, Close >>)

SquareClient(x) ==
    << Connect(1), Send("number", x), ReceiveAll, Show(x), Close, Exit >>

SquareClient6(x) == SquareClient(x)

-----------------------------------------------------------------------------
(* Numbers with a protocol: as many as the user wants, then the end of     *)
(* transmission in both directions.                                        *)

ProtocolLoop_Fault ==
    Until(ReadLengthOrDie, << ReadContent >> \o WriteString("square", 0, 2))
ProtocolLoop ==
    Until(ReadLength, << ReadContent >> \o WriteString("square", 0, 2))
ProtocolHandler == ProtocolLoop \o WriteEot \o << Sleep(10), Close, End >>
ProtocolServer  == << OnSignal("PIPE", 0) >> \o ThreadServer

\* One listening thread or process per address to which the socket could be
\* bound; main leaves the threads alone and waits for the processes.
DnsListener(p) == << Listen(p) >> \o Forever(<< Accept(p), HandOver >>)
DnsHandler     == ProtocolHandler
DnsServer(n)   == << OnSignal("PIPE", 0) >> \o CreateAll(n) \o << End >>

DnsForkListener(p) == DnsListener(p)
DnsForkHandler == ProtocolLoop \o WriteEot \o << Sleep(10), Close, Exit >>
DnsForkServer(n) ==
    << OnSignal("PIPE", 0) >> \o [l \in 1..n |-> Fork(l)] \o [l \in 1..n |-> WaitAny] \o << Exit >>

\* Its handler for SIGPIPE is the one that ends the daemon.
DaemonServer(n)   == << OnSignalExit("PIPE") >> \o CreateAll(n) \o << End >>
DaemonListener(p) == DnsListener(p)
DaemonHandler     == ProtocolHandler

\* An answer of length 0 ends the loop over the numbers.
Ask(numbers) ==
    FoldRight(LAMBDA x, rest : WriteString("number", x, 2)
                               \o ReadAndStore(<< Show(x) >> \o rest, << >>),
              numbers, << >>)

FinishClient ==
    WriteEot \o ReadAndStore(<< >>, << >>) \o << Sleep(10), Close, Exit >>

ProtocolClient(numbers) == << Connect(1) >> \o Ask(numbers) \o FinishClient

\* Without a version of IP it tries both addresses.
DnsClient(numbers)  == << [TryConnect(1) EXCEPT !.n = 1], Connect(2) >> \o Ask(numbers) \o FinishClient
DnsClient6(numbers) == << Connect(2) >> \o Ask(numbers) \o FinishClient

-----------------------------------------------------------------------------
(* The server of sorted words: the first thread reads and sorts them, each *)
(* one sends them, heading and lines as one string here.                   *)

WordsServer == << Listen(1) >> \o Forever(<< Accept(1), HandOver >>)

TransmitWords ==
    WriteString("content", 0, 1) \o WriteEot
    \o Branch(ReadWord("DONE"), << >>, << >>) \o << Close, End >>

WordsHandler ==
    Branch(Once, << Put("content", 1), OnceDone >>, << >>)
    \o Branch(ReadWord("GETX"), TransmitWords, << Close, End >>)

WordsClient ==
    << Connect(1) >> \o Write4Bytes("GETX")
    \o Until(ReadLengthOrDie, << ReadContent, Show(0) >>)
    \o Write4Bytes("DONE") \o << Close, Exit >>

-----------------------------------------------------------------------------
(* Datagrams, and a pair of sockets between two threads.                   *)

UdpServer == << Listen(1) >> \o Forever(<< ReceiveFrom, SendTo("square", "sender", 0) >>)

UdpClient(x) == << SendTo("number", "server", x), ReceiveFrom, Show(x), Exit >>

UnixServer == Until(Receive, << Send("square", 0) >>) \o << Close, End >>

UnixClient(numbers) ==
    FoldRight(LAMBDA x, rest : << Send("number", x) >> \o Branch(Receive, << Show(x) >> \o rest, << >>),
              numbers, << >>)
    \o << Close, End >>

UnixMain == << SocketPair(1, 2), Create(1), Create(2), Join(2), Join(1), Exit >>
=============================================================================
