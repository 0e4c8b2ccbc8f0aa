------------------------------ MODULE Outlines ------------------------------
(***************************************************************************)
(* Why the programs are free of races: an outline tells for every position *)
(* of every text what its task may rely on there.  That an outline fits    *)
(* the texts is a condition on single positions and their successors; TLC  *)
(* checks it for each program, and what follows from it for every          *)
(* interleaving is proved in PosixProofs.                                  *)
(*                                                                         *)
(* What a task relies on are facts: held and reads are the mutexes and     *)
(* read locks it has, tokens the semaphores it has taken, once is "in"     *)
(* within the function that is called once and "done" behind it, round     *)
(* counts the barriers behind it, and serial is "yes" if it was the serial *)
(* thread of the last one; begun and gone are tasks that have been started *)
(* and have ended, unborn those that only it may start, unset semaphores   *)
(* that only it may set, ready the objects that are initialised and not    *)
(* yet removed.                                                            *)
(*                                                                         *)
(* An outline o has the facts o.at[t][k] for position k of the text of t,  *)
(* the semaphores that are used as locks, o.locks, and those of them with  *)
(* SEM_UNDO, o.undone.                                                     *)
(***************************************************************************)
EXTENDS PosixPrograms

Nothing ==
    [held |-> {}, reads |-> {}, tokens |-> {}, once |-> "no", round |-> None, serial |-> "no",
     begun |-> {}, gone |-> {}, unborn |-> {}, unset |-> {}, ready |-> {}]

\* Who may rely on f may rely on g.
Implies(f, g) ==
    /\ g.held \subseteq f.held /\ g.reads \subseteq f.reads /\ g.tokens \subseteq f.tokens
    /\ g.once \in {"no", f.once} /\ g.round \in {None, f.round} /\ g.serial \in {"no", f.serial}
    /\ g.begun \subseteq f.begun /\ g.gone \subseteq f.gone /\ g.unborn \subseteq f.unborn
    /\ g.unset \subseteq f.unset /\ g.ready \subseteq f.ready

\* The object that a call is about.
Object(i) ==
    IF i.op \in {"condwait", "condtimedwait"} THEN <<"mutex", i.arg>>
    ELSE IF i.op \in {"semopen", "semset", "semwait", "semremove"} THEN <<"sem", i.on>>
    ELSE IF i.op \in {"barrierinit", "barrierwait"} THEN <<"barrier", i.on>>
    ELSE <<"mutex", i.on>>

\* What holds after the call i if f held before it.
Passed(o, i, f) ==
    CASE i.op \in {"lock", "trylock", "timedlock"} -> [f EXCEPT !.held = @ \cup {i.on}]
      [] i.op = "readlock"     -> [f EXCEPT !.reads = @ \cup {i.on}]
      [] i.op = "unlock"       -> [f EXCEPT !.held = @ \ {i.on}, !.reads = @ \ {i.on}]
      [] i.op = "mutexinit"    -> [f EXCEPT !.held = @ \ {i.on}, !.reads = @ \ {i.on},
                                            !.ready = @ \cup {Object(i)}]
      [] i.op \in {"semopen", "barrierinit"}     -> [f EXCEPT !.ready = @ \cup {Object(i)}]
      [] i.op \in {"mutexdestroy", "semremove"}  -> [f EXCEPT !.ready = @ \ {Object(i)}]
      [] i.op = "semwait" /\ (i.on \in o.locks \/ i.n = 1) -> [f EXCEPT !.tokens = @ \cup {i.on}]
      [] i.op = "sempost"      -> [f EXCEPT !.tokens = @ \ {i.on}]
      [] i.op = "semset"       -> [f EXCEPT !.unset = @ \ {i.on}]
      [] i.op = "barrierwait"  -> [f EXCEPT !.round = @ + 1, !.serial = "yes"]
      [] i.op = "once"         -> [f EXCEPT !.once = "in"]
      [] i.op = "oncedone"     -> [f EXCEPT !.once = "done"]
      [] i.op \in {"create", "fork"}  -> [f EXCEPT !.begun = @ \cup {i.on}, !.unborn = @ \ {i.on}]
      [] i.op \in {"join", "waitpid"} -> [f EXCEPT !.gone = @ \cup (f.begun \cap {i.on})]
      [] OTHER -> f

\* The calls that may jump, and what holds where they jump to.
MayJump(i) ==
    \/ i.op \in {"jump", "memis", "msgis", "flagis", "orphan", "trylock", "barrierwait",
                 "once", "getline"}
    \/ i.op = "timedlock" /\ i.n # 0
Missed(i, f) ==
    CASE i.op = "once"        -> [f EXCEPT !.once = "done"]
      [] i.op = "barrierwait" -> [f EXCEPT !.round = @ + 1, !.serial = "no"]
      [] OTHER -> f

\* What a task may rely on when the call with which f holds starts it.
Inherited(f, start) ==
    [f EXCEPT !.held = {}, !.reads = {}, !.tokens = {}, !.once = IF @ = "in" THEN "no" ELSE @,
              !.round = start.round, !.serial = "no", !.unborn = start.unborn]

-----------------------------------------------------------------------------
(* An outline that fits.                                                   *)

Positions(t) == DOMAIN Text(t)
At(o, t, k)  == IF k \in Positions(t) THEN o.at[t][k] ELSE Nothing
Leads(o, f, t, k) == k \in Nat \ {0} /\ Implies(f, At(o, t, k))

\* The tasks that meet at the barrier.
Crew == { t \in Tasks : \E k \in Positions(t) : Text(t)[k].op = "barrierwait" }

\* What tasks other than t may rely on, as far as one with f can tell.
Elsewhere(o, t, f) ==
    UNION { { o.at[u][k] : k \in Positions(u) } : u \in Tasks \ ({t} \cup f.gone \cup f.unborn) }

IsSequence(s) == s \in Seq({ s[k] : k \in DOMAIN s })

\* The texts are sequences of calls; the exit handler does nothing that an
\* outline speaks of.
TextsFit(o) ==
    /\ \A t \in Tasks : IsSequence(Text(t)) /\ ProcessOf(t) \in Tasks
    /\ \A t \in Tasks : \A k \in Positions(t) : DOMAIN o.at[t][k] = DOMAIN Nothing
    /\ o.undone \subseteq o.locks /\ o.locks \subseteq SemNames
    /\ IsSequence(HandlerText)
    /\ \A k \in DOMAIN HandlerText :
         HandlerText[k].op \in {"sleep", "put", "filewrite", "stdiowrite", "kill", "msgremove",
                               "shmremove"}

FlowFits(o, t, k, i, f) ==
    /\ i.op \notin {"jump", "exit", "end"} => Leads(o, Passed(o, i, f), t, k + 1)
    /\ MayJump(i) => Leads(o, Missed(i, f), t, k + 1 + i.n)
    /\ i.bad \in {"process", "task", "ignore"}
    /\ i.op \in {"semwait", "timedlock"} /\ i.bad = "ignore" => Leads(o, f, t, k + 1)

\* A mutex that another task may have is given back only by its owner, and not
\* initialised again.
Unheld(o, t, f) ==
    { m \in MutexNames : \A g \in Elsewhere(o, t, f) : m \notin g.held \cup g.reads }
LocksFit(o, t, i, f) ==
    /\ i.op \in {"lock", "trylock", "timedlock", "readlock", "mutexdestroy"} => i.on \in MutexNames
    /\ i.op = "unlock" => i.on \in MutexNames \cap (f.held \cup f.reads \cup Unheld(o, t, f))
    /\ i.op \in {"condwait", "condtimedwait"} =>
         i.arg \in (MutexNames \cap (f.held \cup Unheld(o, t, f))) \ f.reads
    /\ i.op = "mutexinit" => i.on \in Unheld(o, t, f)

\* A lock is opened with 1, or with 0 and set to 1 by one task; all waits and
\* posts are done with SEM_UNDO or none, and who posts has waited.  A post with
\* SEM_UNDO to another semaphore is also done after a wait, by the same process.
TokensFit(o, t, i, f) ==
    /\ f.tokens \subseteq SemNames
    /\ \A s \in f.tokens \ o.locks : \A u \in Tasks \ {t} : ProcessOf(u) # ProcessOf(t)
    /\ i.op \in {"semopen", "semset"} => i.n \in Nat
    /\ i.op \in {"semwait", "sempost"} => i.n \in {0, 1}
    /\ i.op \in {"semopen", "semset", "semwait", "sempost", "semremove"} => i.on \in SemNames
    /\ i.op = "sempost" /\ i.n = 1 => i.on \in f.tokens
    /\ i.op \in {"semopen", "semset", "semwait", "sempost", "semremove"} /\ i.on \in o.locks =>
         /\ i.op = "semopen" => i.n = IF i.on \in o.undone THEN 0 ELSE 1
         /\ i.op = "semset"  => /\ i.n \in {0, 1} /\ i.on \in f.unset \cap o.undone
                                /\ \A g \in Elsewhere(o, t, Nothing) : i.on \notin g.unset
         /\ i.op \in {"semwait", "sempost"} => i.n = IF i.on \in o.undone THEN 1 ELSE 0
         /\ i.op = "sempost" => i.on \in f.tokens
         /\ i.op = "semremove" => /\ i.on \notin f.tokens
                                  /\ \A g \in Elsewhere(o, t, f) : i.on \notin g.tokens

LivesFit(o, t, i, f) ==
    i.op \in {"create", "fork"} =>
        /\ i.on \in f.unborn /\ i.on \in Tasks \ {t}
        /\ \A g \in Elsewhere(o, t, Nothing) : i.on \notin g.unborn
        /\ Leads(o, Inherited(f, At(o, i.on, 1)), i.on, 1)

\* All that meet at a barrier meet at the same one, made for so many.
RoundsFit(o, t, i, f) ==
    /\ i.op = "barrierwait" => f.round \in Nat /\ Object(i) \in f.ready
    /\ i.op = "barrierinit" => i.n = Cardinality(Crew)
    /\ i.op = "barrierwait" =>
         \A u \in Tasks : \A j \in Positions(u) :
             Text(u)[j].op = "barrierwait" => Text(u)[j].on = i.on

ReadyFits(o, t, i, f) ==
    /\ i.op = "mutexinit" => i.arg \notin {"raw", "gone"}
    /\ i.op = "barrierinit" => i.n # 0
    /\ i.op \in {"mutexdestroy", "semremove"} =>
         \A g \in Elsewhere(o, t, f) : Object(i) \notin g.ready
    /\ f.ready \subseteq ({"mutex"} \X MutexNames) \cup ({"sem"} \X SemNames)
                         \cup ({"barrier"} \X BarrierNames)

CallFits(o, t, k, i, f) ==
    /\ FlowFits(o, t, k, i, f) /\ LocksFit(o, t, i, f) /\ TokensFit(o, t, i, f)
    /\ i.op = "oncedone" => f.once = "in"
    /\ LivesFit(o, t, i, f) /\ RoundsFit(o, t, i, f) /\ ReadyFits(o, t, i, f)

\* What the tasks of the beginning rely on, and all tasks about their barrier.
StartFits(o) ==
    LET first == [Nothing EXCEPT !.round = 0, !.unborn = Tasks \ program.started,
                                 !.unset = o.undone,
                                 !.ready = {"mutex"} \X (MutexNames \cap {"stdout"})]
    IN  \A t \in Tasks :
            /\ t \in program.started => Implies(first, At(o, t, 1))
            /\ At(o, t, 1).round \in {None, 0}
            /\ At(o, t, 1).unborn \subseteq Tasks \ program.started

Outlined(o) ==
    /\ TextsFit(o) /\ StartFits(o)
    /\ \A t \in Tasks : \A k \in Positions(t) : CallFits(o, t, k, Text(t)[k], o.at[t][k])

-----------------------------------------------------------------------------
(* What an outline is for.                                                 *)

\* A task with f may still start one of those that meet at the barrier, and a task
\* with g has the barrier behind it.
TooEarly(o, f, g) ==
    \E v \in Crew \cap f.unborn :
        None # At(o, v, 1).round /\ g.round \notin {None, At(o, v, 1).round}

\* A task t with f and a task u with g cannot be on their way together.
Exclude(o, t, f, u, g) ==
    \/ f.held \cap (g.held \cup g.reads) # {} \/ f.reads \cap g.held # {}
    \/ o.locks \cap f.tokens \cap g.tokens # {}
    \/ (f.once = "in" /\ g.once # "no") \/ (g.once = "in" /\ f.once # "no")
    \/ u \in f.gone \cup f.unborn \/ t \in g.gone \cup g.unborn
    \/ /\ t \in Crew /\ u \in Crew
       /\ \/ f.round # None /\ g.round # None /\ f.round # g.round
          \/ f.serial = "yes" /\ g.serial = "yes"
    \/ u \in Crew /\ TooEarly(o, f, g)
    \/ t \in Crew /\ TooEarly(o, g, f)

\* Accesses to the same variable, one of them a write, exclude each other.
Separate(o) ==
    \A t, u \in Tasks : t # u =>
        /\ \A k \in DOMAIN HandlerText : WritesOf(HandlerText[k]) = {}
        /\ \A k \in Positions(t), j \in Positions(u) :
             WritesOf(Text(t)[k]) \cap (WritesOf(Text(u)[j]) \cup ReadsOf(Text(u)[j])) # {}
             => Exclude(o, t, o.at[t][k], u, o.at[u][j])

\* What is used is ready.
Prepared(o) ==
    \A t \in Tasks : \A k \in Positions(t) :
        Text(t)[k].op \in {"lock", "trylock", "timedlock", "readlock", "condwait",
                           "condtimedwait", "semwait", "barrierwait"}
        => Object(Text(t)[k]) \in o.at[t][k].ready

\* The other tasks of its process have ended, or only t may start them.
Alone(t, f) ==
    \A u \in Tasks \ {t} : ProcessOf(u) = ProcessOf(t) => u \in f.gone \cup f.unborn

\* Nobody sends signals or may lose the reader of a pipe, calls that may fail
\* do not end the process, and a task that ends its process is alone in it.
Calm(o) ==
    /\ \A k \in DOMAIN HandlerText : HandlerText[k].op # "kill"
    /\ \A t \in Tasks : 1 \in Positions(t)
    /\ \A t \in Tasks : \A k \in Positions(t) :
         LET i == Text(t)[k]
             f == o.at[t][k]
         IN  /\ i.op \notin {"kill", "onsignal", "pipewrite", "finish"}
             /\ i.op \in {"waitany", "shmget", "msgsnd", "msgreply", "msgrcv", "timedlock"}
                  => i.bad # "process"
             /\ i.op = "mutexinit" => i.arg # "errorcheck"
             /\ i.op \in {"jump", "end"} \/ (i.op # "exit" /\ k + 1 \in Positions(t)) \/ Alone(t, f)
             /\ MayJump(i) => k + 1 + i.n \in Positions(t) \/ Alone(t, f)
             /\ i.op \in {"create", "fork"} =>
                  /\ k + 1 \in Positions(t)
                  /\ \A u \in Tasks \ {i.on} :
                       ProcessOf(u) = ProcessOf(i.on) => ProcessOf(u) = ProcessOf(t)

-----------------------------------------------------------------------------
(* The outline of a program, from its first positions onwards.             *)

\* Programs that end early, or that have signals, pipes, queues that may be
\* removed, or mutexes that tell their owner of a second lock.
Disturbed ==
    EndEarly \cup EndEarlyLate \cup
    {"daemonize-group-signal", "daemonize-group-signal-sigaction", "daemonize-signal-and-pipe",
     "daemonize-group-signal-and-response-signal", "daemonize-with-pipe", "extract",
     "transmit-via-pipe", "semaphore", "msgqueue", "msgqueue-positive-typed",
     "msgqueue-negative-typed", "deadlock -e", "mutex-order"}

\* The numbers in the calls of this kind for semaphore s.
NumbersOf(s, op) ==
    LET calls == SelectSeq(FlattenSeq(program.texts), LAMBDA i : i.op = op /\ i.on = s)
    IN  { calls[k].n : k \in DOMAIN calls }
Undone == { s \in SemNames : /\ NumbersOf(s, "semopen") = {0} /\ NumbersOf(s, "semset") = {1}
                             /\ NumbersOf(s, "semwait") = {1} }
Plain  == { s \in SemNames : /\ NumbersOf(s, "semopen") = {1} /\ NumbersOf(s, "semset") = {}
                             /\ NumbersOf(s, "semwait") = {0} }

\* What may be relied on after each of two ways.
Both(f, g) ==
    [held |-> f.held \cap g.held, reads |-> f.reads \cap g.reads, tokens |-> f.tokens \cap g.tokens,
     once |-> IF f.once = g.once THEN f.once ELSE "no",
     round |-> IF f.round = g.round THEN f.round ELSE None,
     serial |-> IF f.serial = g.serial THEN f.serial ELSE "no",
     begun |-> f.begun \cap g.begun, gone |-> f.gone \cap g.gone,
     unborn |-> f.unborn \cap g.unborn, unset |-> f.unset \cap g.unset,
     ready |-> f.ready \cap g.ready]

\* The facts along a text, each from the ways that lead to it from before.
Along(o, text, start) ==
    LET Ways(at, k) ==
            [ j \in 1..(k - 1) |->
                (IF j = k - 1 /\ text[j].op \notin {"jump", "exit", "end"}
                 THEN << Passed(o, text[j], at[j]) >> ELSE << >>)
                \o (IF MayJump(text[j]) /\ j + 1 + text[j].n = k
                    THEN << Missed(text[j], at[j]) >> ELSE << >>) ]
        Meet(fs) == IF fs = << >> THEN Nothing ELSE FoldLeft(Both, Head(fs), Tail(fs))
        FactsAt(at, k) == IF k = 1 THEN start ELSE Meet(FlattenSeq(Ways(at, k)))
    IN  FoldLeftDomain(LAMBDA at, k : Append(at, FactsAt(at, k)), << >>, text)

\* The calls that start task u, as pairs of task and position.
StartsOf(u) ==
    UNION { { <<t, k>> : k \in { k \in Positions(t) : /\ Text(t)[k].op \in {"create", "fork"}
                                                      /\ Text(t)[k].on = u } } : t \in Tasks }

Outline ==
    LET kinds == [locks |-> Undone \cup Plain, undone |-> Undone]
        Own(t) ==
            [Nothing EXCEPT
               !.round  = IF t \in Crew THEN 0 ELSE None,
               !.unborn = { u \in Tasks : \E c \in StartsOf(u) : c[1] = t },
               !.unset  = { s \in Undone : t \in program.started },
               !.ready  = {"mutex"} \X (MutexNames \cap {"stdout"})]
        at[t \in Tasks] ==
            IF t \in program.started \/ StartsOf(t) = {} THEN Along(kinds, Text(t), Own(t))
            ELSE LET c == CHOOSE c \in StartsOf(t) : TRUE
                     f == Inherited(at[c[1]][c[2]], Own(t))
                 IN  Along(kinds, Text(t), [f EXCEPT !.unset = {}])
    IN  [locks |-> kinds.locks, undone |-> kinds.undone, at |-> at]

(* Where not only sleeps keep the order, and no thread goes round in a     *)
(* loop of barriers, a program has an outline that fits, with which all    *)
(* that is used is ready, and, unless it shares a variable without a lock  *)
(* or waits without a predicate, accesses to a variable exclude each       *)
(* other; unless signals, pipes or queues disturb it, it is calm as well.  *)
OutlinesHold ==
    (Name \notin SleepOrdered \cup {"barriere"} /\ \A t \in Tasks : task[t].pc = 1)
    => LET o == Outline
       IN  /\ Outlined(o) /\ Prepared(o)
           /\ Name \notin Unlocked \cup Unpredicated => Separate(o)
           /\ Name \notin Disturbed => Calm(o)
=============================================================================
