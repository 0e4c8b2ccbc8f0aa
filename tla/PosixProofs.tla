----------------------------- MODULE PosixProofs -----------------------------
(***************************************************************************)
(* What the machine of Posix does with any programs that have an outline,  *)
(* in every interleaving: there are no data races if accesses to the same  *)
(* variable exclude each other in the outline, and nothing is used before  *)
(* it is made or after it is gone if the outline has it ready; nothing     *)
(* fails if the outline is calm.  The texts of the programs are not looked *)
(* at; of an outline only its conditions on a position and its successors  *)
(* are used.                                                               *)
(*                                                                         *)
(* IInv, the inductive invariant, says that in every state each task may   *)
(* rely on the facts of its position, and that locks, semaphores, barriers *)
(* and lives of tasks are such that facts of several tasks that exclude    *)
(* each other do not meet.  A step of one task moves its own facts; the    *)
(* others keep theirs, since what would disturb them does not fit.         *)
(***************************************************************************)
EXTENDS Outlines, TLAPS, FiniteSetTheorems

-----------------------------------------------------------------------------
(* What the tasks may rely on in a state.                                  *)

\* While a task waits for a condition, the mutex of the call is not its own.
Facts(o, t) ==
    LET f == At(o, t, task[t].pc)
    IN  IF task[t].wait \in {"cond", "relock"}
        THEN [f EXCEPT !.held = @ \ {Text(t)[task[t].pc].arg}] ELSE f

View(o, t) ==
    IF Live(t) THEN Facts(o, t)
    ELSE IF task[t].st = "unborn"
    THEN [Nothing EXCEPT !.round = At(o, t, 1).round, !.unborn = At(o, t, 1).unborn]
    ELSE Nothing

-----------------------------------------------------------------------------
(* The inductive invariant.                                                *)

TaskShape ==
    /\ DOMAIN task = Tasks
    /\ \A t \in Tasks : {"pc", "st", "wait"} \subseteq DOMAIN task[t] /\ task[t].pc \in Nat \ {0}

SyncShape ==
    /\ {"mutex", "sem", "undo", "barrier", "once", "early"} \subseteq DOMAIN sync
    /\ DOMAIN sync.mutex = MutexNames
    /\ \A m \in MutexNames : DOMAIN sync.mutex[m] = {"kind", "owner", "depth", "readers"}
    /\ DOMAIN sync.sem = SemNames
    /\ DOMAIN sync.undo = Tasks /\ \A p \in Tasks : DOMAIN sync.undo[p] = SemNames
    /\ DOMAIN sync.barrier = BarrierNames

\* The call that a task waits in.
WaitingCalls ==
    [cond |-> {"condwait", "condtimedwait"}, relock |-> {"condwait", "condtimedwait"},
     stuck |-> {"timedlock"}, barrier |-> {"barrierwait"}, pause |-> {"pause"}]
WaitInv ==
    \A t \in Tasks :
        /\ Live(t) /\ task[t].wait # "" =>
             /\ task[t].wait \in DOMAIN WaitingCalls
             /\ task[t].pc \in Positions(t)
             /\ Text(t)[task[t].pc].op \in WaitingCalls[task[t].wait]
        /\ task[t].st = "unborn" => task[t].pc = 1 /\ task[t].wait = ""

LockInv(o) ==
    /\ \A t \in Tasks : /\ \A m \in View(o, t).held : m \in MutexNames /\ Mutex(m).owner = t
                        /\ \A m \in View(o, t).reads : m \in MutexNames /\ t \in Mutex(m).readers
    /\ \A m \in MutexNames : Mutex(m).owner # None => Mutex(m).readers = {}

\* A semaphore that is used as a lock has one owner, or the value 1, or is away.
LockSem(o, s) ==
    /\ sync.sem[s] \in {None, 0, 1}
    /\ \A p \in Tasks :
         /\ sync.undo[p][s] \in {0, 1}
         /\ sync.undo[p][s] = 1 => s \in o.undone /\ sync.sem[s] # 1
         /\ \A q \in Tasks : sync.undo[p][s] = 1 /\ sync.undo[q][s] = 1 => p = q
    /\ \A t \in Tasks :
         /\ s \in View(o, t).tokens =>
              /\ sync.sem[s] = 0
              /\ s \in o.undone => sync.undo[ProcessOf(t)][s] = 1
              /\ \A u \in Tasks : s \in View(o, u).tokens => t = u
         /\ s \in View(o, t).unset \cap o.undone =>
              sync.sem[s] # 1 /\ \A p \in Tasks : sync.undo[p][s] = 0

TokenInv(o) == \A s \in o.locks : LockSem(o, s)

CountInv(o) ==
    /\ \A s \in SemNames : /\ sync.sem[s] \in Nat \cup {None}
                          /\ \A p \in Tasks : sync.undo[p][s] \in Nat
    /\ \A t \in Tasks : \A s \in View(o, t).tokens \ o.locks :
         s \in SemNames /\ sync.undo[ProcessOf(t)][s] >= 1

OnceInv(o) ==
    /\ sync.once \in {"never", "running", "done"}
    /\ \A t \in Tasks :
         /\ View(o, t).once = "in" =>
              /\ sync.once = "running"
              /\ \A u \in Tasks : View(o, u).once = "in" => t = u
         /\ View(o, t).once = "done" => sync.once = "done"
         /\ View(o, t).once \in {"no", "in", "done"}

LifeInv(o) ==
    \A t \in Tasks :
        /\ \A x \in View(o, t).begun : x \in Tasks /\ task[x].st # "unborn"
        /\ \A x \in View(o, t).gone : x \in Tasks /\ task[x].st # "unborn" /\ ~ Live(x)
        /\ \A x \in View(o, t).unborn : x \in Tasks /\ task[x].st = "unborn"

RoundInv(o) ==
    \A t, u \in Crew :
        /\ View(o, t).round # None /\ View(o, u).round # None => View(o, t).round = View(o, u).round
        /\ View(o, t).serial = "yes" /\ View(o, u).serial = "yes" => t = u

ReadyInv(o) ==
    /\ \A t \in Tasks :
         /\ \A m \in MutexNames : <<"mutex", m>> \in View(o, t).ready => Usable(m)
         /\ \A s \in SemNames : <<"sem", s>> \in View(o, t).ready => sync.sem[s] # None
         /\ \A b \in BarrierNames : <<"barrier", b>> \in View(o, t).ready => sync.barrier[b] # 0
    /\ \A b \in BarrierNames : sync.barrier[b] \in {0, Cardinality(Crew)}

IInv(o) ==
    /\ Outlined(o) /\ TaskShape /\ SyncShape /\ WaitInv /\ LockInv(o) /\ TokenInv(o) /\ CountInv(o)
    /\ OnceInv(o) /\ LifeInv(o) /\ RoundInv(o) /\ ReadyInv(o)

-----------------------------------------------------------------------------
(* Texts and positions.                                                    *)

LEMMA SameProgram ==
    ASSUME UNCHANGED program
    PROVE  /\ Tasks' = Tasks /\ \A t : Text(t)' = Text(t) /\ ProcessOf(t)' = ProcessOf(t)
           /\ \A t : Positions(t)' = Positions(t)
           /\ Crew' = Crew /\ HandlerText' = HandlerText
           /\ MutexNames' = MutexNames /\ SemNames' = SemNames /\ BarrierNames' = BarrierNames
<1>1. /\ Tasks' = Tasks /\ \A t : Text(t)' = Text(t) /\ ProcessOf(t)' = ProcessOf(t)
      /\ \A t : Positions(t)' = Positions(t)
      /\ HandlerText' = HandlerText
  BY DEF Tasks, Text, ProcessOf, Positions, HandlerText
<1>2. Crew' = Crew
  BY <1>1 DEF Crew
<1>3. MutexNames' = MutexNames /\ SemNames' = SemNames /\ BarrierNames' = BarrierNames
  BY DEF MutexNames, SemNames, BarrierNames, Names
<1> QED BY <1>1, <1>2, <1>3

HandlerOps == {"sleep", "put", "filewrite", "stdiowrite", "kill", "msgremove", "shmremove"}

LEMMA TextFacts ==
    ASSUME NEW o, TextsFit(o), NEW t \in Tasks
    PROVE  Len(Text(t)) \in Nat /\ Positions(t) = 1..Len(Text(t))
BY DEF TextsFit, IsSequence, Positions

LEMMA HandlerFacts ==
    ASSUME NEW o, TextsFit(o)
    PROVE  Len(HandlerText) \in Nat /\ DOMAIN HandlerText = 1..Len(HandlerText)
BY DEF TextsFit, IsSequence

\* The next call is the one at the position, or one of the exit handler.
LEMMA NowFacts ==
    ASSUME NEW o, TextsFit(o), TaskShape, NEW t \in Tasks
    PROVE  /\ task[t].pc \in Positions(t) => Now(t) = Text(t)[task[t].pc]
           /\ task[t].pc \notin Positions(t) =>
                \/ Now(t).op = "finish"
                \/ \E k \in DOMAIN HandlerText : Now(t) = HandlerText[k]
<1>1. Len(Text(t)) \in Nat /\ Positions(t) = 1..Len(Text(t)) /\ task[t].pc \in Nat \ {0}
  BY TextFacts DEF TaskShape
<1>2. Len(HandlerText) \in Nat /\ DOMAIN HandlerText = 1..Len(HandlerText)
  BY HandlerFacts
<1>3. ASSUME task[t].pc \notin Positions(t), task[ProcessOf(t)].atexit,
             task[t].pc <= Len(Text(t)) + Len(HandlerText)
      PROVE  \E k \in DOMAIN HandlerText : Now(t) = HandlerText[k]
  <2>1. task[t].pc > Len(Text(t)) /\ task[t].pc - Len(Text(t)) \in DOMAIN HandlerText
    BY <1>1, <1>2, <1>3
  <2>2. Now(t) = HandlerText[task[t].pc - Len(Text(t))]
    BY <1>1, <1>3, <2>1 DEF Now
  <2> QED BY <2>1, <2>2
<1>4. [Exit EXCEPT !.op = "finish"].op = "finish"
  BY DEF Exit
<1> QED BY <1>1, <1>3, <1>4 DEF Now

\* A call that is none of the exit handler is within the text, and fits.
LEMMA WithinText ==
    ASSUME NEW o, Outlined(o), TaskShape, NEW t \in Tasks,
           Now(t).op \notin HandlerOps \cup {"finish"}
    PROVE  /\ task[t].pc \in Positions(t)
           /\ At(o, t, task[t].pc) = o.at[t][task[t].pc]
           /\ Now(t) = Text(t)[task[t].pc]
           /\ CallFits(o, t, task[t].pc, Now(t), At(o, t, task[t].pc))
<1>1. TextsFit(o)
  BY DEF Outlined
<1>2. task[t].pc \in Positions(t)
  <2>1. \A k \in DOMAIN HandlerText : HandlerText[k].op \in HandlerOps
    BY <1>1 DEF TextsFit, HandlerOps
  <2> QED BY <1>1, <2>1, NowFacts
<1>3. Now(t) = Text(t)[task[t].pc]
  BY <1>1, <1>2, NowFacts
<1> QED BY <1>2, <1>3 DEF Outlined, At

-----------------------------------------------------------------------------
(* Facts.                                                                  *)

FactNames == {"held", "reads", "tokens", "once", "round", "serial", "begun", "gone",
              "unborn", "unset", "ready"}

LEMMA NothingFacts ==
    /\ DOMAIN Nothing = FactNames
    /\ \A f : Implies(f, Nothing)
BY DEF Nothing, FactNames, Implies

LEMMA ImpliesItself == \A f : Implies(f, f)
BY DEF Implies

LEMMA ImpliesTransitive ==
    ASSUME NEW f, NEW g, NEW h, Implies(f, g), Implies(g, h)
    PROVE  Implies(f, h)
BY DEF Implies

LEMMA AtShape ==
    ASSUME NEW o, TextsFit(o), NEW t \in Tasks, NEW k
    PROVE  DOMAIN At(o, t, k) = FactNames
BY NothingFacts DEF At, TextsFit

LEMMA ViewShape ==
    ASSUME NEW o, TextsFit(o), NEW t \in Tasks
    PROVE  DOMAIN View(o, t) = FactNames
BY AtShape, NothingFacts DEF View, Facts

-----------------------------------------------------------------------------
(* A part of the invariant that stays true when the tasks rely on less and *)
(* what it speaks of does not change.                                      *)

LEMMA LockKept ==
    ASSUME NEW o, LockInv(o), UNCHANGED program,
           \A u \in Tasks : /\ View(o, u)'.held \subseteq View(o, u).held
                            /\ View(o, u)'.reads \subseteq View(o, u).reads,
           \A m \in MutexNames : /\ Mutex(m)'.owner = Mutex(m).owner
                                 /\ Mutex(m)'.readers = Mutex(m).readers
    PROVE  LockInv(o)'
BY SameProgram DEF LockInv

LEMMA TokenKept ==
    ASSUME NEW o, TokenInv(o), UNCHANGED program,
           \A u \in Tasks : /\ View(o, u)'.tokens \subseteq View(o, u).tokens
                            /\ View(o, u)'.unset \subseteq View(o, u).unset,
           sync'.sem = sync.sem, sync'.undo = sync.undo
    PROVE  TokenInv(o)'
BY SameProgram DEF TokenInv, LockSem

LEMMA CountKept ==
    ASSUME NEW o, CountInv(o), UNCHANGED program,
           \A u \in Tasks : View(o, u)'.tokens \subseteq View(o, u).tokens,
           sync'.sem = sync.sem, sync'.undo = sync.undo
    PROVE  CountInv(o)'
BY SameProgram DEF CountInv

LEMMA OnceKept ==
    ASSUME NEW o, OnceInv(o), UNCHANGED program,
           \A u \in Tasks : View(o, u)'.once \in {"no", View(o, u).once},
           sync'.once = sync.once
    PROVE  OnceInv(o)'
BY SameProgram DEF OnceInv

LEMMA LifeKept ==
    ASSUME NEW o, LifeInv(o), UNCHANGED program,
           \A u \in Tasks : /\ View(o, u)'.begun \subseteq View(o, u).begun
                            /\ View(o, u)'.gone \subseteq View(o, u).gone
                            /\ View(o, u)'.unborn \subseteq View(o, u).unborn,
           \A u \in Tasks : /\ (task'[u].st = "unborn") <=> (task[u].st = "unborn")
                            /\ Live(u)' => Live(u)
    PROVE  LifeInv(o)'
BY SameProgram DEF LifeInv

LEMMA RoundKept ==
    ASSUME NEW o, RoundInv(o), UNCHANGED program,
           \A u \in Tasks : /\ View(o, u)'.round \in {None, View(o, u).round}
                            /\ View(o, u)'.serial \in {"no", View(o, u).serial}
    PROVE  RoundInv(o)'
BY SameProgram DEF RoundInv, Crew

LEMMA ReadyKept ==
    ASSUME NEW o, ReadyInv(o), UNCHANGED program,
           \A u \in Tasks : View(o, u)'.ready \subseteq View(o, u).ready,
           \A m \in MutexNames : Mutex(m)'.kind = Mutex(m).kind,
           \A s \in SemNames : (sync'.sem[s] = None) => (sync.sem[s] = None),
           sync'.barrier = sync.barrier
    PROVE  ReadyInv(o)'
BY SameProgram DEF ReadyInv, Usable

-----------------------------------------------------------------------------
(* How a step moves the tasks.                                             *)

Still(u) ==
    /\ task'[u].pc = task[u].pc /\ task'[u].st = task[u].st
    /\ task'[u].wait = task[u].wait \/ (task[u].wait = "cond" /\ task'[u].wait = "relock")

TaskFrame ==
    DOMAIN task' = Tasks /\ \A u \in Tasks : {"pc", "st", "wait"} \subseteq DOMAIN task'[u]

\* Task t goes to position k, to wait in the way w there if w is not "".
Goes(t, k, w) ==
    /\ TaskFrame /\ \A u \in Tasks \ {t} : Still(u)
    /\ task'[t].pc = k /\ task'[t].st = task[t].st /\ task'[t].wait = w

\* The tasks of S end.
EndOf(S) ==
    /\ TaskFrame /\ \A u \in Tasks \ S : Still(u)
    /\ \A u \in S : /\ Live(u) /\ task'[u].st \notin {"live", "unborn"}
                    /\ task'[u].pc \in Nat \ {0}

StatusKept ==
    \A u \in Tasks : /\ (task'[u].st = "unborn") <=> (task[u].st = "unborn")
                     /\ (task'[u].st = "live") => Live(u)

\* Nothing that the invariant speaks of changes but the tasks.
Quiet ==
    /\ sync'.mutex = sync.mutex /\ sync'.sem = sync.sem /\ sync'.undo = sync.undo
    /\ sync'.barrier = sync.barrier /\ sync'.once = sync.once
    /\ SyncShape'

WaitsIn(t, k, w) ==
    w # "" => w \in DOMAIN WaitingCalls /\ k \in Positions(t) /\ Text(t)[k].op \in WaitingCalls[w]

LEMMA StillView ==
    ASSUME NEW o, UNCHANGED program, NEW u \in Tasks, Still(u)
    PROVE  View(o, u)' = View(o, u)
<1>1. (task'[u].wait \in {"cond", "relock"}) <=> (task[u].wait \in {"cond", "relock"})
  BY DEF Still
<1>2. \A k : At(o, u, k)' = At(o, u, k) /\ Text(u)' = Text(u)
  BY SameProgram DEF At
<1>3. At(o, u, task[u].pc)' = At(o, u, task[u].pc) /\ task[u].pc' = task[u].pc
  BY <1>2, SameProgram DEF Still, At
<1>4. Facts(o, u)' = Facts(o, u)
  BY <1>1, <1>2, <1>3 DEF Facts
<1>5. (Live(u)' <=> Live(u)) /\ task[u].st' = task[u].st
  BY DEF Still, Live
<1> QED BY <1>2, <1>4, <1>5 DEF View, Nothing

LEMMA StillWaits ==
    ASSUME WaitInv, UNCHANGED program, NEW u \in Tasks, Still(u)
    PROVE  /\ task'[u].st = "live" /\ task'[u].wait # "" =>
             /\ task'[u].wait \in DOMAIN WaitingCalls
             /\ task'[u].pc \in Positions(u)
             /\ Text(u)[task'[u].pc].op \in WaitingCalls[task'[u].wait]
           /\ task'[u].st = "unborn" => task'[u].pc = 1 /\ task'[u].wait = ""
<1>1. /\ WaitingCalls["relock"] = WaitingCalls["cond"]
      /\ "relock" \in DOMAIN WaitingCalls /\ "cond" # ""
  BY DEF WaitingCalls
<1>2. CASE task'[u].wait = task[u].wait
  BY <1>2 DEF Still, WaitInv, Live
<1>3. CASE task[u].wait = "cond" /\ task'[u].wait = "relock"
  BY <1>1, <1>3 DEF Still, WaitInv, Live
<1> QED BY <1>2, <1>3 DEF Still

LEMMA GoesStep ==
    ASSUME NEW o, TaskShape, WaitInv, UNCHANGED program, NEW t \in Tasks, Live(t),
           NEW k \in Nat \ {0}, NEW w, Goes(t, k, w), WaitsIn(t, k, w)
    PROVE  /\ TaskShape' /\ WaitInv' /\ StatusKept
           /\ \A u \in Tasks \ {t} : View(o, u)' = View(o, u)
           /\ View(o, t)' = IF w \in {"cond", "relock"}
                            THEN [At(o, t, k) EXCEPT !.held = @ \ {Text(t)[k].arg}]
                            ELSE At(o, t, k)
<1>1. TaskShape'
  BY SameProgram DEF TaskShape, Goes, TaskFrame, Still
<1>2. WaitInv'
  <2>1. ASSUME NEW u \in Tasks, u # t
        PROVE  /\ Live(u)' /\ task'[u].wait # "" =>
                    /\ task'[u].wait \in DOMAIN WaitingCalls
                    /\ task'[u].pc \in Positions(u)
                    /\ Text(u)[task'[u].pc].op \in WaitingCalls[task'[u].wait]
               /\ task'[u].st = "unborn" => task'[u].pc = 1 /\ task'[u].wait = ""
    BY <2>1, StillWaits DEF Goes, Live
  <2>2. /\ Live(t)' /\ task'[t].wait # "" =>
             /\ task'[t].wait \in DOMAIN WaitingCalls
             /\ task'[t].pc \in Positions(t)
             /\ Text(t)[task'[t].pc].op \in WaitingCalls[task'[t].wait]
        /\ task'[t].st # "unborn"
    BY DEF Goes, WaitsIn, Live
  <2>3. WaitingCalls' = WaitingCalls
    BY DEF WaitingCalls
  <2>4. ASSUME NEW u \in Tasks
        PROVE  /\ Live(u)' /\ task'[u].wait # "" =>
                    /\ task'[u].wait \in DOMAIN WaitingCalls
                    /\ task'[u].pc \in Positions(u)
                    /\ Text(u)[task'[u].pc].op \in WaitingCalls[task'[u].wait]
               /\ task'[u].st = "unborn" => task'[u].pc = 1 /\ task'[u].wait = ""
    BY <2>1, <2>2
  <2> QED BY <2>3, <2>4, SameProgram DEF WaitInv
<1>3. StatusKept
  BY DEF StatusKept, Goes, Still, Live
<1>4. ASSUME NEW u \in Tasks \ {t} PROVE View(o, u)' = View(o, u)
  BY <1>4, StillView DEF Goes
<1>5. View(o, t)' = IF w \in {"cond", "relock"}
                    THEN [At(o, t, k) EXCEPT !.held = @ \ {Text(t)[k].arg}]
                    ELSE At(o, t, k)
  <2>1. task[t].pc' = k /\ task[t].wait' = w /\ Live(t)'
    BY DEF Goes, Live
  <2>2. At(o, t, task[t].pc)' = At(o, t, k) /\ Text(t)' = Text(t)
    BY <2>1, SameProgram DEF At
  <2>3. Facts(o, t)' = IF w \in {"cond", "relock"}
                       THEN [At(o, t, k) EXCEPT !.held = @ \ {Text(t)[k].arg}]
                       ELSE At(o, t, k)
    BY <2>1, <2>2 DEF Facts
  <2> QED BY <2>1, <2>3 DEF View
<1> QED BY <1>1, <1>2, <1>3, <1>4, <1>5

LEMMA EndStep ==
    ASSUME NEW o, TaskShape, WaitInv, UNCHANGED program, NEW S \in SUBSET Tasks, EndOf(S)
    PROVE  /\ TaskShape' /\ WaitInv' /\ StatusKept
           /\ \A u \in Tasks \ S : View(o, u)' = View(o, u)
           /\ \A u \in S : View(o, u)' = Nothing
           /\ \A u \in Tasks : Implies(View(o, u), View(o, u)')
<1>1. TaskShape'
  BY SameProgram DEF TaskShape, EndOf, TaskFrame, Still
<1>2. WaitInv'
  <2>1. ASSUME NEW u \in Tasks, u \notin S
        PROVE  /\ Live(u)' /\ task'[u].wait # "" =>
                    /\ task'[u].wait \in DOMAIN WaitingCalls
                    /\ task'[u].pc \in Positions(u)
                    /\ Text(u)[task'[u].pc].op \in WaitingCalls[task'[u].wait]
               /\ task'[u].st = "unborn" => task'[u].pc = 1 /\ task'[u].wait = ""
    BY <2>1, StillWaits DEF EndOf, Live
  <2>2. \A u \in S : task'[u].st \notin {"live", "unborn"}
    BY DEF EndOf
  <2>3. WaitingCalls' = WaitingCalls
    BY DEF WaitingCalls
  <2> QED BY <2>1, <2>2, <2>3, SameProgram DEF WaitInv, Live
<1>3. StatusKept
  BY DEF StatusKept, EndOf, Still, Live
<1>4. \A u \in Tasks \ S : View(o, u)' = View(o, u)
  BY StillView DEF EndOf
<1>5. ASSUME NEW u \in S PROVE View(o, u)' = Nothing
  BY SameProgram DEF EndOf, View, Live, Nothing
<1> QED BY <1>1, <1>2, <1>3, <1>4, <1>5, NothingFacts, ImpliesItself

\* That an outline fits is a matter of the texts only.
LEMMA OutlinedKept ==
    ASSUME NEW o, Outlined(o), UNCHANGED program
    PROVE  Outlined(o)'
<1>1. \A t, k : At(o, t, k)' = At(o, t, k)
  BY SameProgram DEF At
<1>2. \A t, f : Elsewhere(o, t, f)' = Elsewhere(o, t, f)
  BY SameProgram DEF Elsewhere
<1>3. \A t, f, k : Leads(o, f, t, k)' <=> Leads(o, f, t, k)
  BY <1>1 DEF Leads
<1>4. TextsFit(o)'
  BY SameProgram DEF Outlined, TextsFit
<1>5. StartFits(o)'
  BY <1>1, SameProgram DEF Outlined, StartFits
<1>6. ASSUME NEW t, NEW k, NEW i, NEW f, CallFits(o, t, k, i, f)
      PROVE  CallFits(o, t, k, i, f)'
  <2>1. FlowFits(o, t, k, i, f)'
    BY <1>3, <1>6 DEF CallFits, FlowFits
  <2>2. LocksFit(o, t, i, f)'
    BY <1>2, <1>6, SameProgram DEF CallFits, LocksFit, Unheld
  <2>3. TokensFit(o, t, i, f)'
    BY <1>2, <1>6, SameProgram DEF CallFits, TokensFit
  <2>4. LivesFit(o, t, i, f)'
    BY <1>1, <1>2, <1>3, <1>6, SameProgram DEF CallFits, LivesFit
  <2>5. RoundsFit(o, t, i, f)'
    BY <1>6, SameProgram DEF CallFits, RoundsFit
  <2>6. ReadyFits(o, t, i, f)'
    BY <1>2, <1>6, SameProgram DEF CallFits, ReadyFits
  <2> QED BY <1>6, <2>1, <2>2, <2>3, <2>4, <2>5, <2>6 DEF CallFits
<1>7. \A t \in Tasks' : \A k \in Positions(t)' : CallFits(o, t, k, Text(t)[k], o.at[t][k])'
  BY <1>6, SameProgram DEF Outlined
<1> QED BY <1>4, <1>5, <1>7 DEF Outlined

LEMMA Weaker ==
    ASSUME NEW o, IInv(o), UNCHANGED program, TaskShape', WaitInv', StatusKept, Quiet,
           \A u \in Tasks : Implies(View(o, u), View(o, u)')
    PROVE  IInv(o)'
<1>1. Outlined(o)'
  BY OutlinedKept DEF IInv
<1>2. \A m \in MutexNames : Mutex(m)' = Mutex(m)
  BY DEF Mutex, Quiet
<1>3. LockInv(o)'
  BY <1>2, LockKept DEF IInv, Implies
<1>4. TokenInv(o)'
  BY TokenKept DEF IInv, Implies, Quiet
<1> CountInv(o)'
  BY CountKept DEF IInv, Implies, Quiet
<1>5. OnceInv(o)'
  BY OnceKept DEF IInv, Implies, Quiet
<1>6. LifeInv(o)'
  BY LifeKept DEF IInv, Implies, StatusKept, Live
<1>7. RoundInv(o)'
  BY RoundKept DEF IInv, Implies
<1>8. ReadyInv(o)'
  BY <1>2, ReadyKept DEF IInv, Implies, Quiet
<1> QED BY <1>1, <1>3, <1>4, <1>5, <1>6, <1>7, <1>8 DEF IInv, Quiet

-----------------------------------------------------------------------------
(* The steps of a task that runs.                                          *)

Strengthening ==
    {"lock", "trylock", "timedlock", "readlock", "mutexinit", "semopen", "semwait", "barrierinit",
     "barrierwait", "once", "oncedone", "create", "fork", "join", "waitpid"}

LEMMA PassedWeaker ==
    ASSUME NEW o, NEW i, NEW f, DOMAIN f = FactNames, i.op \notin Strengthening
    PROVE  Implies(f, Passed(o, i, f))
<1>1. CASE i.op = "unlock"
  BY <1>1 DEF Passed, Implies, FactNames
<1>2. CASE i.op \in {"mutexdestroy", "semremove"}
  BY <1>2 DEF Passed, Implies, FactNames
<1>3. CASE i.op = "sempost"
  BY <1>3 DEF Passed, Implies, FactNames
<1>4. CASE i.op = "semset"
  BY <1>4 DEF Passed, Implies, FactNames
<1>5. CASE i.op \notin {"unlock", "mutexdestroy", "semremove", "sempost", "semset"}
  <2>1. Passed(o, i, f) = f
    BY <1>5 DEF Passed, Strengthening
  <2> QED BY <2>1, ImpliesItself
<1> QED BY <1>1, <1>2, <1>3, <1>4, <1>5

LEMMA Beyond ==
    \A n \in Nat : /\ n + 1 \in Nat \ {0} /\ n + 1 \notin 1..n
                   /\ \A k \in Nat \ {0} : /\ k + 1 \in Nat \ {0}
                                           /\ k \notin 1..n => k + 1 \notin 1..n
OBVIOUS

LEMMA Parts ==
    ASSUME NEW o, IInv(o)
    PROVE  /\ Outlined(o) /\ TextsFit(o) /\ TaskShape /\ WaitInv
           /\ \A t \in Tasks : /\ task[t].pc \in Nat \ {0}
                              /\ Len(Text(t)) \in Nat /\ Positions(t) = 1..Len(Text(t))
<1>1. Outlined(o) /\ TaskShape /\ WaitInv
  BY DEF IInv
<1>2. TextsFit(o)
  BY <1>1 DEF Outlined
<1> QED BY <1>1, <1>2, TextFacts DEF TaskShape

LEMMA RunningView ==
    ASSUME NEW o, NEW t \in Tasks, Running(t)
    PROVE  View(o, t) = At(o, t, task[t].pc) /\ Live(t)
BY DEF Running, View, Facts

LEMMA OnStep ==
    ASSUME NEW o, IInv(o), UNCHANGED program, NEW t \in Tasks, Running(t),
           Goes(t, task[t].pc + 1, ""), Now(t).op \notin {"jump", "exit", "end", "finish"}
    PROVE  /\ TaskShape' /\ WaitInv' /\ StatusKept
           /\ \A u \in Tasks \ {t} : View(o, u)' = View(o, u)
           /\ task[t].pc \in Positions(t) => Implies(Passed(o, Now(t), View(o, t)), View(o, t)')
           /\ task[t].pc \notin Positions(t) => View(o, t)' = Nothing
<1>1. /\ task[t].pc \in Nat \ {0} /\ task[t].pc + 1 \in Nat \ {0}
      /\ TextsFit(o) /\ TaskShape /\ WaitInv
      /\ Len(Text(t)) \in Nat /\ Positions(t) = 1..Len(Text(t))
  BY Parts, Beyond
<1>2. WaitsIn(t, task[t].pc + 1, "")
  BY DEF WaitsIn
<1>3. /\ TaskShape' /\ WaitInv' /\ StatusKept
      /\ \A u \in Tasks \ {t} : View(o, u)' = View(o, u)
      /\ View(o, t)' = At(o, t, task[t].pc + 1)
  BY <1>1, <1>2, GoesStep, RunningView
<1>4. ASSUME task[t].pc \in Positions(t)
      PROVE  Implies(Passed(o, Now(t), View(o, t)), View(o, t)')
  <2>1. Now(t) = Text(t)[task[t].pc]
    BY <1>1, <1>4, NowFacts DEF IInv
  <2>2. CallFits(o, t, task[t].pc, Now(t), At(o, t, task[t].pc))
    BY <1>4, <2>1 DEF IInv, Outlined, At
  <2>3. Leads(o, Passed(o, Now(t), At(o, t, task[t].pc)), t, task[t].pc + 1)
    BY <2>2 DEF CallFits, FlowFits
  <2> QED BY <1>3, <2>3, RunningView DEF Leads
<1>5. ASSUME task[t].pc \notin Positions(t)
      PROVE  View(o, t)' = Nothing
  <2>1. task[t].pc + 1 \notin Positions(t)
    BY <1>1, <1>5, Beyond
  <2> QED BY <1>3, <2>1 DEF At
<1> QED BY <1>3, <1>4, <1>5

LEMMA JumpStep ==
    ASSUME NEW o, IInv(o), UNCHANGED program, NEW t \in Tasks, Running(t),
           task[t].pc \in Positions(t), MayJump(Now(t)),
           Goes(t, task[t].pc + 1 + Now(t).n, "")
    PROVE  /\ TaskShape' /\ WaitInv' /\ StatusKept
           /\ \A u \in Tasks \ {t} : View(o, u)' = View(o, u)
           /\ Implies(Missed(Now(t), View(o, t)), View(o, t)')
<1> DEFINE k == task[t].pc + 1 + Now(t).n
<1>1. TextsFit(o) /\ TaskShape /\ WaitInv
  BY DEF IInv, Outlined
<1>2. Now(t) = Text(t)[task[t].pc]
  BY <1>1, NowFacts
<1>3. CallFits(o, t, task[t].pc, Now(t), At(o, t, task[t].pc))
  BY <1>2 DEF IInv, Outlined, At
<1>4. Leads(o, Missed(Now(t), At(o, t, task[t].pc)), t, k)
  BY <1>3 DEF CallFits, FlowFits
<1>5. k \in Nat \ {0} /\ WaitsIn(t, k, "")
  BY <1>4 DEF Leads, WaitsIn
<1>6. Live(t) /\ Goes(t, k, "")
  BY RunningView
<1> HIDE DEF k
<1>7. /\ TaskShape' /\ WaitInv' /\ StatusKept
      /\ \A u \in Tasks \ {t} : View(o, u)' = View(o, u)
      /\ View(o, t)' = At(o, t, k)
  BY <1>1, <1>5, <1>6, GoesStep
<1> QED BY <1>4, <1>7, RunningView DEF Leads

\* A task that goes to the end of its text relies on nothing.
LEMMA OutStep ==
    ASSUME NEW o, IInv(o), UNCHANGED program, NEW t \in Tasks, Live(t),
           Goes(t, Len(Text(t)) + 1, "")
    PROVE  /\ TaskShape' /\ WaitInv' /\ StatusKept
           /\ \A u \in Tasks \ {t} : View(o, u)' = View(o, u)
           /\ View(o, t)' = Nothing
<1>1. TextsFit(o) /\ TaskShape /\ WaitInv /\ Len(Text(t)) \in Nat /\ Positions(t) = 1..Len(Text(t))
  BY Parts
<1>2. Len(Text(t)) + 1 \in Nat \ {0}
  BY <1>1, Beyond
<1> WaitsIn(t, Len(Text(t)) + 1, "")
  BY DEF WaitsIn
<1>3. /\ TaskShape' /\ WaitInv' /\ StatusKept
      /\ \A u \in Tasks \ {t} : View(o, u)' = View(o, u)
      /\ View(o, t)' = At(o, t, Len(Text(t)) + 1)
  BY <1>1, <1>2, GoesStep
<1>4. At(o, t, Len(Text(t)) + 1) = Nothing
  <2>1. Len(Text(t)) + 1 \notin Positions(t)
    BY <1>1, Beyond
  <2> QED BY <2>1 DEF At
<1> QED BY <1>3, <1>4

\* Steps after which nobody relies on more and nothing else has changed.
LEMMA NeutralOn ==
    ASSUME NEW o, IInv(o), UNCHANGED program, NEW t \in Tasks, Running(t), Quiet,
           Goes(t, task[t].pc + 1, ""),
           Now(t).op \notin Strengthening \cup {"jump", "exit", "end", "finish"}
    PROVE  IInv(o)'
<1>1. /\ TaskShape' /\ WaitInv' /\ StatusKept
      /\ \A u \in Tasks \ {t} : View(o, u)' = View(o, u)
      /\ task[t].pc \in Positions(t) => Implies(Passed(o, Now(t), View(o, t)), View(o, t)')
      /\ task[t].pc \notin Positions(t) => View(o, t)' = Nothing
  BY OnStep
<1>2. Implies(View(o, t), Passed(o, Now(t), View(o, t)))
  BY PassedWeaker, ViewShape DEF IInv, Outlined
<1>3. \A u \in Tasks : Implies(View(o, u), View(o, u)')
  BY <1>1, <1>2, ImpliesTransitive, ImpliesItself, NothingFacts
<1> QED BY <1>1, <1>3, Weaker

LEMMA NeutralJump ==
    ASSUME NEW o, IInv(o), UNCHANGED program, NEW t \in Tasks, Running(t), Quiet,
           task[t].pc \in Positions(t), MayJump(Now(t)), Now(t).op \notin {"once", "barrierwait"},
           Goes(t, task[t].pc + 1 + Now(t).n, "")
    PROVE  IInv(o)'
<1>1. /\ TaskShape' /\ WaitInv' /\ StatusKept
      /\ \A u \in Tasks \ {t} : View(o, u)' = View(o, u)
      /\ Implies(Missed(Now(t), View(o, t)), View(o, t)')
  BY JumpStep
<1>2. Missed(Now(t), View(o, t)) = View(o, t)
  BY DEF Missed
<1>3. \A u \in Tasks : Implies(View(o, u), View(o, u)')
  BY <1>1, <1>2, ImpliesItself
<1> QED BY <1>1, <1>3, Weaker

LEMMA NeutralOut ==
    ASSUME NEW o, IInv(o), UNCHANGED program, NEW t \in Tasks, Live(t), Quiet,
           Goes(t, Len(Text(t)) + 1, "")
    PROVE  IInv(o)'
<1>1. /\ TaskShape' /\ WaitInv' /\ StatusKept
      /\ \A u \in Tasks \ {t} : View(o, u)' = View(o, u)
      /\ View(o, t)' = Nothing
  BY OutStep
<1>2. \A u \in Tasks : Implies(View(o, u), View(o, u)')
  BY <1>1, ImpliesItself, NothingFacts
<1> QED BY <1>1, <1>2, Weaker

LEMMA NeutralEnd ==
    ASSUME NEW o, IInv(o), UNCHANGED program, Quiet, NEW S \in SUBSET Tasks, EndOf(S)
    PROVE  IInv(o)'
<1>1. /\ TaskShape' /\ WaitInv' /\ StatusKept
      /\ \A u \in Tasks : Implies(View(o, u), View(o, u)')
  BY EndStep DEF IInv
<1> QED BY <1>1, Weaker

\* While it waits for other things than the mutex of a condition, a task
\* relies on what it relied on before.
LEMMA NeutralStay ==
    ASSUME NEW o, IInv(o), UNCHANGED program, NEW t \in Tasks, Live(t), Quiet,
           task[t].wait \notin {"cond", "relock"}, NEW w \in {"", "stuck", "barrier", "pause"},
           Goes(t, task[t].pc, w), WaitsIn(t, task[t].pc, w)
    PROVE  IInv(o)'
<1>1. TaskShape /\ WaitInv /\ task[t].pc \in Nat \ {0}
  BY DEF IInv, TaskShape
<1>2. /\ TaskShape' /\ WaitInv' /\ StatusKept
      /\ \A u \in Tasks \ {t} : View(o, u)' = View(o, u)
      /\ View(o, t)' = At(o, t, task[t].pc)
  BY <1>1, GoesStep
<1>3. View(o, t) = At(o, t, task[t].pc)
  BY DEF View, Facts
<1>4. \A u \in Tasks : Implies(View(o, u), View(o, u)')
  BY <1>2, <1>3, ImpliesItself
<1> QED BY <1>2, <1>4, Weaker

LEMMA NeutralStill ==
    ASSUME NEW o, IInv(o), UNCHANGED program, Quiet, TaskFrame, \A u \in Tasks : Still(u)
    PROVE  IInv(o)'
<1>1. EndOf({})
  BY DEF EndOf
<1> QED BY <1>1, NeutralEnd

-----------------------------------------------------------------------------
(* Calls that leave mutexes, semaphores, barriers and lives as they are.   *)

LEMMA QuietSame ==
    ASSUME NEW o, IInv(o), UNCHANGED << program, sync >>
    PROVE  Quiet
BY SameProgram DEF IInv, SyncShape, Quiet

LEMMA OnGoes ==
    ASSUME TaskShape, NEW t \in Tasks, Running(t), task' = On(t)
    PROVE  Goes(t, task[t].pc + 1, "")
BY DEF TaskShape, Running, On, Goes, TaskFrame, Still

LEMMA ByGoes ==
    ASSUME TaskShape, NEW t \in Tasks, Running(t), NEW n, task' = By(t, n)
    PROVE  Goes(t, task[t].pc + 1 + n, "")
BY DEF TaskShape, Running, By, Goes, TaskFrame, Still

LEMMA ExitingGoes ==
    ASSUME TaskShape, NEW t \in Tasks, task[t].wait = "", NEW c, task' = Exiting(t, c)
    PROVE  Goes(t, Len(Text(t)) + 1, "")
BY DEF TaskShape, Exiting, Goes, TaskFrame, Still

LEMMA LeavingGoes ==
    ASSUME TaskShape, NEW t \in Tasks, Running(t), task' = Leaving(t)
    PROVE  EndOf({t}) \/ Goes(t, Len(Text(t)) + 1, "")
<1>1. CASE task' = [task EXCEPT ![t].st = "ok"]
  BY <1>1 DEF TaskShape, EndOf, TaskFrame, Still, Running
<1>2. CASE task' = Exiting(t, 0)
  BY <1>2, ExitingGoes DEF Running
<1> QED BY <1>1, <1>2 DEF Leaving

LEMMA FailedGoes ==
    ASSUME TaskShape, NEW t \in Tasks, Running(t), task' = Failed(t),
           Now(t).bad \in {"process", "task", "ignore"}
    PROVE  \/ Now(t).bad = "ignore" /\ Goes(t, task[t].pc + 1, "")
           \/ EndOf({t}) \/ Goes(t, Len(Text(t)) + 1, "")
<1>1. CASE Now(t).bad = "ignore"
  BY <1>1, OnGoes DEF Failed
<1>2. CASE Now(t).bad = "process"
  BY <1>2, ExitingGoes DEF Failed, Running
<1>3. CASE Now(t).bad = "task"
  BY <1>3, LeavingGoes DEF Failed
<1> QED BY <1>1, <1>2, <1>3

LEMMA TestKeeps ==
    ASSUME NEW o, IInv(o), NEW t \in Tasks, Running(t), Test(t)
    PROVE  IInv(o)'
<1>1. UNCHANGED << program, sync >> /\ Quiet /\ TaskShape
  BY QuietSame DEF Test, KeepBoth, IInv
<1>2. Now(t).op \in {"jump", "memis", "msgis", "flagis", "orphan"}
  BY DEF Test, Calls
<1>3. task[t].pc \in Positions(t) /\ MayJump(Now(t)) /\ Now(t).op \notin {"once", "barrierwait"}
  BY <1>1, <1>2, WithinText DEF IInv, MayJump, HandlerOps
<1>4. CASE Holds(t)
  <2>1. task' = By(t, Now(t).n)
    BY <1>4 DEF Test
  <2> QED BY <1>1, <1>3, <2>1, ByGoes, NeutralJump
<1>5. CASE ~ Holds(t)
  <2>1. task' = On(t) /\ Now(t).op # "jump"
    BY <1>2, <1>5 DEF Test, Holds
  <2>2. Now(t).op \notin Strengthening \cup {"jump", "exit", "end", "finish"}
    BY <1>2, <2>1 DEF Strengthening
  <2> QED BY <1>1, <2>1, <2>2, OnGoes, NeutralOn
<1> QED BY <1>4, <1>5

LEMMA GetLineKeeps ==
    ASSUME NEW o, IInv(o), NEW t \in Tasks, Running(t), GetLineCall(t)
    PROVE  IInv(o)'
<1>1. UNCHANGED << program, sync >> /\ Quiet /\ TaskShape
  BY QuietSame DEF GetLineCall, KeepSync, IInv
<1>2. Now(t).op = "getline"
  BY DEF GetLineCall, Calls
<1>3. task[t].pc \in Positions(t) /\ MayJump(Now(t)) /\ Now(t).op \notin {"once", "barrierwait"}
  BY <1>1, <1>2, WithinText DEF IInv, MayJump, HandlerOps
<1>4. Now(t).op \notin Strengthening \cup {"jump", "exit", "end", "finish"}
  BY <1>2 DEF Strengthening
<1>5. task' = By(t, Now(t).n) \/ task' = On(t)
  BY DEF GetLineCall
<1> QED BY <1>1, <1>3, <1>4, <1>5, ByGoes, OnGoes, NeutralJump, NeutralOn

\* The calls that change fields of the tasks besides.
LEMMA PlainKeeps ==
    ASSUME NEW o, IInv(o), NEW t \in Tasks, Running(t),
           \/ SleepCall(t) \/ FutureCall(t) \/ AtExitCall(t) \/ OnSignalCall(t) \/ RestoreCall(t)
           \/ KillCall(t) \/ CondSignalCall(t) \/ CondBroadcastCall(t) \/ LoadCall(t)
    PROVE  IInv(o)'
<1>1. UNCHANGED << program, sync >> /\ Quiet /\ TaskShape
  BY QuietSame DEF SleepCall, FutureCall, AtExitCall, OnSignalCall, RestoreCall, KillCall,
     CondSignalCall, CondBroadcastCall, LoadCall, KeepBoth, IInv
<1>2. Now(t).op \notin Strengthening \cup {"jump", "exit", "end", "finish"}
  BY DEF SleepCall, FutureCall, AtExitCall, OnSignalCall, RestoreCall, KillCall,
     CondSignalCall, CondBroadcastCall, LoadCall, Calls, Strengthening
<1>3. Goes(t, task[t].pc + 1, "")
  <2>1. CASE SleepCall(t)
    BY <1>1, <2>1 DEF SleepCall, TaskShape, Running, On, Goes, TaskFrame, Still
  <2>2. CASE FutureCall(t)
    <3>1. PICK left : task' = [On(t) EXCEPT ![t].left = left]
      BY <2>2 DEF FutureCall
    <3> QED BY <1>1, <3>1 DEF TaskShape, Running, On, Goes, TaskFrame, Still
  <2>3. CASE AtExitCall(t)
    BY <1>1, <2>3 DEF AtExitCall, TaskShape, Running, On, Goes, TaskFrame, Still
  <2>4. CASE OnSignalCall(t)
    BY <1>1, <2>4 DEF OnSignalCall, TaskShape, Running, On, Goes, TaskFrame, Still
  <2>5. CASE RestoreCall(t)
    BY <1>1, <2>5 DEF RestoreCall, TaskShape, Running, On, Goes, TaskFrame, Still
  <2>6. CASE KillCall(t)
    BY <1>1, <2>6 DEF KillCall, TaskShape, Running, On, Goes, TaskFrame, Still
  <2>7. CASE CondSignalCall(t)
    <3>1. CASE task' = On(t)
      BY <1>1, <3>1, OnGoes
    <3>2. CASE task' # On(t)
      <4>1. PICK u \in Waiting(Now(t).on) : task' = [On(t) EXCEPT ![u].wait = "relock"]
        BY <2>7, <3>2 DEF CondSignalCall
      <4>2. u \in Tasks /\ task[u].wait = "cond" /\ u # t
        BY DEF Waiting, Running
      <4> QED BY <1>1, <4>1, <4>2 DEF TaskShape, Running, On, Goes, TaskFrame, Still
    <3> QED BY <3>1, <3>2
  <2>8. CASE CondBroadcastCall(t)
    BY <1>1, <2>8 DEF CondBroadcastCall, TaskShape, Running, On, Goes, TaskFrame, Still, Waiting
  <2>9. CASE LoadCall(t)
    BY <1>1, <2>9 DEF LoadCall, TaskShape, Running, On, Goes, TaskFrame, Still
  <2> QED BY <2>1, <2>2, <2>3, <2>4, <2>5, <2>6, <2>7, <2>8, <2>9
<1> QED BY <1>1, <1>2, <1>3, NeutralOn

\* The calls that change memory, queue and pipe, and those that may fail.
LEMMA DataKeeps ==
    ASSUME NEW o, IInv(o), NEW t \in Tasks, Running(t),
           \/ ShmRemoveCall(t) \/ MsgGetCall(t) \/ MsgRemoveCall(t) \/ PipeOpenCall(t)
           \/ PipeReadCall(t) \/ PipeCloseCall(t) \/ WriteCall(t) \/ FileCall(t) \/ SortCall(t)
    PROVE  IInv(o)'
<1>1. UNCHANGED << program, sync >> /\ Quiet /\ TaskShape
  BY QuietSame DEF ShmRemoveCall, MsgGetCall, MsgRemoveCall, PipeOpenCall, PipeReadCall,
     PipeCloseCall, WriteCall, FileCall, SortCall, KeepSync, IInv
<1>2. Now(t).op \notin Strengthening \cup {"jump", "exit", "end", "finish"}
  BY DEF ShmRemoveCall, MsgGetCall, MsgRemoveCall, PipeOpenCall, PipeReadCall,
     PipeCloseCall, WriteCall, FileCall, SortCall, Calls, Strengthening
<1>3. Goes(t, task[t].pc + 1, "")
  <2>1. CASE MsgGetCall(t)
    BY <1>1, <2>1 DEF MsgGetCall, TaskShape, Running, On, Goes, TaskFrame, Still
  <2>2. CASE PipeReadCall(t)
    BY <1>1, <2>2 DEF PipeReadCall, TaskShape, Running, On, Goes, TaskFrame, Still
  <2>3. CASE ~ MsgGetCall(t) /\ ~ PipeReadCall(t)
    <3>1. task' = On(t)
      BY <2>3 DEF ShmRemoveCall, MsgRemoveCall, PipeOpenCall, PipeCloseCall, WriteCall,
         FileCall, SortCall
    <3> QED BY <1>1, <3>1, OnGoes
  <2> QED BY <2>1, <2>2, <2>3
<1> QED BY <1>1, <1>2, <1>3, NeutralOn

LEMMA FailingKeeps ==
    ASSUME NEW o, IInv(o), NEW t \in Tasks, Running(t), task' = Failed(t),
           UNCHANGED << program, sync >>,
           Now(t).op \notin Strengthening \cup HandlerOps \cup {"jump", "exit", "end", "finish"}
    PROVE  IInv(o)'
<1>1. Quiet /\ TaskShape /\ Outlined(o)
  BY QuietSame DEF IInv
<1>2. Now(t).bad \in {"process", "task", "ignore"}
  BY <1>1, WithinText DEF CallFits, FlowFits
<1>3. Live(t)
  BY DEF Running
<1> QED BY <1>1, <1>2, <1>3, FailedGoes, NeutralOn, NeutralOut, NeutralEnd

LEMMA MessagesKeep ==
    ASSUME NEW o, IInv(o), NEW t \in Tasks, Running(t),
           ShmGetCall(t) \/ MsgSendCall(t) \/ MsgReceiveCall(t)
    PROVE  IInv(o)'
<1>1. UNCHANGED << program, sync >> /\ Quiet /\ TaskShape
  BY QuietSame DEF ShmGetCall, MsgSendCall, MsgReceiveCall, KeepSync, IInv
<1>2. Now(t).op \notin Strengthening \cup HandlerOps \cup {"jump", "exit", "end", "finish"}
  BY DEF ShmGetCall, MsgSendCall, MsgReceiveCall, Calls, Strengthening, HandlerOps
<1>3. task' = Failed(t) \/ Goes(t, task[t].pc + 1, "")
  <2>1. CASE MsgReceiveCall(t)
    <3>1. CASE task' = Failed(t)
      BY <3>1
    <3>2. CASE task' # Failed(t)
      <4>1. PICK m, f : task' = [On(t) EXCEPT ![t].msg = m, ![t].from = f]
        BY <2>1, <3>2 DEF MsgReceiveCall
      <4> QED BY <1>1, <4>1 DEF TaskShape, Running, On, Goes, TaskFrame, Still
    <3> QED BY <3>1, <3>2
  <2>2. CASE ShmGetCall(t) \/ MsgSendCall(t)
    <3>1. task' = Failed(t) \/ task' = On(t)
      BY <2>2 DEF ShmGetCall, MsgSendCall
    <3> QED BY <1>1, <3>1, OnGoes
  <2> QED BY <2>1, <2>2
<1> QED BY <1>1, <1>2, <1>3, FailingKeeps, NeutralOn

LEMMA LeavingKeeps ==
    ASSUME NEW o, IInv(o), NEW t \in Tasks, Running(t), EndCall(t) \/ ExitCall(t)
    PROVE  IInv(o)'
<1>1. UNCHANGED << program, sync >> /\ Quiet /\ TaskShape
  BY QuietSame DEF EndCall, ExitCall, KeepBoth, IInv
<1>2. EndOf({t}) \/ Goes(t, Len(Text(t)) + 1, "")
  BY <1>1, LeavingGoes, ExitingGoes DEF EndCall, ExitCall, Running
<1> QED BY <1>1, <1>2, NeutralOut, NeutralEnd DEF Running

LEMMA PauseKeeps ==
    ASSUME NEW o, IInv(o), NEW t \in Tasks, Running(t), PauseCall(t)
    PROVE  IInv(o)'
<1>1. UNCHANGED << program, sync >> /\ Quiet /\ TaskShape
  BY QuietSame DEF PauseCall, KeepBoth, IInv
<1>2. Now(t).op = "pause"
  BY DEF PauseCall, Calls
<1>3. WaitsIn(t, task[t].pc, "pause")
  BY <1>1, <1>2, WithinText DEF IInv, WaitsIn, WaitingCalls, HandlerOps
<1>4. Goes(t, task[t].pc, "pause")
  BY <1>1 DEF PauseCall, TaskShape, Goes, TaskFrame, Still
<1>5. Live(t) /\ task[t].wait \notin {"cond", "relock"}
  BY DEF Running
<1> QED BY <1>1, <1>3, <1>4, <1>5, NeutralStay

LEMMA TimeKeeps ==
    ASSUME NEW o, IInv(o), Tick \/ \E t \in Tasks : CondWakes(t)
    PROVE  IInv(o)'
<1>1. UNCHANGED << program, sync >> /\ Quiet /\ TaskShape
  BY QuietSame DEF Tick, CondWakes, KeepBoth, IInv
<1>2. TaskFrame /\ \A u \in Tasks : Still(u)
  <2>1. CASE Tick
    BY <1>1, <2>1 DEF Tick, TaskShape, TaskFrame, Still
  <2>2. CASE \E t \in Tasks : CondWakes(t)
    BY <1>1, <2>2 DEF CondWakes, TaskShape, TaskFrame, Still
  <2> QED BY <2>1, <2>2
<1> QED BY <1>1, <1>2, NeutralStill

-----------------------------------------------------------------------------
(* The end of a process, and signals.                                      *)

LEMMA NothingHas ==
    /\ Nothing.held = {} /\ Nothing.reads = {} /\ Nothing.tokens = {} /\ Nothing.unset = {}
    /\ Nothing.begun = {} /\ Nothing.gone = {} /\ Nothing.unborn = {} /\ Nothing.ready = {}
    /\ Nothing.once = "no" /\ Nothing.round = None /\ Nothing.serial = "no"
BY DEF Nothing

LEMMA EndsTasks ==
    ASSUME TaskShape, NEW t \in Tasks, NEW how, how \notin {"live", "unborn"},
           ProcessEnds(t, how)
    PROVE  EndOf({u \in Tasks : ProcessOf(u) = ProcessOf(t) /\ Live(u)})
<1> DEFINE S == {u \in Tasks : ProcessOf(u) = ProcessOf(t) /\ Live(u)}
           Told(u) == IF u = task[t].parent /\ Live(u) /\ HandlerOf(u, "CHLD") # {}
                      THEN [task[u] EXCEPT !.pending = @ \cup {"CHLD"}] ELSE task[u]
           Ended(u) == IF u = t THEN how ELSE "killed"
<1>1. task' = [u \in Tasks |-> IF ProcessOf(u) = ProcessOf(t) /\ Live(u)
                               THEN [Told(u) EXCEPT !.st = Ended(u), !.wait = "", !.wake = 0,
                                                    !.pending = {}]
                               ELSE Told(u)]
  BY DEF ProcessEnds
<1>2. ASSUME NEW u \in Tasks
      PROVE  /\ {"pc", "st", "wait"} \subseteq DOMAIN Told(u)
             /\ Told(u).pc = task[u].pc /\ Told(u).st = task[u].st /\ Told(u).wait = task[u].wait
             /\ task[u].pc \in Nat \ {0}
  BY DEF TaskShape
<1> HIDE DEF Told
<1>3. TaskFrame
  BY <1>1, <1>2 DEF TaskFrame
<1>4. ASSUME NEW u \in Tasks \ S PROVE Still(u)
  BY <1>1, <1>2 DEF Still
<1>5. ASSUME NEW u \in S
      PROVE  Live(u) /\ task'[u].st \notin {"live", "unborn"} /\ task'[u].pc \in Nat \ {0}
  BY <1>1, <1>2
<1> QED BY <1>3, <1>4, <1>5 DEF EndOf

LEMMA ProcessEndsKeeps ==
    ASSUME NEW o, IInv(o), NEW t \in Tasks, NEW how, how \notin {"live", "unborn"},
           ProcessEnds(t, how)
    PROVE  IInv(o)'
<1> DEFINE p == ProcessOf(t)
           S == {u \in Tasks : ProcessOf(u) = p /\ Live(u)}
<1>1. UNCHANGED program /\ TextsFit(o) /\ TaskShape /\ WaitInv /\ SyncShape
  BY Parts DEF ProcessEnds, IInv
<1>2. p \in Tasks
  BY <1>1 DEF TextsFit
<1>3. S \in SUBSET Tasks /\ EndOf(S)
  BY <1>1, EndsTasks
<1>4. /\ TaskShape' /\ WaitInv' /\ StatusKept
      /\ \A u \in Tasks \ S : View(o, u)' = View(o, u)
      /\ \A u \in S : View(o, u)' = Nothing
      /\ \A u \in Tasks : Implies(View(o, u), View(o, u)')
  BY <1>1, <1>3, EndStep
<1>5. sync' = [sync EXCEPT
                 !.sem  = [s \in DOMAIN @ |-> IF @[s] = None THEN None
                                              ELSE @[s] + sync.undo[p][s]],
                 !.undo[p] = [s \in DOMAIN @ |-> 0]]
  BY DEF ProcessEnds
<1>6. /\ sync'.mutex = sync.mutex /\ sync'.barrier = sync.barrier /\ sync'.once = sync.once
      /\ sync'.sem = [s \in SemNames |-> IF sync.sem[s] = None THEN None
                                         ELSE sync.sem[s] + sync.undo[p][s]]
      /\ sync'.undo = [sync.undo EXCEPT ![p] = [s \in SemNames |-> 0]]
      /\ {"mutex", "sem", "undo", "barrier", "once", "early"} \subseteq DOMAIN sync'
  BY <1>1, <1>2, <1>5 DEF SyncShape
<1>7. SyncShape'
  BY <1>1, <1>2, <1>6, SameProgram DEF SyncShape
<1>8. \A m \in MutexNames : Mutex(m)' = Mutex(m)
  BY <1>6 DEF Mutex
<1>9. LockInv(o)'
  BY <1>1, <1>4, <1>8, LockKept DEF IInv, Implies
<1>10. OnceInv(o)'
  BY <1>1, <1>4, <1>6, OnceKept DEF IInv, Implies
<1>11. LifeInv(o)'
  BY <1>1, <1>4, LifeKept DEF IInv, Implies, StatusKept, Live
<1>12. RoundInv(o)'
  BY <1>1, <1>4, RoundKept DEF IInv, Implies
<1>13. CountInv(o)'
  <2>1. ASSUME NEW s \in SemNames
        PROVE  /\ sync'.sem[s] \in Nat \cup {None} /\ \A q \in Tasks : sync'.undo[q][s] \in Nat
               /\ sync'.sem[s] = None => sync.sem[s] = None
    <3>1. sync.sem[s] \in Nat \cup {None} /\ \A q \in Tasks : sync.undo[q][s] \in Nat
      BY DEF IInv, CountInv
    <3> QED BY <1>1, <1>2, <1>6, <3>1 DEF SyncShape, None
  <2>2. ASSUME NEW v \in Tasks, NEW s \in View(o, v)'.tokens, s \notin o.locks
        PROVE  s \in SemNames /\ sync'.undo[ProcessOf(v)][s] >= 1
    <3>1. s \in View(o, v).tokens /\ v \notin S
      BY <1>4, <2>2, NothingHas
    <3>2. Live(v)
      BY <3>1, NothingHas DEF View, Nothing
    <3>3. ProcessOf(v) # p /\ ProcessOf(v) \in Tasks
      BY <1>1, <3>1, <3>2 DEF TextsFit
    <3>4. s \in SemNames /\ sync.undo[ProcessOf(v)][s] >= 1
      BY <2>2, <3>1 DEF IInv, CountInv
    <3> QED BY <1>1, <1>2, <1>6, <3>3, <3>4 DEF SyncShape
  <2> QED BY <1>1, <2>1, <2>2, SameProgram DEF CountInv
<1>14. ASSUME NEW s \in SemNames, sync'.sem[s] = None
       PROVE  sync.sem[s] = None
  BY <1>2, <1>6, <1>14 DEF IInv, CountInv, None
<1>15. TokenInv(o)'
  <2> SUFFICES ASSUME NEW s \in o.locks
               PROVE  /\ sync'.sem[s] \in {None, 0, 1}
                      /\ \A q \in Tasks :
                           /\ sync'.undo[q][s] \in {0, 1}
                           /\ sync'.undo[q][s] = 1 => s \in o.undone /\ sync'.sem[s] # 1
                           /\ \A r \in Tasks : sync'.undo[q][s] = 1 /\ sync'.undo[r][s] = 1 => q = r
                      /\ \A v \in Tasks :
                           /\ s \in View(o, v)'.tokens =>
                                /\ sync'.sem[s] = 0
                                /\ s \in o.undone => sync'.undo[ProcessOf(v)][s] = 1
                                /\ \A u \in Tasks : s \in View(o, u)'.tokens => v = u
                           /\ s \in View(o, v)'.unset \cap o.undone =>
                                sync'.sem[s] # 1 /\ \A q \in Tasks : sync'.undo[q][s] = 0
    BY <1>1, SameProgram DEF TokenInv, LockSem
  <2>1. /\ sync.sem[s] \in {None, 0, 1}
        /\ \A q \in Tasks :
             /\ sync.undo[q][s] \in {0, 1}
             /\ sync.undo[q][s] = 1 => s \in o.undone /\ sync.sem[s] # 1
             /\ \A r \in Tasks : sync.undo[q][s] = 1 /\ sync.undo[r][s] = 1 => q = r
        /\ \A v \in Tasks :
             /\ s \in View(o, v).tokens =>
                  /\ sync.sem[s] = 0
                  /\ s \in o.undone => sync.undo[ProcessOf(v)][s] = 1
                  /\ \A u \in Tasks : s \in View(o, u).tokens => v = u
             /\ s \in View(o, v).unset \cap o.undone =>
                  sync.sem[s] # 1 /\ \A q \in Tasks : sync.undo[q][s] = 0
    BY DEF IInv, TokenInv, LockSem
  <2>0. s \in SemNames
    BY <1>1 DEF TextsFit
  <2>2. /\ sync'.sem[s] = IF sync.sem[s] = None THEN None ELSE sync.sem[s] + sync.undo[p][s]
        /\ \A q \in Tasks : sync'.undo[q][s] = IF q = p THEN 0 ELSE sync.undo[q][s]
    BY <1>1, <1>2, <1>6, <2>0 DEF SyncShape
  <2>3. \A v \in Tasks : s \in View(o, v)'.tokens =>
          s \in View(o, v).tokens /\ v \notin S
    BY <1>4, NothingHas DEF Implies
  <2>4. \A v \in Tasks : s \in View(o, v)'.unset => s \in View(o, v).unset
    BY <1>4 DEF Implies
  <2>5. \A v \in Tasks : s \in View(o, v).tokens => Live(v)
    BY NothingHas DEF View, Nothing
  <2>6. ASSUME NEW v \in Tasks, s \in View(o, v)'.tokens
        PROVE  ProcessOf(v) # p /\ s \in View(o, v).tokens /\ ProcessOf(v) \in Tasks
    BY <1>1, <2>3, <2>5, <2>6 DEF TextsFit
  <2>7. CASE sync.undo[p][s] = 1
    <3>1. s \in o.undone /\ sync.sem[s] \in {None, 0}
      BY <1>2, <2>1, <2>7
    <3>2. \A q \in Tasks : sync'.undo[q][s] = 0
      BY <1>2, <2>1, <2>2, <2>7
    <3>3. \A v \in Tasks : s \notin View(o, v)'.tokens
      BY <1>2, <2>1, <2>6, <2>7, <3>1
    <3>4. \A v \in Tasks : s \notin View(o, v)'.unset
      BY <1>2, <2>1, <2>4, <2>7, <3>1
    <3>5. sync'.sem[s] \in {None, 0, 1}
      BY <2>2, <2>7, <3>1
    <3> QED BY <2>1, <3>2, <3>3, <3>4, <3>5
  <2>8. CASE sync.undo[p][s] = 0
    <3>1. sync'.sem[s] = sync.sem[s]
      BY <2>1, <2>2, <2>8 DEF None
    <3>2. \A q \in Tasks : sync'.undo[q][s] = sync.undo[q][s]
      BY <1>2, <2>2, <2>8
    <3> QED BY <2>1, <2>4, <2>6, <3>1, <3>2
  <2> QED BY <1>2, <2>1, <2>7, <2>8
<1>16. ReadyInv(o)'
  BY <1>1, <1>4, <1>6, <1>8, <1>14, ReadyKept DEF IInv, Implies
<1> QED BY <1>1, <1>4, <1>7, <1>9, <1>10, <1>11, <1>12, <1>13, <1>15, <1>16, OutlinedKept DEF IInv

LEMMA EndingKeeps ==
    ASSUME NEW o, IInv(o), NEW t \in Tasks, Running(t), Finish(t) \/ PipeWriteCall(t)
    PROVE  IInv(o)'
<1>1. CASE Finish(t)
  BY <1>1, ProcessEndsKeeps DEF Finish
<1>2. CASE PipeWriteCall(t) /\ data.pipe.r = {}
  BY <1>2, ProcessEndsKeeps DEF PipeWriteCall
<1>3. CASE PipeWriteCall(t) /\ data.pipe.r # {}
  <2>1. UNCHANGED << program, sync >> /\ task' = On(t) /\ Now(t).op = "pipewrite"
    BY <1>3 DEF PipeWriteCall, KeepSync, Calls
  <2>2. Quiet /\ Goes(t, task[t].pc + 1, "")
    BY <2>1, QuietSame, OnGoes DEF IInv
  <2>3. Now(t).op \notin Strengthening \cup {"jump", "exit", "end", "finish"}
    BY <2>1 DEF Strengthening
  <2> QED BY <2>1, <2>2, <2>3, NeutralOn
<1> QED BY <1>1, <1>2, <1>3

LEMMA HandledFields ==
    ASSUME NEW t, {"pc", "st", "wait"} \subseteq DOMAIN task[t], NEW s, NEW h
    PROVE  /\ {"pc", "st", "wait"} \subseteq DOMAIN Handled(t, s, h)
           /\ task[t].wait = "pause" =>
                Handled(t, s, h).pc = task[t].pc + 1 /\ Handled(t, s, h).wait = ""
           /\ task[t].wait # "pause" =>
                Handled(t, s, h).pc = task[t].pc /\ Handled(t, s, h).wait = task[t].wait
           /\ Handled(t, s, h).st = task[t].st
BY DEF Handled

\* A handler only ends a pause.
LEMMA DeliverKeeps ==
    ASSUME NEW o, IInv(o), NEW t \in Tasks, Deliver(t)
    PROVE  IInv(o)'
<1>1. CASE ProcessEnds(t, "killed")
  BY <1>1, ProcessEndsKeeps
<1>2. CASE ~ ProcessEnds(t, "killed")
  <2>1. UNCHANGED << program, sync >> /\ Live(t)
    BY <1>2 DEF Deliver, KeepBoth
  <2>2. Quiet /\ TaskShape /\ WaitInv /\ Outlined(o)
    BY <2>1, QuietSame DEF IInv
  <2>3. PICK s, h : task' = [task EXCEPT ![t] = Handled(t, s, h)]
    BY <1>2 DEF Deliver
  <2>6. {"pc", "st", "wait"} \subseteq DOMAIN task[t] /\ DOMAIN task = Tasks
    BY <2>2 DEF TaskShape
  <2>8. PICK q : /\ task' = [task EXCEPT ![t] = q]
                 /\ {"pc", "st", "wait"} \subseteq DOMAIN q /\ q.st = task[t].st
                 /\ task[t].wait = "pause" => q.pc = task[t].pc + 1 /\ q.wait = ""
                 /\ task[t].wait # "pause" => q.pc = task[t].pc /\ q.wait = task[t].wait
    <3> DEFINE q == Handled(t, s, h)
    <3>1. /\ {"pc", "st", "wait"} \subseteq DOMAIN q /\ q.st = task[t].st
          /\ task[t].wait = "pause" => q.pc = task[t].pc + 1 /\ q.wait = ""
          /\ task[t].wait # "pause" => q.pc = task[t].pc /\ q.wait = task[t].wait
      BY <2>6, HandledFields
    <3>2. task' = [task EXCEPT ![t] = q]
      BY <2>3
    <3> HIDE DEF q
    <3> QED BY <3>1, <3>2
  <2>7. TaskFrame /\ task'[t] = q /\ \A u \in Tasks \ {t} : task'[u] = task[u]
    BY <2>2, <2>6, <2>8 DEF TaskShape, TaskFrame
  <2>4. CASE task[t].wait = "pause"
    <3>1. Goes(t, task[t].pc + 1, "")
      BY <2>4, <2>7, <2>8 DEF Goes, Still
    <3> WaitingCalls["pause"] = {"pause"}
      BY DEF WaitingCalls
    <3>2. task[t].pc \in Positions(t) /\ Text(t)[task[t].pc].op = "pause"
      BY <2>1, <2>2, <2>4 DEF WaitInv, Live
    <3> DEFINE i == Text(t)[task[t].pc]
    <3>3. CallFits(o, t, task[t].pc, i, At(o, t, task[t].pc))
      BY <2>2, <3>2 DEF Outlined, At
    <3>4. Implies(Passed(o, i, At(o, t, task[t].pc)), At(o, t, task[t].pc + 1))
      BY <3>2, <3>3 DEF CallFits, FlowFits, Leads
    <3>5. Passed(o, i, At(o, t, task[t].pc)) = At(o, t, task[t].pc)
      BY <3>2 DEF Passed
    <3>6. task[t].pc + 1 \in Nat \ {0} /\ WaitsIn(t, task[t].pc + 1, "")
      BY Parts, Beyond DEF WaitsIn
    <3>7. /\ TaskShape' /\ WaitInv' /\ StatusKept
          /\ \A u \in Tasks \ {t} : View(o, u)' = View(o, u)
          /\ View(o, t)' = At(o, t, task[t].pc + 1)
      BY <2>1, <2>2, <3>1, <3>6, GoesStep
    <3>8. View(o, t) = At(o, t, task[t].pc)
      BY <2>1, <2>4 DEF View, Facts
    <3>9. \A u \in Tasks : Implies(View(o, u), View(o, u)')
      BY <3>4, <3>5, <3>7, <3>8, ImpliesItself
    <3> QED BY <2>1, <2>2, <3>7, <3>9, Weaker
  <2>5. CASE task[t].wait # "pause"
    <3>1. TaskFrame /\ \A u \in Tasks : Still(u)
      BY <2>5, <2>7, <2>8 DEF Still
    <3> QED BY <2>1, <2>2, <3>1, NeutralStill
  <2> QED BY <2>4, <2>5
<1> QED BY <1>1, <1>2

-----------------------------------------------------------------------------
(* Mutexes and read-write locks.                                           *)

\* Nothing but mutexes changes.
MutexFrame ==
    /\ sync'.sem = sync.sem /\ sync'.undo = sync.undo
    /\ sync'.barrier = sync.barrier /\ sync'.once = sync.once /\ SyncShape'

\* What remains to be shown where a mutex changes.
LEMMA MutexStep ==
    ASSUME NEW o, IInv(o), UNCHANGED program, TaskShape', WaitInv', StatusKept, MutexFrame,
           \A u \in Tasks : /\ View(o, u)'.tokens \subseteq View(o, u).tokens
                            /\ View(o, u)'.unset \subseteq View(o, u).unset
                            /\ View(o, u)'.once \in {"no", View(o, u).once}
                            /\ View(o, u)'.begun \subseteq View(o, u).begun
                            /\ View(o, u)'.gone \subseteq View(o, u).gone
                            /\ View(o, u)'.unborn \subseteq View(o, u).unborn
                            /\ View(o, u)'.round \in {None, View(o, u).round}
                            /\ View(o, u)'.serial \in {"no", View(o, u).serial},
           LockInv(o)', ReadyInv(o)'
    PROVE  IInv(o)'
<1>1. Outlined(o)'
  BY OutlinedKept DEF IInv
<1>2. TokenInv(o)' /\ CountInv(o)'
  BY TokenKept, CountKept DEF IInv, MutexFrame
<1>3. OnceInv(o)'
  BY OnceKept DEF IInv, MutexFrame
<1>4. LifeInv(o)'
  BY LifeKept DEF IInv, StatusKept, Live
<1>5. RoundInv(o)'
  BY RoundKept DEF IInv
<1> QED BY <1>1, <1>2, <1>3, <1>4, <1>5 DEF IInv, MutexFrame

\* An entry of the table of mutexes changes.
Entry(m, r) ==
    /\ sync'.mutex = [sync.mutex EXCEPT ![m] = r]
    /\ DOMAIN r = {"kind", "owner", "depth", "readers"}
    /\ sync'.sem = sync.sem /\ sync'.undo = sync.undo
    /\ sync'.barrier = sync.barrier /\ sync'.once = sync.once
    /\ {"mutex", "sem", "undo", "barrier", "once", "early"} \subseteq DOMAIN sync'

LEMMA EntryFacts ==
    ASSUME SyncShape, UNCHANGED program, NEW m \in MutexNames, NEW r, Entry(m, r)
    PROVE  MutexFrame /\ Mutex(m)' = r /\ \A n \in MutexNames \ {m} : Mutex(n)' = Mutex(n)
<1>1. \A n \in MutexNames : Mutex(n)' = IF n = m THEN r ELSE Mutex(n)
  BY DEF SyncShape, Entry, Mutex
<1>2. SyncShape'
  BY SameProgram DEF SyncShape, Entry
<1> QED BY <1>1, <1>2 DEF MutexFrame, Entry

\* What remains to be shown where the mutex m, and what t relies on, change.
LEMMA MutexKeeps ==
    ASSUME NEW o, IInv(o), UNCHANGED program, TaskShape', WaitInv', StatusKept, MutexFrame,
           NEW t \in Tasks, NEW m \in MutexNames,
           \A n \in MutexNames \ {m} : Mutex(n)' = Mutex(n),
           \A u \in Tasks \ {t} : View(o, u)' = View(o, u),
           Implies([View(o, t) EXCEPT !.held = @ \cup {m}, !.reads = @ \cup {m},
                                      !.ready = @ \cup {<<"mutex", m>>}], View(o, t)'),
           \A u \in Tasks : /\ m \in View(o, u)'.held => Mutex(m)'.owner = u
                            /\ m \in View(o, u)'.reads => u \in Mutex(m)'.readers
                            /\ <<"mutex", m>> \in View(o, u)'.ready => Usable(m)',
           Mutex(m)'.owner # None => Mutex(m)'.readers = {}
    PROVE  IInv(o)'
<1> DEFINE f == View(o, t)
           g == View(o, t)'
<1>1. DOMAIN f = FactNames
  BY Parts, ViewShape
<1>2. /\ g.held \subseteq f.held \cup {m} /\ g.reads \subseteq f.reads \cup {m}
      /\ g.tokens \subseteq f.tokens /\ g.once \in {"no", f.once} /\ g.round \in {None, f.round}
      /\ g.serial \in {"no", f.serial} /\ g.begun \subseteq f.begun /\ g.gone \subseteq f.gone
      /\ g.unborn \subseteq f.unborn /\ g.unset \subseteq f.unset
      /\ g.ready \subseteq f.ready \cup {<<"mutex", m>>}
  BY <1>1 DEF Implies, FactNames
<1> HIDE DEF f, g
<1>3. \A u \in Tasks : /\ View(o, u)'.held \subseteq View(o, u).held \cup {m}
                       /\ View(o, u)'.reads \subseteq View(o, u).reads \cup {m}
                       /\ View(o, u)'.ready \subseteq View(o, u).ready \cup {<<"mutex", m>>}
                       /\ View(o, u)'.tokens \subseteq View(o, u).tokens
                       /\ View(o, u)'.unset \subseteq View(o, u).unset
                       /\ View(o, u)'.once \in {"no", View(o, u).once}
                       /\ View(o, u)'.begun \subseteq View(o, u).begun
                       /\ View(o, u)'.gone \subseteq View(o, u).gone
                       /\ View(o, u)'.unborn \subseteq View(o, u).unborn
                       /\ View(o, u)'.round \in {None, View(o, u).round}
                       /\ View(o, u)'.serial \in {"no", View(o, u).serial}
  BY <1>2 DEF f, g
<1>4. LockInv(o)'
  <2>1. LockInv(o)
    BY DEF IInv
  <2>2. ASSUME NEW u \in Tasks
        PROVE  /\ \A n \in View(o, u)'.held : n \in MutexNames /\ Mutex(n)'.owner = u
               /\ \A n \in View(o, u)'.reads : n \in MutexNames /\ u \in Mutex(n)'.readers
    BY <1>3, <2>1 DEF LockInv
  <2>3. \A n \in MutexNames : Mutex(n)'.owner # None => Mutex(n)'.readers = {}
    BY <2>1 DEF LockInv
  <2> QED BY <2>2, <2>3, SameProgram DEF LockInv
<1>5. ReadyInv(o)'
  <2>1. ReadyInv(o)
    BY DEF IInv
  <2>2. ASSUME NEW u \in Tasks
        PROVE  /\ \A n \in MutexNames : <<"mutex", n>> \in View(o, u)'.ready => Usable(n)'
               /\ \A s \in SemNames : <<"sem", s>> \in View(o, u)'.ready => sync'.sem[s] # None
               /\ \A b \in BarrierNames :
                    <<"barrier", b>> \in View(o, u)'.ready => sync'.barrier[b] # 0
    <3>1. \A n \in MutexNames : <<"mutex", n>> \in View(o, u)'.ready => Usable(n)'
      BY <1>3, <2>1 DEF ReadyInv, Usable
    <3>2. \A x : <<"sem", x>> # <<"mutex", m>> /\ <<"barrier", x>> # <<"mutex", m>>
      OBVIOUS
    <3>3. \A x : (<<"sem", x>> \in View(o, u)'.ready => <<"sem", x>> \in View(o, u).ready)
                 /\ (<<"barrier", x>> \in View(o, u)'.ready
                     => <<"barrier", x>> \in View(o, u).ready)
      BY <1>3, <3>2
    <3> QED BY <3>1, <3>3, <2>1 DEF ReadyInv, MutexFrame
  <2>3. \A b \in BarrierNames : sync'.barrier[b] \in {0, Cardinality(Crew)}
    BY <2>1 DEF ReadyInv, MutexFrame
  <2> QED BY <2>2, <2>3, SameProgram DEF ReadyInv
<1> QED BY <1>3, <1>4, <1>5, MutexStep

\* A task goes to a position that relies on no more than f.
LEMMA LeadStep ==
    ASSUME NEW o, IInv(o), UNCHANGED program, NEW t \in Tasks, Live(t), NEW f, NEW k,
           Leads(o, f, t, k), Goes(t, k, "")
    PROVE  /\ TaskShape' /\ WaitInv' /\ StatusKept
           /\ \A u \in Tasks \ {t} : View(o, u)' = View(o, u)
           /\ Implies(f, View(o, t)')
<1>1. k \in Nat \ {0} /\ WaitsIn(t, k, "") /\ Implies(f, At(o, t, k))
  BY DEF Leads, WaitsIn
<1>2. /\ TaskShape' /\ WaitInv' /\ StatusKept
      /\ \A u \in Tasks \ {t} : View(o, u)' = View(o, u)
      /\ View(o, t)' = At(o, t, k)
  BY <1>1, GoesStep DEF IInv
<1> QED BY <1>1, <1>2

LEMMA IgnoredKeeps ==
    ASSUME NEW o, IInv(o), UNCHANGED program, NEW t \in Tasks, Live(t), Quiet,
           Leads(o, View(o, t), t, task[t].pc + 1), Goes(t, task[t].pc + 1, "")
    PROVE  IInv(o)'
<1> DEFINE f == View(o, t)
           k == task[t].pc + 1
<1>1. Leads(o, f, t, k) /\ Goes(t, k, "")
  OBVIOUS
<1> HIDE DEF f, k
<1>2. /\ TaskShape' /\ WaitInv' /\ StatusKept
      /\ \A u \in Tasks \ {t} : View(o, u)' = View(o, u)
      /\ Implies(f, View(o, t)')
  BY <1>1, LeadStep
<1>3. \A u \in Tasks : Implies(View(o, u), View(o, u)')
  BY <1>2, ImpliesItself DEF f
<1> QED BY <1>2, <1>3, Weaker

\* What another task relies on is seen from elsewhere, as long as it lives.
LEMMA SeenElsewhere ==
    ASSUME NEW o, IInv(o), NEW t \in Tasks, NEW u \in Tasks \ {t}, Live(u), NEW f,
           f = Nothing \/ f = View(o, t)
    PROVE  View(o, u) = Nothing \/ \E g \in Elsewhere(o, t, f) : Implies(g, View(o, u))
<1>1. u \notin f.gone \cup f.unborn
  BY NothingHas DEF IInv, LifeInv, Live
<1> DEFINE k == task[u].pc
<1>2. CASE k \notin Positions(u)
  <2>1. task[u].wait \notin {"cond", "relock"}
    BY <1>2 DEF IInv, WaitInv
  <2> QED BY <1>2, <2>1 DEF View, Facts, At
<1>3. CASE k \in Positions(u)
  <2>1. o.at[u][k] \in Elsewhere(o, t, f)
    BY <1>1, <1>3 DEF Elsewhere
  <2>2. DOMAIN o.at[u][k] = FactNames
    BY <1>3, Parts, AtShape DEF At
  <2>3. Implies(o.at[u][k], View(o, u))
    BY <1>3, <2>2 DEF View, Facts, At, Implies, FactNames
  <2> QED BY <2>1, <2>3
<1> QED BY <1>2, <1>3

\* Tasks that do not live hold nothing.
LEMMA DeadView ==
    ASSUME NEW o, NEW u \in Tasks, ~ Live(u)
    PROVE  /\ View(o, u).held = {} /\ View(o, u).reads = {} /\ View(o, u).tokens = {}
           /\ View(o, u).begun = {} /\ View(o, u).gone = {} /\ View(o, u).ready = {}
           /\ View(o, u).unset = {} /\ View(o, u).once = "no" /\ View(o, u).serial = "no"
BY DEF View, Nothing

\* The mutex that t may give back or initialise is of no other task.
LEMMA UnheldFacts ==
    ASSUME NEW o, IInv(o), NEW t \in Tasks, NEW m \in Unheld(o, t, View(o, t)),
           NEW u \in Tasks \ {t}
    PROVE  m \in MutexNames /\ m \notin View(o, u).held \cup View(o, u).reads
<1>1. m \in MutexNames /\ \A g \in Elsewhere(o, t, View(o, t)) : m \notin g.held \cup g.reads
  BY DEF Unheld
<1>2. CASE Live(u)
  BY <1>1, <1>2, SeenElsewhere, NothingHas DEF Implies
<1>3. CASE ~ Live(u)
  BY <1>1, <1>3, DeadView
<1> QED BY <1>2, <1>3

LEMMA TakenEntry ==
    ASSUME SyncShape, UNCHANGED program, NEW t, NEW m \in MutexNames,
           sync' = Taken(t, m) \/ sync' = Using(m, Taken(t, m))
    PROVE  /\ MutexFrame /\ \A n \in MutexNames \ {m} : Mutex(n)' = Mutex(n)
           /\ Mutex(m)'.owner = t /\ Mutex(m)'.readers = Mutex(m).readers
           /\ Mutex(m)'.kind = Mutex(m).kind
<1> DEFINE r == [Mutex(m) EXCEPT !.owner = t, !.depth = 1]
<1>1. DOMAIN Mutex(m) = {"kind", "owner", "depth", "readers"}
  BY DEF SyncShape, Mutex
<1>2. Entry(m, r)
  <2>1. Taken(t, m).mutex = [sync.mutex EXCEPT ![m] = r]
    BY DEF SyncShape, Taken, Mutex
  <2>2. /\ sync'.mutex = Taken(t, m).mutex
        /\ sync'.sem = sync.sem /\ sync'.undo = sync.undo
        /\ sync'.barrier = sync.barrier /\ sync'.once = sync.once
        /\ DOMAIN sync' = DOMAIN sync
    BY DEF SyncShape, Taken, Using
  <2> QED BY <1>1, <2>1, <2>2 DEF SyncShape, Entry
<1>3. /\ MutexFrame /\ Mutex(m)' = r /\ \A n \in MutexNames \ {m} : Mutex(n)' = Mutex(n)
  BY <1>2, EntryFacts
<1> QED BY <1>1, <1>3

\* A task that takes the mutex m, or has it already.
LEMMA TakeKeeps ==
    ASSUME NEW o, IInv(o), UNCHANGED program, TaskShape', WaitInv', StatusKept, MutexFrame,
           NEW t \in Tasks, NEW m \in MutexNames,
           \A n \in MutexNames \ {m} : Mutex(n)' = Mutex(n),
           \A u \in Tasks \ {t} : View(o, u)' = View(o, u),
           Implies([View(o, t) EXCEPT !.held = @ \cup {m}], View(o, t)'),
           Free(m) \/ Mutex(m).owner = t,
           Mutex(m)'.owner = t, Mutex(m)'.readers = Mutex(m).readers,
           Mutex(m)'.kind = Mutex(m).kind
    PROVE  IInv(o)'
<1>1. LockInv(o) /\ ReadyInv(o)
  BY DEF IInv
<1>2. DOMAIN View(o, t) = FactNames
  BY Parts, ViewShape
<1>3. Mutex(m)'.readers = {}
  BY <1>1 DEF Free, LockInv, None, Tasks
<1>4. ASSUME NEW u \in Tasks, m \in View(o, u).held PROVE u = t
  BY <1>1, <1>4 DEF LockInv, Free, None, Tasks
<1>5. \A u \in Tasks : m \notin View(o, u).reads
  BY <1>1, <1>3 DEF LockInv
<1>6. /\ View(o, t)'.held \subseteq View(o, t).held \cup {m}
      /\ View(o, t)'.reads \subseteq View(o, t).reads
      /\ View(o, t)'.ready \subseteq View(o, t).ready
  BY <1>2 DEF Implies, FactNames
<1>7. Implies([View(o, t) EXCEPT !.held = @ \cup {m}, !.reads = @ \cup {m},
                                 !.ready = @ \cup {<<"mutex", m>>}], View(o, t)')
  BY <1>2 DEF Implies, FactNames
<1>8. Usable(m)' <=> Usable(m)
  BY DEF Usable
<1>9. \A u \in Tasks : /\ m \in View(o, u)'.held => Mutex(m)'.owner = u
                       /\ m \in View(o, u)'.reads => u \in Mutex(m)'.readers
                       /\ <<"mutex", m>> \in View(o, u)'.ready => Usable(m)'
  BY <1>1, <1>4, <1>5, <1>6, <1>8 DEF ReadyInv
<1> QED BY <1>3, <1>7, <1>9, MutexKeeps

\* The position behind a call that does not jump.
LEMMA CallStep ==
    ASSUME NEW o, IInv(o), UNCHANGED program, NEW t \in Tasks, Running(t),
           Goes(t, task[t].pc + 1, ""),
           Now(t).op \notin HandlerOps \cup {"jump", "exit", "end", "finish"}
    PROVE  /\ TaskShape' /\ WaitInv' /\ StatusKept
           /\ \A u \in Tasks \ {t} : View(o, u)' = View(o, u)
           /\ Implies(Passed(o, Now(t), View(o, t)), View(o, t)')
           /\ CallFits(o, t, task[t].pc, Now(t), View(o, t))
<1>1. /\ task[t].pc \in Positions(t)
      /\ CallFits(o, t, task[t].pc, Now(t), At(o, t, task[t].pc))
  BY WithinText DEF IInv
<1> QED BY <1>1, OnStep, RunningView

LEMMA CallFact ==
    ASSUME NEW o, IInv(o), NEW t \in Tasks, Running(t),
           Now(t).op \notin HandlerOps \cup {"finish"}
    PROVE  /\ task[t].pc \in Positions(t)
           /\ CallFits(o, t, task[t].pc, Now(t), View(o, t))
BY WithinText, RunningView DEF IInv

LEMMA FailedGoesOrIgnored ==
    ASSUME NEW o, IInv(o), UNCHANGED program, Quiet, NEW t \in Tasks, Running(t),
           task' = Failed(t), Now(t).op \notin HandlerOps \cup {"jump", "exit", "end", "finish"}
    PROVE  IInv(o)' \/ (Now(t).bad = "ignore" /\ Goes(t, task[t].pc + 1, ""))
<1>1. TaskShape
  BY DEF IInv
<1>2. Now(t).bad \in {"process", "task", "ignore"}
  BY CallFact DEF CallFits, FlowFits
<1> QED BY <1>1, <1>2, FailedGoes, NeutralOut, NeutralEnd DEF Running

\* A call after which t has the mutex, which was free before or its own.
LEMMA LockedKeeps ==
    ASSUME NEW o, IInv(o), UNCHANGED program, NEW t \in Tasks, Running(t), MutexFrame,
           Now(t).op \in {"lock", "trylock", "timedlock"}, NEW m, m = Now(t).on,
           Goes(t, task[t].pc + 1, ""), m \in MutexNames,
           \A n \in MutexNames \ {m} : Mutex(n)' = Mutex(n),
           Free(m) \/ Mutex(m).owner = t,
           Mutex(m)'.owner = t, Mutex(m)'.readers = Mutex(m).readers,
           Mutex(m)'.kind = Mutex(m).kind
    PROVE  IInv(o)'
<1>1. Now(t).op \notin HandlerOps \cup {"jump", "exit", "end", "finish"}
  BY DEF HandlerOps
<1>2. /\ TaskShape' /\ WaitInv' /\ StatusKept
      /\ \A u \in Tasks \ {t} : View(o, u)' = View(o, u)
      /\ Implies(Passed(o, Now(t), View(o, t)), View(o, t)')
  BY <1>1, CallStep
<1>3. Implies([View(o, t) EXCEPT !.held = @ \cup {m}], View(o, t)')
  BY <1>2 DEF Passed
<1> QED BY <1>2, <1>3, TakeKeeps

LEMMA LockName ==
    ASSUME NEW o, IInv(o), NEW t \in Tasks, Running(t),
           Now(t).op \in {"lock", "trylock", "timedlock", "readlock", "mutexdestroy"}
    PROVE  /\ Now(t).on \in MutexNames
           /\ Now(t).op \notin HandlerOps \cup {"jump", "exit", "end", "finish"}
           /\ task[t].pc \in Positions(t)
<1>1. Now(t).op \notin HandlerOps \cup {"jump", "exit", "end", "finish"}
  BY DEF HandlerOps
<1> QED BY <1>1, CallFact DEF CallFits, LocksFit

LEMMA LockKeeps ==
    ASSUME NEW o, IInv(o), NEW t \in Tasks, Running(t), Open(t), LockCall(t)
    PROVE  IInv(o)'
<1>0. PICK m : m = Now(t).on
  OBVIOUS
<1>1. Now(t).op = "lock" /\ UNCHANGED program
  BY DEF LockCall, Calls, KeepData
<1>2. m \in MutexNames /\ Now(t).op \notin HandlerOps \cup {"jump", "exit", "end", "finish"}
  BY <1>0, <1>1, LockName
<1>3. SyncShape /\ TaskShape
  BY DEF IInv
<1>4. Free(m) \/ (Mutex(m).owner = t /\ Mutex(m).kind \in {"errorcheck", "recursive"})
  BY <1>0, <1>1 DEF Open
<1>5. CASE Free(m)
  <2>1. task' = On(t) /\ sync' = Using(m, Taken(t, m))
    BY <1>0, <1>5 DEF LockCall
  <2>2. Goes(t, task[t].pc + 1, "")
    BY <1>0, <1>3, <2>1, OnGoes
  <2>3. /\ MutexFrame /\ \A n \in MutexNames \ {m} : Mutex(n)' = Mutex(n)
        /\ Mutex(m)'.owner = t /\ Mutex(m)'.readers = Mutex(m).readers
        /\ Mutex(m)'.kind = Mutex(m).kind
    BY <1>0, <1>1, <1>2, <1>3, <2>1, TakenEntry
  <2> QED BY <1>0, <1>1, <1>2, <1>5, <2>2, <2>3, LockedKeeps
<1>6. CASE ~ Free(m) /\ Mutex(m).kind = "recursive"
  <2>1. task' = On(t) /\ sync' = [sync EXCEPT !.mutex[m].depth = @ + 1]
    BY <1>0, <1>6 DEF LockCall
  <2>2. Goes(t, task[t].pc + 1, "")
    BY <1>0, <1>3, <2>1, OnGoes
  <2> DEFINE r == [Mutex(m) EXCEPT !.depth = @ + 1]
  <2>3. DOMAIN Mutex(m) = {"kind", "owner", "depth", "readers"}
    BY <1>0, <1>2, <1>3 DEF SyncShape, Mutex
  <2>4. Entry(m, r)
    BY <1>0, <1>2, <1>3, <2>1, <2>3 DEF SyncShape, Entry, Mutex
  <2>5. /\ MutexFrame /\ Mutex(m)' = r /\ \A n \in MutexNames \ {m} : Mutex(n)' = Mutex(n)
    BY <1>0, <1>1, <1>2, <1>3, <2>4, EntryFacts
  <2>6. r.owner = Mutex(m).owner /\ r.readers = Mutex(m).readers /\ r.kind = Mutex(m).kind
    BY <2>3
  <2>7. /\ Mutex(m).owner = t /\ Mutex(m)'.owner = t /\ Mutex(m)'.readers = Mutex(m).readers
        /\ Mutex(m)'.kind = Mutex(m).kind
    BY <1>0, <1>4, <1>6, <2>5, <2>6
  <2> QED BY <1>0, <1>1, <1>2, <2>2, <2>5, <2>7, LockedKeeps
<1>7. CASE ~ Free(m) /\ Mutex(m).kind # "recursive"
  <2>1. task' = Failed(t) /\ sync' = sync
    BY <1>0, <1>7 DEF LockCall
  <2>2. CASE Goes(t, task[t].pc + 1, "")
    <3>1. \A n : Mutex(n)' = Mutex(n)
      BY <2>1 DEF Mutex
    <3>2. MutexFrame
      BY <1>0, <1>1, <2>1, QuietSame DEF MutexFrame, Quiet
    <3> QED BY <1>0, <1>1, <1>2, <1>4, <1>7, <2>2, <3>1, <3>2, LockedKeeps
  <2>3. CASE ~ Goes(t, task[t].pc + 1, "")
    BY <1>0, <1>1, <1>2, <2>1, <2>3, QuietSame, FailedGoesOrIgnored
  <2> QED BY <2>2, <2>3
<1> QED BY <1>0, <1>4, <1>5, <1>6, <1>7

LEMMA TryLockKeeps ==
    ASSUME NEW o, IInv(o), NEW t \in Tasks, Running(t), TryLockCall(t)
    PROVE  IInv(o)'
<1>0. PICK m : m = Now(t).on
  OBVIOUS
<1>1. Now(t).op = "trylock" /\ UNCHANGED program
  BY DEF TryLockCall, Calls, KeepData
<1>2. m \in MutexNames /\ task[t].pc \in Positions(t)
  BY <1>0, <1>1, LockName
<1>3. SyncShape /\ TaskShape
  BY DEF IInv
<1>5. CASE Free(m)
  <2>1. task' = On(t) /\ sync' = Using(m, Taken(t, m))
    BY <1>0, <1>5 DEF TryLockCall
  <2>2. Goes(t, task[t].pc + 1, "")
    BY <1>0, <1>3, <2>1, OnGoes
  <2>3. /\ MutexFrame /\ \A n \in MutexNames \ {m} : Mutex(n)' = Mutex(n)
        /\ Mutex(m)'.owner = t /\ Mutex(m)'.readers = Mutex(m).readers
        /\ Mutex(m)'.kind = Mutex(m).kind
    BY <1>0, <1>1, <1>2, <1>3, <2>1, TakenEntry
  <2> QED BY <1>0, <1>1, <1>2, <1>5, <2>2, <2>3, LockedKeeps
<1>6. CASE ~ Free(m)
  <2>1. task' = By(t, Now(t).n) /\ sync' = sync
    BY <1>0, <1>6 DEF TryLockCall
  <2>2. Quiet /\ Goes(t, task[t].pc + 1 + Now(t).n, "")
    BY <1>0, <1>1, <1>3, <2>1, QuietSame, ByGoes
  <2>3. MayJump(Now(t)) /\ Now(t).op \notin {"once", "barrierwait"}
    BY <1>0, <1>1 DEF MayJump
  <2> QED BY <1>0, <1>1, <1>2, <2>2, <2>3, NeutralJump
<1> QED BY <1>0, <1>5, <1>6

LEMMA TimedLockKeeps ==
    ASSUME NEW o, IInv(o), NEW t \in Tasks, Running(t), TimedLockCall(t)
    PROVE  IInv(o)'
<1>0. PICK m : m = Now(t).on
  OBVIOUS
<1>1. Now(t).op = "timedlock" /\ UNCHANGED program
  BY DEF TimedLockCall, Calls, KeepData
<1>2. /\ m \in MutexNames /\ task[t].pc \in Positions(t)
      /\ Now(t).op \notin HandlerOps \cup {"jump", "exit", "end", "finish"}
  BY <1>0, <1>1, LockName
<1>3. SyncShape /\ TaskShape /\ TextsFit(o)
  BY Parts DEF IInv
<1>5. CASE Free(m) /\ task' = On(t) /\ sync' = Using(m, Taken(t, m))
  <2>2. Goes(t, task[t].pc + 1, "")
    BY <1>0, <1>3, <1>5, OnGoes
  <2>3. /\ MutexFrame /\ \A n \in MutexNames \ {m} : Mutex(n)' = Mutex(n)
        /\ Mutex(m)'.owner = t /\ Mutex(m)'.readers = Mutex(m).readers
        /\ Mutex(m)'.kind = Mutex(m).kind
    BY <1>0, <1>1, <1>2, <1>3, <1>5, TakenEntry
  <2> QED BY <1>0, <1>1, <1>2, <1>5, <2>2, <2>3, LockedKeeps
<1>6. CASE task' = TimedOut(t) /\ sync' = sync
  <2>1. Quiet
    BY <1>0, <1>1, <1>6, QuietSame
  <2>2. CASE Now(t).n # 0
    <3>1. Goes(t, task[t].pc + 1 + Now(t).n, "")
      BY <1>0, <1>3, <1>6, <2>2, ByGoes DEF TimedOut
    <3>2. MayJump(Now(t)) /\ Now(t).op \notin {"once", "barrierwait"}
      BY <1>0, <1>1, <2>2 DEF MayJump
    <3> QED BY <1>0, <1>1, <1>2, <2>1, <3>1, <3>2, NeutralJump
  <2>3. CASE ~ (Now(t).n # 0)
    <3>1. task' = Failed(t)
      BY <1>0, <1>6, <2>3 DEF TimedOut
    <3>2. CASE Now(t).bad = "ignore" /\ Goes(t, task[t].pc + 1, "")
      <4>1. Leads(o, View(o, t), t, task[t].pc + 1)
        BY <1>0, <1>1, <1>2, <3>2, CallFact DEF CallFits, FlowFits
      <4> QED BY <1>0, <1>1, <2>1, <3>2, <4>1, IgnoredKeeps DEF Running
    <3>3. CASE ~ (Now(t).bad = "ignore" /\ Goes(t, task[t].pc + 1, ""))
      BY <1>0, <1>1, <1>2, <2>1, <3>1, <3>3, FailedGoesOrIgnored
    <3> QED BY <3>2, <3>3
  <2> QED BY <2>2, <2>3
<1>7. CASE task' = [task EXCEPT ![t].wait = "stuck"] /\ sync' = sync
  <2>1. Goes(t, task[t].pc, "stuck")
    BY <1>0, <1>3, <1>7 DEF TaskShape, Goes, TaskFrame, Still
  <2>2. WaitsIn(t, task[t].pc, "stuck")
    BY <1>0, <1>1, <1>2, <1>3, NowFacts DEF WaitsIn, WaitingCalls
  <2>3. Live(t) /\ task[t].wait \notin {"cond", "relock"} /\ Quiet
    BY <1>0, <1>1, <1>7, QuietSame DEF Running
  <2> QED BY <1>0, <1>1, <2>1, <2>2, <2>3, NeutralStay
<1> QED BY <1>0, <1>5, <1>6, <1>7 DEF TimedLockCall

\* What is known of the call that a task waits in.
LEMMA WaitingFact ==
    ASSUME NEW o, IInv(o), NEW t \in Tasks, Live(t),
           NEW w \in {"cond", "relock", "stuck", "barrier", "pause"}, task[t].wait = w
    PROVE  /\ task[t].pc \in Positions(t) /\ Now(t) = Text(t)[task[t].pc]
           /\ CallFits(o, t, task[t].pc, Now(t), At(o, t, task[t].pc))
           /\ w = "stuck" => Now(t).op = "timedlock"
           /\ w = "barrier" => Now(t).op = "barrierwait"
           /\ w \in {"cond", "relock"} => Now(t).op \in {"condwait", "condtimedwait"}
           /\ w \notin {"cond", "relock"} => View(o, t) = At(o, t, task[t].pc)
           /\ w \in {"cond", "relock"} =>
                View(o, t) = [At(o, t, task[t].pc) EXCEPT !.held = @ \ {Now(t).arg}]
<1>1. TextsFit(o) /\ TaskShape
  BY Parts
<1>2. task[t].pc \in Positions(t) /\ Text(t)[task[t].pc].op \in WaitingCalls[w]
  BY DEF IInv, WaitInv
<1>3. Now(t) = Text(t)[task[t].pc]
  BY <1>1, <1>2, NowFacts
<1>4. CallFits(o, t, task[t].pc, Now(t), At(o, t, task[t].pc))
  BY <1>2, <1>3 DEF IInv, Outlined, At
<1>5. /\ WaitingCalls["cond"] = {"condwait", "condtimedwait"}
      /\ WaitingCalls["relock"] = {"condwait", "condtimedwait"}
      /\ WaitingCalls["stuck"] = {"timedlock"} /\ WaitingCalls["barrier"] = {"barrierwait"}
  BY DEF WaitingCalls
<1>6. /\ w \notin {"cond", "relock"} => View(o, t) = At(o, t, task[t].pc)
      /\ w \in {"cond", "relock"} =>
           View(o, t) = [At(o, t, task[t].pc) EXCEPT !.held = @ \ {Now(t).arg}]
  BY <1>3 DEF View, Facts
<1> QED BY <1>2, <1>3, <1>4, <1>5, <1>6

LEMMA StuckKeeps ==
    ASSUME NEW o, IInv(o), NEW t \in Tasks, StuckEnds(t)
    PROVE  IInv(o)'
<1>1. Live(t) /\ task[t].wait = "stuck" /\ UNCHANGED program /\ TaskShape /\ SyncShape
  BY DEF StuckEnds, KeepData, IInv
<1>2. /\ task[t].pc \in Positions(t) /\ Now(t).op = "timedlock"
      /\ View(o, t) = At(o, t, task[t].pc)
      /\ CallFits(o, t, task[t].pc, Now(t), View(o, t))
  BY <1>1, WaitingFact
<1>3. CASE task' = [Failed(t) EXCEPT ![t].wait = ""] /\ sync' = sync
  <2>1. Quiet
    BY <1>1, <1>3, QuietSame
  <2>2. Now(t).bad \in {"process", "task", "ignore"}
    BY <1>2 DEF CallFits, FlowFits
  <2>3. CASE Now(t).bad = "ignore"
    <3>1. Goes(t, task[t].pc + 1, "")
      BY <1>1, <1>3, <2>3 DEF Failed, On, TaskShape, Goes, TaskFrame, Still
    <3>2. Leads(o, View(o, t), t, task[t].pc + 1)
      BY <1>2, <2>3 DEF CallFits, FlowFits
    <3> QED BY <1>1, <2>1, <3>1, <3>2, IgnoredKeeps
  <2>4. CASE Failed(t) = Exiting(t, 0) \/ Failed(t) = Exiting(t, 1)
    <3>1. Goes(t, Len(Text(t)) + 1, "")
      BY <1>1, <1>3, <2>4 DEF Exiting, TaskShape, Goes, TaskFrame, Still
    <3> QED BY <1>1, <2>1, <3>1, NeutralOut
  <2>5. CASE Failed(t) = [task EXCEPT ![t].st = "ok"]
    <3>1. EndOf({t})
      BY <1>1, <1>3, <2>5 DEF TaskShape, EndOf, TaskFrame, Still
    <3> QED BY <1>1, <2>1, <3>1, NeutralEnd
  <2> QED BY <2>2, <2>3, <2>4, <2>5 DEF Failed, Leaving
<1>4. CASE /\ Free(Now(t).on) /\ task' = [On(t) EXCEPT ![t].wait = ""]
           /\ sync' = Taken(t, Now(t).on)
  <2>0. PICK m : m = Now(t).on
    OBVIOUS
  <2>1. Goes(t, task[t].pc + 1, "")
    BY <1>1, <1>4 DEF On, TaskShape, Goes, TaskFrame, Still
  <2>2. m \in MutexNames /\ Leads(o, Passed(o, Now(t), View(o, t)), t, task[t].pc + 1)
    BY <1>2, <2>0 DEF CallFits, FlowFits, LocksFit
  <2>3. PICK f : f = Passed(o, Now(t), View(o, t))
    OBVIOUS
  <2>4. /\ TaskShape' /\ WaitInv' /\ StatusKept
        /\ \A u \in Tasks \ {t} : View(o, u)' = View(o, u)
        /\ Implies(f, View(o, t)')
    BY <1>1, <2>1, <2>2, <2>3, LeadStep
  <2>5. f = [View(o, t) EXCEPT !.held = @ \cup {m}]
    BY <1>2, <2>0, <2>3 DEF Passed
  <2>6. /\ MutexFrame /\ \A n \in MutexNames \ {m} : Mutex(n)' = Mutex(n)
        /\ Mutex(m)'.owner = t /\ Mutex(m)'.readers = Mutex(m).readers
        /\ Mutex(m)'.kind = Mutex(m).kind
    BY <1>1, <1>4, <2>0, <2>2, TakenEntry
  <2> QED BY <1>1, <1>4, <2>0, <2>2, <2>4, <2>5, <2>6, TakeKeeps
<1> QED BY <1>3, <1>4 DEF StuckEnds

LEMMA RelockKeeps ==
    ASSUME NEW o, IInv(o), NEW t \in Tasks, Relock(t)
    PROVE  IInv(o)'
<1>0. PICK m : m = Now(t).arg
  OBVIOUS
<1>1. /\ Live(t) /\ task[t].wait = "relock" /\ UNCHANGED program /\ TaskShape /\ SyncShape
      /\ Free(m) /\ task' = [On(t) EXCEPT ![t].wait = ""] /\ sync' = Using(m, Taken(t, m))
  BY <1>0 DEF Relock, KeepData, IInv
<1>2. /\ task[t].pc \in Positions(t) /\ Now(t).op \in {"condwait", "condtimedwait"}
      /\ View(o, t) = [At(o, t, task[t].pc) EXCEPT !.held = @ \ {m}]
      /\ CallFits(o, t, task[t].pc, Now(t), At(o, t, task[t].pc))
  BY <1>0, <1>1, WaitingFact
<1>3. m \in MutexNames
  BY <1>0, <1>2 DEF CallFits, LocksFit
<1>4. PICK f : f = At(o, t, task[t].pc)
  OBVIOUS
<1>5. Passed(o, Now(t), f) = f
  BY <1>2 DEF Passed
<1>6. Leads(o, f, t, task[t].pc + 1)
  BY <1>2, <1>4, <1>5 DEF CallFits, FlowFits
<1>7. Goes(t, task[t].pc + 1, "")
  BY <1>1 DEF On, TaskShape, Goes, TaskFrame, Still
<1>8. /\ TaskShape' /\ WaitInv' /\ StatusKept
      /\ \A u \in Tasks \ {t} : View(o, u)' = View(o, u)
      /\ Implies(f, View(o, t)')
  BY <1>1, <1>6, <1>7, LeadStep
<1>9. DOMAIN f = FactNames
  BY <1>4, Parts, AtShape
<1>10. Implies([View(o, t) EXCEPT !.held = @ \cup {m}], View(o, t)')
  BY <1>2, <1>4, <1>8, <1>9 DEF Implies, FactNames
<1>11. /\ MutexFrame /\ \A n \in MutexNames \ {m} : Mutex(n)' = Mutex(n)
       /\ Mutex(m)'.owner = t /\ Mutex(m)'.readers = Mutex(m).readers
       /\ Mutex(m)'.kind = Mutex(m).kind
  BY <1>1, <1>3, TakenEntry
<1> QED BY <1>1, <1>3, <1>8, <1>10, <1>11, TakeKeeps

LEMMA ReadLockKeeps ==
    ASSUME NEW o, IInv(o), NEW t \in Tasks, Running(t), Open(t), ReadLockCall(t)
    PROVE  IInv(o)'
<1>0. PICK m : m = Now(t).on
  OBVIOUS
<1>1. /\ Now(t).op = "readlock" /\ UNCHANGED program /\ TaskShape /\ SyncShape
      /\ task' = On(t) /\ sync' = Using(m, [sync EXCEPT !.mutex[m].readers = @ \cup {t}])
      /\ Mutex(m).owner = None
  BY <1>0 DEF ReadLockCall, Calls, KeepData, Open, IInv
<1>2. m \in MutexNames /\ Now(t).op \notin HandlerOps \cup {"jump", "exit", "end", "finish"}
  BY <1>0, <1>1, LockName
<1>3. /\ TaskShape' /\ WaitInv' /\ StatusKept
      /\ \A u \in Tasks \ {t} : View(o, u)' = View(o, u)
      /\ Implies(Passed(o, Now(t), View(o, t)), View(o, t)')
  BY <1>1, <1>2, OnGoes, CallStep
<1>4. DOMAIN View(o, t) = FactNames /\ LockInv(o) /\ ReadyInv(o)
  BY Parts, ViewShape DEF IInv
<1>5. /\ Implies([View(o, t) EXCEPT !.held = @ \cup {m}, !.reads = @ \cup {m},
                                    !.ready = @ \cup {<<"mutex", m>>}], View(o, t)')
      /\ View(o, t)'.held \subseteq View(o, t).held
      /\ View(o, t)'.ready \subseteq View(o, t).ready
  BY <1>0, <1>1, <1>3, <1>4 DEF Passed, Implies, FactNames
<1> DEFINE r == [Mutex(m) EXCEPT !.readers = @ \cup {t}]
<1>6. DOMAIN Mutex(m) = {"kind", "owner", "depth", "readers"}
  BY <1>1, <1>2 DEF SyncShape, Mutex
<1>7. Entry(m, r)
  BY <1>1, <1>2, <1>6 DEF SyncShape, Entry, Mutex, Using
<1>8. /\ MutexFrame /\ Mutex(m)' = r /\ \A n \in MutexNames \ {m} : Mutex(n)' = Mutex(n)
  BY <1>1, <1>2, <1>7, EntryFacts
<1>9. /\ Mutex(m)'.owner = None /\ Mutex(m)'.readers = Mutex(m).readers \cup {t}
      /\ Mutex(m)'.kind = Mutex(m).kind
  BY <1>1, <1>6, <1>8
<1>10. \A u \in Tasks : /\ m \in View(o, u)'.held => Mutex(m)'.owner = u
                        /\ m \in View(o, u)'.reads => u \in Mutex(m)'.readers
                        /\ <<"mutex", m>> \in View(o, u)'.ready => Usable(m)'
  BY <1>1, <1>2, <1>3, <1>4, <1>5, <1>9 DEF LockInv, ReadyInv, Usable
<1> QED BY <1>1, <1>2, <1>3, <1>5, <1>8, <1>9, <1>10, MutexKeeps

LEMMA ReleasedFacts ==
    ASSUME SyncShape, UNCHANGED program, NEW t, NEW m \in MutexNames,
           sync' = Released(t, m)
    PROVE  /\ MutexFrame /\ \A n \in MutexNames \ {m} : Mutex(n)' = Mutex(n)
           /\ Mutex(m)'.kind = Mutex(m).kind /\ Mutex(m)'.owner \in {Mutex(m).owner, None}
           /\ Mutex(m)'.readers = Mutex(m).readers \ {t}
<1>1. DOMAIN Mutex(m) = {"kind", "owner", "depth", "readers"}
  BY DEF SyncShape, Mutex
<1>2. CASE t \in Mutex(m).readers
  <2> DEFINE r == [Mutex(m) EXCEPT !.readers = @ \ {t}]
  <2>1. Entry(m, r)
    BY <1>1, <1>2 DEF SyncShape, Entry, Released, Mutex
  <2>2. /\ MutexFrame /\ Mutex(m)' = r /\ \A n \in MutexNames \ {m} : Mutex(n)' = Mutex(n)
    BY <2>1, EntryFacts
  <2> QED BY <1>1, <2>2
<1>3. CASE t \notin Mutex(m).readers /\ sync' = sync
  <2>1. MutexFrame
    BY <1>3, SameProgram DEF SyncShape, MutexFrame
  <2>2. \A n : Mutex(n)' = Mutex(n)
    BY <1>3 DEF Mutex
  <2> QED BY <1>3, <2>1, <2>2
<1>4. CASE t \notin Mutex(m).readers /\ sync' = [sync EXCEPT !.mutex[m].depth = @ - 1]
  <2> DEFINE r == [Mutex(m) EXCEPT !.depth = @ - 1]
  <2>1. Entry(m, r)
    BY <1>1, <1>4 DEF SyncShape, Entry, Mutex
  <2>2. /\ MutexFrame /\ Mutex(m)' = r /\ \A n \in MutexNames \ {m} : Mutex(n)' = Mutex(n)
    BY <2>1, EntryFacts
  <2> QED BY <1>1, <1>4, <2>2
<1>5. CASE /\ t \notin Mutex(m).readers
           /\ sync' = [sync EXCEPT !.mutex[m].owner = None, !.mutex[m].depth = 0]
  <2> DEFINE r == [Mutex(m) EXCEPT !.owner = None, !.depth = 0]
  <2>1. sync'.mutex = [sync.mutex EXCEPT ![m] = r]
    BY <1>5 DEF SyncShape, Mutex
  <2>2. Entry(m, r)
    BY <1>1, <1>5, <2>1 DEF SyncShape, Entry
  <2>3. /\ MutexFrame /\ Mutex(m)' = r /\ \A n \in MutexNames \ {m} : Mutex(n)' = Mutex(n)
    BY <2>2, EntryFacts
  <2> QED BY <1>1, <1>5, <2>3
<1> QED BY <1>2, <1>3, <1>4, <1>5 DEF Released

\* A task that gives back the mutex m, and relies on it no longer.
LEMMA ReleaseKeeps ==
    ASSUME NEW o, IInv(o), UNCHANGED program, TaskShape', WaitInv', StatusKept,
           NEW t \in Tasks, NEW m \in MutexNames, sync' = Released(t, m),
           m \in View(o, t).held \cup View(o, t).reads \cup Unheld(o, t, View(o, t)),
           \A u \in Tasks \ {t} : View(o, u)' = View(o, u),
           Implies(View(o, t), View(o, t)'), m \notin View(o, t)'.held \cup View(o, t)'.reads
    PROVE  IInv(o)'
<1>1. LockInv(o) /\ ReadyInv(o) /\ SyncShape
  BY DEF IInv
<1>2. /\ MutexFrame /\ \A n \in MutexNames \ {m} : Mutex(n)' = Mutex(n)
      /\ Mutex(m)'.kind = Mutex(m).kind /\ Mutex(m)'.owner \in {Mutex(m).owner, None}
      /\ Mutex(m)'.readers = Mutex(m).readers \ {t}
  BY <1>1, ReleasedFacts
<1>3. Mutex(m)'.owner # None => Mutex(m)'.readers = {}
  BY <1>1, <1>2 DEF LockInv
<1>4. ASSUME NEW u \in Tasks \ {t} PROVE m \notin View(o, u).held
  <2>1. CASE m \in View(o, t).held
    BY <1>1, <2>1 DEF LockInv
  <2>2. CASE m \in View(o, t).reads
    BY <1>1, <2>2 DEF LockInv, None, Tasks
  <2>3. CASE m \in Unheld(o, t, View(o, t))
    BY <2>3, UnheldFacts
  <2> QED BY <2>1, <2>2, <2>3
<1>5. \A u \in Tasks \ {t} : m \in View(o, u).reads => u \in Mutex(m)'.readers
  BY <1>1, <1>2 DEF LockInv
<1>6. DOMAIN View(o, t) = FactNames
  BY Parts, ViewShape
<1>7. Implies([View(o, t) EXCEPT !.held = @ \cup {m}, !.reads = @ \cup {m},
                                 !.ready = @ \cup {<<"mutex", m>>}], View(o, t)')
  BY <1>6 DEF Implies, FactNames
<1>8. \A u \in Tasks : <<"mutex", m>> \in View(o, u)'.ready => Usable(m)'
  BY <1>1, <1>2 DEF ReadyInv, Usable, Implies
<1> QED BY <1>2, <1>3, <1>4, <1>5, <1>7, <1>8, MutexKeeps

LEMMA UnlockKeeps ==
    ASSUME NEW o, IInv(o), NEW t \in Tasks, Running(t), UnlockCall(t)
    PROVE  IInv(o)'
<1>0. PICK m : m = Now(t).on
  OBVIOUS
<1>1. /\ Now(t).op = "unlock" /\ UNCHANGED program /\ TaskShape
      /\ task' = On(t) /\ sync' = Released(t, m)
  BY <1>0 DEF UnlockCall, Calls, KeepData, IInv
<1>2. Now(t).op \notin HandlerOps \cup {"jump", "exit", "end", "finish"}
  BY <1>1 DEF HandlerOps
<1>3. /\ TaskShape' /\ WaitInv' /\ StatusKept
      /\ \A u \in Tasks \ {t} : View(o, u)' = View(o, u)
      /\ Implies(Passed(o, Now(t), View(o, t)), View(o, t)')
      /\ CallFits(o, t, task[t].pc, Now(t), View(o, t))
  BY <1>1, <1>2, OnGoes, CallStep
<1>4. /\ m \in MutexNames
      /\ m \in View(o, t).held \cup View(o, t).reads \cup Unheld(o, t, View(o, t))
  BY <1>0, <1>1, <1>3 DEF CallFits, LocksFit
<1>5. DOMAIN View(o, t) = FactNames
  BY Parts, ViewShape
<1>7. Passed(o, Now(t), View(o, t)) = [View(o, t) EXCEPT !.held = @ \ {m}, !.reads = @ \ {m}]
  BY <1>0, <1>1 DEF Passed
<1>6. Implies(View(o, t), View(o, t)') /\ m \notin View(o, t)'.held \cup View(o, t)'.reads
  BY <1>3, <1>5, <1>7 DEF Implies, FactNames
<1> QED BY <1>1, <1>3, <1>4, <1>6, ReleaseKeeps

LEMMA CondWaitKeeps ==
    ASSUME NEW o, IInv(o), NEW t \in Tasks, Running(t), CondWaitCall(t)
    PROVE  IInv(o)'
<1>0. PICK m : m = Now(t).arg
  OBVIOUS
<1>1. /\ Now(t).op \in {"condwait", "condtimedwait"} /\ UNCHANGED program /\ TaskShape /\ WaitInv
      /\ task' = [task EXCEPT ![t].wait = "cond"] /\ sync' = Released(t, m) /\ Live(t)
  BY <1>0 DEF CondWaitCall, Calls, KeepData, IInv, Running
<1>2. Now(t).op \notin HandlerOps \cup {"finish"}
  BY <1>1 DEF HandlerOps
<1>3. task[t].pc \in Positions(t) /\ CallFits(o, t, task[t].pc, Now(t), View(o, t))
  BY <1>2, CallFact
<1>4. /\ m \in MutexNames /\ m \notin View(o, t).reads
      /\ m \in View(o, t).held \cup View(o, t).reads \cup Unheld(o, t, View(o, t))
  BY <1>0, <1>1, <1>3 DEF CallFits, LocksFit
<1>5. Now(t) = Text(t)[task[t].pc] /\ task[t].pc \in Nat \ {0}
  BY <1>3, Parts, NowFacts
<1>6. Goes(t, task[t].pc, "cond")
  BY <1>1 DEF TaskShape, Goes, TaskFrame, Still
<1>7. WaitsIn(t, task[t].pc, "cond")
  BY <1>1, <1>3, <1>5 DEF WaitsIn, WaitingCalls
<1>8. /\ TaskShape' /\ WaitInv' /\ StatusKept
      /\ \A u \in Tasks \ {t} : View(o, u)' = View(o, u)
      /\ View(o, t)' = [At(o, t, task[t].pc) EXCEPT !.held = @ \ {m}]
  BY <1>0, <1>1, <1>5, <1>6, <1>7, GoesStep
<1>9. DOMAIN View(o, t) = FactNames /\ View(o, t) = At(o, t, task[t].pc)
  BY Parts, ViewShape, RunningView
<1>10. Implies(View(o, t), View(o, t)') /\ m \notin View(o, t)'.held \cup View(o, t)'.reads
  BY <1>4, <1>8, <1>9 DEF Implies, FactNames
<1> QED BY <1>1, <1>4, <1>8, <1>10, ReleaseKeeps

LEMMA MutexInitKeeps ==
    ASSUME NEW o, IInv(o), NEW t \in Tasks, Running(t), MutexInitCall(t)
    PROVE  IInv(o)'
<1>0. PICK m : m = Now(t).on
  OBVIOUS
<1> DEFINE r == [kind |-> Now(t).arg, owner |-> None, depth |-> 0, readers |-> {}]
<1>1. /\ Now(t).op = "mutexinit" /\ UNCHANGED program /\ TaskShape /\ SyncShape
      /\ task' = On(t) /\ sync' = [sync EXCEPT !.mutex[m] = r]
  BY <1>0 DEF MutexInitCall, Calls, KeepData, IInv
<1>2. Now(t).op \notin HandlerOps \cup {"jump", "exit", "end", "finish"}
  BY <1>1 DEF HandlerOps
<1>3. /\ TaskShape' /\ WaitInv' /\ StatusKept
      /\ \A u \in Tasks \ {t} : View(o, u)' = View(o, u)
      /\ Implies(Passed(o, Now(t), View(o, t)), View(o, t)')
      /\ CallFits(o, t, task[t].pc, Now(t), View(o, t))
  BY <1>1, <1>2, OnGoes, CallStep
<1>4. m \in MutexNames /\ m \in Unheld(o, t, View(o, t)) /\ Now(t).arg \notin {"raw", "gone"}
  BY <1>0, <1>1, <1>3 DEF CallFits, LocksFit, ReadyFits, Unheld
<1>5. DOMAIN View(o, t) = FactNames
  BY Parts, ViewShape
<1>6. Object(Now(t)) = <<"mutex", m>>
  BY <1>0, <1>1 DEF Object
<1> DEFINE f == View(o, t)
<1>12. Passed(o, Now(t), f) = [f EXCEPT !.held = @ \ {m}, !.reads = @ \ {m},
                                        !.ready = @ \cup {<<"mutex", m>>}]
  BY <1>0, <1>1, <1>6 DEF Passed
<1>7. /\ Implies([f EXCEPT !.held = @ \cup {m}, !.reads = @ \cup {m},
                           !.ready = @ \cup {<<"mutex", m>>}], View(o, t)')
      /\ m \notin View(o, t)'.held \cup View(o, t)'.reads
  BY <1>3, <1>5, <1>12 DEF Implies, FactNames
<1>8. Entry(m, r)
  BY <1>1 DEF SyncShape, Entry
<1>9. /\ MutexFrame /\ Mutex(m)' = r /\ \A n \in MutexNames \ {m} : Mutex(n)' = Mutex(n)
  BY <1>1, <1>4, <1>8, EntryFacts
<1>10. \A u \in Tasks \ {t} : m \notin View(o, u)'.held \cup View(o, u)'.reads
  BY <1>3, <1>4, UnheldFacts
<1>11. Mutex(m)'.owner = None /\ Mutex(m)'.readers = {} /\ Usable(m)'
  BY <1>4, <1>9 DEF Usable
<1> HIDE DEF r
<1> QED BY <1>1, <1>3, <1>4, <1>7, <1>9, <1>10, <1>11, MutexKeeps

\* What t may remove nobody else relies on.
LEMMA RemovedFacts ==
    ASSUME NEW o, IInv(o), NEW t \in Tasks, Running(t),
           Now(t).op \in {"mutexdestroy", "semremove"}, NEW u \in Tasks \ {t}
    PROVE  Object(Now(t)) \notin View(o, u).ready
<1>1. Now(t).op \notin HandlerOps \cup {"finish"}
  BY DEF HandlerOps
<1>2. \A g \in Elsewhere(o, t, View(o, t)) : Object(Now(t)) \notin g.ready
  BY <1>1, CallFact DEF CallFits, ReadyFits
<1>3. CASE Live(u)
  BY <1>2, <1>3, SeenElsewhere, NothingHas DEF Implies
<1>4. CASE ~ Live(u)
  BY <1>4, DeadView
<1> QED BY <1>3, <1>4

LEMMA MutexDestroyKeeps ==
    ASSUME NEW o, IInv(o), NEW t \in Tasks, Running(t), MutexDestroyCall(t)
    PROVE  IInv(o)'
<1>0. PICK m : m = Now(t).on
  OBVIOUS
<1>1. /\ Now(t).op = "mutexdestroy" /\ UNCHANGED program /\ TaskShape /\ SyncShape /\ LockInv(o)
      /\ task' = On(t)
      /\ sync' = IF Free(m) THEN [sync EXCEPT !.mutex[m].kind = "gone"] ELSE sync
  BY <1>0 DEF MutexDestroyCall, Calls, KeepData, IInv
<1>2. m \in MutexNames /\ Now(t).op \notin HandlerOps \cup {"jump", "exit", "end", "finish"}
  BY <1>0, <1>1, LockName
<1>3. /\ TaskShape' /\ WaitInv' /\ StatusKept
      /\ \A u \in Tasks \ {t} : View(o, u)' = View(o, u)
      /\ Implies(Passed(o, Now(t), View(o, t)), View(o, t)')
  BY <1>1, <1>2, OnGoes, CallStep
<1>4. DOMAIN View(o, t) = FactNames
  BY Parts, ViewShape
<1>5. Object(Now(t)) = <<"mutex", m>>
  BY <1>0, <1>1 DEF Object
<1>6. /\ Implies([View(o, t) EXCEPT !.held = @ \cup {m}, !.reads = @ \cup {m},
                                    !.ready = @ \cup {<<"mutex", m>>}], View(o, t)')
      /\ View(o, t)'.held \subseteq View(o, t).held /\ View(o, t)'.reads \subseteq View(o, t).reads
      /\ <<"mutex", m>> \notin View(o, t)'.ready
  BY <1>0, <1>1, <1>3, <1>4, <1>5 DEF Passed, Implies, FactNames
<1>7. \A u \in Tasks : <<"mutex", m>> \notin View(o, u)'.ready
  BY <1>1, <1>3, <1>5, <1>6, RemovedFacts
<1>8. DOMAIN Mutex(m) = {"kind", "owner", "depth", "readers"}
  BY <1>1, <1>2 DEF SyncShape, Mutex
<1>9. /\ MutexFrame /\ \A n \in MutexNames \ {m} : Mutex(n)' = Mutex(n)
      /\ Mutex(m)'.owner = Mutex(m).owner /\ Mutex(m)'.readers = Mutex(m).readers
  <2>1. CASE Free(m)
    <3>1. Entry(m, [Mutex(m) EXCEPT !.kind = "gone"])
      BY <1>1, <1>2, <1>8, <2>1 DEF SyncShape, Entry, Mutex
    <3>2. /\ MutexFrame /\ Mutex(m)' = [Mutex(m) EXCEPT !.kind = "gone"]
          /\ \A n \in MutexNames \ {m} : Mutex(n)' = Mutex(n)
      BY <1>1, <1>2, <3>1, EntryFacts
    <3> QED BY <1>8, <3>2
  <2>2. CASE ~ Free(m)
    <3>1. MutexFrame
      BY <1>1, <2>2, SameProgram DEF SyncShape, MutexFrame
    <3>2. \A n : Mutex(n)' = Mutex(n)
      BY <1>1, <2>2 DEF Mutex
    <3> QED BY <3>1, <3>2
  <2> QED BY <2>1, <2>2
<1>12. \A u \in Tasks : /\ m \in View(o, u)'.held => Mutex(m)'.owner = u
                        /\ m \in View(o, u)'.reads => u \in Mutex(m)'.readers
  BY <1>1, <1>3, <1>6, <1>9 DEF LockInv
<1>13. Mutex(m)'.owner # None => Mutex(m)'.readers = {}
  BY <1>1, <1>2, <1>9 DEF LockInv
<1> QED BY <1>1, <1>2, <1>3, <1>6, <1>7, <1>9, <1>12, <1>13, MutexKeeps

-----------------------------------------------------------------------------
(* Barriers and once.                                                      *)

LEMMA BarrierInitKeeps ==
    ASSUME NEW o, IInv(o), NEW t \in Tasks, Running(t), BarrierInitCall(t)
    PROVE  IInv(o)'
<1>0. PICK b, n : b = Now(t).on /\ n = Now(t).n
  OBVIOUS
<1>1. /\ Now(t).op = "barrierinit" /\ UNCHANGED program /\ TaskShape /\ SyncShape
      /\ task' = On(t) /\ sync' = [sync EXCEPT !.barrier[b] = n]
  BY <1>0 DEF BarrierInitCall, Calls, KeepData, IInv
<1>2. Now(t).op \notin HandlerOps \cup {"jump", "exit", "end", "finish"}
  BY <1>1 DEF HandlerOps
<1>3. /\ TaskShape' /\ WaitInv' /\ StatusKept
      /\ \A u \in Tasks \ {t} : View(o, u)' = View(o, u)
      /\ Implies(Passed(o, Now(t), View(o, t)), View(o, t)')
      /\ CallFits(o, t, task[t].pc, Now(t), View(o, t))
  BY <1>1, <1>2, OnGoes, CallStep
<1>4. n = Cardinality(Crew) /\ n # 0
  BY <1>0, <1>1, <1>3 DEF CallFits, RoundsFit, ReadyFits
<1>5. DOMAIN View(o, t) = FactNames
  BY Parts, ViewShape
<1>6. Passed(o, Now(t), View(o, t)) = [View(o, t) EXCEPT !.ready = @ \cup {<<"barrier", b>>}]
  BY <1>0, <1>1 DEF Passed, Object
<1> DEFINE f == View(o, t)
           g == View(o, t)'
<1>7. /\ g.held \subseteq f.held /\ g.reads \subseteq f.reads /\ g.tokens \subseteq f.tokens
      /\ g.once \in {"no", f.once} /\ g.round \in {None, f.round} /\ g.serial \in {"no", f.serial}
      /\ g.begun \subseteq f.begun /\ g.gone \subseteq f.gone /\ g.unborn \subseteq f.unborn
      /\ g.unset \subseteq f.unset /\ g.ready \subseteq f.ready \cup {<<"barrier", b>>}
  BY <1>3, <1>5, <1>6 DEF Implies, FactNames
<1> HIDE DEF f, g
<1>8. /\ sync'.mutex = sync.mutex /\ sync'.sem = sync.sem /\ sync'.undo = sync.undo
      /\ sync'.once = sync.once /\ sync'.barrier = [sync.barrier EXCEPT ![b] = n]
      /\ {"mutex", "sem", "undo", "barrier", "once", "early"} \subseteq DOMAIN sync'
  BY <1>1 DEF SyncShape
<1>9. SyncShape'
  BY <1>1, <1>8, SameProgram DEF SyncShape
<1>10. \A m : Mutex(m)' = Mutex(m)
  BY <1>8 DEF Mutex
<1>11. \A u \in Tasks : /\ View(o, u)'.held \subseteq View(o, u).held
                        /\ View(o, u)'.reads \subseteq View(o, u).reads
                        /\ View(o, u)'.tokens \subseteq View(o, u).tokens
                        /\ View(o, u)'.unset \subseteq View(o, u).unset
                        /\ View(o, u)'.once \in {"no", View(o, u).once}
                        /\ View(o, u)'.begun \subseteq View(o, u).begun
                        /\ View(o, u)'.gone \subseteq View(o, u).gone
                        /\ View(o, u)'.unborn \subseteq View(o, u).unborn
                        /\ View(o, u)'.round \in {None, View(o, u).round}
                        /\ View(o, u)'.serial \in {"no", View(o, u).serial}
                        /\ View(o, u)'.ready \subseteq View(o, u).ready \cup {<<"barrier", b>>}
  BY <1>3, <1>7 DEF f, g
<1>12. LockInv(o)'
  BY <1>1, <1>10, <1>11, LockKept DEF IInv
<1>13. TokenInv(o)' /\ CountInv(o)'
  BY <1>1, <1>8, <1>11, TokenKept, CountKept DEF IInv
<1>14. OnceInv(o)' /\ RoundInv(o)'
  BY <1>1, <1>8, <1>11, OnceKept, RoundKept DEF IInv
<1>15. LifeInv(o)'
  BY <1>1, <1>3, <1>11, LifeKept DEF IInv, StatusKept, Live
<1>16. ReadyInv(o)'
  <2>1. ReadyInv(o)
    BY DEF IInv
  <2>2. \A x : <<"mutex", x>> # <<"barrier", b>> /\ <<"sem", x>> # <<"barrier", b>>
    OBVIOUS
  <2>3. \A c \in BarrierNames : sync'.barrier[c] = IF c = b THEN n ELSE sync.barrier[c]
    BY <1>1, <1>8 DEF SyncShape
  <2>4. ASSUME NEW u \in Tasks
        PROVE  /\ \A m \in MutexNames : <<"mutex", m>> \in View(o, u)'.ready => Usable(m)'
               /\ \A s \in SemNames : <<"sem", s>> \in View(o, u)'.ready => sync'.sem[s] # None
    BY <1>8, <1>10, <1>11, <2>1, <2>2 DEF ReadyInv, Usable
  <2>5. ASSUME NEW u \in Tasks, NEW c \in BarrierNames, <<"barrier", c>> \in View(o, u)'.ready
        PROVE  sync'.barrier[c] # 0
    BY <1>4, <1>11, <2>1, <2>3, <2>5 DEF ReadyInv
  <2>6. \A c \in BarrierNames : sync'.barrier[c] \in {0, Cardinality(Crew)}
    BY <1>4, <2>1, <2>3 DEF ReadyInv
  <2> QED BY <1>1, <2>4, <2>5, <2>6, SameProgram DEF ReadyInv
<1> QED BY <1>1, <1>3, <1>9, <1>12, <1>13, <1>14, <1>15, <1>16, OutlinedKept DEF IInv

\* What remains to be shown where sync.once, and what t relies on, change.
LEMMA OnceStep ==
    ASSUME NEW o, IInv(o), UNCHANGED program, TaskShape', WaitInv', StatusKept, SyncShape',
           NEW t \in Tasks, NEW c, sync'.mutex = sync.mutex, sync'.sem = sync.sem,
           sync'.undo = sync.undo, sync'.barrier = sync.barrier,
           \A u \in Tasks \ {t} : View(o, u)' = View(o, u),
           Implies([View(o, t) EXCEPT !.once = c], View(o, t)'), c \in {"in", "done"},
           sync'.once = IF c = "in" THEN "running" ELSE "done",
           IF c = "in" THEN sync.once = "never"
                       ELSE sync.once = "done" \/ View(o, t).once = "in"
    PROVE  IInv(o)'
<1> DEFINE f == View(o, t)
           g == View(o, t)'
<1>5. DOMAIN f = FactNames
  BY Parts, ViewShape
<1>7. /\ g.held \subseteq f.held /\ g.reads \subseteq f.reads /\ g.tokens \subseteq f.tokens
      /\ g.once \in {"no", c} /\ g.round \in {None, f.round} /\ g.serial \in {"no", f.serial}
      /\ g.begun \subseteq f.begun /\ g.gone \subseteq f.gone /\ g.unborn \subseteq f.unborn
      /\ g.unset \subseteq f.unset /\ g.ready \subseteq f.ready
  BY <1>5 DEF Implies, FactNames
<1> HIDE DEF f, g
<1>10. \A m : Mutex(m)' = Mutex(m)
  BY DEF Mutex
<1>11. \A u \in Tasks : /\ View(o, u)'.held \subseteq View(o, u).held
                        /\ View(o, u)'.reads \subseteq View(o, u).reads
                        /\ View(o, u)'.tokens \subseteq View(o, u).tokens
                        /\ View(o, u)'.unset \subseteq View(o, u).unset
                        /\ View(o, u)'.begun \subseteq View(o, u).begun
                        /\ View(o, u)'.gone \subseteq View(o, u).gone
                        /\ View(o, u)'.unborn \subseteq View(o, u).unborn
                        /\ View(o, u)'.round \in {None, View(o, u).round}
                        /\ View(o, u)'.serial \in {"no", View(o, u).serial}
                        /\ View(o, u)'.ready \subseteq View(o, u).ready
  BY <1>7 DEF f, g
<1>12. LockInv(o)'
  BY <1>10, <1>11, LockKept DEF IInv
<1>13. TokenInv(o)' /\ CountInv(o)'
  BY <1>11, TokenKept, CountKept DEF IInv
<1>14. RoundInv(o)' /\ ReadyInv(o)'
  BY <1>10, <1>11, RoundKept, ReadyKept DEF IInv
<1>15. LifeInv(o)'
  BY <1>11, LifeKept DEF IInv, StatusKept, Live
<1>16. OnceInv(o)'
  <2>1. OnceInv(o) /\ View(o, t)'.once \in {"no", c}
    BY <1>7 DEF IInv, g
  <2>2. CASE c = "in"
    <3>1. \A u \in Tasks \ {t} : View(o, u)'.once = "no"
      BY <2>1, <2>2 DEF OnceInv
    <3> QED BY <2>1, <2>2, <3>1, SameProgram DEF OnceInv
  <2>3. CASE c = "done"
    <3>1. \A u \in Tasks \ {t} : View(o, u)'.once \in {"no", "done"}
      BY <2>1, <2>3 DEF OnceInv
    <3> QED BY <2>1, <2>3, <3>1, SameProgram DEF OnceInv
  <2> QED BY <2>2, <2>3
<1> QED BY <1>12, <1>13, <1>14, <1>15, <1>16, OutlinedKept DEF IInv

LEMMA OnceCallKeeps ==
    ASSUME NEW o, IInv(o), NEW t \in Tasks, Running(t), Open(t), OnceCall(t)
    PROVE  IInv(o)'
<1>1. Now(t).op = "once" /\ UNCHANGED program /\ TaskShape /\ SyncShape /\ sync.once # "running"
  BY DEF OnceCall, Calls, KeepData, IInv, Open
<1>2. Now(t).op \notin HandlerOps \cup {"jump", "exit", "end", "finish"} /\ MayJump(Now(t))
  BY <1>1 DEF HandlerOps, MayJump
<1>3. CASE sync.once = "never"
  <2>1. task' = On(t) /\ sync' = [sync EXCEPT !.once = "running"]
    BY <1>3 DEF OnceCall
  <2>2. /\ TaskShape' /\ WaitInv' /\ StatusKept
        /\ \A u \in Tasks \ {t} : View(o, u)' = View(o, u)
        /\ Implies(Passed(o, Now(t), View(o, t)), View(o, t)')
    BY <1>1, <1>2, <2>1, OnGoes, CallStep
  <2>3. Passed(o, Now(t), View(o, t)) = [View(o, t) EXCEPT !.once = "in"]
    BY <1>1 DEF Passed
  <2>4. /\ sync'.mutex = sync.mutex /\ sync'.sem = sync.sem /\ sync'.undo = sync.undo
        /\ sync'.barrier = sync.barrier /\ sync'.once = "running" /\ SyncShape'
    BY <1>1, <2>1, SameProgram DEF SyncShape
  <2> QED BY <1>1, <1>3, <2>2, <2>3, <2>4, OnceStep
<1>4. CASE sync.once # "never"
  <2>1. task' = By(t, Now(t).n) /\ sync' = sync
    BY <1>4 DEF OnceCall
  <2>2. /\ TaskShape' /\ WaitInv' /\ StatusKept
        /\ \A u \in Tasks \ {t} : View(o, u)' = View(o, u)
        /\ Implies(Missed(Now(t), View(o, t)), View(o, t)')
    BY <1>1, <1>2, <2>1, ByGoes, CallFact, JumpStep
  <2>3. Missed(Now(t), View(o, t)) = [View(o, t) EXCEPT !.once = "done"]
    BY <1>1 DEF Missed
  <2>4. sync.once = "done" /\ Quiet
    BY <1>1, <1>4, <2>1, QuietSame DEF IInv, OnceInv
  <2> QED BY <1>1, <2>1, <2>2, <2>3, <2>4, OnceStep DEF Quiet
<1> QED BY <1>3, <1>4

LEMMA OnceDoneKeeps ==
    ASSUME NEW o, IInv(o), NEW t \in Tasks, Running(t), OnceDoneCall(t)
    PROVE  IInv(o)'
<1>1. /\ Now(t).op = "oncedone" /\ UNCHANGED program /\ TaskShape /\ SyncShape
      /\ task' = On(t) /\ sync' = [sync EXCEPT !.once = "done"]
  BY DEF OnceDoneCall, Calls, KeepData, IInv
<1>2. Now(t).op \notin HandlerOps \cup {"jump", "exit", "end", "finish"}
  BY <1>1 DEF HandlerOps
<1>3. /\ TaskShape' /\ WaitInv' /\ StatusKept
      /\ \A u \in Tasks \ {t} : View(o, u)' = View(o, u)
      /\ Implies(Passed(o, Now(t), View(o, t)), View(o, t)')
      /\ CallFits(o, t, task[t].pc, Now(t), View(o, t))
  BY <1>1, <1>2, OnGoes, CallStep
<1>4. View(o, t).once = "in"
  BY <1>1, <1>3 DEF CallFits
<1>5. Passed(o, Now(t), View(o, t)) = [View(o, t) EXCEPT !.once = "done"]
  BY <1>1 DEF Passed
<1>6. /\ sync'.mutex = sync.mutex /\ sync'.sem = sync.sem /\ sync'.undo = sync.undo
      /\ sync'.barrier = sync.barrier /\ sync'.once = "done" /\ SyncShape'
  BY <1>1, SameProgram DEF SyncShape
<1> QED BY <1>1, <1>3, <1>4, <1>5, <1>6, OnceStep

\* The tasks of S go on from where they waited.
LEMMA MeetStep ==
    ASSUME NEW o, TaskShape, WaitInv, UNCHANGED program, NEW S \in SUBSET Tasks,
           TaskFrame, \A u \in Tasks \ S : Still(u),
           \A u \in S : /\ Live(u) /\ task'[u].st = task[u].st /\ task'[u].wait = ""
                        /\ task'[u].pc \in Nat \ {0}
    PROVE  /\ TaskShape' /\ WaitInv' /\ StatusKept
           /\ \A u \in Tasks \ S : View(o, u)' = View(o, u)
           /\ \A u \in S : View(o, u)' = At(o, u, task'[u].pc)
<1>1. TaskShape'
  BY SameProgram DEF TaskShape, TaskFrame, Still
<1>2. WaitInv'
  <2>1. ASSUME NEW u \in Tasks, u \notin S
        PROVE  /\ Live(u)' /\ task'[u].wait # "" =>
                    /\ task'[u].wait \in DOMAIN WaitingCalls
                    /\ task'[u].pc \in Positions(u)
                    /\ Text(u)[task'[u].pc].op \in WaitingCalls[task'[u].wait]
               /\ task'[u].st = "unborn" => task'[u].pc = 1 /\ task'[u].wait = ""
    BY <2>1, StillWaits DEF Live
  <2>2. \A u \in S : task'[u].st = "live" /\ task'[u].wait = ""
    BY DEF Live
  <2>3. WaitingCalls' = WaitingCalls
    BY DEF WaitingCalls
  <2> QED BY <2>1, <2>2, <2>3, SameProgram DEF WaitInv, Live
<1>3. StatusKept
  BY DEF StatusKept, Still, Live
<1>4. \A u \in Tasks \ S : View(o, u)' = View(o, u)
  BY StillView
<1>5. ASSUME NEW u \in S PROVE View(o, u)' = At(o, u, task'[u].pc)
  <2>0. PICK k : k = task'[u].pc
    OBVIOUS
  <2>1. task[u].pc' = k /\ task[u].wait' = "" /\ Live(u)'
    BY <2>0 DEF Live
  <2>2. At(o, u, task[u].pc)' = At(o, u, k)
    <3>1. Positions(u)' = Positions(u)
      BY SameProgram
    <3> QED BY <2>1, <3>1 DEF At
  <2>3. Facts(o, u)' = At(o, u, k)
    BY <2>1, <2>2 DEF Facts
  <2> QED BY <2>0, <2>1, <2>3 DEF View
<1> QED BY <1>1, <1>2, <1>3, <1>4, <1>5

\* The tasks that meet at a barrier, when one of them arrives.
LEMMA AtBarrierFacts ==
    ASSUME NEW o, IInv(o), NEW t \in Tasks, Running(t), Now(t).op = "barrierwait",
           NEW b, b = Now(t).on, NEW u \in AtBarrier(b) \cup {t}
    PROVE  /\ u \in Crew /\ Live(u) /\ task[u].pc \in Positions(u)
           /\ Now(u).op = "barrierwait" /\ Now(u).on = b
           /\ CallFits(o, u, task[u].pc, Now(u), View(o, u))
           /\ Now(u) = Text(u)[task[u].pc]
<1>1. CASE u = t
  <2>1. Now(t).op \notin HandlerOps \cup {"finish"}
    BY DEF HandlerOps
  <2>2. task[t].pc \in Positions(t) /\ CallFits(o, t, task[t].pc, Now(t), View(o, t)) /\ Live(t)
    BY <2>1, CallFact DEF Running
  <2>3. Now(t) = Text(t)[task[t].pc]
    BY <2>2, Parts, NowFacts
  <2> QED BY <1>1, <2>2, <2>3 DEF Crew
<1>2. CASE u \in AtBarrier(b)
  <2>1. u \in Tasks /\ Live(u) /\ task[u].wait = "barrier" /\ Now(u).on = b
    BY <1>2 DEF AtBarrier
  <2>2. /\ task[u].pc \in Positions(u) /\ Now(u) = Text(u)[task[u].pc]
        /\ CallFits(o, u, task[u].pc, Now(u), View(o, u)) /\ Now(u).op = "barrierwait"
    BY <2>1, WaitingFact
  <2> QED BY <2>1, <2>2 DEF Crew
<1> QED BY <1>1, <1>2

\* A barrier at which a task arrives is made for all that meet there.
LEMMA BarrierReady ==
    ASSUME NEW o, IInv(o), NEW t \in Tasks, Running(t), Now(t).op = "barrierwait",
           NEW b, b = Now(t).on
    PROVE  b \in BarrierNames /\ sync.barrier[b] = Cardinality(Crew) /\ sync.barrier[b] # 0
<1>1. CallFits(o, t, task[t].pc, Now(t), View(o, t))
  BY AtBarrierFacts
<1>2. Object(Now(t)) = <<"barrier", b>>
  BY DEF Object
<1>3. /\ <<"barrier", b>> \in View(o, t).ready
      /\ View(o, t).ready \subseteq ({"mutex"} \X MutexNames) \cup ({"sem"} \X SemNames)
                                   \cup ({"barrier"} \X BarrierNames)
  BY <1>1, <1>2 DEF CallFits, RoundsFit, ReadyFits
<1>4. b \in BarrierNames
  BY <1>3
<1>5. sync.barrier[b] # 0 /\ sync.barrier[b] \in {0, Cardinality(Crew)}
  BY <1>3, <1>4 DEF IInv, ReadyInv
<1> QED BY <1>4, <1>5

LEMMA CrewFinite == IsFiniteSet(Crew) /\ Crew \subseteq Tasks
<1>1. IsFiniteSet(Tasks)
  BY FS_Interval DEF Tasks
<1> QED BY <1>1, FS_Subset DEF Crew

LEMMA CountFacts == (\A k \in Nat : k + 1 + 0 = k + 1) /\ (\A k \in Nat : k # None)
BY DEF None

\* The last one to come: all of them go on, with the same count of rounds.
LEMMA MeetKeeps ==
    ASSUME NEW o, IInv(o), UNCHANGED program, Quiet, TaskFrame,
           \A u \in Tasks \ Crew : Still(u), NEW serial \in Crew,
           \A u \in Crew : /\ Live(u) /\ task'[u].st = task[u].st /\ task'[u].wait = ""
                           /\ task'[u].pc = task[u].pc + 1 + (IF u = serial THEN 0 ELSE Now(u).n)
                           /\ task[u].pc \in Positions(u) /\ Now(u).op = "barrierwait"
                           /\ CallFits(o, u, task[u].pc, Now(u), View(o, u))
    PROVE  IInv(o)'
<1>1. TaskShape /\ WaitInv /\ Crew \in SUBSET Tasks /\ \A u \in Tasks : task[u].pc \in Nat \ {0}
  BY Parts DEF Crew
<1>2. ASSUME NEW u \in Crew
      PROVE  /\ task'[u].pc \in Nat \ {0} /\ View(o, u).round \in Nat
             /\ Implies([View(o, u) EXCEPT !.round = @ + 1,
                          !.serial = IF u = serial THEN "yes" ELSE "no"], At(o, u, task'[u].pc))
  <2>1. View(o, u).round \in Nat /\ task[u].pc \in Nat
    BY <1>1, <1>2 DEF CallFits, RoundsFit
  <2>2. CASE u = serial
    <3>0. task'[u].pc = task[u].pc + 1 + 0
      BY <1>2, <2>2
    <3>1. task'[u].pc = task[u].pc + 1
      BY <2>1, <3>0, CountFacts, Zenon
    <3>2. Leads(o, Passed(o, Now(u), View(o, u)), u, task'[u].pc)
      BY <1>2, <3>1 DEF CallFits, FlowFits
    <3>3. Passed(o, Now(u), View(o, u)) = [View(o, u) EXCEPT !.round = @ + 1, !.serial = "yes"]
      BY <1>2 DEF Passed
    <3> QED BY <2>1, <2>2, <3>2, <3>3 DEF Leads
  <2>3. CASE u # serial
    <3>1. task'[u].pc = task[u].pc + 1 + Now(u).n
      BY <1>2, <2>3
    <3>2. Leads(o, Missed(Now(u), View(o, u)), u, task'[u].pc)
      BY <1>2, <3>1 DEF CallFits, FlowFits, MayJump
    <3>3. Missed(Now(u), View(o, u)) = [View(o, u) EXCEPT !.round = @ + 1, !.serial = "no"]
      BY <1>2 DEF Missed
    <3> QED BY <2>1, <2>3, <3>2, <3>3 DEF Leads
  <2> QED BY <2>2, <2>3
<1>3. /\ TaskShape' /\ WaitInv' /\ StatusKept
      /\ \A u \in Tasks \ Crew : View(o, u)' = View(o, u)
      /\ \A u \in Crew : View(o, u)' = At(o, u, task'[u].pc)
  BY <1>1, <1>2, MeetStep
<1>4. ASSUME NEW u \in Crew
      PROVE  /\ View(o, u)'.held \subseteq View(o, u).held
             /\ View(o, u)'.reads \subseteq View(o, u).reads
             /\ View(o, u)'.tokens \subseteq View(o, u).tokens
             /\ View(o, u)'.unset \subseteq View(o, u).unset
             /\ View(o, u)'.once \in {"no", View(o, u).once}
             /\ View(o, u)'.begun \subseteq View(o, u).begun
             /\ View(o, u)'.gone \subseteq View(o, u).gone
             /\ View(o, u)'.unborn \subseteq View(o, u).unborn
             /\ View(o, u)'.ready \subseteq View(o, u).ready
             /\ View(o, u)'.round \in {None, View(o, u).round + 1}
             /\ View(o, u)'.serial = "yes" => u = serial
  <2>1. DOMAIN View(o, u) = FactNames
    BY <1>1, Parts, ViewShape
  <2> DEFINE f == View(o, u)
             g == View(o, u)'
             s == IF u = serial THEN "yes" ELSE "no"
  <2>2. Implies([f EXCEPT !.round = @ + 1, !.serial = s], g)
    BY <1>2, <1>3
  <2>3. s = "yes" => u = serial
    OBVIOUS
  <2> HIDE DEF s
  <2>4. g.serial \in {"no", s} /\ g.round \in {None, f.round + 1}
    BY <2>1, <2>2 DEF Implies, FactNames
  <2>5. /\ g.held \subseteq f.held /\ g.reads \subseteq f.reads /\ g.tokens \subseteq f.tokens
        /\ g.once \in {"no", f.once} /\ g.begun \subseteq f.begun /\ g.gone \subseteq f.gone
        /\ g.unborn \subseteq f.unborn /\ g.unset \subseteq f.unset /\ g.ready \subseteq f.ready
    BY <2>1, <2>2 DEF Implies, FactNames
  <2> QED BY <2>3, <2>4, <2>5
<1>5. \A u \in Tasks : /\ View(o, u)'.held \subseteq View(o, u).held
                       /\ View(o, u)'.reads \subseteq View(o, u).reads
                       /\ View(o, u)'.tokens \subseteq View(o, u).tokens
                       /\ View(o, u)'.unset \subseteq View(o, u).unset
                       /\ View(o, u)'.once \in {"no", View(o, u).once}
                       /\ View(o, u)'.begun \subseteq View(o, u).begun
                       /\ View(o, u)'.gone \subseteq View(o, u).gone
                       /\ View(o, u)'.unborn \subseteq View(o, u).unborn
                       /\ View(o, u)'.ready \subseteq View(o, u).ready
  BY <1>3, <1>4
<1>6. \A m : Mutex(m)' = Mutex(m)
  BY DEF Mutex, Quiet
<1>7. LockInv(o)'
  BY <1>5, <1>6, LockKept DEF IInv
<1>8. TokenInv(o)' /\ CountInv(o)' /\ OnceInv(o)'
  BY <1>5, TokenKept, CountKept, OnceKept DEF IInv, Quiet
<1>9. LifeInv(o)'
  BY <1>3, <1>5, LifeKept DEF IInv, StatusKept, Live
<1>10. ReadyInv(o)'
  BY <1>5, <1>6, ReadyKept DEF IInv, Quiet
<1>11. RoundInv(o)'
  <2>1. \A u, v \in Crew : View(o, u).round = View(o, v).round
    <3>1. \A u \in Crew : View(o, u).round # None
      BY <1>2, CountFacts, Zenon
    <3> QED BY <3>1 DEF IInv, RoundInv
  <2>2. ASSUME NEW u \in Crew, NEW v \in Crew
        PROVE  /\ View(o, u)'.round # None /\ View(o, v)'.round # None =>
                    View(o, u)'.round = View(o, v)'.round
               /\ View(o, u)'.serial = "yes" /\ View(o, v)'.serial = "yes" => u = v
    BY <1>4, <2>1
  <2> QED BY <2>2, SameProgram DEF RoundInv
<1> QED BY <1>3, <1>7, <1>8, <1>9, <1>10, <1>11, OutlinedKept DEF IInv, Quiet

LEMMA BarrierWaitKeeps ==
    ASSUME NEW o, IInv(o), NEW t \in Tasks, Running(t), BarrierWaitCall(t)
    PROVE  IInv(o)' /\ (~ sync.early => ~ sync'.early)
<1>0. PICK b : b = Now(t).on
  OBVIOUS
<1> DEFINE here == AtBarrier(b) \cup {t}
<1>1. /\ Now(t).op = "barrierwait" /\ UNCHANGED program /\ TaskShape /\ SyncShape
      /\ sync' = [sync EXCEPT !.early = @ \/ sync.barrier[b] = 0]
  BY <1>0 DEF BarrierWaitCall, Calls, KeepData, IInv
<1>2. sync.barrier[b] = Cardinality(Crew) /\ sync.barrier[b] # 0
  BY <1>0, <1>1, BarrierReady
<1>3. Quiet /\ (~ sync.early => ~ sync'.early)
  BY <1>1, <1>2, SameProgram DEF SyncShape, Quiet
<1>4. \A u \in here : /\ u \in Crew /\ Live(u) /\ task[u].pc \in Positions(u)
                      /\ Now(u).op = "barrierwait" /\ Now(u).on = b
                      /\ CallFits(o, u, task[u].pc, Now(u), View(o, u))
                      /\ Now(u) = Text(u)[task[u].pc]
  BY <1>0, <1>1, AtBarrierFacts
<1>5. CASE Cardinality(here) < sync.barrier[b]
  <2>1. task' = [task EXCEPT ![t].wait = "barrier"]
    BY <1>0, <1>5 DEF BarrierWaitCall
  <2>2. Goes(t, task[t].pc, "barrier")
    BY <1>1, <2>1 DEF TaskShape, Goes, TaskFrame, Still
  <2>3. WaitsIn(t, task[t].pc, "barrier")
    BY <1>4 DEF WaitsIn, WaitingCalls
  <2>4. Live(t) /\ task[t].wait \notin {"cond", "relock"}
    BY DEF Running
  <2> QED BY <1>1, <1>3, <2>2, <2>3, <2>4, NeutralStay
<1>6. CASE ~ (Cardinality(here) < sync.barrier[b])
  <2>1. here = Crew
    <3>1. here \subseteq Crew /\ IsFiniteSet(Crew)
      BY <1>4, CrewFinite
    <3>2. IsFiniteSet(here) /\ Cardinality(here) \in Nat /\ Cardinality(Crew) \in Nat
      BY <3>1, FS_Subset, FS_CardinalityType
    <3>3. /\ Cardinality(here) <= Cardinality(Crew)
          /\ Cardinality(here) = Cardinality(Crew) => here = Crew
      BY <3>1, FS_Subset
    <3> QED BY <1>2, <1>6, <3>2, <3>3
  <2>2. PICK serial \in here : task' = [u \in Tasks |->
                             IF u \notin here THEN task[u]
                             ELSE [task[u] EXCEPT !.wait = "",
                                     !.pc = @ + 1 + (IF u = serial THEN 0 ELSE Now(u).n)]]
    BY <1>0, <1>6 DEF BarrierWaitCall
  <2> HIDE DEF here
  <2>3. TaskFrame /\ \A u \in Tasks \ Crew : Still(u)
    BY <1>1, <2>1, <2>2 DEF TaskFrame, Still, TaskShape
  <2>4. \A u \in Crew : /\ task'[u].st = task[u].st /\ task'[u].wait = ""
                        /\ task'[u].pc = task[u].pc + 1 + (IF u = serial THEN 0 ELSE Now(u).n)
    BY <1>1, <2>1, <2>2, CrewFinite DEF TaskShape
  <2>5. serial \in Crew
    BY <2>1, <2>2
  <2> QED BY <1>1, <1>3, <1>4, <2>1, <2>3, <2>4, <2>5, MeetKeeps
<1> QED BY <1>5, <1>6

-----------------------------------------------------------------------------
(* Semaphores.                                                             *)

\* What remains to be shown where the semaphore s, and what t relies on, change.
LEMMA SemKeeps ==
    ASSUME NEW o, IInv(o), UNCHANGED program, TaskShape', WaitInv', StatusKept, SyncShape',
           NEW t \in Tasks, NEW s \in SemNames, sync'.mutex = sync.mutex,
           sync'.barrier = sync.barrier, sync'.once = sync.once,
           \A x \in SemNames \ {s} : /\ sync'.sem[x] = sync.sem[x]
                                     /\ \A p \in Tasks : sync'.undo[p][x] = sync.undo[p][x],
           \A u \in Tasks \ {t} : View(o, u)' = View(o, u),
           Implies([View(o, t) EXCEPT !.tokens = @ \cup {s}, !.ready = @ \cup {<<"sem", s>>}],
                   View(o, t)'),
           sync'.sem[s] \in Nat \cup {None}, \A p \in Tasks : sync'.undo[p][s] \in Nat,
           s \notin o.locks => \A u \in Tasks :
                s \in View(o, u)'.tokens => sync'.undo[ProcessOf(u)][s] >= 1,
           s \in o.locks => LockSem(o, s)',
           \A u \in Tasks : <<"sem", s>> \in View(o, u)'.ready => sync'.sem[s] # None
    PROVE  IInv(o)'
<1> DEFINE f == View(o, t)
           g == View(o, t)'
<1>1. DOMAIN f = FactNames /\ TextsFit(o) /\ o.locks \subseteq SemNames
  BY Parts, ViewShape DEF TextsFit
<1>2. /\ g.held \subseteq f.held /\ g.reads \subseteq f.reads
      /\ g.tokens \subseteq f.tokens \cup {s}
      /\ g.once \in {"no", f.once} /\ g.round \in {None, f.round} /\ g.serial \in {"no", f.serial}
      /\ g.begun \subseteq f.begun /\ g.gone \subseteq f.gone /\ g.unborn \subseteq f.unborn
      /\ g.unset \subseteq f.unset /\ g.ready \subseteq f.ready \cup {<<"sem", s>>}
  BY <1>1 DEF Implies, FactNames
<1> HIDE DEF f, g
<1>3. \A u \in Tasks : /\ View(o, u)'.held \subseteq View(o, u).held
                       /\ View(o, u)'.reads \subseteq View(o, u).reads
                       /\ View(o, u)'.tokens \subseteq View(o, u).tokens \cup {s}
                       /\ View(o, u)'.unset \subseteq View(o, u).unset
                       /\ View(o, u)'.once \in {"no", View(o, u).once}
                       /\ View(o, u)'.begun \subseteq View(o, u).begun
                       /\ View(o, u)'.gone \subseteq View(o, u).gone
                       /\ View(o, u)'.unborn \subseteq View(o, u).unborn
                       /\ View(o, u)'.round \in {None, View(o, u).round}
                       /\ View(o, u)'.serial \in {"no", View(o, u).serial}
                       /\ View(o, u)'.ready \subseteq View(o, u).ready \cup {<<"sem", s>>}
  BY <1>2 DEF f, g
<1>4. \A m : Mutex(m)' = Mutex(m)
  BY DEF Mutex
<1>5. LockInv(o)'
  BY <1>3, <1>4, LockKept DEF IInv
<1>6. OnceInv(o)' /\ RoundInv(o)'
  BY <1>3, OnceKept, RoundKept DEF IInv
<1>7. LifeInv(o)'
  BY <1>3, LifeKept DEF IInv, StatusKept, Live
<1>8. TokenInv(o)'
  <2>1. ASSUME NEW x \in o.locks, x # s PROVE LockSem(o, x)'
    <3>1. LockSem(o, x) /\ x \in SemNames
      BY <1>1, <2>1 DEF IInv, TokenInv
    <3>2. /\ sync'.sem[x] = sync.sem[x]
          /\ \A p \in Tasks : sync'.undo[p][x] = sync.undo[p][x] /\ ProcessOf(p) \in Tasks
      BY <1>1, <2>1, <3>1 DEF TextsFit
    <3>3. \A u \in Tasks : /\ x \in View(o, u)'.tokens => x \in View(o, u).tokens
                           /\ x \in View(o, u)'.unset => x \in View(o, u).unset
      BY <1>3, <2>1
    <3>4. ASSUME NEW u \in Tasks
          PROVE  /\ x \in View(o, u)'.tokens =>
                      /\ sync'.sem[x] = 0
                      /\ x \in o.undone => sync'.undo[ProcessOf(u)][x] = 1
                      /\ \A v \in Tasks : x \in View(o, v)'.tokens => u = v
                 /\ x \in View(o, u)'.unset \cap o.undone =>
                      sync'.sem[x] # 1 /\ \A p \in Tasks : sync'.undo[p][x] = 0
      BY <3>1, <3>2, <3>3 DEF LockSem
    <3>5. /\ sync'.sem[x] \in {None, 0, 1}
          /\ \A p \in Tasks :
               /\ sync'.undo[p][x] \in {0, 1}
               /\ sync'.undo[p][x] = 1 => x \in o.undone /\ sync'.sem[x] # 1
               /\ \A q \in Tasks : sync'.undo[p][x] = 1 /\ sync'.undo[q][x] = 1 => p = q
      BY <3>1, <3>2 DEF LockSem
    <3> QED BY <3>4, <3>5, SameProgram DEF LockSem
  <2> QED BY <2>1 DEF TokenInv
<1>9. CountInv(o)'
  <2>1. \A x \in SemNames : /\ sync'.sem[x] \in Nat \cup {None}
                            /\ \A p \in Tasks : sync'.undo[p][x] \in Nat
    BY DEF IInv, CountInv
  <2>2. ASSUME NEW u \in Tasks, NEW x \in View(o, u)'.tokens, x \notin o.locks
        PROVE  x \in SemNames /\ sync'.undo[ProcessOf(u)][x] >= 1
    <3>1. ProcessOf(u) \in Tasks
      BY <1>1 DEF TextsFit
    <3> QED BY <1>3, <2>2, <3>1 DEF IInv, CountInv
  <2> QED BY <2>1, <2>2, SameProgram DEF CountInv
<1>10. ReadyInv(o)'
  <2>1. ReadyInv(o)
    BY DEF IInv
  <2>2. \A x : <<"mutex", x>> # <<"sem", s>> /\ <<"barrier", x>> # <<"sem", s>>
    OBVIOUS
  <2>3. ASSUME NEW u \in Tasks
        PROVE  /\ \A m \in MutexNames : <<"mutex", m>> \in View(o, u)'.ready => Usable(m)'
               /\ \A b \in BarrierNames :
                    <<"barrier", b>> \in View(o, u)'.ready => sync'.barrier[b] # 0
    BY <1>3, <1>4, <2>1, <2>2 DEF ReadyInv, Usable
  <2>4. ASSUME NEW u \in Tasks, NEW x \in SemNames, <<"sem", x>> \in View(o, u)'.ready
        PROVE  sync'.sem[x] # None
    BY <1>3, <2>1, <2>4 DEF ReadyInv
  <2> QED BY <2>1, <2>3, <2>4, SameProgram DEF ReadyInv
<1> QED BY <1>5, <1>6, <1>7, <1>8, <1>9, <1>10, OutlinedKept DEF IInv

\* A call for a semaphore that does not fail.
LEMMA SemCall ==
    ASSUME NEW o, IInv(o), UNCHANGED program, NEW t \in Tasks, Running(t), task' = On(t),
           Now(t).op \in {"semopen", "semset", "semwait", "sempost", "semremove"}
    PROVE  /\ TaskShape' /\ WaitInv' /\ StatusKept
           /\ \A u \in Tasks \ {t} : View(o, u)' = View(o, u)
           /\ Implies(Passed(o, Now(t), View(o, t)), View(o, t)')
           /\ TokensFit(o, t, Now(t), View(o, t)) /\ Now(t).on \in SemNames
           /\ DOMAIN View(o, t) = FactNames /\ SyncShape /\ CountInv(o) /\ ReadyInv(o)
           /\ Now(t).on \in o.locks => LockSem(o, Now(t).on)
           /\ ProcessOf(t) \in Tasks
<1>1. Now(t).op \notin HandlerOps \cup {"jump", "exit", "end", "finish"}
  BY DEF HandlerOps
<1>2. /\ TaskShape' /\ WaitInv' /\ StatusKept
      /\ \A u \in Tasks \ {t} : View(o, u)' = View(o, u)
      /\ Implies(Passed(o, Now(t), View(o, t)), View(o, t)')
      /\ CallFits(o, t, task[t].pc, Now(t), View(o, t))
  BY <1>1, OnGoes, CallStep DEF IInv
<1>3. TokensFit(o, t, Now(t), View(o, t)) /\ Now(t).on \in SemNames
  BY <1>2 DEF CallFits, TokensFit
<1>4. /\ DOMAIN View(o, t) = FactNames /\ SyncShape /\ CountInv(o) /\ ReadyInv(o)
      /\ Now(t).on \in o.locks => LockSem(o, Now(t).on)
      /\ ProcessOf(t) \in Tasks
  BY Parts, ViewShape DEF IInv, TokenInv, TextsFit
<1> QED BY <1>2, <1>3, <1>4

\* A semaphore whose value alone changes.
LEMMA ValueFacts ==
    ASSUME SyncShape, UNCHANGED program, NEW s \in SemNames, NEW v,
           sync' = [sync EXCEPT !.sem[s] = v]
    PROVE  /\ SyncShape' /\ sync'.mutex = sync.mutex
           /\ sync'.barrier = sync.barrier /\ sync'.once = sync.once
           /\ \A x \in SemNames \ {s} : sync'.sem[x] = sync.sem[x]
           /\ sync'.sem[s] = v /\ sync'.undo = sync.undo
<1>1. /\ sync'.sem = [sync.sem EXCEPT ![s] = v] /\ sync'.mutex = sync.mutex
      /\ sync'.barrier = sync.barrier /\ sync'.once = sync.once /\ sync'.undo = sync.undo
      /\ DOMAIN sync' = DOMAIN sync
  BY DEF SyncShape
<1>2. SyncShape'
  BY <1>1, SameProgram DEF SyncShape
<1> QED BY <1>1, <1>2 DEF SyncShape

LEMMA SemOpenKeeps ==
    ASSUME NEW o, IInv(o), NEW t \in Tasks, Running(t), SemOpenCall(t)
    PROVE  IInv(o)'
<1>0. PICK s, n : s = Now(t).on /\ n = Now(t).n
  OBVIOUS
<1>1. /\ Now(t).op = "semopen" /\ UNCHANGED program /\ task' = On(t)
      /\ sync' = [sync EXCEPT !.sem[s] = IF @ = None THEN n ELSE @]
  BY <1>0 DEF SemOpenCall, Calls, KeepData
<1>2. /\ TaskShape' /\ WaitInv' /\ StatusKept
      /\ \A u \in Tasks \ {t} : View(o, u)' = View(o, u)
      /\ Implies(Passed(o, Now(t), View(o, t)), View(o, t)')
      /\ TokensFit(o, t, Now(t), View(o, t)) /\ s \in SemNames
      /\ DOMAIN View(o, t) = FactNames /\ SyncShape /\ CountInv(o)
      /\ s \in o.locks => LockSem(o, s)
  BY <1>0, <1>1, SemCall
<1>3. n \in Nat /\ (s \in o.locks => n = IF s \in o.undone THEN 0 ELSE 1)
  BY <1>0, <1>1, <1>2 DEF TokensFit
<1>4. PICK v : v = IF sync.sem[s] = None THEN n ELSE sync.sem[s]
  OBVIOUS
<1>5. sync' = [sync EXCEPT !.sem[s] = v]
  BY <1>1, <1>4
<1>6. /\ SyncShape' /\ sync'.mutex = sync.mutex
      /\ sync'.barrier = sync.barrier /\ sync'.once = sync.once
      /\ \A x \in SemNames \ {s} : sync'.sem[x] = sync.sem[x]
      /\ sync'.sem[s] = v /\ sync'.undo = sync.undo
  BY <1>1, <1>2, <1>5, ValueFacts
<1>7. v \in Nat
  BY <1>2, <1>3, <1>4 DEF CountInv
<1>8. Passed(o, Now(t), View(o, t)) = [View(o, t) EXCEPT !.ready = @ \cup {<<"sem", s>>}]
  BY <1>0, <1>1 DEF Passed, Object
<1>9. /\ Implies([View(o, t) EXCEPT !.tokens = @ \cup {s}, !.ready = @ \cup {<<"sem", s>>}],
                 View(o, t)')
      /\ View(o, t)'.tokens \subseteq View(o, t).tokens
      /\ View(o, t)'.unset \subseteq View(o, t).unset
  BY <1>2, <1>8 DEF Implies, FactNames
<1>10. \A u \in Tasks : /\ View(o, u)'.tokens \subseteq View(o, u).tokens
                        /\ View(o, u)'.unset \subseteq View(o, u).unset
  BY <1>2, <1>9
<1>11. s \notin o.locks => \A u \in Tasks :
         s \in View(o, u)'.tokens => sync'.undo[ProcessOf(u)][s] >= 1
  BY <1>2, <1>6, <1>10 DEF CountInv
<1>12. ASSUME s \in o.locks PROVE LockSem(o, s)'
  <2>1. LockSem(o, s) /\ n \in {0, 1} /\ (n = 1 => s \notin o.undone)
    BY <1>2, <1>3, <1>12
  <2>2. CASE sync.sem[s] = None
    <3>1. \A u \in Tasks : s \notin View(o, u)'.tokens
      BY <1>10, <2>1, <2>2 DEF LockSem, None
    <3>2. sync'.sem[s] = n
      BY <1>4, <1>6, <2>2
    <3> QED BY <1>1, <1>6, <1>10, <2>1, <3>1, <3>2, SameProgram DEF LockSem
  <2>3. CASE sync.sem[s] # None
    <3>1. sync'.sem[s] = sync.sem[s]
      BY <1>4, <1>6, <2>3
    <3> QED BY <1>1, <1>6, <1>10, <2>1, <3>1, SameProgram DEF LockSem
  <2> QED BY <2>2, <2>3
<1>13. v # None
  BY <1>7 DEF None
<1> QED BY <1>1, <1>2, <1>6, <1>7, <1>9, <1>11, <1>12, <1>13, SemKeeps DEF CountInv

LEMMA AddFacts ==
    ASSUME SyncShape, UNCHANGED program, NEW s \in SemNames, NEW p \in Tasks, NEW v, NEW c,
           sync' = [sync EXCEPT !.sem[s] = v, !.undo[p][s] = c]
    PROVE  /\ SyncShape' /\ sync'.mutex = sync.mutex
           /\ sync'.barrier = sync.barrier /\ sync'.once = sync.once
           /\ \A x \in SemNames \ {s} : /\ sync'.sem[x] = sync.sem[x]
                                        /\ \A q \in Tasks : sync'.undo[q][x] = sync.undo[q][x]
           /\ sync'.sem[s] = v /\ sync'.undo[p][s] = c
           /\ \A q \in Tasks \ {p} : sync'.undo[q][s] = sync.undo[q][s]
<1>1. /\ sync'.sem = [sync.sem EXCEPT ![s] = v] /\ sync'.mutex = sync.mutex
      /\ sync'.barrier = sync.barrier /\ sync'.once = sync.once
      /\ sync'.undo = [sync.undo EXCEPT ![p][s] = c]
      /\ DOMAIN sync' = DOMAIN sync
  BY DEF SyncShape
<1>2. SyncShape'
  BY <1>1, SameProgram DEF SyncShape
<1> QED BY <1>1, <1>2 DEF SyncShape

LEMMA SemSetKeeps ==
    ASSUME NEW o, IInv(o), NEW t \in Tasks, Running(t), SemSetCall(t)
    PROVE  IInv(o)'
<1>0. PICK s, n : s = Now(t).on /\ n = Now(t).n
  OBVIOUS
<1>1. /\ Now(t).op = "semset" /\ UNCHANGED program /\ task' = On(t)
      /\ sync' = [sync EXCEPT !.sem[s] = n]
  BY <1>0 DEF SemSetCall, Calls, KeepData
<1>2. /\ TaskShape' /\ WaitInv' /\ StatusKept
      /\ \A u \in Tasks \ {t} : View(o, u)' = View(o, u)
      /\ Implies(Passed(o, Now(t), View(o, t)), View(o, t)')
      /\ TokensFit(o, t, Now(t), View(o, t)) /\ s \in SemNames
      /\ DOMAIN View(o, t) = FactNames /\ SyncShape /\ CountInv(o)
      /\ s \in o.locks => LockSem(o, s)
  BY <1>0, <1>1, SemCall
<1>3. /\ n \in Nat
      /\ s \in o.locks => /\ n \in {0, 1} /\ s \in View(o, t).unset \cap o.undone
                          /\ \A g \in Elsewhere(o, t, Nothing) : s \notin g.unset
  BY <1>0, <1>1, <1>2 DEF TokensFit
<1>6. /\ SyncShape' /\ sync'.mutex = sync.mutex
      /\ sync'.barrier = sync.barrier /\ sync'.once = sync.once
      /\ \A x \in SemNames \ {s} : sync'.sem[x] = sync.sem[x]
      /\ sync'.sem[s] = n /\ sync'.undo = sync.undo
  BY <1>1, <1>2, ValueFacts
<1>8. Passed(o, Now(t), View(o, t)) = [View(o, t) EXCEPT !.unset = @ \ {s}]
  BY <1>0, <1>1 DEF Passed
<1>9. /\ Implies([View(o, t) EXCEPT !.tokens = @ \cup {s}, !.ready = @ \cup {<<"sem", s>>}],
                 View(o, t)')
      /\ View(o, t)'.tokens \subseteq View(o, t).tokens
      /\ View(o, t)'.unset \subseteq View(o, t).unset \ {s}
  BY <1>2, <1>8 DEF Implies, FactNames
<1>10. \A u \in Tasks : View(o, u)'.tokens \subseteq View(o, u).tokens
  BY <1>2, <1>9
<1>11. s \notin o.locks => \A u \in Tasks :
         s \in View(o, u)'.tokens => sync'.undo[ProcessOf(u)][s] >= 1
  BY <1>2, <1>6, <1>10 DEF CountInv
<1>12. ASSUME s \in o.locks PROVE LockSem(o, s)'
  <2>1. /\ LockSem(o, s) /\ n \in {0, 1} /\ s \in View(o, t).unset \cap o.undone
        /\ \A g \in Elsewhere(o, t, Nothing) : s \notin g.unset
    BY <1>2, <1>3, <1>12
  <2>2. \A p \in Tasks : sync.undo[p][s] = 0 /\ ProcessOf(p) \in Tasks
    BY <2>1, Parts DEF LockSem, TextsFit
  <2>3. \A u \in Tasks : s \notin View(o, u)'.tokens
    BY <1>10, <2>1, <2>2 DEF LockSem
  <2>4. ASSUME NEW u \in Tasks \ {t} PROVE s \notin View(o, u).unset
    <3>1. CASE Live(u)
      BY <2>1, <3>1, SeenElsewhere, NothingHas DEF Implies
    <3>2. CASE ~ Live(u)
      BY <3>2, DeadView
    <3> QED BY <3>1, <3>2
  <2>5. \A u \in Tasks : s \notin View(o, u)'.unset
    BY <1>2, <1>9, <2>4
  <2> QED BY <1>1, <1>6, <2>1, <2>2, <2>3, <2>5, SameProgram DEF LockSem
<1>13. n # None
  BY <1>3 DEF None
<1> QED BY <1>1, <1>2, <1>3, <1>6, <1>9, <1>11, <1>12, <1>13, SemKeeps DEF CountInv

LEMMA SemRemoveKeeps ==
    ASSUME NEW o, IInv(o), NEW t \in Tasks, Running(t), SemRemoveCall(t)
    PROVE  IInv(o)'
<1>0. PICK s : s = Now(t).on
  OBVIOUS
<1>1. /\ Now(t).op = "semremove" /\ UNCHANGED program /\ task' = On(t)
      /\ sync' = [sync EXCEPT !.sem[s] = None]
  BY <1>0 DEF SemRemoveCall, Calls, KeepData
<1>2. /\ TaskShape' /\ WaitInv' /\ StatusKept
      /\ \A u \in Tasks \ {t} : View(o, u)' = View(o, u)
      /\ Implies(Passed(o, Now(t), View(o, t)), View(o, t)')
      /\ TokensFit(o, t, Now(t), View(o, t)) /\ s \in SemNames
      /\ DOMAIN View(o, t) = FactNames /\ SyncShape /\ CountInv(o)
      /\ s \in o.locks => LockSem(o, s)
  BY <1>0, <1>1, SemCall
<1>3. s \in o.locks => /\ s \notin View(o, t).tokens
                       /\ \A g \in Elsewhere(o, t, View(o, t)) : s \notin g.tokens
  BY <1>0, <1>1, <1>2 DEF TokensFit
<1>4. Object(Now(t)) = <<"sem", s>>
  BY <1>0, <1>1 DEF Object
<1>6. /\ SyncShape' /\ sync'.mutex = sync.mutex
      /\ sync'.barrier = sync.barrier /\ sync'.once = sync.once
      /\ \A x \in SemNames \ {s} : sync'.sem[x] = sync.sem[x]
      /\ sync'.sem[s] = None /\ sync'.undo = sync.undo
  BY <1>1, <1>2, ValueFacts
<1>8. Passed(o, Now(t), View(o, t)) = [View(o, t) EXCEPT !.ready = @ \ {<<"sem", s>>}]
  BY <1>1, <1>4 DEF Passed
<1>9. /\ Implies([View(o, t) EXCEPT !.tokens = @ \cup {s}, !.ready = @ \cup {<<"sem", s>>}],
                 View(o, t)')
      /\ View(o, t)'.tokens \subseteq View(o, t).tokens
      /\ View(o, t)'.unset \subseteq View(o, t).unset
      /\ <<"sem", s>> \notin View(o, t)'.ready
  BY <1>2, <1>8 DEF Implies, FactNames
<1>10. \A u \in Tasks : /\ View(o, u)'.tokens \subseteq View(o, u).tokens
                        /\ View(o, u)'.unset \subseteq View(o, u).unset
                        /\ <<"sem", s>> \notin View(o, u)'.ready
  BY <1>1, <1>2, <1>4, <1>9, RemovedFacts
<1>11. s \notin o.locks => \A u \in Tasks :
         s \in View(o, u)'.tokens => sync'.undo[ProcessOf(u)][s] >= 1
  BY <1>2, <1>6, <1>10 DEF CountInv
<1>12. ASSUME s \in o.locks PROVE LockSem(o, s)'
  <2>1. /\ LockSem(o, s) /\ s \notin View(o, t).tokens
        /\ \A g \in Elsewhere(o, t, View(o, t)) : s \notin g.tokens
    BY <1>2, <1>3, <1>12
  <2>2. ASSUME NEW u \in Tasks \ {t} PROVE s \notin View(o, u).tokens
    <3>1. CASE Live(u)
      BY <2>1, <3>1, SeenElsewhere, NothingHas DEF Implies
    <3>2. CASE ~ Live(u)
      BY <3>2, DeadView
    <3> QED BY <3>1, <3>2
  <2>3. \A u \in Tasks : s \notin View(o, u)'.tokens
    BY <1>10, <2>1, <2>2
  <2>4. None # 1
    BY DEF None
  <2> QED BY <1>1, <1>6, <1>10, <2>1, <2>3, <2>4, SameProgram DEF LockSem
<1> QED BY <1>1, <1>2, <1>6, <1>9, <1>10, <1>11, <1>12, SemKeeps DEF CountInv

LEMMA SemWaitKeeps ==
    ASSUME NEW o, IInv(o), NEW t \in Tasks, Running(t), Open(t), SemWaitCall(t)
    PROVE  IInv(o)'
<1>0. PICK s, n, p : s = Now(t).on /\ n = Now(t).n /\ p = ProcessOf(t)
  OBVIOUS
<1>1. Now(t).op = "semwait" /\ UNCHANGED program /\ sync.sem[s] # 0 /\ SyncShape
  BY <1>0 DEF SemWaitCall, Calls, KeepData, Open, IInv
<1>2. CASE sync.sem[s] = None
  <2>1. task' = Failed(t) /\ sync' = [sync EXCEPT !.early = TRUE]
    BY <1>0, <1>2 DEF SemWaitCall
  <2>2. Quiet
    BY <1>1, <2>1, SameProgram DEF SyncShape, Quiet
  <2>3. Now(t).op \notin HandlerOps \cup {"jump", "exit", "end", "finish"}
    BY <1>1 DEF HandlerOps
  <2>4. CASE Now(t).bad = "ignore" /\ Goes(t, task[t].pc + 1, "")
    <3>1. Leads(o, View(o, t), t, task[t].pc + 1)
      BY <1>1, <2>3, <2>4, CallFact DEF CallFits, FlowFits
    <3> QED BY <1>1, <2>2, <2>4, <3>1, IgnoredKeeps DEF Running
  <2>5. CASE ~ (Now(t).bad = "ignore" /\ Goes(t, task[t].pc + 1, ""))
    BY <1>1, <2>1, <2>2, <2>3, <2>5, FailedGoesOrIgnored
  <2> QED BY <2>4, <2>5
<1>3. CASE sync.sem[s] # None
  <2>0. task' = On(t) /\ sync' = SemAdd(t, s, -1)
    BY <1>0, <1>3 DEF SemWaitCall
  <2>1. /\ TaskShape' /\ WaitInv' /\ StatusKept
        /\ \A u \in Tasks \ {t} : View(o, u)' = View(o, u)
        /\ Implies(Passed(o, Now(t), View(o, t)), View(o, t)')
        /\ TokensFit(o, t, Now(t), View(o, t)) /\ s \in SemNames
        /\ DOMAIN View(o, t) = FactNames /\ SyncShape /\ CountInv(o)
        /\ s \in o.locks => LockSem(o, s)
        /\ p \in Tasks
    BY <1>0, <1>1, <2>0, SemCall
  <2>2. n \in {0, 1} /\ (s \in o.locks => n = IF s \in o.undone THEN 1 ELSE 0)
    BY <1>0, <1>1, <2>1 DEF TokensFit
  <2>3. sync.sem[s] \in Nat \ {0} /\ \A q \in Tasks : sync.undo[q][s] \in Nat
    BY <1>1, <1>3, <2>1 DEF CountInv
  <2>4. PICK v, c : v = sync.sem[s] + (-1) /\ c = sync.undo[p][s] - (-1) * n
    OBVIOUS
  <2>5. v \in Nat /\ c \in Nat /\ v + 1 = sync.sem[s] /\ c = sync.undo[p][s] + n
    BY <2>1, <2>2, <2>3, <2>4
  <2>6. sync' = [sync EXCEPT !.sem[s] = v, !.undo[p][s] = c]
    BY <1>0, <2>0, <2>4 DEF SemAdd
  <2>7. /\ SyncShape' /\ sync'.mutex = sync.mutex
        /\ sync'.barrier = sync.barrier /\ sync'.once = sync.once
        /\ \A x \in SemNames \ {s} : /\ sync'.sem[x] = sync.sem[x]
                                     /\ \A q \in Tasks : sync'.undo[q][x] = sync.undo[q][x]
        /\ sync'.sem[s] = v /\ sync'.undo[p][s] = c
        /\ \A q \in Tasks \ {p} : sync'.undo[q][s] = sync.undo[q][s]
    BY <1>1, <2>1, <2>6, AddFacts
  <2>8. Passed(o, Now(t), View(o, t)) = IF s \in o.locks \/ n = 1
                                        THEN [View(o, t) EXCEPT !.tokens = @ \cup {s}]
                                        ELSE View(o, t)
    BY <1>0, <1>1 DEF Passed
  <2>9. /\ Implies([View(o, t) EXCEPT !.tokens = @ \cup {s}, !.ready = @ \cup {<<"sem", s>>}],
                   View(o, t)')
        /\ View(o, t)'.ready \subseteq View(o, t).ready
        /\ View(o, t)'.unset \subseteq View(o, t).unset
    <3>1. CASE s \in o.locks \/ n = 1
      BY <2>1, <2>8, <3>1 DEF Implies, FactNames
    <3>2. CASE ~ (s \in o.locks \/ n = 1)
      BY <2>1, <2>8, <3>2 DEF Implies, FactNames
    <3> QED BY <3>1, <3>2
  <2>10. \A u \in Tasks : View(o, u)'.unset \subseteq View(o, u).unset
    BY <2>1, <2>9
  <2>11. ASSUME s \notin o.locks, NEW u \in Tasks, s \in View(o, u)'.tokens
         PROVE  sync'.undo[ProcessOf(u)][s] >= 1
    <3>1. CASE u # t \/ s \in View(o, u).tokens
      <4>1. sync.undo[ProcessOf(u)][s] >= 1 /\ ProcessOf(u) \in Tasks
        BY <2>1, <2>11, <3>1, Parts DEF CountInv, TextsFit
      <4>2. ProcessOf(u) = p => sync'.undo[p][s] >= 1
        BY <2>1, <2>2, <2>3, <2>5, <2>7, <4>1
      <4> QED BY <2>7, <4>1, <4>2
    <3>2. CASE u = t /\ s \notin View(o, u).tokens
      <4>1. n = 1
        BY <2>1, <2>2, <2>8, <2>11, <3>2 DEF Implies
      <4> QED BY <1>0, <2>1, <2>3, <2>5, <2>7, <3>2, <4>1
    <3> QED BY <3>1, <3>2
  <2>12. ASSUME s \in o.locks PROVE LockSem(o, s)'
    <3>1. LockSem(o, s) /\ n = IF s \in o.undone THEN 1 ELSE 0
      BY <2>1, <2>2, <2>12
    <3>2. sync.sem[s] = 1
      BY <1>1, <1>3, <3>1 DEF LockSem
    <3>3. v = 0
      BY <2>5, <3>2
    <3>4. \A q \in Tasks : sync.undo[q][s] = 0
      BY <3>1, <3>2 DEF LockSem
    <3>5. c = n
      BY <2>1, <2>2, <2>5, <3>4
    <3>6. \A u \in Tasks : s \notin View(o, u).tokens /\ s \notin View(o, u).unset \cap o.undone
      BY <3>1, <3>2 DEF LockSem
    <3>7. \A u \in Tasks : s \in View(o, u)'.tokens => u = t
      BY <2>1, <3>6
    <3>8. \A u \in Tasks : s \notin View(o, u)'.unset \cap o.undone
      BY <2>10, <3>6
    <3>9. /\ \A q \in Tasks : sync'.undo[q][s] = IF q = p THEN n ELSE 0
          /\ sync'.sem[s] = 0
      BY <2>7, <3>3, <3>4, <3>5
    <3> QED BY <1>0, <1>1, <2>1, <3>1, <3>7, <3>8, <3>9, SameProgram DEF LockSem
  <2>13. v # None
    BY <2>5 DEF None
  <2>14. \A q \in Tasks : sync'.undo[q][s] \in Nat
    BY <2>3, <2>5, <2>7
  <2> QED BY <1>1, <2>1, <2>5, <2>7, <2>9, <2>11, <2>12, <2>13, <2>14, SemKeeps
<1> QED BY <1>2, <1>3

LEMMA SemPostKeeps ==
    ASSUME NEW o, IInv(o), NEW t \in Tasks, Running(t), SemPostCall(t)
    PROVE  IInv(o)'
<1>0. PICK s, n, p : s = Now(t).on /\ n = Now(t).n /\ p = ProcessOf(t)
  OBVIOUS
<1>1. Now(t).op = "sempost" /\ UNCHANGED program /\ task' = On(t) /\ sync' = SemAdd(t, s, 1)
  BY <1>0 DEF SemPostCall, Calls, KeepData
<1>2. /\ TaskShape' /\ WaitInv' /\ StatusKept
      /\ \A u \in Tasks \ {t} : View(o, u)' = View(o, u)
      /\ Implies(Passed(o, Now(t), View(o, t)), View(o, t)')
      /\ TokensFit(o, t, Now(t), View(o, t)) /\ s \in SemNames
      /\ DOMAIN View(o, t) = FactNames /\ SyncShape /\ CountInv(o) /\ ReadyInv(o)
      /\ s \in o.locks => LockSem(o, s)
      /\ p \in Tasks
  BY <1>0, <1>1, SemCall
<1>3. /\ n \in {0, 1} /\ (n = 1 => s \in View(o, t).tokens)
      /\ s \in o.locks => n = (IF s \in o.undone THEN 1 ELSE 0) /\ s \in View(o, t).tokens
      /\ s \in View(o, t).tokens \ o.locks => \A u \in Tasks \ {t} : ProcessOf(u) # p
  BY <1>0, <1>1, <1>2 DEF TokensFit
<1>4. /\ sync.sem[s] \in Nat \cup {None} /\ (\A q \in Tasks : sync.undo[q][s] \in Nat)
      /\ (s \in View(o, t).tokens \ o.locks => sync.undo[p][s] >= 1)
  BY <1>0, <1>2 DEF CountInv
<1>5. PICK v, c : v = sync.sem[s] + 1 /\ c = sync.undo[p][s] - 1 * n
  OBVIOUS
<1>6. s \in o.locks => c = 0
  <2>1. ASSUME s \in o.locks PROVE sync.undo[p][s] = n
    BY <1>0, <1>2, <1>3, <2>1 DEF LockSem
  <2> QED BY <1>2, <1>3, <1>5, <2>1
<1>7. v \in Nat /\ c \in Nat /\ (sync.sem[s] = 0 => v = 1) /\ (n = 0 => c = sync.undo[p][s])
  BY <1>2, <1>3, <1>4, <1>5, <1>6 DEF None
<1>8. sync' = [sync EXCEPT !.sem[s] = v, !.undo[p][s] = c]
  BY <1>0, <1>1, <1>5 DEF SemAdd
<1>17. SyncShape /\ UNCHANGED program /\ s \in SemNames /\ p \in Tasks
  BY <1>1, <1>2
<1>9. /\ SyncShape' /\ sync'.mutex = sync.mutex
      /\ sync'.barrier = sync.barrier /\ sync'.once = sync.once
      /\ \A x \in SemNames \ {s} : /\ sync'.sem[x] = sync.sem[x]
                                   /\ \A q \in Tasks : sync'.undo[q][x] = sync.undo[q][x]
      /\ sync'.sem[s] = v /\ sync'.undo[p][s] = c
      /\ \A q \in Tasks \ {p} : sync'.undo[q][s] = sync.undo[q][s]
  BY <1>8, <1>17, AddFacts
<1>10. Passed(o, Now(t), View(o, t)) = [View(o, t) EXCEPT !.tokens = @ \ {s}]
  BY <1>0, <1>1 DEF Passed
<1>11. /\ Implies([View(o, t) EXCEPT !.tokens = @ \cup {s}, !.ready = @ \cup {<<"sem", s>>}],
                  View(o, t)')
       /\ View(o, t)'.unset \subseteq View(o, t).unset
       /\ s \notin View(o, t)'.tokens
  BY <1>2, <1>10 DEF Implies, FactNames
<1>12. \A u \in Tasks : View(o, u)'.unset \subseteq View(o, u).unset
  BY <1>2, <1>11
<1>13. ASSUME s \notin o.locks, NEW u \in Tasks, s \in View(o, u)'.tokens
       PROVE  sync'.undo[ProcessOf(u)][s] >= 1
  <2>1. u # t /\ s \in View(o, u).tokens
    BY <1>2, <1>11, <1>13
  <2>2. sync.undo[ProcessOf(u)][s] >= 1 /\ ProcessOf(u) \in Tasks
    BY <1>2, <1>13, <2>1, Parts DEF CountInv, TextsFit
  <2>3. CASE n = 1
    BY <1>3, <1>9, <1>13, <2>1, <2>2, <2>3
  <2>4. CASE n = 0
    BY <1>7, <1>9, <2>2, <2>4
  <2> QED BY <1>3, <2>3, <2>4
<1>14. ASSUME s \in o.locks PROVE LockSem(o, s)'
  <2>1. LockSem(o, s) /\ s \in View(o, t).tokens /\ n = IF s \in o.undone THEN 1 ELSE 0
    BY <1>2, <1>3, <1>14
  <2>2. v = 1 /\ c = 0
    BY <1>6, <1>7, <1>14, <2>1 DEF LockSem
  <2>3. \A u \in Tasks : s \notin View(o, u)'.tokens
    BY <1>2, <1>11, <2>1 DEF LockSem
  <2>4. ASSUME NEW q \in Tasks PROVE sync'.undo[q][s] = 0
    <3>1. CASE q = p
      BY <1>9, <2>2, <3>1
    <3>2. CASE q # p
      <4>1. sync.undo[q][s] = 0
        BY <1>0, <1>2, <2>1, <3>2 DEF LockSem
      <4> QED BY <1>9, <3>2, <4>1
    <3> QED BY <3>1, <3>2
  <2>5. \A u \in Tasks : s \notin View(o, u)'.unset \cap o.undone
    <3>1. s \in o.undone => sync.undo[p][s] = 1
      BY <1>0, <2>1 DEF LockSem
    <3> QED BY <1>2, <1>12, <2>1, <3>1 DEF LockSem
  <2>6. sync'.sem[s] = 1
    BY <1>9, <2>2
  <2> QED BY <1>1, <2>1, <2>3, <2>4, <2>5, <2>6, SameProgram DEF LockSem
<1>15. v # None
  BY <1>7 DEF None
<1>16. \A q \in Tasks : sync'.undo[q][s] \in Nat
  BY <1>4, <1>7, <1>9
<1> QED BY <1>1, <1>2, <1>7, <1>9, <1>11, <1>13, <1>14, <1>15, <1>16, SemKeeps

-----------------------------------------------------------------------------
(* Beginnings and ends of tasks.                                           *)

\* A task that has waited for the end of another one.
LEMMA GoneKeeps ==
    ASSUME NEW o, IInv(o), UNCHANGED program, Quiet, NEW t \in Tasks, Running(t),
           Now(t).op \in {"join", "waitpid"}, NEW u, u = Now(t).on, ~ Live(u),
           Goes(t, task[t].pc + 1, "")
    PROVE  IInv(o)'
<1>1. Now(t).op \notin HandlerOps \cup {"jump", "exit", "end", "finish"}
  BY DEF HandlerOps
<1>2. /\ TaskShape' /\ WaitInv' /\ StatusKept
      /\ \A v \in Tasks \ {t} : View(o, v)' = View(o, v)
      /\ Implies(Passed(o, Now(t), View(o, t)), View(o, t)')
  BY <1>1, CallStep
<1> DEFINE f == View(o, t)
           g == View(o, t)'
<1>3. DOMAIN f = FactNames
  BY Parts, ViewShape
<1>4. Passed(o, Now(t), f) = [f EXCEPT !.gone = @ \cup (f.begun \cap {u})]
  BY DEF Passed
<1>5. /\ g.held \subseteq f.held /\ g.reads \subseteq f.reads /\ g.tokens \subseteq f.tokens
      /\ g.once \in {"no", f.once} /\ g.round \in {None, f.round} /\ g.serial \in {"no", f.serial}
      /\ g.begun \subseteq f.begun /\ g.gone \subseteq f.gone \cup (f.begun \cap {u})
      /\ g.unborn \subseteq f.unborn /\ g.unset \subseteq f.unset /\ g.ready \subseteq f.ready
  BY <1>2, <1>3, <1>4 DEF Implies, FactNames
<1> HIDE DEF f, g
<1>6. \A v \in Tasks : /\ View(o, v)'.held \subseteq View(o, v).held
                       /\ View(o, v)'.reads \subseteq View(o, v).reads
                       /\ View(o, v)'.tokens \subseteq View(o, v).tokens
                       /\ View(o, v)'.unset \subseteq View(o, v).unset
                       /\ View(o, v)'.once \in {"no", View(o, v).once}
                       /\ View(o, v)'.begun \subseteq View(o, v).begun
                       /\ View(o, v)'.gone
                             \subseteq View(o, v).gone \cup (View(o, v).begun \cap {u})
                       /\ View(o, v)'.unborn \subseteq View(o, v).unborn
                       /\ View(o, v)'.ready \subseteq View(o, v).ready
                       /\ View(o, v)'.round \in {None, View(o, v).round}
                       /\ View(o, v)'.serial \in {"no", View(o, v).serial}
  BY <1>2, <1>5 DEF f, g
<1>7. \A m : Mutex(m)' = Mutex(m)
  BY DEF Mutex, Quiet
<1>8. LockInv(o)'
  BY <1>6, <1>7, LockKept DEF IInv
<1>9. TokenInv(o)' /\ CountInv(o)' /\ OnceInv(o)'
  BY <1>6, TokenKept, CountKept, OnceKept DEF IInv, Quiet
<1>10. ReadyInv(o)' /\ RoundInv(o)'
  BY <1>6, <1>7, ReadyKept, RoundKept DEF IInv, Quiet
<1>11. LifeInv(o)'
  <2>1. LifeInv(o)
    BY DEF IInv
  <2>2. \A v \in Tasks : /\ (task'[v].st = "unborn") <=> (task[v].st = "unborn")
                         /\ Live(v)' => Live(v)
    BY <1>2 DEF StatusKept, Live
  <2>3. ASSUME NEW v \in Tasks
        PROVE  /\ \A x \in View(o, v)'.begun : x \in Tasks /\ task'[x].st # "unborn"
               /\ \A x \in View(o, v)'.gone : x \in Tasks /\ task'[x].st # "unborn" /\ ~ Live(x)'
               /\ \A x \in View(o, v)'.unborn : x \in Tasks /\ task'[x].st = "unborn"
    <3>1. /\ \A x \in View(o, v).begun : x \in Tasks /\ task[x].st # "unborn"
          /\ \A x \in View(o, v).gone : x \in Tasks /\ task[x].st # "unborn" /\ ~ Live(x)
          /\ \A x \in View(o, v).unborn : x \in Tasks /\ task[x].st = "unborn"
      BY <2>1 DEF LifeInv
    <3>2. ASSUME NEW x \in View(o, v)'.begun PROVE x \in Tasks /\ task'[x].st # "unborn"
      BY <1>6, <2>2, <3>1
    <3>3. ASSUME NEW x \in View(o, v)'.unborn PROVE x \in Tasks /\ task'[x].st = "unborn"
      BY <1>6, <2>2, <3>1
    <3>4. ASSUME NEW x \in View(o, v)'.gone
          PROVE  x \in Tasks /\ task'[x].st # "unborn" /\ ~ Live(x)'
      <4>1. x \in View(o, v).gone \/ (x \in View(o, v).begun /\ x = u)
        BY <1>6
      <4>2. x \in Tasks /\ task[x].st # "unborn" /\ ~ Live(x)
        BY <3>1, <4>1
      <4> QED BY <2>2, <4>2
    <3> QED BY <3>2, <3>3, <3>4
  <2> QED BY <2>3, SameProgram DEF LifeInv
<1> QED BY <1>2, <1>8, <1>9, <1>10, <1>11, OutlinedKept DEF IInv, Quiet

\* Task t brings u to life, which starts at its first position.
Births(t, u) ==
    /\ TaskFrame /\ \A v \in Tasks \ {t, u} : Still(v)
    /\ task'[t].pc = task[t].pc + 1 /\ task'[t].st = task[t].st /\ task'[t].wait = ""
    /\ task'[u].pc = task[u].pc /\ task'[u].st = "live" /\ task'[u].wait = task[u].wait

\* Only t relies on u being unborn.
LEMMA UnbornFacts ==
    ASSUME NEW o, IInv(o), NEW t \in Tasks, Running(t), Now(t).op \in {"create", "fork"},
           NEW u, u = Now(t).on
    PROVE  /\ u \in Tasks \ {t} /\ task[u].st = "unborn" /\ task[u].pc = 1 /\ task[u].wait = ""
           /\ Implies(Inherited(View(o, t), At(o, u, 1)), At(o, u, 1))
           /\ \A v \in Tasks \ {t} : u \notin View(o, v).unborn
           /\ u \notin At(o, u, 1).unborn
<1>1. Now(t).op \notin HandlerOps \cup {"finish"}
  BY DEF HandlerOps
<1>2. /\ u \in View(o, t).unborn /\ u \in Tasks \ {t}
      /\ \A g \in Elsewhere(o, t, Nothing) : u \notin g.unborn
      /\ Leads(o, Inherited(View(o, t), At(o, u, 1)), u, 1)
  BY <1>1, CallFact DEF CallFits, LivesFit
<1>3. task[u].st = "unborn" /\ task[u].pc = 1 /\ task[u].wait = ""
  BY <1>2 DEF IInv, LifeInv, WaitInv
<1>4. ASSUME NEW v \in Tasks \ {t} PROVE u \notin At(o, v, 1).unborn
  <2>1. CASE 1 \in Positions(v)
    <3>1. o.at[v][1] \in Elsewhere(o, t, Nothing)
      BY <2>1, NothingHas DEF Elsewhere
    <3> QED BY <1>2, <2>1, <3>1 DEF At
  <2>2. CASE 1 \notin Positions(v)
    BY <2>2, NothingHas DEF At
  <2> QED BY <2>1, <2>2
<1>5. ASSUME NEW v \in Tasks \ {t} PROVE u \notin View(o, v).unborn
  <2>1. CASE Live(v)
    BY <1>2, <2>1, SeenElsewhere, NothingHas DEF Implies
  <2>2. CASE task[v].st = "unborn"
    <3>1. View(o, v).unborn = At(o, v, 1).unborn
      BY <2>2 DEF View, Live, Nothing
    <3> QED BY <1>4, <3>1
  <2>3. CASE ~ Live(v) /\ task[v].st # "unborn"
    BY <2>3, NothingHas DEF View
  <2> QED BY <2>1, <2>2, <2>3
<1>6. Implies(Inherited(View(o, t), At(o, u, 1)), At(o, u, 1))
  BY <1>2 DEF Leads
<1> QED BY <1>2, <1>3, <1>4, <1>5, <1>6

LEMMA BirthStep ==
    ASSUME NEW o, IInv(o), UNCHANGED program, NEW t \in Tasks, Running(t),
           Now(t).op \in {"create", "fork"}, NEW u, u = Now(t).on, Births(t, u)
    PROVE  /\ TaskShape' /\ WaitInv'
           /\ \A v \in Tasks \ {t, u} : View(o, v)' = View(o, v)
           /\ Implies(Passed(o, Now(t), View(o, t)), View(o, t)')
           /\ View(o, u)' = At(o, u, 1)
<1>1. /\ TaskShape /\ WaitInv /\ TextsFit(o) /\ task[t].pc + 1 \in Nat \ {0}
      /\ u \in Tasks \ {t} /\ task[u].pc = 1 /\ task[u].wait = ""
  BY Parts, Beyond, UnbornFacts
<1>2. PICK k : k = task[t].pc + 1
  OBVIOUS
<1>3. TaskShape'
  <2>1. k \in Nat \ {0} /\ task'[t].pc = k /\ task'[u].pc = 1
    BY <1>1, <1>2 DEF Births
  <2>2. ASSUME NEW v \in Tasks PROVE task'[v].pc \in Nat \ {0}
    <3>1. CASE v \in {t, u}
      BY <2>1, <3>1
    <3>2. CASE v \notin {t, u}
      <4>1. Still(v) /\ task[v].pc \in Nat \ {0}
        BY <1>1, <3>2 DEF TaskShape, Births
      <4> QED BY <4>1 DEF Still
    <3> QED BY <3>1, <3>2
  <2> QED BY <2>2, SameProgram DEF TaskShape, Births, TaskFrame
<1>4. WaitInv'
  <2>1. ASSUME NEW v \in Tasks \ {t, u}
        PROVE  /\ task'[v].st = "live" /\ task'[v].wait # "" =>
                    /\ task'[v].wait \in DOMAIN WaitingCalls
                    /\ task'[v].pc \in Positions(v)
                    /\ Text(v)[task'[v].pc].op \in WaitingCalls[task'[v].wait]
               /\ task'[v].st = "unborn" => task'[v].pc = 1 /\ task'[v].wait = ""
    BY <1>1, StillWaits DEF Births
  <2>2. /\ task'[t].wait = "" /\ task'[t].st = "live"
        /\ task'[u].wait = "" /\ task'[u].st = "live"
    BY <1>1 DEF Births, Running, Live
  <2>3. WaitingCalls' = WaitingCalls
    BY DEF WaitingCalls
  <2> QED BY <2>1, <2>2, <2>3, SameProgram DEF WaitInv, Live
<1>5. \A v \in Tasks \ {t, u} : View(o, v)' = View(o, v)
  BY StillView DEF Births
<1>6. View(o, t)' = At(o, t, k)
  <2>1. task[t].pc' = k /\ task[t].wait' = "" /\ Live(t)'
    BY <1>2 DEF Births, Running, Live
  <2>2. At(o, t, task[t].pc)' = At(o, t, k)
    <3>1. Positions(t)' = Positions(t)
      BY SameProgram
    <3> QED BY <2>1, <3>1 DEF At
  <2>3. Facts(o, t)' = At(o, t, k)
    BY <2>1, <2>2 DEF Facts
  <2> QED BY <2>1, <2>3 DEF View
<1>7. View(o, u)' = At(o, u, 1)
  <2>1. task[u].pc' = 1 /\ task[u].wait' = "" /\ Live(u)'
    BY <1>1 DEF Births, Live
  <2>2. At(o, u, task[u].pc)' = At(o, u, 1)
    <3>1. Positions(u)' = Positions(u)
      BY SameProgram
    <3> QED BY <2>1, <3>1 DEF At
  <2>3. Facts(o, u)' = At(o, u, 1)
    BY <2>1, <2>2 DEF Facts
  <2> QED BY <2>1, <2>3 DEF View
<1>8. Implies(Passed(o, Now(t), View(o, t)), View(o, t)')
  <2>1. Now(t).op \notin HandlerOps \cup {"jump", "exit", "end", "finish"}
    BY DEF HandlerOps
  <2>2. Leads(o, Passed(o, Now(t), View(o, t)), t, k)
    BY <1>2, <2>1, CallFact DEF CallFits, FlowFits
  <2> QED BY <1>6, <2>2 DEF Leads
<1> QED BY <1>3, <1>4, <1>5, <1>7, <1>8

LEMMA BirthKeeps ==
    ASSUME NEW o, IInv(o), UNCHANGED program, Quiet, NEW t \in Tasks, Running(t),
           Now(t).op \in {"create", "fork"}, NEW u, u = Now(t).on, Births(t, u)
    PROVE  IInv(o)'
<1>1. /\ TaskShape' /\ WaitInv'
      /\ \A v \in Tasks \ {t, u} : View(o, v)' = View(o, v)
      /\ Implies(Passed(o, Now(t), View(o, t)), View(o, t)')
      /\ View(o, u)' = At(o, u, 1)
  BY BirthStep
<1>2. /\ u \in Tasks \ {t} /\ task[u].st = "unborn"
      /\ Implies(Inherited(View(o, t), At(o, u, 1)), At(o, u, 1))
      /\ \A v \in Tasks \ {t} : u \notin View(o, v).unborn
      /\ u \notin At(o, u, 1).unborn
  BY UnbornFacts
<1> DEFINE f == View(o, t)
           g == View(o, t)'
           h == At(o, u, 1)
<1>3. DOMAIN f = FactNames
  BY Parts, ViewShape
<1>4. Passed(o, Now(t), f) = [f EXCEPT !.begun = @ \cup {u}, !.unborn = @ \ {u}]
  BY DEF Passed
<1>5. /\ g.held \subseteq f.held /\ g.reads \subseteq f.reads /\ g.tokens \subseteq f.tokens
      /\ g.once \in {"no", f.once} /\ g.round \in {None, f.round} /\ g.serial \in {"no", f.serial}
      /\ g.begun \subseteq f.begun \cup {u} /\ g.gone \subseteq f.gone
      /\ g.unborn \subseteq f.unborn \ {u} /\ g.unset \subseteq f.unset /\ g.ready \subseteq f.ready
  BY <1>1, <1>3, <1>4 DEF Implies, FactNames
<1>6. /\ h.held = {} /\ h.reads = {} /\ h.tokens = {} /\ h.serial = "no"
      /\ h.once \in {"no", f.once} /\ h.once # "in"
      /\ h.begun \subseteq f.begun /\ h.gone \subseteq f.gone
      /\ h.unset \subseteq f.unset /\ h.ready \subseteq f.ready
  BY <1>2, <1>3 DEF Implies, Inherited, FactNames
<1>7. /\ View(o, u).round = h.round /\ View(o, u).unborn = h.unborn
  BY <1>2 DEF View, Live, Nothing
<1> HIDE DEF f, g, h
<1>8. \A v \in Tasks : /\ View(o, v)'.held \subseteq View(o, v).held
                       /\ View(o, v)'.reads \subseteq View(o, v).reads
                       /\ View(o, v)'.tokens \subseteq View(o, v).tokens
                       /\ View(o, v)'.round \in {None, View(o, v).round}
                       /\ View(o, v)'.serial \in {"no", View(o, v).serial}
                       /\ View(o, v)'.unborn \subseteq View(o, v).unborn \ {u}
                       /\ View(o, v)'.once = "in" => View(o, v).once = "in"
  <2>1. ASSUME NEW v \in Tasks
        PROVE  /\ View(o, v)'.held \subseteq View(o, v).held
               /\ View(o, v)'.reads \subseteq View(o, v).reads
               /\ View(o, v)'.tokens \subseteq View(o, v).tokens
               /\ View(o, v)'.round \in {None, View(o, v).round}
               /\ View(o, v)'.serial \in {"no", View(o, v).serial}
               /\ View(o, v)'.unborn \subseteq View(o, v).unborn \ {u}
               /\ View(o, v)'.once = "in" => View(o, v).once = "in"
    <3>1. CASE v = t
      BY <1>5, <3>1 DEF f, g
    <3>2. CASE v = u
      BY <1>1, <1>2, <1>6, <1>7, <3>2 DEF h
    <3>3. CASE v \notin {t, u}
      BY <1>1, <1>2, <3>3
    <3> QED BY <3>1, <3>2, <3>3
  <2> QED BY <2>1
<1>9. ASSUME NEW v \in Tasks
      PROVE  \E w \in Tasks :
               /\ View(o, v)'.unset \subseteq View(o, w).unset
               /\ View(o, v)'.ready \subseteq View(o, w).ready
               /\ View(o, v)'.begun \subseteq View(o, w).begun \cup {u}
               /\ View(o, v)'.gone \subseteq View(o, w).gone
               /\ View(o, v)'.once \in {"no", View(o, w).once}
  <2>1. CASE v = t
    BY <1>5, <2>1 DEF f, g
  <2>2. CASE v = u
    <3>1. /\ View(o, v)'.unset \subseteq View(o, t).unset
          /\ View(o, v)'.ready \subseteq View(o, t).ready
          /\ View(o, v)'.begun \subseteq View(o, t).begun \cup {u}
          /\ View(o, v)'.gone \subseteq View(o, t).gone
          /\ View(o, v)'.once \in {"no", View(o, t).once}
      BY <1>1, <1>6, <2>2 DEF f, h
    <3> QED BY <3>1
  <2>3. CASE v \notin {t, u}
    <3>1. View(o, v)' = View(o, v)
      BY <1>1, <2>3
    <3> QED BY <3>1
  <2> QED BY <2>1, <2>2, <2>3
<1>10. \A m : Mutex(m)' = Mutex(m)
  BY DEF Mutex, Quiet
<1>11. LockInv(o)'
  BY <1>8, <1>10, LockKept DEF IInv
<1>12. CountInv(o)' /\ RoundInv(o)'
  BY <1>8, CountKept, RoundKept DEF IInv, Quiet
<1>13. TokenInv(o)'
  <2>1. ASSUME NEW s \in o.locks PROVE LockSem(o, s)'
    <3>1. LockSem(o, s)
      BY <2>1 DEF IInv, TokenInv
    <3>2. sync'.sem = sync.sem /\ sync'.undo = sync.undo
      BY DEF Quiet
    <3>3. \A v \in Tasks : /\ s \in View(o, v)'.tokens => s \in View(o, v).tokens
                           /\ s \in View(o, v)'.unset => \E w \in Tasks : s \in View(o, w).unset
      BY <1>8, <1>9
    <3> QED BY <3>1, <3>2, <3>3, SameProgram DEF LockSem
  <2> QED BY <2>1 DEF TokenInv
<1>14. OnceInv(o)'
  <2>1. OnceInv(o) /\ sync'.once = sync.once
    BY DEF IInv, Quiet
  <2>2. \A v \in Tasks : /\ View(o, v)'.once = "in" => View(o, v).once = "in"
                         /\ View(o, v)'.once \in {"no", "in", "done"}
                         /\ View(o, v)'.once = "done" => sync.once = "done"
    BY <1>8, <1>9, <2>1 DEF OnceInv
  <2> QED BY <2>1, <2>2, SameProgram DEF OnceInv
<1>15. ReadyInv(o)'
  <2>1. ReadyInv(o) /\ sync'.sem = sync.sem /\ sync'.barrier = sync.barrier
    BY DEF IInv, Quiet
  <2>2. \A v \in Tasks : \A x \in View(o, v)'.ready : \E w \in Tasks : x \in View(o, w).ready
    BY <1>9
  <2> QED BY <1>10, <2>1, <2>2, SameProgram DEF ReadyInv, Usable
<1>16. LifeInv(o)'
  <2>1. \A v \in Tasks :
          /\ \A x \in View(o, v).begun : x \in Tasks /\ task[x].st # "unborn"
          /\ \A x \in View(o, v).gone : x \in Tasks /\ task[x].st # "unborn" /\ ~ Live(x)
          /\ \A x \in View(o, v).unborn : x \in Tasks /\ task[x].st = "unborn"
    BY DEF IInv, LifeInv
  <2>2. \A x \in Tasks \ {u} : task'[x].st = task[x].st
    BY DEF Births, Still
  <2>3. task'[u].st = "live"
    BY DEF Births
  <2>4. \A v \in Tasks : \A x \in View(o, v)'.begun : x \in Tasks /\ task'[x].st # "unborn"
    BY <1>2, <1>9, <2>1, <2>2, <2>3
  <2>5. \A v \in Tasks : \A x \in View(o, v)'.gone :
             x \in Tasks /\ task'[x].st # "unborn" /\ ~ Live(x)'
    <3>1. \A v \in Tasks : \A x \in View(o, v)'.gone :
               x \in Tasks \ {u} /\ task[x].st # "unborn" /\ task[x].st # "live"
      BY <1>2, <1>9, <2>1 DEF Live
    <3> QED BY <2>2, <3>1 DEF Live
  <2>6. \A v \in Tasks : \A x \in View(o, v)'.unborn : x \in Tasks /\ task'[x].st = "unborn"
    BY <1>8, <2>1, <2>2
  <2> QED BY <2>4, <2>5, <2>6, SameProgram DEF LifeInv
<1> QED BY <1>1, <1>11, <1>12, <1>13, <1>14, <1>15, <1>16, OutlinedKept DEF IInv, Quiet

LEMMA CreateKeeps ==
    ASSUME NEW o, IInv(o), NEW t \in Tasks, Running(t), CreateCall(t)
    PROVE  IInv(o)'
<1>1. UNCHANGED << program, sync >> /\ Quiet /\ TaskShape
  BY QuietSame DEF CreateCall, KeepBoth, IInv
<1>2. PICK u : u = Now(t).on
  OBVIOUS
<1>3. Now(t).op = "create" /\ task' = [On(t) EXCEPT ![u].st = "live"]
  BY <1>2 DEF CreateCall, Calls
<1>4. u \in Tasks \ {t} /\ task[u].wait = ""
  BY <1>2, <1>3, UnbornFacts
<1>5. Births(t, u)
  BY <1>1, <1>3, <1>4 DEF TaskShape, Births, On, TaskFrame, Still, Running
<1> QED BY <1>1, <1>2, <1>3, <1>5, BirthKeeps

LEMMA ForkKeeps ==
    ASSUME NEW o, IInv(o), NEW t \in Tasks, Running(t), ForkCall(t)
    PROVE  IInv(o)'
<1>1. UNCHANGED << program, sync >> /\ Quiet /\ TaskShape
  BY QuietSame DEF ForkCall, KeepSync, IInv
<1>2. PICK u : u = Now(t).on
  OBVIOUS
<1>3. /\ Now(t).op = "fork"
      /\ task' = [On(t) EXCEPT ![u].st = "live", ![u].parent = t,
                       ![u].flag = task[t].flag, ![u].handler = task[t].handler,
                       ![u].atexit = task[t].atexit, ![u].left = task[t].left,
                       ![u].queue = task[t].queue]
  BY <1>2 DEF ForkCall, Calls
<1>4. u \in Tasks \ {t} /\ task[u].wait = ""
  BY <1>2, <1>3, UnbornFacts
<1>5. PICK a, b, c, d, e : /\ a = task[t].flag /\ b = task[t].handler /\ c = task[t].atexit
                           /\ d = task[t].left /\ e = task[t].queue
  OBVIOUS
<1>6. task' = [On(t) EXCEPT ![u] = [@ EXCEPT !.st = "live", !.parent = t, !.flag = a,
                       !.handler = b, !.atexit = c, !.left = d, !.queue = e]]
  BY <1>3, <1>5
<1>7. Births(t, u)
  BY <1>1, <1>6, <1>4 DEF TaskShape, Births, On, TaskFrame, Still, Running
<1> QED BY <1>1, <1>2, <1>3, <1>7, BirthKeeps

LEMMA JoinKeeps ==
    ASSUME NEW o, IInv(o), NEW t \in Tasks, Running(t), Open(t), JoinCall(t)
    PROVE  IInv(o)'
<1>1. UNCHANGED << program, sync >> /\ Quiet /\ TaskShape
  BY QuietSame DEF JoinCall, KeepBoth, IInv
<1>2. Now(t).op = "join" /\ Goes(t, task[t].pc + 1, "")
  BY <1>1, OnGoes DEF JoinCall, Calls
<1>3. PICK u : u = Now(t).on
  OBVIOUS
<1>4. ~ Live(u)
  BY <1>2, <1>3 DEF Open
<1> QED BY <1>1, <1>2, <1>3, <1>4, GoneKeeps

LEMMA WaitKeeps ==
    ASSUME NEW o, IInv(o), NEW t \in Tasks, Running(t), Open(t), WaitCall(t)
    PROVE  IInv(o)'
<1>1. UNCHANGED << program, sync >> /\ Quiet /\ TaskShape
  BY QuietSame DEF WaitCall, KeepBoth, IInv
<1>2. CASE Now(t).op = "waitpid"
  <2>1. PICK u : u = Now(t).on
    OBVIOUS
  <2>2. ~ Live(u)
    BY <1>2, <2>1 DEF Open
  <2>3. task' = [On(t) EXCEPT ![u].reaped = TRUE]
    BY <1>2, <2>1 DEF WaitCall, Calls
  <2>4. Goes(t, task[t].pc + 1, "")
    BY <1>1, <2>3 DEF TaskShape, Running, On, Goes, TaskFrame, Still
  <2> QED BY <1>1, <1>2, <2>1, <2>2, <2>4, GoneKeeps
<1>3. CASE Now(t).op = "waitany"
  <2>1. Now(t).op \notin Strengthening \cup HandlerOps \cup {"jump", "exit", "end", "finish"}
    BY <1>3 DEF Strengthening, HandlerOps
  <2>2. CASE task' = Failed(t)
    BY <1>1, <2>1, <2>2, FailingKeeps
  <2>3. CASE task' # Failed(t)
    <3>1. PICK u : task' = [On(t) EXCEPT ![u].reaped = TRUE]
      BY <1>3, <2>3 DEF WaitCall, Calls
    <3>2. Goes(t, task[t].pc + 1, "")
      BY <1>1, <3>1 DEF TaskShape, Running, On, Goes, TaskFrame, Still
    <3> QED BY <1>1, <2>1, <3>2, NeutralOn
  <2> QED BY <2>2, <2>3
<1> QED BY <1>2, <1>3 DEF WaitCall, Calls

-----------------------------------------------------------------------------
(* The invariant from the beginning, and in every step.                    *)

LEMMA FirstFacts ==
    ASSUME NEW o, Outlined(o), Init, NEW t \in Tasks
    PROVE  /\ task[t] = NewTask(t)
           /\ View(o, t).held = {} /\ View(o, t).reads = {} /\ View(o, t).tokens = {}
           /\ View(o, t).once = "no" /\ View(o, t).serial = "no" /\ View(o, t).round \in {None, 0}
           /\ View(o, t).begun = {} /\ View(o, t).gone = {}
           /\ View(o, t).unborn \subseteq Tasks \ program.started
           /\ View(o, t).ready \subseteq {"mutex"} \X (MutexNames \cap {"stdout"})
<1>1. /\ task[t] = NewTask(t) /\ task[t].pc = 1 /\ task[t].wait = ""
      /\ task[t].st = IF t \in program.started THEN "live" ELSE "unborn"
  BY DEF Init, NewTask
<1>2. /\ At(o, t, 1).round \in {None, 0} /\ At(o, t, 1).unborn \subseteq Tasks \ program.started
  BY DEF Outlined, StartFits
<1>3. CASE t \in program.started
  <2>1. View(o, t) = At(o, t, 1)
    BY <1>1, <1>3 DEF View, Live, Facts
  <2>2. /\ At(o, t, 1).held = {} /\ At(o, t, 1).reads = {} /\ At(o, t, 1).tokens = {}
        /\ At(o, t, 1).once = "no" /\ At(o, t, 1).serial = "no"
        /\ At(o, t, 1).begun = {} /\ At(o, t, 1).gone = {}
        /\ At(o, t, 1).ready \subseteq {"mutex"} \X (MutexNames \cap {"stdout"})
    BY <1>3 DEF Outlined, StartFits, Implies, Nothing
  <2> QED BY <1>1, <1>2, <2>1, <2>2
<1>4. CASE t \notin program.started
  <2>1. View(o, t) = [Nothing EXCEPT !.round = At(o, t, 1).round, !.unborn = At(o, t, 1).unborn]
    BY <1>1, <1>4 DEF View, Live
  <2>2. PICK a, b : a = At(o, t, 1).round /\ b = At(o, t, 1).unborn
    OBVIOUS
  <2>3. View(o, t) = [Nothing EXCEPT !.round = a, !.unborn = b]
    BY <2>1, <2>2
  <2> QED BY <1>1, <1>2, <2>2, <2>3 DEF Nothing
<1> QED BY <1>3, <1>4

LEMMA FirstState ==
    ASSUME NEW o, Outlined(o), Init
    PROVE  IInv(o)
<1>1. TextsFit(o)
  BY DEF Outlined
<1>2. TaskShape /\ WaitInv
  <2>1. ASSUME NEW t \in Tasks
        PROVE  /\ {"pc", "st", "wait"} \subseteq DOMAIN task[t]
               /\ task[t].pc = 1 /\ task[t].wait = ""
    BY DEF Init, NewTask
  <2>2. DOMAIN task = Tasks
    BY DEF Init
  <2>3. TaskShape
    <3>1. ASSUME NEW t \in Tasks PROVE task[t].pc \in Nat \ {0}
      <4>1. task[t].pc = 1
        BY <2>1
      <4> QED BY ONLY <4>1
    <3> QED BY <2>1, <2>2, <3>1 DEF TaskShape
  <2> QED BY <2>1, <2>3 DEF WaitInv
<1>3. /\ sync.mutex = [m \in MutexNames |-> [kind |-> IF m = "stdout" THEN "normal" ELSE "raw",
                                          owner |-> None, depth |-> 0, readers |-> {}]]
      /\ sync.sem = [s \in SemNames |-> None]
      /\ sync.undo = [t \in Tasks |-> [s \in SemNames |-> 0]]
      /\ sync.barrier = [b \in BarrierNames |-> 0] /\ sync.once = "never"
      /\ {"mutex", "sem", "undo", "barrier", "once", "early"} \subseteq DOMAIN sync
  BY DEF Init
<1>4. SyncShape
  BY <1>3 DEF SyncShape
<1>5. LockInv(o)
  BY <1>3, FirstFacts DEF LockInv, Mutex
<1>6. TokenInv(o) /\ CountInv(o)
  <2>1. /\ o.locks \subseteq SemNames /\ None # 1
        /\ \A s \in SemNames : sync.sem[s] = None /\ \A p \in Tasks : sync.undo[p][s] = 0
        /\ \A t \in Tasks : View(o, t).tokens = {}
    BY <1>1, <1>3, FirstFacts DEF TextsFit, None
  <2> QED BY <2>1 DEF TokenInv, LockSem, CountInv
<1>7. OnceInv(o) /\ RoundInv(o)
  BY <1>3, FirstFacts DEF OnceInv, RoundInv, Crew
<1>8. LifeInv(o)
  <2>1. ASSUME NEW x \in Tasks \ program.started PROVE task[x].st = "unborn"
    BY DEF Init, NewTask
  <2> QED BY <2>1, FirstFacts DEF LifeInv
<1>9. ReadyInv(o)
  <2>1. \A t \in Tasks : \A x \in View(o, t).ready :
            x = <<"mutex", "stdout">> /\ "stdout" \in MutexNames
    BY FirstFacts
  <2>2. "stdout" \in MutexNames => Usable("stdout")
    BY <1>3 DEF Usable, Mutex
  <2> QED BY <1>3, <2>1, <2>2 DEF ReadyInv
<1> QED BY <1>2, <1>4, <1>5, <1>6, <1>7, <1>8, <1>9 DEF IInv

LEMMA StutterKeeps ==
    ASSUME NEW o, IInv(o), UNCHANGED vars
    PROVE  IInv(o)'
<1>1. UNCHANGED << program, sync >> /\ TaskShape /\ task' = task
  BY DEF vars, IInv
<1>2. Quiet
  BY <1>1, QuietSame
<1>3. TaskFrame /\ \A u \in Tasks : Still(u)
  BY <1>1 DEF TaskShape, TaskFrame, Still
<1> QED BY <1>1, <1>2, <1>3, NeutralStill

LEMMA ThreadKeeps ==
    ASSUME NEW o, IInv(o), NEW t \in Tasks, Running(t), Open(t), ThreadStep(t)
    PROVE  IInv(o)'
<1>1. CASE CreateCall(t) \/ JoinCall(t) \/ EndCall(t)
  BY <1>1, CreateKeeps, JoinKeeps, LeavingKeeps
<1>2. CASE MutexInitCall(t) \/ MutexDestroyCall(t) \/ LockCall(t) \/ ReadLockCall(t)
  BY <1>2, MutexInitKeeps, MutexDestroyKeeps, LockKeeps, ReadLockKeeps
<1>3. CASE TryLockCall(t) \/ TimedLockCall(t) \/ UnlockCall(t) \/ CondWaitCall(t)
  BY <1>3, TryLockKeeps, TimedLockKeeps, UnlockKeeps, CondWaitKeeps
<1>4. CASE CondSignalCall(t) \/ CondBroadcastCall(t)
  BY <1>4, PlainKeeps
<1>5. CASE BarrierInitCall(t) \/ BarrierWaitCall(t) \/ OnceCall(t) \/ OnceDoneCall(t)
  BY <1>5, BarrierInitKeeps, BarrierWaitKeeps, OnceCallKeeps, OnceDoneKeeps
<1> QED BY <1>1, <1>2, <1>3, <1>4, <1>5 DEF ThreadStep

LEMMA ProcessKeeps ==
    ASSUME NEW o, IInv(o), NEW t \in Tasks, Running(t), Open(t), ProcessStep(t)
    PROVE  IInv(o)'
<1>1. CASE \/ SleepCall(t) \/ FutureCall(t) \/ AtExitCall(t) \/ OnSignalCall(t) \/ RestoreCall(t)
           \/ KillCall(t)
  BY <1>1, PlainKeeps
<1>2. CASE Test(t) \/ ForkCall(t) \/ WaitCall(t)
  BY <1>2, TestKeeps, ForkKeeps, WaitKeeps
<1>3. CASE ExitCall(t) \/ Finish(t) \/ PauseCall(t)
  BY <1>3, LeavingKeeps, EndingKeeps, PauseKeeps
<1> QED BY <1>1, <1>2, <1>3 DEF ProcessStep

LEMMA DataStepKeeps ==
    ASSUME NEW o, IInv(o), NEW t \in Tasks, Running(t), Open(t), DataStep(t)
    PROVE  IInv(o)'
<1>1. CASE \/ SemOpenCall(t) \/ SemSetCall(t) \/ SemWaitCall(t) \/ SemPostCall(t)
           \/ SemRemoveCall(t)
  BY <1>1, SemOpenKeeps, SemSetKeeps, SemWaitKeeps, SemPostKeeps, SemRemoveKeeps
<1>2. CASE \/ ShmRemoveCall(t) \/ MsgGetCall(t) \/ MsgRemoveCall(t) \/ PipeOpenCall(t)
           \/ PipeReadCall(t) \/ PipeCloseCall(t) \/ WriteCall(t) \/ FileCall(t) \/ SortCall(t)
  BY <1>2, DataKeeps
<1>3. CASE ShmGetCall(t) \/ MsgSendCall(t) \/ MsgReceiveCall(t)
  BY <1>3, MessagesKeep
<1>4. CASE PipeWriteCall(t) \/ LoadCall(t) \/ GetLineCall(t)
  BY <1>4, EndingKeeps, PlainKeeps, GetLineKeeps
<1> QED BY <1>1, <1>2, <1>3, <1>4 DEF DataStep

LEMMA NextKeeps ==
    ASSUME NEW o, IInv(o), [Next]_vars
    PROVE  IInv(o)'
<1>1. CASE \E t \in Tasks : Step(t)
  <2>1. PICK t \in Tasks : Step(t)
    BY <1>1
  <2>2. CASE Running(t) /\ Open(t) /\ (ThreadStep(t) \/ ProcessStep(t) \/ DataStep(t))
    BY <2>2, ThreadKeeps, ProcessKeeps, DataStepKeeps
  <2>3. CASE Relock(t) \/ StuckEnds(t) \/ Deliver(t)
    BY <2>3, RelockKeeps, StuckKeeps, DeliverKeeps
  <2> QED BY <2>1, <2>2, <2>3 DEF Step
<1>2. CASE Tick \/ \E t \in Tasks : CondWakes(t)
  BY <1>2, TimeKeeps
<1>3. CASE UNCHANGED vars
  BY <1>3, StutterKeeps
<1> QED BY <1>1, <1>2, <1>3 DEF Next

\* Whatever the texts and the interleaving: with an outline that fits in the
\* beginning, every task may rely on the facts of its position.
THEOREM Invariance == ASSUME NEW o PROVE Outlined(o) /\ Spec => []IInv(o)
<1>1. Outlined(o) /\ Init => IInv(o)
  BY FirstState
<1>2. IInv(o) /\ [Next]_vars => IInv(o)'
  BY NextKeeps
<1> QED BY <1>1, <1>2, PTL DEF Spec

-----------------------------------------------------------------------------
(* What the outline is for: no races.                                      *)

\* Nobody who meets the others at the barrier has it behind him before all of them
\* have been started.
LEMMA Late ==
    ASSUME NEW o, IInv(o), NEW t \in Tasks, NEW u \in Crew, NEW v \in Crew,
           v \in View(o, t).unborn
    PROVE  ~ (None # At(o, v, 1).round /\ View(o, u).round \notin {None, At(o, v, 1).round})
<1>1. task[v].st = "unborn"
  BY DEF IInv, LifeInv
<1>2. View(o, v) = [Nothing EXCEPT !.round = At(o, v, 1).round, !.unborn = At(o, v, 1).unborn]
  BY <1>1 DEF View, Live
<1>3. PICK a, b : a = At(o, v, 1).round /\ b = At(o, v, 1).unborn
  OBVIOUS
<1>4. View(o, v).round = a
  BY <1>2, <1>3 DEF Nothing
<1>5. View(o, v).round # None /\ View(o, u).round # None => View(o, v).round = View(o, u).round
  BY DEF IInv, RoundInv
<1> QED BY <1>3, <1>4, <1>5

\* What an outline excludes does not happen.
LEMMA Excluded ==
    ASSUME NEW o, IInv(o), NEW t \in Tasks, NEW u \in Tasks \ {t}, Live(t), Live(u)
    PROVE  ~ Exclude(o, t, View(o, t), u, View(o, u))
<1> DEFINE f == View(o, t)
           g == View(o, u)
<1>1. f.held \cap (g.held \cup g.reads) = {} /\ f.reads \cap g.held = {}
  <2>1. LockInv(o) /\ None \notin Tasks
    BY DEF IInv, None, Tasks
  <2> QED BY <2>1 DEF LockInv
<1>2. o.locks \cap f.tokens \cap g.tokens = {}
  BY DEF IInv, TokenInv, LockSem
<1>3. ~ (f.once = "in" /\ g.once # "no") /\ ~ (g.once = "in" /\ f.once # "no")
  BY DEF IInv, OnceInv
<1>4. u \notin f.gone \cup f.unborn /\ t \notin g.gone \cup g.unborn
  BY DEF IInv, LifeInv, Live
<1>5. t \in Crew /\ u \in Crew =>
        /\ ~ (f.round # None /\ g.round # None /\ f.round # g.round)
        /\ ~ (f.serial = "yes" /\ g.serial = "yes")
  BY DEF IInv, RoundInv
<1>6. u \in Crew => ~ TooEarly(o, f, g)
  BY Late DEF TooEarly
<1>7. t \in Crew => ~ TooEarly(o, g, f)
  BY Late DEF TooEarly
<1> HIDE DEF f, g
<1>8. ~ Exclude(o, t, f, u, g)
  BY <1>1, <1>2, <1>3, <1>4, <1>5, <1>6, <1>7 DEF Exclude
<1> QED BY <1>8 DEF f, g

\* Behind its text a task neither writes nor reads a variable.
LEMMA BehindText ==
    ASSUME NEW o, IInv(o), NEW t \in Tasks, task[t].pc \notin Positions(t),
           \A k \in DOMAIN HandlerText : WritesOf(HandlerText[k]) = {}
    PROVE  Writes(t) = {} /\ Reads(t) = {}
<1>1. CASE Now(t).op = "finish"
  BY <1>1 DEF Writes, Reads, WritesOf, ReadsOf
<1>2. CASE \E k \in DOMAIN HandlerText : Now(t) = HandlerText[k]
  <2>1. PICK k \in DOMAIN HandlerText : Now(t) = HandlerText[k]
    BY <1>2
  <2>2. HandlerText[k].op \in {"sleep", "put", "filewrite", "stdiowrite", "kill", "msgremove",
                               "shmremove"}
    BY Parts DEF TextsFit
  <2>3. ReadsOf(HandlerText[k]) = {}
    BY <2>2 DEF ReadsOf
  <2> QED BY <2>1, <2>3 DEF Writes, Reads
<1> QED BY <1>1, <1>2, NowFacts, Parts

LEMMA NoConflict ==
    ASSUME NEW o, IInv(o), Separate(o), NEW t \in Tasks, NEW u \in Tasks, t # u
    PROVE  ~ Conflict(t, u)
<1> SUFFICES ASSUME Running(t), Running(u), Writes(t) \cap (Writes(u) \cup Reads(u)) # {}
             PROVE  FALSE
  BY DEF Conflict
<1>1. \A k \in DOMAIN HandlerText : WritesOf(HandlerText[k]) = {}
  BY DEF Separate
<1>2. task[t].pc \in Positions(t) /\ task[u].pc \in Positions(u)
  BY <1>1, BehindText
<1>3. Now(t) = Text(t)[task[t].pc] /\ Now(u) = Text(u)[task[u].pc]
  BY <1>2, NowFacts, Parts
<1>4. PICK k \in Positions(t), j \in Positions(u) : k = task[t].pc /\ j = task[u].pc
  BY <1>2
<1>5. WritesOf(Text(t)[k]) \cap (WritesOf(Text(u)[j]) \cup ReadsOf(Text(u)[j])) # {}
  BY <1>3, <1>4 DEF Writes, Reads
<1>6. Exclude(o, t, o.at[t][k], u, o.at[u][j])
  BY <1>5 DEF Separate
<1>7. View(o, t) = o.at[t][k] /\ View(o, u) = o.at[u][j] /\ Live(t) /\ Live(u)
  BY <1>4, RunningView DEF At
<1> QED BY <1>6, <1>7, Excluded

LEMMA SeparateKept ==
    ASSUME NEW o, Separate(o), UNCHANGED program
    PROVE  Separate(o)'
<1>1. \A t, u, f, g : Exclude(o, t, f, u, g)' <=> Exclude(o, t, f, u, g)
  BY SameProgram DEF Exclude, TooEarly, At
<1> QED BY <1>1, SameProgram DEF Separate, WritesOf, ReadsOf

LEMMA PreparedKept ==
    ASSUME NEW o, Prepared(o), UNCHANGED program
    PROVE  Prepared(o)'
BY SameProgram DEF Prepared, Object

LEMMA ProgramKept ==
    ASSUME [Next]_vars
    PROVE  UNCHANGED program
<1>1. CASE \E t \in Tasks : Step(t)
  <2>1. PICK t \in Tasks : Step(t)
    BY <1>1
  <2>2. CASE ThreadStep(t)
    BY <2>2 DEF ThreadStep, CreateCall, JoinCall, EndCall, MutexInitCall, MutexDestroyCall,
       LockCall, ReadLockCall, TryLockCall, TimedLockCall, UnlockCall, CondWaitCall,
       CondSignalCall, CondBroadcastCall, BarrierInitCall, BarrierWaitCall, OnceCall,
       OnceDoneCall, KeepBoth, KeepData, KeepSync
  <2>3. CASE ProcessStep(t)
    BY <2>3 DEF ProcessStep, Test, SleepCall, FutureCall, ForkCall, WaitCall, ExitCall,
       AtExitCall, Finish, OnSignalCall, RestoreCall, KillCall, PauseCall, ProcessEnds,
       KeepBoth, KeepData, KeepSync
  <2>4. CASE DataStep(t)
    BY <2>4 DEF DataStep, SemOpenCall, SemSetCall, SemWaitCall, SemPostCall, SemRemoveCall,
       ShmGetCall, ShmRemoveCall, MsgGetCall, MsgSendCall, MsgReceiveCall, MsgRemoveCall,
       PipeOpenCall, PipeWriteCall, PipeReadCall, PipeCloseCall, LoadCall, WriteCall,
       GetLineCall, FileCall, SortCall, ProcessEnds, KeepBoth, KeepData, KeepSync
  <2>5. CASE Relock(t) \/ StuckEnds(t) \/ Deliver(t)
    BY <2>5 DEF Relock, StuckEnds, Deliver, ProcessEnds, KeepBoth, KeepData
  <2> QED BY <2>1, <2>2, <2>3, <2>4, <2>5 DEF Step
<1>2. CASE Tick \/ (\E t \in Tasks : CondWakes(t)) \/ UNCHANGED vars
  BY <1>2 DEF Tick, CondWakes, KeepBoth, vars
<1> QED BY <1>1, <1>2 DEF Next

\* Whatever the texts and the interleaving: if accesses to the same variable
\* exclude each other in an outline that fits, then no two tasks are about to
\* access a variable, one of them writing.
THEOREM RaceFree == ASSUME NEW o PROVE Outlined(o) /\ Separate(o) /\ Spec => []NoDataRace
<1>1. Outlined(o) /\ Separate(o) /\ Init => IInv(o) /\ Separate(o)
  BY FirstState
<1>2. IInv(o) /\ Separate(o) /\ [Next]_vars => IInv(o)' /\ Separate(o)'
  BY NextKeeps, SeparateKept, ProgramKept
<1>3. IInv(o) /\ Separate(o) => NoDataRace
  BY NoConflict DEF NoDataRace
<1> QED BY <1>1, <1>2, <1>3, PTL DEF Spec

-----------------------------------------------------------------------------
(* What the outline is for: what is used is ready.                         *)

\* A step uses nothing that is not ready.
Timely == ~ sync.early => ~ sync'.early

UsingOps == {"lock", "trylock", "timedlock", "readlock", "condwait", "condtimedwait"}

LEMMA PreparedUse ==
    ASSUME NEW o, IInv(o), Prepared(o), NEW t \in Tasks, Live(t), task[t].pc \in Positions(t),
           Now(t) = Text(t)[task[t].pc], Now(t).op \in UsingOps
    PROVE  /\ Now(t).op \in {"condwait", "condtimedwait"} /\ Now(t).arg \in MutexNames
                => Usable(Now(t).arg)
           /\ Now(t).op \notin {"condwait", "condtimedwait"} /\ Now(t).on \in MutexNames
                => Usable(Now(t).on)
<1>1. Object(Now(t)) \in o.at[t][task[t].pc].ready
  BY DEF Prepared, UsingOps
<1>2. View(o, t).ready = At(o, t, task[t].pc).ready
  <2>1. DOMAIN At(o, t, task[t].pc) = FactNames
    BY AtShape, Parts
  <2> QED BY <2>1 DEF View, Facts, FactNames
<1>3. Object(Now(t)) \in View(o, t).ready
  BY <1>1, <1>2 DEF At
<1>4. \A m \in MutexNames : <<"mutex", m>> \in View(o, t).ready => Usable(m)
  BY DEF IInv, ReadyInv
<1> QED BY <1>3, <1>4 DEF Object, UsingOps

LEMMA UsingReady ==
    ASSUME SyncShape, NEW m, Usable(m), NEW t, sync' = Using(m, Taken(t, m))
    PROVE  Timely
<1>1. "early" \in DOMAIN Taken(t, m) /\ Taken(t, m).early = sync.early
  BY DEF SyncShape, Taken
<1>2. Using(m, Taken(t, m)).early = (sync.early \/ ~ Usable(m))
  BY <1>1 DEF Using
<1> QED BY <1>2 DEF Timely

LEMMA MutexTimely ==
    ASSUME NEW o, IInv(o), Prepared(o), NEW t \in Tasks, Running(t),
           LockCall(t) \/ TryLockCall(t) \/ TimedLockCall(t) \/ ReadLockCall(t)
    PROVE  Timely
<1>1. PICK m : m = Now(t).on
  OBVIOUS
<1>2. Now(t).op \in {"lock", "trylock", "timedlock", "readlock"} /\ SyncShape /\ Live(t)
  BY DEF LockCall, TryLockCall, TimedLockCall, ReadLockCall, Calls, IInv, Running
<1>3. /\ task[t].pc \in Positions(t) /\ Now(t) = Text(t)[task[t].pc]
      /\ LocksFit(o, t, Now(t), At(o, t, task[t].pc))
  BY <1>2, WithinText DEF IInv, HandlerOps, CallFits
<1>4. m \in MutexNames
  BY <1>1, <1>2, <1>3 DEF LocksFit
<1>5. Usable(m)
  BY <1>1, <1>2, <1>3, <1>4, PreparedUse DEF UsingOps
<1>6. \/ sync' = sync \/ sync' = Using(m, Taken(t, m))
      \/ sync' = [sync EXCEPT !.mutex[m].depth = @ + 1]
      \/ sync' = Using(m, [sync EXCEPT !.mutex[m].readers = @ \cup {t}])
  BY <1>1 DEF LockCall, TryLockCall, TimedLockCall, ReadLockCall
<1>7. CASE sync' = [sync EXCEPT !.mutex[m].depth = @ + 1]
  BY <1>2, <1>7 DEF Timely, SyncShape
<1>8. CASE sync' = Using(m, [sync EXCEPT !.mutex[m].readers = @ \cup {t}])
  <2> DEFINE s == [sync EXCEPT !.mutex[m].readers = @ \cup {t}]
  <2>1. "early" \in DOMAIN s /\ s.early = sync.early
    BY <1>2 DEF SyncShape
  <2>2. Using(m, s).early = (sync.early \/ ~ Usable(m))
    BY <2>1 DEF Using
  <2> QED BY <1>5, <1>8, <2>2 DEF Timely
<1>9. CASE sync' = Using(m, Taken(t, m))
  BY <1>2, <1>5, <1>9, UsingReady
<1>10. CASE sync' = sync
  BY <1>10 DEF Timely
<1> QED BY <1>6, <1>7, <1>8, <1>9, <1>10

LEMMA RelockTimely ==
    ASSUME NEW o, IInv(o), Prepared(o), NEW t \in Tasks, Relock(t)
    PROVE  Timely
<1>1. Live(t) /\ task[t].wait = "relock" /\ SyncShape
  BY DEF Relock, IInv
<1>2. /\ task[t].pc \in Positions(t) /\ Now(t) = Text(t)[task[t].pc]
      /\ Now(t).op \in {"condwait", "condtimedwait"}
  BY <1>1, WaitingFact
<1>3. Now(t).arg \in MutexNames
  BY <1>1, <1>2 DEF IInv, Outlined, CallFits, LocksFit
<1>4. Usable(Now(t).arg)
  BY <1>1, <1>2, <1>3, PreparedUse DEF UsingOps
<1> QED BY <1>1, <1>4, UsingReady DEF Relock

LEMMA SemTimely ==
    ASSUME NEW o, IInv(o), Prepared(o), NEW t \in Tasks, Running(t), SemWaitCall(t)
    PROVE  Timely
<1>1. PICK s : s = Now(t).on
  OBVIOUS
<1>2. Now(t).op = "semwait" /\ SyncShape
  BY DEF SemWaitCall, Calls, IInv
<1>3. /\ task[t].pc \in Positions(t) /\ Now(t) = Text(t)[task[t].pc]
      /\ TokensFit(o, t, Now(t), At(o, t, task[t].pc))
      /\ At(o, t, task[t].pc) = o.at[t][task[t].pc]
  BY <1>2, WithinText DEF IInv, HandlerOps, CallFits
<1>4. s \in SemNames
  BY <1>1, <1>2, <1>3 DEF TokensFit
<1>5. Object(Now(t)) = <<"sem", s>>
  BY <1>1, <1>2 DEF Object
<1>6. <<"sem", s>> \in View(o, t).ready
  BY <1>2, <1>3, <1>5, RunningView DEF Prepared
<1>7. sync.sem[s] # None
  BY <1>4, <1>6 DEF IInv, ReadyInv
<1>8. sync' = SemAdd(t, s, -1)
  BY <1>1, <1>7 DEF SemWaitCall
<1> QED BY <1>2, <1>8 DEF SemAdd, SyncShape, Timely

LEMMA OtherTimely ==
    ASSUME NEW o, IInv(o), NEW t \in Tasks,
           \/ MutexInitCall(t) \/ MutexDestroyCall(t) \/ UnlockCall(t) \/ CondWaitCall(t)
           \/ BarrierInitCall(t) \/ OnceCall(t) \/ OnceDoneCall(t) \/ SemOpenCall(t)
           \/ SemSetCall(t) \/ SemPostCall(t) \/ SemRemoveCall(t) \/ StuckEnds(t)
    PROVE  Timely
<1> "early" \in DOMAIN sync
  BY DEF IInv, SyncShape
<1>1. CASE MutexInitCall(t) \/ MutexDestroyCall(t)
  BY <1>1 DEF MutexInitCall, MutexDestroyCall, Timely
<1>2. CASE UnlockCall(t) \/ CondWaitCall(t)
  BY <1>2 DEF UnlockCall, CondWaitCall, Released, Timely
<1>3. CASE BarrierInitCall(t) \/ OnceCall(t) \/ OnceDoneCall(t)
  BY <1>3 DEF BarrierInitCall, OnceCall, OnceDoneCall, Timely
<1>4. CASE SemOpenCall(t) \/ SemSetCall(t) \/ SemPostCall(t) \/ SemRemoveCall(t)
  BY <1>4 DEF SemOpenCall, SemSetCall, SemPostCall, SemRemoveCall, SemAdd, Timely
<1>5. CASE StuckEnds(t)
  BY <1>5 DEF StuckEnds, Taken, Timely
<1> QED BY <1>1, <1>2, <1>3, <1>4, <1>5

LEMMA EndsTimely ==
    ASSUME NEW o, IInv(o), NEW t \in Tasks, NEW how, ProcessEnds(t, how)
    PROVE  Timely
BY DEF ProcessEnds, Timely, IInv, SyncShape

LEMMA NextTimely ==
    ASSUME NEW o, IInv(o), Prepared(o), [Next]_vars
    PROVE  Timely
<1>1. ASSUME NEW t \in Tasks, Running(t), ThreadStep(t) PROVE Timely
  <2>1. CASE CreateCall(t) \/ JoinCall(t) \/ EndCall(t) \/ CondSignalCall(t) \/ CondBroadcastCall(t)
    BY <2>1 DEF CreateCall, JoinCall, EndCall, CondSignalCall, CondBroadcastCall, KeepBoth, Timely
  <2>2. CASE LockCall(t) \/ TryLockCall(t) \/ TimedLockCall(t) \/ ReadLockCall(t)
    BY <1>1, <2>2, MutexTimely
  <2>3. CASE BarrierWaitCall(t)
    BY <1>1, <2>3, BarrierWaitKeeps DEF Timely
  <2>4. CASE \/ MutexInitCall(t) \/ MutexDestroyCall(t) \/ UnlockCall(t) \/ CondWaitCall(t)
             \/ BarrierInitCall(t) \/ OnceCall(t) \/ OnceDoneCall(t)
    BY <2>4, OtherTimely
  <2> QED BY <1>1, <2>1, <2>2, <2>3, <2>4 DEF ThreadStep
<1>2. ASSUME NEW t \in Tasks, ProcessStep(t) PROVE Timely
  <2>1. CASE Finish(t)
    BY <2>1, EndsTimely DEF Finish
  <2>2. CASE ~ Finish(t)
    BY <1>2, <2>2 DEF ProcessStep, Test, SleepCall, FutureCall, ForkCall, WaitCall, ExitCall,
       AtExitCall, OnSignalCall, RestoreCall, KillCall, PauseCall, KeepBoth, KeepSync, Timely
  <2> QED BY <2>1, <2>2
<1>3. ASSUME NEW t \in Tasks, Running(t), DataStep(t) PROVE Timely
  <2>1. CASE SemOpenCall(t) \/ SemSetCall(t) \/ SemPostCall(t) \/ SemRemoveCall(t)
    BY <2>1, OtherTimely
  <2>2. CASE SemWaitCall(t)
    BY <1>3, <2>2, SemTimely
  <2>3. CASE PipeWriteCall(t)
    BY <2>3, EndsTimely DEF PipeWriteCall, KeepSync, Timely
  <2>4. CASE \/ ShmGetCall(t) \/ ShmRemoveCall(t) \/ MsgGetCall(t) \/ MsgSendCall(t)
             \/ MsgReceiveCall(t) \/ MsgRemoveCall(t) \/ PipeOpenCall(t) \/ PipeReadCall(t)
             \/ PipeCloseCall(t) \/ LoadCall(t) \/ WriteCall(t) \/ GetLineCall(t)
             \/ FileCall(t) \/ SortCall(t)
    BY <2>4 DEF ShmGetCall, ShmRemoveCall, MsgGetCall, MsgSendCall, MsgReceiveCall,
       MsgRemoveCall, PipeOpenCall, PipeReadCall, PipeCloseCall, LoadCall, WriteCall,
       GetLineCall, FileCall, SortCall, KeepSync, KeepBoth, Timely
  <2> QED BY <1>3, <2>1, <2>2, <2>3, <2>4 DEF DataStep
<1>4. ASSUME NEW t \in Tasks, Relock(t) \/ StuckEnds(t) \/ Deliver(t) PROVE Timely
  <2>1. CASE Deliver(t)
    BY <2>1, EndsTimely DEF Deliver, KeepBoth, Timely
  <2> QED BY <1>4, <2>1, RelockTimely, OtherTimely
<1>5. CASE Tick \/ (\E t \in Tasks : CondWakes(t)) \/ UNCHANGED vars
  BY <1>5 DEF Tick, CondWakes, KeepBoth, vars, Timely
<1> QED BY <1>1, <1>2, <1>3, <1>4, <1>5 DEF Next, Step

\* Whatever the texts and the interleaving: if an outline that fits has what
\* is used among what is ready, no mutex, barrier or semaphore is used before
\* its initialisation or after its removal.
THEOREM ReadyUse == ASSUME NEW o PROVE Outlined(o) /\ Prepared(o) /\ Spec => []UsedReady
<1> DEFINE Inv == IInv(o) /\ Prepared(o) /\ ~ sync.early
<1>1. Outlined(o) /\ Prepared(o) /\ Init => Inv
  BY FirstState DEF Init
<1>2. Inv /\ [Next]_vars => Inv'
  BY NextKeeps, PreparedKept, ProgramKept, NextTimely DEF Timely
<1>3. Inv => UsedReady
  BY DEF UsedReady
<1> QED BY <1>1, <1>2, <1>3, PTL DEF Spec

-----------------------------------------------------------------------------
(* What the outline is for: nothing fails.                                 *)

\* No other task of its process is alive.
Apart(t) == \A u \in Tasks \ {t} : ProcessOf(u) = ProcessOf(t) => ~ Live(u)

Unhurt(t) ==
    /\ {"code", "pending", "handler"} \subseteq DOMAIN task[t]
    /\ task[t].st \notin {"failed", "killed"} /\ task[t].code = 0
    /\ task[t].pending = {} /\ task[t].handler = {}

ApartInv == \A t \in Tasks : Live(t) /\ task[t].pc \notin Positions(t) => Apart(t)
KindInv  == \A m \in MutexNames : Mutex(m).kind # "errorcheck"

CalmInv(o) ==
    /\ IInv(o) /\ Prepared(o) /\ Calm(o)
    /\ (\A t \in Tasks : Unhurt(t)) /\ ApartInv /\ KindInv

\* Where a task may go: it stays in its text, or stays where it is, or is alone.
Keeping(t) ==
    task'[t].pc \in Positions(t) \/ task'[t].pc = task[t].pc \/ Apart(t)

LEMMA ApartKept ==
    ASSUME ApartInv, UNCHANGED program,
           \A u \in Tasks : Live(u)' => Live(u) /\ Keeping(u)
    PROVE  ApartInv'
<1>1. \A t \in Tasks : Apart(t) => Apart(t)'
  BY SameProgram DEF Apart
<1>2. ASSUME NEW t \in Tasks, Live(t)', task'[t].pc \notin Positions(t)
      PROVE  Apart(t)
  BY <1>2 DEF ApartInv, Keeping
<1> QED BY <1>1, <1>2, SameProgram DEF ApartInv

\* What the facts of a position say of the other tasks.
LEMMA AloneApart ==
    ASSUME NEW o, IInv(o), NEW t \in Tasks, Live(t), task[t].pc \in Positions(t),
           Alone(t, o.at[t][task[t].pc])
    PROVE  Apart(t)
<1>1. DOMAIN At(o, t, task[t].pc) = FactNames /\ At(o, t, task[t].pc) = o.at[t][task[t].pc]
  BY AtShape, Parts DEF At
<1>2. /\ View(o, t).gone = o.at[t][task[t].pc].gone
      /\ View(o, t).unborn = o.at[t][task[t].pc].unborn
  BY <1>1 DEF View, Facts, FactNames
<1>3. \A u \in View(o, t).gone \cup View(o, t).unborn : ~ Live(u)
  BY DEF IInv, LifeInv, Live
<1> QED BY <1>2, <1>3 DEF Alone, Apart

\* The next call, or the end of the one that a task waits in.
LEMMA OnKeeping ==
    ASSUME NEW o, CalmInv(o), NEW t \in Tasks, Live(t),
           Now(t).op \notin {"jump", "end", "exit"}, task'[t].pc = task[t].pc + 1
    PROVE  Keeping(t)
<1>1. CASE task[t].pc \in Positions(t)
  <2>1. Now(t) = Text(t)[task[t].pc]
    BY <1>1, NowFacts, Parts DEF CalmInv
  <2>2. task[t].pc + 1 \in Positions(t) \/ Alone(t, o.at[t][task[t].pc])
    BY <1>1, <2>1 DEF CalmInv, Calm
  <2> QED BY <1>1, <2>2, AloneApart DEF CalmInv, Keeping
<1>2. CASE task[t].pc \notin Positions(t)
  BY <1>2 DEF CalmInv, ApartInv, Keeping
<1> QED BY <1>1, <1>2

LEMMA JumpKeeping ==
    ASSUME NEW o, CalmInv(o), NEW t \in Tasks, Live(t), task[t].pc \in Positions(t),
           MayJump(Now(t)), task'[t].pc = task[t].pc + 1 + Now(t).n
    PROVE  Keeping(t)
<1>1. Now(t) = Text(t)[task[t].pc]
  BY NowFacts, Parts DEF CalmInv
<1>2. task[t].pc + 1 + Now(t).n \in Positions(t) \/ Alone(t, o.at[t][task[t].pc])
  BY <1>1 DEF CalmInv, Calm
<1> QED BY <1>2, AloneApart DEF CalmInv, Keeping

\* The task t may end, and nothing else happens to the lives of the tasks.
Peaceful(t) ==
    /\ \A u \in Tasks : Unhurt(u)'
    /\ \A u \in Tasks : task'[u].st \in {task[u].st, "ok"}
    /\ \A u \in Tasks \ {t} : task'[u].pc = task[u].pc
    /\ Keeping(t)

LEMMA CalmKept ==
    ASSUME NEW o, CalmInv(o), IInv(o)', KindInv', UNCHANGED program,
           \A u \in Tasks : Unhurt(u)', ApartInv'
    PROVE  CalmInv(o)'
<1>1. Prepared(o)'
  BY PreparedKept DEF CalmInv
<1>2. Calm(o)'
  BY SameProgram DEF CalmInv, Calm, Alone, MayJump
<1> QED BY <1>1, <1>2, SameProgram DEF CalmInv

LEMMA PeacefulKeeps ==
    ASSUME NEW o, CalmInv(o), IInv(o)', KindInv', UNCHANGED program, NEW t \in Tasks, Peaceful(t)
    PROVE  CalmInv(o)'
<1>1. ApartInv'
  <2>1. \A u \in Tasks : Live(u)' => Live(u) /\ Keeping(u)
    BY DEF Peaceful, Keeping, Live
  <2> QED BY <2>1, ApartKept DEF CalmInv
<1> QED BY <1>1, CalmKept DEF Peaceful

\* A call that just goes on, whatever else it leaves in the task.
LEMMA OnPeaceful ==
    ASSUME NEW o, CalmInv(o), NEW t \in Tasks, Running(t), task' = On(t),
           Now(t).op \notin {"jump", "end", "exit"}
    PROVE  Peaceful(t)
<1>1. TaskShape /\ \A u \in Tasks : Unhurt(u)
  BY DEF CalmInv, IInv
<1>2. Keeping(t)
  BY <1>1, OnKeeping DEF On, TaskShape, Running
<1>3. \A u \in Tasks : Unhurt(u)'
  BY <1>1, SameProgram DEF On, TaskShape, Unhurt
<1> QED BY <1>1, <1>2, <1>3 DEF Peaceful, On, TaskShape

LEMMA ByPeaceful ==
    ASSUME NEW o, CalmInv(o), NEW t \in Tasks, Running(t), task' = By(t, Now(t).n),
           task[t].pc \in Positions(t), MayJump(Now(t))
    PROVE  Peaceful(t)
<1>1. TaskShape /\ \A u \in Tasks : Unhurt(u)
  BY DEF CalmInv, IInv
<1>2. Keeping(t)
  BY <1>1, JumpKeeping DEF By, TaskShape, Running
<1>3. \A u \in Tasks : Unhurt(u)'
  BY <1>1 DEF By, TaskShape, Unhurt
<1> QED BY <1>1, <1>2, <1>3 DEF Peaceful, By, TaskShape

LEMMA ExitingPeaceful ==
    ASSUME NEW o, CalmInv(o), NEW t \in Tasks, Apart(t), task' = Exiting(t, 0)
    PROVE  Peaceful(t)
<1>1. TaskShape /\ \A u \in Tasks : Unhurt(u)
  BY DEF CalmInv, IInv
<1>2. \A u \in Tasks : Unhurt(u)'
  BY <1>1 DEF Exiting, TaskShape, Unhurt
<1> QED BY <1>1, <1>2 DEF Peaceful, Keeping, Exiting, TaskShape

LEMMA LeavingPeaceful ==
    ASSUME NEW o, CalmInv(o), NEW t \in Tasks, task' = Leaving(t)
    PROVE  Peaceful(t)
<1>1. TaskShape /\ \A u \in Tasks : Unhurt(u)
  BY DEF CalmInv, IInv
<1>2. CASE \E u \in Tasks \ {t} : ProcessOf(u) = ProcessOf(t) /\ Live(u)
  <2>1. task' = [task EXCEPT ![t].st = "ok"]
    BY <1>2 DEF Leaving
  <2>2. \A u \in Tasks : Unhurt(u)'
    BY <1>1, <2>1 DEF TaskShape, Unhurt
  <2> QED BY <1>1, <2>1, <2>2 DEF Peaceful, Keeping, TaskShape
<1>3. CASE ~ \E u \in Tasks \ {t} : ProcessOf(u) = ProcessOf(t) /\ Live(u)
  BY <1>3, ExitingPeaceful DEF Leaving, Apart
<1> QED BY <1>2, <1>3

\* An error that does not end the process.
LEMMA FailedPeaceful ==
    ASSUME NEW o, CalmInv(o), NEW t \in Tasks, Running(t), task' = Failed(t),
           Now(t).bad \in {"task", "ignore"}, Now(t).op \notin {"jump", "end", "exit"}
    PROVE  Peaceful(t)
<1>1. CASE Now(t).bad = "ignore"
  BY <1>1, OnPeaceful DEF Failed
<1>2. CASE Now(t).bad = "task"
  BY <1>2, LeavingPeaceful DEF Failed
<1> QED BY <1>1, <1>2

\* What a step of task t leaves is as good as before.
Good(t) == Peaceful(t) /\ KindInv'

\* Task t goes on or stays, in a step that leaves all tasks unhurt.
Onward(t) ==
    /\ \A u \in Tasks : Unhurt(u)' /\ task'[u].st = task[u].st
    /\ \A u \in Tasks \ {t} : task'[u].pc = task[u].pc
    /\ task'[t].pc \in {task[t].pc, task[t].pc + 1}

LEMMA OnwardPeaceful ==
    ASSUME NEW o, CalmInv(o), NEW t \in Tasks, Live(t), Onward(t),
           Now(t).op \notin {"jump", "end", "exit"}
    PROVE  Peaceful(t)
<1>1. Keeping(t)
  <2>1. CASE task'[t].pc = task[t].pc
    BY <2>1 DEF Keeping
  <2>2. CASE task'[t].pc = task[t].pc + 1
    BY <2>2, OnKeeping
  <2> QED BY <2>1, <2>2 DEF Onward
<1> QED BY <1>1 DEF Onward, Peaceful

LEMMA SameKinds ==
    ASSUME NEW o, CalmInv(o), UNCHANGED program,
           \A m \in MutexNames : sync'.mutex[m].kind \in {sync.mutex[m].kind, "gone"}
    PROVE  KindInv'
BY SameProgram DEF CalmInv, KindInv, Mutex

\* None of the calls that a calm text lacks comes next.
LEMMA CalmCall ==
    ASSUME NEW o, CalmInv(o), NEW t \in Tasks
    PROVE  /\ Now(t).op \notin {"kill", "onsignal", "pipewrite"}
           /\ Now(t).op \in {"waitany", "shmget", "msgsnd", "msgreply", "msgrcv", "timedlock"}
                => Now(t).bad \in {"task", "ignore"}
           /\ Now(t).op = "mutexinit" => Now(t).arg # "errorcheck"
           /\ Now(t).op = "exit" => Apart(t) \/ ~ Live(t)
           /\ Now(t).op \in {"create", "fork"} =>
                /\ task[t].pc + 1 \in Positions(t)
                /\ \A u \in Tasks \ {Now(t).on} :
                     ProcessOf(u) = ProcessOf(Now(t).on) => ProcessOf(u) = ProcessOf(t)
<1>1. TextsFit(o) /\ TaskShape /\ Outlined(o) /\ Calm(o) /\ IInv(o)
  BY Parts DEF CalmInv
<1>2. CASE task[t].pc \in Positions(t)
  <2>1. Now(t) = Text(t)[task[t].pc]
    BY <1>1, <1>2, NowFacts
  <2>2. Now(t).bad \in {"process", "task", "ignore"}
    BY <1>1, <1>2, <2>1 DEF Outlined, CallFits, FlowFits
  <2>3. Now(t).op = "exit" /\ Live(t) => Apart(t)
    BY <1>1, <1>2, <2>1, AloneApart DEF Calm
  <2> QED BY <1>1, <1>2, <2>1, <2>2, <2>3 DEF Calm
<1>3. CASE task[t].pc \notin Positions(t)
  <2>1. \/ Now(t).op = "finish"
        \/ \E k \in DOMAIN HandlerText : Now(t) = HandlerText[k]
    BY <1>1, <1>3, NowFacts
  <2>2. \A k \in DOMAIN HandlerText :
           /\ HandlerText[k].op \in {"sleep", "put", "filewrite", "stdiowrite", "kill", "msgremove",
                                     "shmremove"}
           /\ HandlerText[k].op # "kill"
    BY <1>1 DEF TextsFit, Calm
  <2> QED BY <2>1, <2>2
<1> QED BY <1>2, <1>3

\* What calls do to their task or to another one.
Sets(t, u, v) ==
    \/ task' = On(t) \/ task' = [On(t) EXCEPT ![u].wake = v]
    \/ task' = [On(t) EXCEPT ![u].left = v] \/ task' = [On(t) EXCEPT ![u].atexit = v]
    \/ task' = [On(t) EXCEPT ![u].reg = v] \/ task' = [On(t) EXCEPT ![u].queue = v]
    \/ task' = [On(t) EXCEPT ![u].wait = v] \/ task' = [On(t) EXCEPT ![u].reaped = v]
    \/ task' = [task EXCEPT ![t].wait = v]
SetsMore(t, v, w) ==
    \/ task' = [On(t) EXCEPT ![t].msg = v, ![t].from = w]
    \/ task' = [On(t) EXCEPT ![t].handler = @ \ v]
    \/ task' = [u \in Tasks |-> IF u \in v THEN [task[u] EXCEPT !.wait = "relock"] ELSE On(t)[u]]

LEMMA OnwardSets ==
    ASSUME NEW o, CalmInv(o), NEW t \in Tasks, NEW u, NEW v, Sets(t, u, v)
    PROVE  Onward(t)
<1>1. TaskShape /\ \A x \in Tasks : Unhurt(x)
  BY DEF CalmInv, IInv
<1>2. CASE task' = On(t)
  BY <1>1, <1>2 DEF On, TaskShape, Onward, Unhurt
<1>3. CASE task' = [On(t) EXCEPT ![u].wake = v]
  BY <1>1, <1>3 DEF On, TaskShape, Onward, Unhurt
<1>4. CASE task' = [On(t) EXCEPT ![u].left = v]
  BY <1>1, <1>4 DEF On, TaskShape, Onward, Unhurt
<1>5. CASE task' = [On(t) EXCEPT ![u].atexit = v]
  BY <1>1, <1>5 DEF On, TaskShape, Onward, Unhurt
<1>6. CASE task' = [On(t) EXCEPT ![u].reg = v]
  BY <1>1, <1>6 DEF On, TaskShape, Onward, Unhurt
<1>7. CASE task' = [On(t) EXCEPT ![u].queue = v]
  BY <1>1, <1>7 DEF On, TaskShape, Onward, Unhurt
<1>8. CASE task' = [On(t) EXCEPT ![u].wait = v]
  BY <1>1, <1>8 DEF On, TaskShape, Onward, Unhurt
<1>9. CASE task' = [On(t) EXCEPT ![u].reaped = v]
  BY <1>1, <1>9 DEF On, TaskShape, Onward, Unhurt
<1>10. CASE task' = [task EXCEPT ![t].wait = v]
  BY <1>1, <1>10 DEF On, TaskShape, Onward, Unhurt
<1> QED BY <1>2, <1>3, <1>4, <1>5, <1>6, <1>7, <1>8, <1>9, <1>10 DEF Sets

LEMMA OnwardMore ==
    ASSUME NEW o, CalmInv(o), NEW t \in Tasks, NEW v, NEW w, SetsMore(t, v, w)
    PROVE  Onward(t)
<1>1. TaskShape /\ \A x \in Tasks : Unhurt(x)
  BY DEF CalmInv, IInv
<1>2. CASE task' = [On(t) EXCEPT ![t].msg = v, ![t].from = w]
  BY <1>1, <1>2 DEF On, TaskShape, Onward, Unhurt
<1>3. CASE task' = [On(t) EXCEPT ![t].handler = @ \ v]
  <2>1. task[t].handler = {} /\ {} \ v = {}
    BY <1>1 DEF Unhurt
  <2>2. On(t)[t].handler = {}
    BY <1>1, <2>1 DEF On, TaskShape, Unhurt
  <2>3. task' = [On(t) EXCEPT ![t].handler = {}]
    BY <1>3, <2>1, <2>2
  <2> QED BY <1>1, <2>3 DEF On, TaskShape, Onward, Unhurt
<1>4. CASE task' = [u \in Tasks |-> IF u \in v THEN [task[u] EXCEPT !.wait = "relock"]
                                  ELSE On(t)[u]]
  <2>1. ASSUME NEW u \in Tasks
        PROVE  /\ Unhurt(u)' /\ task'[u].st = task[u].st
               /\ u # t => task'[u].pc = task[u].pc
               /\ task'[u].pc \in {task[u].pc, task[u].pc + 1}
    <3>1. task'[u] = [task[u] EXCEPT !.wait = "relock"] \/ task'[u] = On(t)[u]
      BY <1>4
    <3>2. CASE task'[u] = [task[u] EXCEPT !.wait = "relock"]
      BY <1>1, <3>2 DEF TaskShape, Unhurt
    <3>3. CASE task'[u] = On(t)[u]
      BY <1>1, <3>3 DEF On, TaskShape, Unhurt
    <3> QED BY <3>1, <3>2, <3>3
  <2> QED BY <2>1 DEF Onward
<1> QED BY <1>2, <1>3, <1>4 DEF SetsMore

LEMMA PlainGood ==
    ASSUME NEW o, CalmInv(o), NEW t \in Tasks, Running(t),
           \/ SleepCall(t) \/ FutureCall(t) \/ AtExitCall(t) \/ RestoreCall(t) \/ LoadCall(t)
           \/ CondSignalCall(t) \/ CondBroadcastCall(t) \/ PauseCall(t) \/ JoinCall(t)
    PROVE  Good(t)
<1>1. Live(t) /\ UNCHANGED << program, sync >>
  BY DEF Running, SleepCall, FutureCall, AtExitCall, RestoreCall, LoadCall,
     CondSignalCall, CondBroadcastCall, PauseCall, JoinCall, KeepBoth
<1>2. Now(t).op \notin {"jump", "end", "exit"}
  BY DEF SleepCall, FutureCall, AtExitCall, RestoreCall, LoadCall, CondSignalCall,
     CondBroadcastCall, PauseCall, JoinCall, Calls
<1>3. ASSUME RestoreCall(t) \/ CondBroadcastCall(t) PROVE Onward(t)
  <2>1. \E v : SetsMore(t, v, {})
    BY <1>3 DEF RestoreCall, CondBroadcastCall, SetsMore
  <2> QED BY <2>1, OnwardMore
<1>4. ASSUME \/ SleepCall(t) \/ FutureCall(t) \/ AtExitCall(t) \/ LoadCall(t)
             \/ CondSignalCall(t) \/ PauseCall(t) \/ JoinCall(t)
      PROVE  Onward(t)
  <2>1. \E u, v : Sets(t, u, v)
    BY <1>4 DEF SleepCall, FutureCall, AtExitCall, LoadCall, CondSignalCall, PauseCall, JoinCall,
       Sets
  <2> QED BY <2>1, OnwardSets
<1>5. KindInv'
  BY <1>1, SameKinds
<1> QED BY <1>1, <1>2, <1>3, <1>4, <1>5, OnwardPeaceful DEF Good

LEMMA DataGood ==
    ASSUME NEW o, CalmInv(o), NEW t \in Tasks, Running(t),
           \/ ShmRemoveCall(t) \/ MsgGetCall(t) \/ MsgRemoveCall(t) \/ PipeOpenCall(t)
           \/ PipeReadCall(t) \/ PipeCloseCall(t) \/ WriteCall(t) \/ FileCall(t) \/ SortCall(t)
    PROVE  Good(t)
<1>1. TaskShape /\ (\A u \in Tasks : Unhurt(u)) /\ Live(t) /\ UNCHANGED << program, sync >>
  BY DEF CalmInv, IInv, Running, ShmRemoveCall, MsgGetCall, MsgRemoveCall, PipeOpenCall,
     PipeReadCall, PipeCloseCall, WriteCall, FileCall, SortCall, KeepSync
<1>2. Now(t).op \notin {"jump", "end", "exit"}
  BY DEF ShmRemoveCall, MsgGetCall, MsgRemoveCall, PipeOpenCall, PipeReadCall, PipeCloseCall,
     WriteCall, FileCall, SortCall, Calls
<1>3. Onward(t)
  <2>1. \E v : Sets(t, t, v)
    BY DEF ShmRemoveCall, MsgGetCall, MsgRemoveCall, PipeOpenCall, PipeReadCall, PipeCloseCall,
           WriteCall, FileCall, SortCall, Sets
  <2> QED BY <2>1, OnwardSets
<1>4. KindInv'
  BY <1>1, SameKinds
<1> QED BY <1>1, <1>2, <1>3, <1>4, OnwardPeaceful DEF Good

LEMMA TestGood ==
    ASSUME NEW o, CalmInv(o), NEW t \in Tasks, Running(t), Test(t) \/ GetLineCall(t)
    PROVE  Good(t)
<1>1. UNCHANGED << program, sync >> /\ TaskShape /\ Outlined(o)
  BY DEF Test, GetLineCall, KeepBoth, KeepSync, CalmInv, IInv
<1>2. Now(t).op \in {"jump", "memis", "msgis", "flagis", "orphan", "getline"}
  BY DEF Test, GetLineCall, Calls
<1>3. task[t].pc \in Positions(t) /\ MayJump(Now(t))
  BY <1>1, <1>2, WithinText DEF MayJump, HandlerOps
<1>4. task' = By(t, Now(t).n) \/ (Now(t).op # "jump" /\ task' = On(t))
  BY <1>2 DEF Test, GetLineCall, Calls, Holds
<1>5. KindInv'
  BY <1>1, SameKinds
<1> QED BY <1>2, <1>3, <1>4, <1>5, OnPeaceful, ByPeaceful DEF Good

LEMMA MessagesGood ==
    ASSUME NEW o, CalmInv(o), NEW t \in Tasks, Running(t),
           ShmGetCall(t) \/ MsgSendCall(t) \/ MsgReceiveCall(t) \/ WaitCall(t)
    PROVE  Good(t)
<1>1. TaskShape /\ (\A u \in Tasks : Unhurt(u)) /\ Live(t) /\ UNCHANGED << program, sync >>
  BY DEF CalmInv, IInv, Running, ShmGetCall, MsgSendCall, MsgReceiveCall, WaitCall, KeepSync,
     KeepBoth
<1>2. Now(t).op \in {"shmget", "msgsnd", "msgreply", "msgrcv", "waitpid", "waitany"}
  BY DEF ShmGetCall, MsgSendCall, MsgReceiveCall, WaitCall, Calls
<1>3. KindInv'
  BY <1>1, SameKinds
<1>4. CASE task' = Failed(t) /\ Now(t).op # "waitpid"
  BY <1>2, <1>3, <1>4, CalmCall, FailedPeaceful DEF Good
<1>5. CASE \/ task' = On(t)
           \/ \E v, f : task' = [On(t) EXCEPT ![t].msg = v, ![t].from = f]
           \/ \E u : task' = [On(t) EXCEPT ![u].reaped = TRUE]
  <2>1. (\E v, f : SetsMore(t, v, f)) \/ (\E u : Sets(t, u, TRUE))
    BY <1>5 DEF Sets, SetsMore
  <2>4. Onward(t)
    BY <2>1, OnwardSets, OnwardMore
  <2> QED BY <1>1, <1>2, <1>3, <2>4, OnwardPeaceful DEF Good
<1>6. CASE ShmGetCall(t) \/ MsgSendCall(t)
  BY <1>4, <1>5, <1>6 DEF ShmGetCall, MsgSendCall, Calls
<1>7. CASE MsgReceiveCall(t)
  BY <1>4, <1>5, <1>7 DEF MsgReceiveCall, Calls
<1>8. CASE WaitCall(t)
  BY <1>4, <1>5, <1>8 DEF WaitCall, Calls
<1> QED BY <1>6, <1>7, <1>8

LEMMA LeavingGood ==
    ASSUME NEW o, CalmInv(o), NEW t \in Tasks, Running(t), EndCall(t) \/ ExitCall(t)
    PROVE  Good(t)
<1>1. UNCHANGED << program, sync >> /\ Live(t)
  BY DEF EndCall, ExitCall, KeepBoth, Running
<1>2. KindInv'
  BY <1>1, SameKinds
<1>3. CASE EndCall(t)
  BY <1>2, <1>3, LeavingPeaceful DEF EndCall, Good
<1>4. CASE ExitCall(t)
  BY <1>1, <1>2, <1>4, CalmCall, ExitingPeaceful DEF ExitCall, Calls, Good
<1> QED BY <1>3, <1>4

\* What calls do to the mutex m; none of them makes it an errorcheck mutex.
Alters(t, m) ==
    \/ sync'.mutex = sync.mutex \/ sync' = Taken(t, m) \/ sync' = Using(m, Taken(t, m))
    \/ sync' = [sync EXCEPT !.mutex[m].depth = @ + 1]
    \/ sync' = Using(m, [sync EXCEPT !.mutex[m].readers = @ \cup {t}])
    \/ sync' = Released(t, m) \/ sync' = [sync EXCEPT !.mutex[m].kind = "gone"]

LEMMA AltersKinds ==
    ASSUME NEW o, CalmInv(o), UNCHANGED program, NEW t, NEW m, Alters(t, m)
    PROVE  KindInv'
<1> SyncShape
  BY DEF CalmInv, IInv
<1>1. ASSUME NEW n \in MutexNames
      PROVE  sync'.mutex[n].kind \in {sync.mutex[n].kind, "gone"}
  <2>1. CASE sync'.mutex = sync.mutex
    BY <2>1
  <2>2. CASE sync' = Taken(t, m)
    BY <1>1, <2>2 DEF SyncShape, Taken
  <2>3. CASE sync' = Using(m, Taken(t, m))
    <3>1. sync'.mutex = Taken(t, m).mutex
      BY <2>3 DEF Using
    <3> QED BY <1>1, <3>1 DEF SyncShape, Taken
  <2>4. CASE sync' = [sync EXCEPT !.mutex[m].depth = @ + 1]
    BY <1>1, <2>4 DEF SyncShape
  <2>5. CASE sync' = Using(m, [sync EXCEPT !.mutex[m].readers = @ \cup {t}])
    <3>1. sync'.mutex = [sync EXCEPT !.mutex[m].readers = @ \cup {t}].mutex
      BY <2>5 DEF Using
    <3> QED BY <1>1, <3>1 DEF SyncShape
  <2>6. CASE sync' = Released(t, m)
    BY <1>1, <2>6 DEF SyncShape, Released
  <2>7. CASE sync' = [sync EXCEPT !.mutex[m].kind = "gone"]
    BY <1>1, <2>7 DEF SyncShape
  <2> QED BY <2>1, <2>2, <2>3, <2>4, <2>5, <2>6, <2>7 DEF Alters
<1> QED BY <1>1, SameKinds

\* How a call may leave its task: behind it, where it jumps to, failed
\* without the end of the process, or waiting.
Proceeds(t) ==
    \/ task' = On(t)
    \/ task' = By(t, Now(t).n) /\ task[t].pc \in Positions(t) /\ MayJump(Now(t))
    \/ task' = Failed(t) /\ Now(t).bad \in {"task", "ignore"}
    \/ \E w : task' = [task EXCEPT ![t].wait = w]

LEMMA ProceedsPeaceful ==
    ASSUME NEW o, CalmInv(o), NEW t \in Tasks, Running(t), Proceeds(t),
           Now(t).op \notin {"jump", "end", "exit"}
    PROVE  Peaceful(t)
<1>1. CASE \E w : task' = [task EXCEPT ![t].wait = w]
  <2>1. \E w : Sets(t, t, w)
    BY <1>1 DEF Sets
  <2> QED BY <2>1, OnwardSets, OnwardPeaceful DEF Running
<1> QED BY <1>1, OnPeaceful, ByPeaceful, FailedPeaceful DEF Proceeds

LEMMA LockGood ==
    ASSUME NEW o, CalmInv(o), NEW t \in Tasks, Running(t), Open(t),
           LockCall(t) \/ TryLockCall(t) \/ TimedLockCall(t) \/ ReadLockCall(t)
    PROVE  Good(t)
<1>1. PICK m : m = Now(t).on
  OBVIOUS
<1>2. /\ Now(t).op \in {"lock", "trylock", "timedlock", "readlock"} /\ UNCHANGED program
      /\ Now(t).op \notin {"jump", "end", "exit"} /\ IInv(o)
  BY DEF LockCall, TryLockCall, TimedLockCall, ReadLockCall, Calls, KeepData, CalmInv
<1>3. m \in MutexNames /\ task[t].pc \in Positions(t)
  BY <1>1, <1>2, LockName
<1>4. CASE LockCall(t)
  <2>1. Now(t).op = "lock"
    BY <1>4 DEF LockCall, Calls
  <2>2. Free(m) \/ (Mutex(m).owner = t /\ Mutex(m).kind \in {"errorcheck", "recursive"})
    BY <1>1, <2>1 DEF Open
  <2>3. Free(m) \/ Mutex(m).kind = "recursive"
    BY <1>3, <2>2 DEF CalmInv, KindInv
  <2>4. task' = On(t) /\ Alters(t, m)
    BY <1>1, <1>4, <2>3 DEF LockCall, Alters
  <2> QED BY <1>2, <2>4, AltersKinds, ProceedsPeaceful DEF Good, Proceeds
<1>5. CASE TryLockCall(t)
  <2>1. MayJump(Now(t))
    BY <1>5 DEF TryLockCall, Calls, MayJump
  <2>2. Proceeds(t) /\ Alters(t, m)
    BY <1>1, <1>3, <1>5, <2>1 DEF TryLockCall, Alters, Proceeds
  <2> QED BY <1>2, <2>2, AltersKinds, ProceedsPeaceful DEF Good
<1>6. CASE TimedLockCall(t)
  <2>1. Now(t).op = "timedlock"
    BY <1>6 DEF TimedLockCall, Calls
  <2>2. Now(t).bad \in {"task", "ignore"} /\ (Now(t).n # 0 => MayJump(Now(t)))
    BY <2>1, CalmCall DEF MayJump
  <2>3. Alters(t, m)
    BY <1>1, <1>6 DEF TimedLockCall, Alters
  <2>4. Proceeds(t)
    BY <1>1, <1>3, <1>6, <2>2 DEF TimedLockCall, TimedOut, Proceeds
  <2> QED BY <1>2, <2>3, <2>4, AltersKinds, ProceedsPeaceful DEF Good
<1>7. CASE ReadLockCall(t)
  <2>1. Proceeds(t) /\ Alters(t, m)
    BY <1>1, <1>7 DEF ReadLockCall, Alters, Proceeds
  <2> QED BY <1>2, <2>1, AltersKinds, ProceedsPeaceful DEF Good
<1> QED BY <1>4, <1>5, <1>6, <1>7

LEMMA UnlockGood ==
    ASSUME NEW o, CalmInv(o), NEW t \in Tasks, Running(t),
           UnlockCall(t) \/ MutexDestroyCall(t) \/ CondWaitCall(t)
    PROVE  Good(t)
<1>1. UNCHANGED program /\ Now(t).op \notin {"jump", "end", "exit"}
  BY DEF UnlockCall, MutexDestroyCall, CondWaitCall, Calls, KeepData
<1>2. Proceeds(t)
  BY DEF UnlockCall, MutexDestroyCall, CondWaitCall, Proceeds
<1>3. \E m : Alters(t, m)
  BY DEF UnlockCall, MutexDestroyCall, CondWaitCall, Alters
<1> QED BY <1>1, <1>2, <1>3, AltersKinds, ProceedsPeaceful DEF Good

LEMMA MutexInitGood ==
    ASSUME NEW o, CalmInv(o), NEW t \in Tasks, Running(t), MutexInitCall(t)
    PROVE  Good(t)
<1>1. UNCHANGED program /\ Now(t).op = "mutexinit" /\ SyncShape /\ task' = On(t)
  BY DEF MutexInitCall, Calls, KeepData, CalmInv, IInv
<1>2. PICK m, k : m = Now(t).on /\ k = Now(t).arg
  OBVIOUS
<1>3. k # "errorcheck"
  BY <1>1, <1>2, CalmCall
<1>4. sync'.mutex = [sync.mutex EXCEPT ![m] =
                       [kind |-> k, owner |-> None, depth |-> 0, readers |-> {}]]
  BY <1>1, <1>2 DEF MutexInitCall, SyncShape
<1>5. \A n \in MutexNames : sync'.mutex[n].kind \in {sync.mutex[n].kind, k}
  BY <1>1, <1>4 DEF SyncShape
<1>6. KindInv'
  BY <1>1, <1>3, <1>5, SameProgram DEF CalmInv, KindInv, Mutex
<1> QED BY <1>1, <1>6, ProceedsPeaceful DEF Good, Proceeds

LEMMA SyncGood ==
    ASSUME NEW o, CalmInv(o), NEW t \in Tasks, Running(t),
           \/ BarrierInitCall(t) \/ OnceDoneCall(t) \/ SemOpenCall(t) \/ SemSetCall(t)
           \/ SemPostCall(t) \/ SemRemoveCall(t)
    PROVE  Good(t)
<1>1. UNCHANGED program /\ Now(t).op \notin {"jump", "end", "exit"} /\ SyncShape /\ task' = On(t)
  BY DEF BarrierInitCall, OnceDoneCall, SemOpenCall, SemSetCall, SemPostCall, SemRemoveCall, Calls,
     KeepData, CalmInv, IInv
<1>2. sync'.mutex = sync.mutex
  BY <1>1 DEF BarrierInitCall, OnceDoneCall, SemOpenCall, SemSetCall, SemPostCall, SemRemoveCall,
     SemAdd, SyncShape
<1> QED BY <1>1, <1>2, AltersKinds, ProceedsPeaceful DEF Good, Proceeds, Alters

LEMMA OnceGood ==
    ASSUME NEW o, CalmInv(o), NEW t \in Tasks, Running(t), OnceCall(t)
    PROVE  Good(t)
<1>1. UNCHANGED program /\ Now(t).op = "once" /\ SyncShape /\ IInv(o)
  BY DEF OnceCall, Calls, KeepData, CalmInv, IInv
<1>2. task[t].pc \in Positions(t) /\ MayJump(Now(t))
  BY <1>1, CallFact DEF HandlerOps, MayJump
<1>3. Proceeds(t) /\ sync'.mutex = sync.mutex
  BY <1>1, <1>2 DEF OnceCall, Proceeds, SyncShape
<1> QED BY <1>1, <1>3, AltersKinds, ProceedsPeaceful DEF Good, Alters

LEMMA SemWaitGood ==
    ASSUME NEW o, CalmInv(o), NEW t \in Tasks, Running(t), SemWaitCall(t)
    PROVE  Good(t)
<1>1. UNCHANGED program /\ Now(t).op = "semwait" /\ SyncShape /\ IInv(o) /\ Prepared(o)
  BY DEF SemWaitCall, Calls, KeepData, CalmInv, IInv
<1>2. /\ task[t].pc \in Positions(t) /\ Now(t) = Text(t)[task[t].pc]
      /\ TokensFit(o, t, Now(t), At(o, t, task[t].pc))
      /\ At(o, t, task[t].pc) = o.at[t][task[t].pc]
  BY <1>1, WithinText DEF IInv, HandlerOps, CallFits
<1>3. PICK s : s = Now(t).on
  OBVIOUS
<1>4. s \in SemNames /\ Object(Now(t)) = <<"sem", s>>
  BY <1>1, <1>2, <1>3 DEF TokensFit, Object
<1>5. <<"sem", s>> \in View(o, t).ready
  BY <1>1, <1>2, <1>4, RunningView DEF Prepared
<1>6. sync.sem[s] # None
  BY <1>1, <1>4, <1>5 DEF IInv, ReadyInv
<1>7. task' = On(t) /\ sync' = SemAdd(t, s, -1)
  BY <1>3, <1>6 DEF SemWaitCall
<1>8. sync'.mutex = sync.mutex
  BY <1>1, <1>7 DEF SemAdd, SyncShape
<1> QED BY <1>1, <1>7, <1>8, AltersKinds, ProceedsPeaceful DEF Good, Proceeds, Alters

\* All that met go on: behind the call or where it jumps to.
LEMMA BarrierCalm ==
    ASSUME NEW o, CalmInv(o), IInv(o)', NEW t \in Tasks, Running(t), BarrierWaitCall(t)
    PROVE  CalmInv(o)'
<1>0. PICK b : b = Now(t).on
  OBVIOUS
<1> DEFINE here == AtBarrier(b) \cup {t}
<1>1. /\ Now(t).op = "barrierwait" /\ UNCHANGED program /\ TaskShape /\ SyncShape /\ IInv(o)
      /\ sync' = [sync EXCEPT !.early = @ \/ sync.barrier[b] = 0] /\ \A u \in Tasks : Unhurt(u)
  BY <1>0 DEF BarrierWaitCall, Calls, KeepData, CalmInv, IInv
<1>2. KindInv'
  <2>1. sync'.mutex = sync.mutex
    BY <1>1 DEF SyncShape
  <2> QED BY <1>1, <2>1, AltersKinds DEF Alters
<1>3. CASE Cardinality(here) < sync.barrier[b]
  <2>1. Proceeds(t)
    BY <1>0, <1>3 DEF BarrierWaitCall, Proceeds
  <2> QED BY <1>1, <1>2, <2>1, ProceedsPeaceful, PeacefulKeeps
<1>4. CASE ~ (Cardinality(here) < sync.barrier[b])
  <2>1. PICK serial \in here : task' = [u \in Tasks |->
                             IF u \notin here THEN task[u]
                             ELSE [task[u] EXCEPT !.wait = "",
                                     !.pc = @ + 1 + (IF u = serial THEN 0 ELSE Now(u).n)]]
    BY <1>0, <1>4 DEF BarrierWaitCall
  <2>2. \A u \in here : /\ u \in Tasks /\ Live(u) /\ task[u].pc \in Positions(u)
                        /\ Now(u).op = "barrierwait"
    BY <1>0, <1>1, AtBarrierFacts DEF Crew
  <2> HIDE DEF here
  <2>3. ASSUME NEW u \in Tasks
        PROVE  Unhurt(u)' /\ task'[u].st = task[u].st /\ (u \notin here => task'[u].pc = task[u].pc)
    <3>1. CASE u \in here
      <4>1. PICK k : task'[u] = [task[u] EXCEPT !.wait = "", !.pc = k]
        BY <2>1, <3>1
      <4> QED BY <1>1, <3>1, <4>1 DEF TaskShape, Unhurt
    <3>2. CASE u \notin here
      <4>1. task'[u] = task[u]
        BY <2>1, <3>2
      <4> QED BY <1>1, <3>2, <4>1 DEF Unhurt
    <3> QED BY <3>1, <3>2
  <2>4. ASSUME NEW u \in here PROVE Keeping(u)
    <3>1. task'[u].pc = task[u].pc + 1 + (IF u = serial THEN 0 ELSE Now(u).n)
      BY <1>1, <2>1, <2>2, <2>4 DEF TaskShape
    <3>2. task[u].pc \in Nat
      BY <1>1, <2>2, <2>4 DEF TaskShape
    <3>3. CASE u = serial
      <4>1. task'[u].pc = task[u].pc + 1 + 0
        BY <3>1, <3>3
      <4>2. task'[u].pc = task[u].pc + 1
        BY <3>2, <4>1, CountFacts, Zenon
      <4> QED BY <2>2, <2>4, <4>2, OnKeeping
    <3>4. CASE u # serial
      <4>1. task'[u].pc = task[u].pc + 1 + Now(u).n /\ MayJump(Now(u))
        BY <2>2, <2>4, <3>1, <3>4 DEF MayJump
      <4> QED BY <2>2, <2>4, <4>1, JumpKeeping
    <3> QED BY <3>3, <3>4
  <2>5. \A u \in Tasks : Live(u)' => Live(u) /\ Keeping(u)
    BY <2>3, <2>4 DEF Live, Keeping
  <2>6. ApartInv'
    BY <1>1, <2>5, ApartKept DEF CalmInv
  <2> QED BY <1>1, <1>2, <2>3, <2>6, CalmKept
<1> QED BY <1>3, <1>4

\* Who is born starts within its text, in a process of its own or in the one
\* of its creator, which goes on within its text.
LEMMA BirthCalm ==
    ASSUME NEW o, CalmInv(o), IInv(o)', NEW t \in Tasks, Running(t), CreateCall(t) \/ ForkCall(t)
    PROVE  CalmInv(o)'
<1>1. /\ Now(t).op \in {"create", "fork"} /\ UNCHANGED << program, sync >> /\ TaskShape
      /\ IInv(o) /\ (\A v \in Tasks : Unhurt(v)) /\ Live(t)
  BY DEF CreateCall, ForkCall, Calls, KeepBoth, KeepSync, CalmInv, IInv, Running
<1>2. PICK u : u = Now(t).on
  OBVIOUS
<1>3. /\ u \in Tasks \ {t} /\ task[u].pc = 1 /\ 1 \in Positions(u)
      /\ task[t].pc + 1 \in Positions(t)
      /\ \A v \in Tasks \ {u} : ProcessOf(v) = ProcessOf(u) => ProcessOf(v) = ProcessOf(t)
  BY <1>1, <1>2, UnbornFacts, CalmCall DEF CalmInv, Calm
<1>4. /\ \A v \in Tasks : Unhurt(v)'
      /\ \A v \in Tasks \ {t} : task'[v].pc = task[v].pc
      /\ \A v \in Tasks \ {u} : task'[v].st = task[v].st
      /\ task'[t].pc = task[t].pc + 1
  <2>1. CASE CreateCall(t)
    <3>1. task' = [On(t) EXCEPT ![u].st = "live"]
      BY <1>2, <2>1 DEF CreateCall
    <3> QED BY <1>1, <1>3, <3>1 DEF On, TaskShape, Unhurt
  <2>2. CASE ForkCall(t)
    <3>1. PICK f, a, l, q :
            task' = [On(t) EXCEPT ![u].st = "live", ![u].parent = t,
                       ![u].flag = f, ![u].handler = {}, ![u].atexit = a, ![u].left = l,
                       ![u].queue = q]
      <4>1. task[t].handler = {}
        BY <1>1 DEF Unhurt
      <4> QED BY <1>2, <2>2, <4>1 DEF ForkCall
    <3>2. PICK before : before = On(t)
      OBVIOUS
    <3>3. /\ DOMAIN before = Tasks /\ before[t] = [task[t] EXCEPT !.pc = @ + 1]
          /\ \A v \in Tasks \ {t} : before[v] = task[v]
      BY <1>1, <3>2 DEF On, TaskShape
    <3>4. task' = [before EXCEPT ![u].st = "live", ![u].parent = t,
                     ![u].flag = f, ![u].handler = {}, ![u].atexit = a, ![u].left = l,
                     ![u].queue = q]
      BY <3>1, <3>2
    <3>5. /\ DOMAIN task' = Tasks
          /\ \A v \in Tasks \ {u} : task'[v] = before[v]
      BY <3>3, <3>4
    <3>6. task'[u] = [before[u] EXCEPT !.st = "live", !.parent = t, !.flag = f, !.handler = {},
                        !.atexit = a, !.left = l, !.queue = q]
      BY <1>3, <3>3, <3>4
    <3>7. ASSUME NEW v \in Tasks \ {t, u} PROVE task'[v] = task[v]
      BY <3>3, <3>5, <3>7
    <3>8. task'[t] = [task[t] EXCEPT !.pc = @ + 1]
      BY <1>3, <3>3, <3>5
    <3>9. task'[u] = [task[u] EXCEPT !.st = "live", !.parent = t, !.flag = f, !.handler = {},
                        !.atexit = a, !.left = l, !.queue = q]
      BY <1>3, <3>3, <3>6
    <3>10. Unhurt(t)' /\ task'[t].st = task[t].st /\ task'[t].pc = task[t].pc + 1
      BY <1>1, <3>8 DEF TaskShape, Unhurt
    <3>11. Unhurt(u)' /\ task'[u].pc = task[u].pc
      BY <1>1, <1>3, <3>9 DEF TaskShape, Unhurt
    <3>12. ASSUME NEW v \in Tasks \ {t, u}
           PROVE  Unhurt(v)' /\ task'[v].pc = task[v].pc /\ task'[v].st = task[v].st
      BY <1>1, <3>7, <3>12 DEF Unhurt
    <3> QED BY <1>3, <3>10, <3>11, <3>12
  <2> QED BY <2>1, <2>2
<1>5. ApartInv'
  <2>1. ASSUME NEW v \in Tasks, Live(v)', task'[v].pc \notin Positions(v)
        PROVE  \A w \in Tasks \ {v} : ProcessOf(w) = ProcessOf(v) => ~ Live(w)'
    <3>1. v \notin {t, u}
      BY <1>3, <1>4, <2>1
    <3>2. Apart(v)
      BY <1>4, <2>1, <3>1 DEF CalmInv, ApartInv, Live
    <3>3. ProcessOf(u) # ProcessOf(v)
      BY <1>1, <1>3, <3>1, <3>2 DEF Apart
    <3> QED BY <1>4, <3>2, <3>3 DEF Apart, Live
  <2> QED BY <1>1, <2>1, SameProgram DEF ApartInv, Apart
<1>6. KindInv'
  BY <1>1, SameKinds
<1> QED BY <1>1, <1>4, <1>5, <1>6, CalmKept

\* At its end a process has one task, which has met no error.
LEMMA FinishGood ==
    ASSUME NEW o, CalmInv(o), NEW t \in Tasks, Running(t), Finish(t)
    PROVE  Good(t)
<1>1. /\ Now(t).op = "finish" /\ TaskShape /\ SyncShape /\ Live(t) /\ TextsFit(o)
      /\ \A u \in Tasks : Unhurt(u)
  BY Parts DEF Finish, Calls, CalmInv, IInv, Running
<1>2. task[t].pc \notin Positions(t)
  <2>1. SUFFICES ASSUME task[t].pc \in Positions(t) PROVE FALSE
    OBVIOUS
  <2>2. Now(t) = Text(t)[task[t].pc]
    BY <1>1, <2>1, NowFacts
  <2> QED BY <1>1, <2>1, <2>2 DEF CalmInv, Calm
<1>3. Apart(t)
  BY <1>1, <1>2 DEF CalmInv, ApartInv
<1>4. ProcessEnds(t, "ok")
  BY <1>1 DEF Finish, Unhurt
<1> DEFINE Told(u) == IF u = task[t].parent /\ Live(u) /\ HandlerOf(u, "CHLD") # {}
                      THEN [task[u] EXCEPT !.pending = @ \cup {"CHLD"}] ELSE task[u]
           Ended(u) == IF u = t THEN "ok" ELSE "killed"
<1>5. task' = [u \in Tasks |-> IF ProcessOf(u) = ProcessOf(t) /\ Live(u)
                               THEN [Told(u) EXCEPT !.st = Ended(u), !.wait = "", !.wake = 0,
                                                    !.pending = {}]
                               ELSE Told(u)]
  BY <1>4 DEF ProcessEnds
<1>6. \A u \in Tasks : Told(u) = task[u]
  BY <1>1 DEF Unhurt, HandlerOf
<1> HIDE DEF Told
<1>7. /\ task'[t] = [task[t] EXCEPT !.st = "ok", !.wait = "", !.wake = 0, !.pending = {}]
      /\ \A u \in Tasks \ {t} : task'[u] = task[u]
  BY <1>1, <1>3, <1>5, <1>6 DEF Apart
<1>8. Peaceful(t)
  <2>1. Unhurt(t)' /\ task'[t].st = "ok" /\ task'[t].pc = task[t].pc
    BY <1>1, <1>7 DEF Unhurt, TaskShape
  <2>2. \A u \in Tasks \ {t} : Unhurt(u)' /\ task'[u].st = task[u].st /\ task'[u].pc = task[u].pc
    BY <1>1, <1>7 DEF Unhurt
  <2> QED BY <2>1, <2>2 DEF Peaceful, Keeping
<1>9. UNCHANGED program /\ sync'.mutex = sync.mutex
  BY <1>1, <1>4 DEF ProcessEnds, SyncShape
<1> QED BY <1>8, <1>9, AltersKinds DEF Good, Alters

\* The end of a wait for a mutex, with it or after the deadline.
LEMMA RelockGood ==
    ASSUME NEW o, CalmInv(o), NEW t \in Tasks, Relock(t)
    PROVE  Good(t)
<1>1. Live(t) /\ task[t].wait = "relock" /\ UNCHANGED program /\ IInv(o)
  BY DEF Relock, KeepData, CalmInv
<1>2. Now(t).op \notin {"jump", "end", "exit"}
  BY <1>1, WaitingFact
<1>3. Sets(t, t, "") /\ \E m : Alters(t, m)
  BY DEF Relock, Sets, Alters
<1> QED BY <1>1, <1>2, <1>3, OnwardSets, OnwardPeaceful, AltersKinds DEF Good

LEMMA StuckGood ==
    ASSUME NEW o, CalmInv(o), NEW t \in Tasks, StuckEnds(t)
    PROVE  Good(t)
<1>1. /\ Live(t) /\ task[t].wait = "stuck" /\ UNCHANGED program /\ IInv(o) /\ TaskShape
      /\ \A u \in Tasks : Unhurt(u)
  BY DEF StuckEnds, KeepData, CalmInv, IInv
<1>2. Now(t).op = "timedlock"
  BY <1>1, WaitingFact
<1>3. Now(t).bad \in {"task", "ignore"}
  BY <1>2, CalmCall
<1>4. KindInv'
  <2>1. \E m : Alters(t, m)
    BY DEF StuckEnds, Alters
  <2> QED BY <1>1, <2>1, AltersKinds
<1>5. CASE task' = [On(t) EXCEPT ![t].wait = ""]
  BY <1>1, <1>2, <1>4, <1>5, OnwardSets, OnwardPeaceful DEF Good, Sets
<1>6. CASE task' = [Leaving(t) EXCEPT ![t].wait = ""]
  <2>1. CASE \E u \in Tasks \ {t} : ProcessOf(u) = ProcessOf(t) /\ Live(u)
    <3>1. task' = [[task EXCEPT ![t].st = "ok"] EXCEPT ![t].wait = ""]
      BY <1>6, <2>1 DEF Leaving
    <3>2. \A u \in Tasks : Unhurt(u)'
      BY <1>1, <3>1 DEF TaskShape, Unhurt
    <3> QED BY <1>1, <1>4, <3>1, <3>2 DEF Good, Peaceful, Keeping, TaskShape
  <2>2. CASE ~ \E u \in Tasks \ {t} : ProcessOf(u) = ProcessOf(t) /\ Live(u)
    <3>1. task' = [Exiting(t, 0) EXCEPT ![t].wait = ""] /\ Apart(t)
      BY <1>6, <2>2 DEF Leaving, Apart
    <3>2. \A u \in Tasks : Unhurt(u)'
      BY <1>1, <3>1 DEF TaskShape, Unhurt, Exiting
    <3> QED BY <1>1, <1>4, <3>1, <3>2 DEF Good, Peaceful, Keeping, TaskShape, Exiting
  <2> QED BY <2>1, <2>2
<1> QED BY <1>3, <1>5, <1>6 DEF StuckEnds, Failed

\* Time passes, or a condition wakes a task: nobody moves.
LEMMA TimeCalm ==
    ASSUME NEW o, CalmInv(o), IInv(o)', Tick \/ \E t \in Tasks : CondWakes(t)
    PROVE  CalmInv(o)'
<1>1. /\ UNCHANGED << program, sync >> /\ TaskShape /\ \A u \in Tasks : Unhurt(u)
  BY DEF Tick, CondWakes, KeepBoth, CalmInv, IInv
<1>2. ASSUME NEW u \in Tasks
      PROVE  Unhurt(u)' /\ task'[u].st = task[u].st /\ task'[u].pc = task[u].pc
  <2>1. CASE Tick
    <3>1. PICK x, y : task'[u] = [task[u] EXCEPT !.wake = x, !.left = y]
      BY <2>1 DEF Tick
    <3> QED BY <1>1, <3>1 DEF TaskShape, Unhurt
  <2>2. CASE \E t \in Tasks : CondWakes(t)
    BY <1>1, <2>2 DEF CondWakes, TaskShape, Unhurt
  <2> QED BY <2>1, <2>2
<1>3. KindInv'
  BY <1>1, SameKinds
<1>4. ApartInv'
  BY <1>1, <1>2, ApartKept DEF CalmInv, Keeping, Live
<1> QED BY <1>1, <1>2, <1>3, <1>4, CalmKept

\* A call of a running task.
LEMMA CallCalm ==
    ASSUME NEW o, CalmInv(o), IInv(o)', UNCHANGED program, NEW t \in Tasks, Running(t), Open(t),
           ThreadStep(t) \/ ProcessStep(t) \/ DataStep(t)
    PROVE  CalmInv(o)'
<1>1. Now(t).op \notin {"kill", "onsignal", "pipewrite"}
  BY CalmCall
<1>2. ~ KillCall(t) /\ ~ OnSignalCall(t) /\ ~ PipeWriteCall(t)
  BY <1>1 DEF KillCall, OnSignalCall, PipeWriteCall, Calls
<1>3. CASE BarrierWaitCall(t)
  BY <1>3, BarrierCalm
<1>4. CASE CreateCall(t) \/ ForkCall(t)
  BY <1>4, BirthCalm
<1>5. ASSUME Good(t) PROVE CalmInv(o)'
  BY <1>5, PeacefulKeeps DEF Good
<1>6. CASE \/ SleepCall(t) \/ FutureCall(t) \/ AtExitCall(t) \/ RestoreCall(t) \/ LoadCall(t)
           \/ CondSignalCall(t) \/ CondBroadcastCall(t) \/ PauseCall(t) \/ JoinCall(t)
  BY <1>5, <1>6, PlainGood
<1>7. CASE \/ ShmRemoveCall(t) \/ MsgGetCall(t) \/ MsgRemoveCall(t) \/ PipeOpenCall(t)
           \/ PipeReadCall(t) \/ PipeCloseCall(t) \/ WriteCall(t) \/ FileCall(t) \/ SortCall(t)
  BY <1>5, <1>7, DataGood
<1>8. CASE Test(t) \/ GetLineCall(t)
  BY <1>5, <1>8, TestGood
<1>9. CASE ShmGetCall(t) \/ MsgSendCall(t) \/ MsgReceiveCall(t) \/ WaitCall(t)
  BY <1>5, <1>9, MessagesGood
<1>10. CASE EndCall(t) \/ ExitCall(t) \/ Finish(t)
  BY <1>5, <1>10, LeavingGood, FinishGood
<1>11. CASE LockCall(t) \/ TryLockCall(t) \/ TimedLockCall(t) \/ ReadLockCall(t)
  BY <1>5, <1>11, LockGood
<1>12. CASE UnlockCall(t) \/ MutexDestroyCall(t) \/ CondWaitCall(t) \/ MutexInitCall(t)
  BY <1>5, <1>12, UnlockGood, MutexInitGood
<1>13. CASE \/ BarrierInitCall(t) \/ OnceDoneCall(t) \/ SemOpenCall(t) \/ SemSetCall(t)
            \/ SemPostCall(t) \/ SemRemoveCall(t)
  BY <1>5, <1>13, SyncGood
<1>14. CASE OnceCall(t) \/ SemWaitCall(t)
  BY <1>5, <1>14, OnceGood, SemWaitGood
<1> QED BY <1>2, <1>3, <1>4, <1>6, <1>7, <1>8, <1>9, <1>10, <1>11, <1>12, <1>13, <1>14
        DEF ThreadStep, ProcessStep, DataStep

LEMMA NextCalm ==
    ASSUME NEW o, CalmInv(o), [Next]_vars
    PROVE  CalmInv(o)'
<1>1. IInv(o)' /\ UNCHANGED program
  BY NextKeeps, ProgramKept DEF CalmInv
<1>2. CASE \E t \in Tasks : Step(t)
  <2>1. PICK t \in Tasks : Step(t)
    BY <1>2
  <2>2. CASE Running(t) /\ Open(t) /\ (ThreadStep(t) \/ ProcessStep(t) \/ DataStep(t))
    BY <1>1, <2>2, CallCalm
  <2>3. CASE Relock(t) \/ StuckEnds(t)
    BY <1>1, <2>3, RelockGood, StuckGood, PeacefulKeeps DEF Good
  <2>4. ~ Deliver(t)
    BY DEF Deliver, CalmInv, Unhurt
  <2> QED BY <2>1, <2>2, <2>3, <2>4 DEF Step
<1>3. CASE Tick \/ \E t \in Tasks : CondWakes(t)
  BY <1>1, <1>3, TimeCalm
<1>4. CASE UNCHANGED vars
  <2>1. task' = task /\ sync' = sync
    BY <1>4 DEF vars
  <2>2. \A t \in Tasks : Unhurt(t)'
    BY <2>1 DEF CalmInv, Unhurt
  <2>3. KindInv'
    BY <1>1, <2>1, SameKinds
  <2>4. ApartInv'
    BY <1>1, <2>1, ApartKept DEF CalmInv, Keeping, Live
  <2> QED BY <1>1, <2>2, <2>3, <2>4, CalmKept
<1> QED BY <1>2, <1>3, <1>4 DEF Next

LEMMA FirstCalm ==
    ASSUME NEW o, Outlined(o), Prepared(o), Calm(o), Init
    PROVE  CalmInv(o)
<1>1. IInv(o)
  BY FirstState
<1>2. ASSUME NEW t \in Tasks PROVE Unhurt(t) /\ task[t].pc \in Positions(t)
  <2>1. /\ {"code", "pending", "handler"} \subseteq DOMAIN task[t]
        /\ task[t].pc = 1 /\ task[t].code = 0 /\ task[t].pending = {} /\ task[t].handler = {}
    BY <1>2 DEF Init, NewTask
  <2>2. task[t].st \in {"live", "unborn"}
    BY <1>2 DEF Init, NewTask
  <2> QED BY <1>2, <2>1, <2>2 DEF Unhurt, Calm
<1>3. KindInv
  <2>1. ASSUME NEW m \in MutexNames PROVE Mutex(m).kind \in {"normal", "raw"}
    BY <2>1 DEF Init, Mutex
  <2> QED BY <2>1 DEF KindInv
<1> QED BY <1>1, <1>2, <1>3 DEF CalmInv, ApartInv

\* Whatever the texts and the interleaving: if what is used is ready and the
\* outline is calm, every task that ends does so without an error, and none
\* is killed, by a signal or because its process ends before it.
THEOREM EndsInPeace ==
    ASSUME NEW o PROVE Outlined(o) /\ Prepared(o) /\ Calm(o) /\ Spec => []EndsWell
<1>1. Outlined(o) /\ Prepared(o) /\ Calm(o) /\ Init => CalmInv(o)
  BY FirstCalm
<1>2. CalmInv(o) /\ [Next]_vars => CalmInv(o)'
  BY NextCalm
<1>3. CalmInv(o) => EndsWell
  BY DEF CalmInv, Unhurt, EndsWell
<1> QED BY <1>1, <1>2, <1>3, PTL DEF Spec
=============================================================================
