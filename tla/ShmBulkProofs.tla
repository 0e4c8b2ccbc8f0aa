---------------------------- MODULE ShmBulkProofs ----------------------------
(***************************************************************************)
(* Proofs about the counting programs with one semaphore, for any number   *)
(* of processes and counters, any inputs and any processes killed.         *)
(*                                                                         *)
(* The argument: one process at a time is between taking and giving back   *)
(* the unit, also after kills, which return the unit or leave it taken for *)
(* ever.  Who adds its counters therefore finds the totals as whole inputs *)
(* have left them, and the beginnings of those killed halfway; who prints  *)
(* them is interrupted by last lines only.                                 *)
(***************************************************************************)
EXTENDS ShmBulk, FiniteSetTheorems, TLAPS

(* The steps, without what distinguishes them in name only. *)
Takes(p) ==
    \/ TakeUnit(p, "wait", "load")
    \/ TakeUnit(p, "wait_output", "print")

Gives(p) ==
    \/ GiveUnit(p, "release", "wait_output")
    \/ GiveUnit(p, "post", "exit")

Ends(p) ==
    \E how \in Ended :
        /\ End(p, how)
        /\ pc[p] \in {"load", "store"} => how = "killed"
        /\ how = "done" => pc[p] = "exit"
        /\ pc[p] # "killed"
        /\ \/ how = "killed" /\ UNCHANGED stdout
           \/ /\ how \in {"done", "failed"} /\ pc[p] \notin Ended
              /\ \E what \in {"done", "error"} : stdout' = Append(stdout, Line(p, what))

Move(p) ==
    Takes(p) \/ Gives(p) \/ Load(p) \/ Store(p) \/ PrintTotal(p) \/ Ends(p)

Quiet == UNCHANGED <<program, local, counter, sem, adj, pc, reg, added, copy,
                     shown, stdout>>

LEMMA Moves ==
    ASSUME [Next]_vars
    PROVE  Quiet \/ \E p \in Procs : Move(p)
<1>1. CASE UNCHANGED vars
    BY <1>1 DEF vars, Quiet
<1>2. CASE Cleanup
    BY <1>2 DEF Cleanup, Quiet
<1>3. ASSUME NEW p \in Procs, ProcStep(p) PROVE Move(p)
    BY <1>3 DEF ProcStep, Wait, WaitOutput, Release, Post, Exit, SemopFails,
                Move, Takes, Gives, Ends, Ended
<1>4. ASSUME NEW p \in Procs, Kill(p) PROVE Move(p)
    BY <1>4 DEF Kill, Move, Ends, Ended
<1> QED BY <1>1, <1>2, <1>3, <1>4 DEF Next

-----------------------------------------------------------------------------
(* Where a process is, and that one at a time holds the unit. *)

Lines == [by : Procs, what : {"total", "done", "error"}]

Types ==
    /\ local \in [Procs -> [Slots -> 0 .. MaxCount]]
    /\ counter \in [Slots -> Nat]
    /\ reg \in [Procs -> Nat]
    /\ added \in [Procs -> Nat]
    /\ copy \in [Procs -> [Slots -> Nat \cup {NULL}]]
    /\ shown \in [Procs -> [Slots -> Nat \cup {NULL}]]
    /\ pc \in [Procs -> PCs]
    /\ stdout \in Seq(Lines)

Adding == {"load", "store"}
Before == {"wait", "load", "store", "release", "wait_output"}
After  == {"release", "wait_output", "print", "post", "exit", "done"}

Phase(p) ==
    /\ added[p] <= ALPHA_SIZE
    /\ pc[p] = "wait" => added[p] = 0
    /\ pc[p] \in Adding => added[p] < ALPHA_SIZE
    /\ pc[p] \in After => added[p] = ALPHA_SIZE
    /\ pc[p] \notin Adding \cup {"killed"} => added[p] \in {0, ALPHA_SIZE}
    /\ pc[p] \in Before => \A c \in Slots : shown[p][c] = NULL

Unit ==
    /\ sem \in {0, 1}
    /\ adj = [p \in Procs |-> IF SEM_UNDO /\ Holding(p) THEN 1 ELSE 0]
    /\ sem = 1 => \A p \in Procs : ~Holding(p)
    /\ \A p, q \in Procs : Holding(p) /\ Holding(q) => p = q

ControlInv == Types /\ Unit /\ \A p \in Procs : Phase(p)

LEMMA SlotFacts ==
    /\ \A c \in Slots : c \in Nat /\ c < ALPHA_SIZE
    /\ \A n \in Nat : n < ALPHA_SIZE => n \in Slots
    /\ ALPHA_SIZE \in Nat /\ ALPHA_SIZE > 0
    /\ NULL \notin Nat /\ NULL \in Int
BY ShmBulkAssumption DEF Slots, NULL

\* What a step of p leaves alone.
LEMMA Elsewhere ==
    ASSUME Types, NEW p \in Procs, Move(p)
    PROVE  /\ UNCHANGED <<program, local>>
           /\ \A q \in Procs : q # p =>
                 /\ pc'[q] = pc[q] /\ added'[q] = added[q] /\ reg'[q] = reg[q]
                 /\ copy'[q] = copy[q] /\ shown'[q] = shown[q]
<1>1. CASE Takes(p) \/ Gives(p)
    BY <1>1 DEF Takes, Gives, TakeUnit, GiveUnit, Semop, Types
<1>2. CASE Load(p)
    BY <1>2 DEF Load, Types
<1>3. CASE Store(p)
    BY <1>3 DEF Store, Types
<1>4. CASE PrintTotal(p)
    BY <1>4 DEF PrintTotal, Types
<1>5. CASE Ends(p)
    BY <1>5 DEF Ends, End, Types
<1> QED BY <1>1, <1>2, <1>3, <1>4, <1>5 DEF Move

\* The data stay as they are in all steps but those of the loops.
LEMMA DataMoves ==
    ASSUME NEW p \in Procs, Move(p)
    PROVE  \/ Store(p) \/ PrintTotal(p)
           \/ /\ UNCHANGED <<counter, added, copy, shown>>
              /\ UNCHANGED reg \/ Load(p)
              /\ UNCHANGED stdout \/ Ends(p)
BY DEF Move, Takes, Gives, TakeUnit, GiveUnit, Load, Ends, End

-----------------------------------------------------------------------------
(* Every step keeps the control invariant. *)

LEMMA StoreTypes ==
    ASSUME Types, NEW p \in Procs, Phase(p), Store(p)
    PROVE  /\ added[p] \in Slots /\ added[p] \in Nat
           /\ Total(p) = reg[p] + local[p][added[p]] /\ Total(p) \in Nat
           /\ counter' = [counter EXCEPT ![added[p]] = Total(p)]
           /\ added' = [added EXCEPT ![p] = added[p] + 1]
           /\ UNCHANGED <<shown, stdout, reg>>
           /\ Types'
<1>1. /\ pc[p] = "store"
      /\ counter' = [counter EXCEPT ![added[p]] = Total(p)]
      /\ copy' = IF Copies THEN [copy EXCEPT ![p] = [copy[p] EXCEPT ![added[p]] = Total(p)]]
                 ELSE copy
      /\ added' = [added EXCEPT ![p] = added[p] + 1]
      /\ pc' = [pc EXCEPT
                  ![p] = IF added[p] + 1 < ALPHA_SIZE THEN "load" ELSE AfterAddition]
      /\ UNCHANGED <<program, local, sem, adj, removed, reg, shown, stdout>>
    BY DEF Store
<1>2. added[p] \in Nat /\ added[p] < ALPHA_SIZE
    BY <1>1 DEF Types, Phase, Adding
<1>3. added[p] \in Slots
    BY <1>2, SlotFacts
<1>4. local[p][added[p]] \in 0 .. MaxCount /\ reg[p] \in Nat
    BY <1>3 DEF Types
<1>5. Total(p) = reg[p] + local[p][added[p]] /\ Total(p) \in Nat
    BY <1>4 DEF Total
<1>6. [copy[p] EXCEPT ![added[p]] = Total(p)] \in [Slots -> Nat \cup {NULL}]
    BY <1>5 DEF Types
<1>7. copy' \in [Procs -> [Slots -> Nat \cup {NULL}]]
    BY <1>1, <1>6 DEF Types
<1>8. pc' \in [Procs -> PCs]
    BY <1>1 DEF Types, PCs, AfterAddition
<1>a. counter \in [Slots -> Nat] /\ added \in [Procs -> Nat]
    BY DEF Types
<1>b. added[p] + 1 \in Nat
    BY <1>2
<1>c. counter' \in [Slots -> Nat]
    BY <1>1, <1>5, <1>a
<1>d. added' \in [Procs -> Nat]
    BY <1>1, <1>a, <1>b
<1>9. counter' \in [Slots -> Nat] /\ added' \in [Procs -> Nat]
    BY <1>c, <1>d
<1>10. Types'
    BY <1>1, <1>7, <1>8, <1>9 DEF Types
<1> QED BY <1>1, <1>2, <1>3, <1>5, <1>10

LEMMA PrintTypes ==
    ASSUME Types, NEW p \in Procs, PrintTotal(p)
    PROVE  /\ Types'
           /\ stdout' = Append(stdout, Line(p, "total"))
           /\ \A c \in Slots : \/ shown'[p][c] = shown[p][c]
                               \/ shown'[p][c] = Totals(p)[c]
<1> DEFINE c == NextShown(p)
<1>1. /\ shown' = [shown EXCEPT ![p] = [shown[p] EXCEPT ![c] = Totals(p)[c]]]
      /\ stdout' = Append(stdout, Line(p, "total"))
      /\ \E to \in PCs : pc' = [pc EXCEPT ![p] = to]
      /\ UNCHANGED <<program, local, counter, sem, adj, removed, reg, added, copy>>
    BY DEF PrintTotal, PCs
<1> HIDE DEF c
<1>2. /\ Totals(p) \in [Slots -> Nat \cup {NULL}]
      /\ shown[p] \in [Slots -> Nat \cup {NULL}]
    BY DEF Totals, Types
<1>3. [shown[p] EXCEPT ![c] = Totals(p)[c]] \in [Slots -> Nat \cup {NULL}]
    BY <1>2
<1>4. /\ shown' \in [Procs -> [Slots -> Nat \cup {NULL}]]
      /\ shown'[p] = [shown[p] EXCEPT ![c] = Totals(p)[c]]
    BY <1>1, <1>3 DEF Types
<1>5. \A d \in Slots : shown'[p][d] = shown[p][d] \/ shown'[p][d] = Totals(p)[d]
    BY <1>4 DEF Types
<1>6. pc' \in [Procs -> PCs]
    BY <1>1 DEF Types
<1>7. stdout' \in Seq(Lines)
  <2>1. Line(p, "total") \in Lines
      BY DEF Line, Lines
  <2> QED BY <1>1, <2>1 DEF Types
<1>8. Types'
    BY <1>1, <1>4, <1>6, <1>7 DEF Types
<1> QED BY <1>1, <1>5, <1>8

LEMMA TypesKept ==
    ASSUME ControlInv, NEW p \in Procs, Move(p)
    PROVE  Types'
<1>0. Types /\ Phase(p)
    BY DEF ControlInv
<1>1. CASE Takes(p) \/ Gives(p)
    BY <1>0, <1>1 DEF Takes, Gives, TakeUnit, GiveUnit, Semop, Types, PCs
<1>2. CASE Load(p)
  <2>1. added[p] \in Slots
      BY <1>0, <1>2, SlotFacts DEF Load, Phase, Adding, Types
  <2> QED BY <1>0, <1>2, <2>1 DEF Load, Types, PCs
<1>3. CASE Store(p)
    BY <1>0, <1>3, StoreTypes
<1>4. CASE PrintTotal(p)
    BY <1>0, <1>4, PrintTypes
<1>5. CASE Ends(p)
  <2>1. stdout' \in Seq(Lines)
    <3>1. \A what \in {"done", "error"} : Line(p, what) \in Lines
        BY DEF Line, Lines
    <3>2. stdout \in Seq(Lines)
        BY <1>0 DEF Types
    <3>3. \/ stdout' = stdout
          \/ \E what \in {"done", "error"} : stdout' = Append(stdout, Line(p, what))
        BY <1>5 DEF Ends
    <3> HIDE DEF Lines, Line
    <3> QED BY <3>1, <3>2, <3>3
  <2> QED BY <1>0, <1>5, <2>1 DEF Ends, End, Types, PCs
<1> QED BY <1>1, <1>2, <1>3, <1>4, <1>5 DEF Move

LEMMA PhaseKept ==
    ASSUME ControlInv, NEW p \in Procs, Move(p)
    PROVE  \A q \in Procs : Phase(q)'
<1>0. Types /\ Phase(p) /\ \A q \in Procs : Phase(q)
    BY DEF ControlInv
<1>1. ASSUME NEW q \in Procs, q # p PROVE Phase(q)'
    BY <1>0, <1>1, Elsewhere DEF Phase
<1>2. Phase(p)'
  <2>1. CASE Takes(p) \/ Gives(p)
    <3>1. \/ pc[p] = "wait" /\ pc'[p] = "load"
          \/ pc[p] = "wait_output" /\ pc'[p] = "print"
          \/ pc[p] = "release" /\ pc'[p] = "wait_output"
          \/ pc[p] = "post" /\ pc'[p] = "exit"
        BY <1>0, <2>1 DEF Takes, Gives, TakeUnit, GiveUnit, Semop, Types
    <3>2. UNCHANGED <<added, shown>>
        BY <2>1 DEF Takes, Gives, TakeUnit, GiveUnit
    <3> QED BY <1>0, <3>1, <3>2, SlotFacts DEF Phase, Adding, Before, After
  <2>2. CASE Load(p)
    <3>1. pc[p] = "load" /\ pc'[p] = "store" /\ UNCHANGED <<added, shown>>
        BY <1>0, <2>2 DEF Load, Types
    <3> QED BY <1>0, <3>1 DEF Phase, Adding, Before, After
  <2>3. CASE Store(p)
    <3>1. /\ pc[p] = "store" /\ added'[p] = added[p] + 1 /\ added[p] \in Nat
          /\ pc'[p] = (IF added[p] + 1 < ALPHA_SIZE THEN "load" ELSE AfterAddition)
          /\ UNCHANGED shown
        BY <1>0, <2>3 DEF Store, Types
    <3>2. added[p] < ALPHA_SIZE /\ AfterAddition \in {"release", "print"}
        BY <1>0, <3>1 DEF Phase, Adding, AfterAddition
    <3> QED BY <1>0, <3>1, <3>2, SlotFacts DEF Phase, Adding, Before, After
  <2>4. CASE PrintTotal(p)
    <3>1. /\ pc[p] = "print" /\ pc'[p] \in {"print", "post"} /\ UNCHANGED added
        BY <1>0, <2>4 DEF PrintTotal, Types
    <3> QED BY <1>0, <3>1 DEF Phase, Adding, Before, After
  <2>5. CASE Ends(p)
    <3>1. PICK how \in Ended :
              /\ pc' = [pc EXCEPT ![p] = how]
              /\ UNCHANGED <<added, shown>>
              /\ pc[p] \in Adding => how = "killed"
              /\ how = "done" => pc[p] = "exit"
              /\ pc[p] # "killed"
        BY <2>5 DEF Ends, End, Adding
    <3>2. pc'[p] = how
        BY <1>0, <3>1 DEF Types
    <3> QED BY <1>0, <3>1, <3>2 DEF Phase, Adding, Before, After, Ended
  <2> QED BY <2>1, <2>2, <2>3, <2>4, <2>5 DEF Move
<1> QED BY <1>1, <1>2

LEMMA UnitKept ==
    ASSUME ControlInv, NEW p \in Procs, Move(p)
    PROVE  Unit'
<1>0. Types /\ Unit /\ program' = program /\ SEM_UNDO' = SEM_UNDO
    BY Elsewhere DEF ControlInv, SEM_UNDO
<1>1. \A q \in Procs : q # p => (Holding(q)' = Holding(q))
    BY <1>0, Elsewhere DEF Holding
<1>2. CASE Takes(p)
  <2>1. /\ sem - 1 >= 0 /\ sem' = sem - 1
        /\ adj' = IF SEM_UNDO THEN [adj EXCEPT ![p] = adj[p] + 1] ELSE adj
    <3>1. /\ sem + (-1) >= 0 /\ sem' = sem + (-1)
          /\ adj' = IF SEM_UNDO THEN [adj EXCEPT ![p] = adj[p] - (-1)] ELSE adj
        BY <1>2 DEF Takes, TakeUnit, Semop, Take
    <3>2. sem \in Int /\ adj[p] \in Int
        BY <1>0 DEF Unit
    <3>3. adj[p] - (-1) = adj[p] + 1
        BY <3>2
    <3> QED BY <3>1, <3>2, <3>3
  <2>2. Holding(p)'
      BY <1>0, <1>2 DEF Takes, TakeUnit, Semop, Holding, Types
  <2>3. sem' = 0 /\ \A q \in Procs : ~Holding(q)
      BY <1>0, <2>1 DEF Unit
  <2>4. adj' = [q \in Procs |-> IF SEM_UNDO /\ Holding(q)' THEN 1 ELSE 0]
    <3>1. adj = [q \in Procs |-> 0]
        BY <1>0, <2>3 DEF Unit
    <3>2. CASE SEM_UNDO
      <4>1. adj' = [[q \in Procs |-> 0] EXCEPT ![p] = 1]
          BY <2>1, <3>1, <3>2
      <4> QED BY <1>1, <2>2, <2>3, <3>2, <4>1
    <3>3. CASE ~SEM_UNDO
        BY <2>1, <3>1, <3>3
    <3> QED BY <3>2, <3>3
  <2> QED BY <1>0, <1>1, <2>3, <2>4 DEF Unit
<1>3. CASE Gives(p)
  <2>1. /\ sem' = sem + 1
        /\ adj' = IF SEM_UNDO THEN [adj EXCEPT ![p] = adj[p] - 1] ELSE adj
      BY <1>3 DEF Gives, GiveUnit, Semop, Give
  <2>2. Holding(p) /\ ~Holding(p)'
      BY <1>0, <1>3 DEF Gives, GiveUnit, Semop, Holding, Types
  <2>3. sem = 0 /\ sem' = 1 /\ \A q \in Procs : Holding(q) => q = p
      BY <1>0, <2>1, <2>2 DEF Unit
  <2>4. \A q \in Procs : ~Holding(q)'
      BY <1>1, <2>2, <2>3
  <2>5. adj' = [q \in Procs |-> 0]
    <3>1. \A q \in Procs : adj[q] = IF SEM_UNDO /\ q = p THEN 1 ELSE 0
        BY <1>0, <2>2, <2>3 DEF Unit
    <3>2. adj = [q \in Procs |-> adj[q]]
        BY <1>0 DEF Unit
    <3>3. adj' = [q \in Procs |-> adj'[q]]
        BY <2>1, <3>2
    <3>4. \A q \in Procs : adj'[q] = 0
        BY <2>1, <3>1, <3>2
    <3> QED BY <3>3, <3>4
  <2> QED BY <1>0, <2>3, <2>4, <2>5 DEF Unit
<1>4. CASE Load(p) \/ Store(p) \/ PrintTotal(p)
  <2>1. UNCHANGED <<sem, adj>>
      BY <1>4 DEF Load, Store, PrintTotal
  <2>2. Holding(p) /\ Holding(p)'
      BY <1>0, <1>4 DEF Load, Store, PrintTotal, AfterAddition, Holding, Types
  <2> QED BY <1>0, <1>1, <2>1, <2>2 DEF Unit
<1>5. CASE Ends(p)
  <2>1. sem' = sem + adj[p] /\ adj' = [adj EXCEPT ![p] = 0]
      BY <1>5 DEF Ends, End, Undo
  <2>2. ~Holding(p)'
      BY <1>0, <1>5 DEF Ends, End, Holding, Ended, Types
  <2>3. adj' = [q \in Procs |-> IF SEM_UNDO /\ Holding(q)' THEN 1 ELSE 0]
      BY <1>0, <1>1, <2>1, <2>2 DEF Unit
  <2>4. \A q, r \in Procs : Holding(q)' /\ Holding(r)' => q = r
      BY <1>0, <1>1, <2>2 DEF Unit
  <2>5. CASE Holding(p)
    <3>1. sem = 0 /\ adj[p] \in {0, 1} /\ \A q \in Procs : Holding(q) => q = p
        BY <1>0, <2>5 DEF Unit
    <3>2. \A q \in Procs : ~Holding(q)'
        BY <1>1, <2>2, <3>1
    <3> QED BY <1>0, <2>1, <2>3, <3>1, <3>2 DEF Unit
  <2>6. CASE ~Holding(p)
    <3>1. adj[p] = 0 /\ sem' = sem
        BY <1>0, <2>1, <2>6 DEF Unit
    <3> QED BY <1>0, <1>1, <2>2, <2>3, <2>4, <3>1 DEF Unit
  <2> QED BY <2>5, <2>6
<1> QED BY <1>2, <1>3, <1>4, <1>5 DEF Move

LEMMA ControlKept ==
    ASSUME ControlInv, NEW p \in Procs, Move(p)
    PROVE  ControlInv'
BY TypesKept, PhaseKept, UnitKept DEF ControlInv

\* The others do nothing that needs the unit while p has it.
LEMMA Alone ==
    ASSUME ControlInv, NEW p \in Procs, Holding(p), NEW q \in Procs, q # p
    PROVE  ~Holding(q) /\ pc[q] \notin Adding \cup {"print"}
BY DEF ControlInv, Unit, Holding, Adding

-----------------------------------------------------------------------------
(* The common output *)

TotalOf(p) == Line(p, "total")
Printed(p) == \E i \in 1 .. Len(stdout) : stdout[i] = TotalOf(p)

\* No total of another process after those of p.
Latest(p) ==
    \A i, j \in 1 .. Len(stdout) :
        i < j /\ stdout[i] = TotalOf(p) /\ IsTotal(j) => stdout[j] = TotalOf(p)

BlockInv ==
    /\ \A p \in Procs : pc[p] \in Before => ~Printed(p)
    /\ \A p \in Procs : pc[p] = "print" => Latest(p)
    /\ \A i \in 1 .. Len(stdout) : ~IsTotal(i) => pc[stdout[i].by] \in Ended
    /\ BlocksWhole

LEMMA OneMore ==
    ASSUME NEW s \in Seq(Lines), NEW x \in Lines
    PROVE  /\ Len(s) \in Nat /\ Len(Append(s, x)) = Len(s) + 1
           /\ \A i \in 1 .. Len(s) : Append(s, x)[i] = s[i] /\ s[i] \in Lines
           /\ Append(s, x)[Len(s) + 1] = x
OBVIOUS

\* A line of a process that has not ended keeps the blocks whole, if it is
\* no total of one whose totals others have followed.
LEMMA LineAdded ==
    ASSUME Types, BlockInv, NEW p \in Procs, pc[p] \notin Ended,
           NEW what \in {"total", "done", "error"},
           stdout' = Append(stdout, Line(p, what)),
           what = "total" => Latest(p)
    PROVE  /\ BlocksWhole'
           /\ Len(stdout') = Len(stdout) + 1 /\ Len(stdout) \in Nat
           /\ \A i \in 1 .. Len(stdout) : /\ stdout'[i] = stdout[i]
                                         /\ stdout[i] \in Lines
           /\ stdout'[Len(stdout) + 1] = Line(p, what)
<1>0. Line(p, what) \in Lines /\ stdout \in Seq(Lines)
    BY DEF Line, Lines, Types
<1> DEFINE n == Len(stdout)
<1>1. /\ n \in Nat /\ Len(stdout') = n + 1
      /\ \A i \in 1 .. n : stdout'[i] = stdout[i] /\ stdout[i] \in Lines
      /\ stdout'[n + 1] = Line(p, what)
    BY <1>0, OneMore
<1>2. \A i \in 1 .. n : IsTotal(i)' <=> IsTotal(i)
    BY <1>1 DEF IsTotal
<1>3. \A i \in 1 .. n : IsTotal(i) <=> stdout[i] = TotalOf(stdout[i].by)
    BY <1>1 DEF IsTotal, TotalOf, Line, Lines
<1> HIDE DEF n
<1>4. ASSUME NEW k \in 1 .. n + 1, NEW j \in 1 .. k - 1
      PROVE  /\ ~IsTotal(j)' => stdout'[k].by # stdout'[j].by
             /\ IsTotal(j)' /\ stdout'[j] # stdout'[k] =>
                    \A i \in 1 .. j - 1 : IsTotal(i)' => stdout'[i] # stdout'[k]
  <2>1. CASE k \in 1 .. n
    <3>1. /\ ~IsTotal(j) => stdout[k].by # stdout[j].by
          /\ IsTotal(j) /\ stdout[j] # stdout[k] =>
                 \A i \in 1 .. j - 1 : IsTotal(i) => stdout[i] # stdout[k]
        BY <2>1 DEF BlockInv, BlocksWhole, n
    <3>2. j \in 1 .. n /\ \A i \in 1 .. j - 1 : i \in 1 .. n
        BY <1>1, <2>1
    <3> QED BY <1>1, <1>2, <2>1, <3>1, <3>2
  <2>2. CASE k = n + 1
    <3>1. /\ j \in 1 .. n /\ \A i \in 1 .. j - 1 : i \in 1 .. n /\ i < j
          /\ stdout'[k] = Line(p, what)
        BY <1>1, <2>2
    <3>2. ~IsTotal(j)' => stdout'[k].by # stdout'[j].by
      <4>1. ~IsTotal(j)' => pc[stdout[j].by] \in Ended
          BY <1>2, <3>1 DEF BlockInv, n
      <4> QED BY <1>1, <3>1, <4>1 DEF Line
    <3>3. ASSUME IsTotal(j)', stdout'[j] # stdout'[k], NEW i \in 1 .. j - 1, IsTotal(i)',
                 stdout'[i] = stdout'[k]
          PROVE  FALSE
      <4>1. /\ IsTotal(i) /\ IsTotal(j) /\ stdout[i] = Line(p, what)
            /\ stdout[j] # Line(p, what) /\ i \in 1 .. n /\ i < j
          BY <1>1, <1>2, <3>1, <3>3
      <4>2. what = "total"
          BY <4>1 DEF IsTotal, Line
      <4> QED BY <3>1, <4>1, <4>2 DEF Latest, TotalOf, n
    <3> QED BY <3>2, <3>3
  <2> QED BY <1>1, <2>1, <2>2
<1>5. BlocksWhole'
    BY <1>1, <1>4 DEF BlocksWhole
<1> QED BY <1>1, <1>2, <1>5 DEF n

LEMMA BlockKept ==
    ASSUME ControlInv, BlockInv, NEW p \in Procs, Move(p)
    PROVE  BlockInv'
<1>0. Types
    BY DEF ControlInv
<1>1. \A q \in Procs : q # p => pc'[q] = pc[q]
    BY <1>0, Elsewhere
<1>2. ASSUME NEW what \in {"total", "done", "error"}, pc[p] \notin Ended,
             stdout' = Append(stdout, Line(p, what)),
             what = "total" => pc[p] = "print",
             what # "total" => pc'[p] \in Ended,
             pc'[p] \notin Before
      PROVE  BlockInv'
  <2>1. what = "total" => Latest(p)
      BY <1>2 DEF BlockInv
  <2>a. PICK n \in Nat : n = Len(stdout)
      BY <1>0 DEF Types
  <2>2. /\ BlocksWhole'
        /\ Len(stdout') = n + 1
        /\ \A i \in 1 .. n : stdout'[i] = stdout[i] /\ stdout[i] \in Lines
        /\ stdout'[n + 1] = Line(p, what)
      BY <1>0, <1>2, <2>1, <2>a, LineAdded
  <2>3. ASSUME NEW q \in Procs, q # p PROVE Printed(q)' => Printed(q)
    <3>1. SUFFICES ASSUME NEW i \in 1 .. Len(stdout'), stdout'[i] = TotalOf(q)
                   PROVE  Printed(q)
        BY DEF Printed, TotalOf, Line
    <3>2. i # n + 1
        BY <2>2, <2>3, <3>1 DEF TotalOf, Line
    <3>3. i \in 1 .. n /\ stdout[i] = TotalOf(q)
        BY <2>2, <3>1, <3>2
    <3> QED BY <2>a, <3>3 DEF Printed
  <2>4. \A q \in Procs : pc'[q] \in Before => ~Printed(q)'
      BY <1>1, <1>2, <2>3 DEF BlockInv
  <2>5. ASSUME NEW q \in Procs, pc'[q] = "print", NEW i \in 1 .. n + 1,
               NEW j \in 1 .. n + 1, i < j, stdout'[i] = TotalOf(q), IsTotal(j)'
        PROVE  stdout'[j] = TotalOf(q)
    <3>1. pc[q] = "print"
      <4>1. CASE q = p
        <5>1. pc'[p] \notin Ended
            BY <2>5, <4>1 DEF Ended
        <5> QED BY <1>2, <4>1, <5>1
      <4> QED BY <1>1, <2>5, <4>1
    <3>2. i \in 1 .. n /\ stdout[i] = TotalOf(q)
        BY <2>2, <2>5
    <3>3. CASE j \in 1 .. n
      <4>1. IsTotal(j) /\ stdout'[j] = stdout[j]
          BY <2>2, <2>5, <3>3 DEF IsTotal
      <4>2. stdout[j] = TotalOf(q)
          BY <2>5, <2>a, <3>1, <3>2, <3>3, <4>1 DEF BlockInv, Latest
      <4> QED BY <4>1, <4>2
    <3>4. CASE j = n + 1
      <4>1. what = "total"
          BY <2>2, <2>5, <3>4 DEF IsTotal, Line
      <4>2. p = q
          BY <1>2, <3>1, <4>1, Alone DEF Holding
      <4> QED BY <2>2, <3>4, <4>1, <4>2 DEF TotalOf
    <3> QED BY <3>3, <3>4
  <2>6. ASSUME NEW q \in Procs, pc'[q] = "print" PROVE Latest(q)'
    <3>1. \A i, j \in 1 .. n + 1 :
             i < j /\ stdout'[i] = TotalOf(q) /\ IsTotal(j)' => stdout'[j] = TotalOf(q)
        BY <2>5, <2>6
    <3> QED BY <2>2, <3>1 DEF Latest, TotalOf, Line
  <2>7. ASSUME NEW i \in 1 .. n + 1, ~IsTotal(i)'
        PROVE  pc'[stdout'[i].by] \in Ended
    <3>1. CASE i \in 1 .. n
      <4>1. pc[stdout[i].by] \in Ended /\ stdout[i].by \in Procs
        <5>1. ~IsTotal(i) /\ stdout[i] \in Lines
            BY <2>2, <2>7, <3>1 DEF IsTotal
        <5>2. pc[stdout[i].by] \in Ended
            BY <2>a, <3>1, <5>1 DEF BlockInv
        <5> QED BY <5>1, <5>2 DEF Lines
      <4>2. stdout'[i] = stdout[i]
          BY <2>2, <3>1
      <4> QED BY <1>1, <1>2, <4>1, <4>2
    <3>2. CASE i = n + 1
      <4>1. what # "total" /\ stdout'[i].by = p
          BY <2>2, <2>7, <3>2 DEF IsTotal, Line
      <4> QED BY <1>2, <4>1
    <3> QED BY <3>1, <3>2
  <2> QED BY <2>2, <2>4, <2>6, <2>7 DEF BlockInv
<1>3. CASE PrintTotal(p)
  <2>1. /\ pc[p] = "print" /\ pc'[p] \in {"print", "post"}
        /\ stdout' = Append(stdout, Line(p, "total"))
      BY <1>0, <1>3 DEF PrintTotal, Types
  <2> QED BY <1>2, <2>1 DEF Before, Ended
<1>4. CASE Ends(p) /\ stdout' # stdout
  <2>1. PICK what \in {"done", "error"} :
            /\ stdout' = Append(stdout, Line(p, what))
            /\ pc[p] \notin Ended /\ pc'[p] \in Ended
      BY <1>0, <1>4 DEF Ends, End, Types
  <2> QED BY <1>2, <2>1 DEF Before, Ended
<1>5. CASE UNCHANGED stdout /\ ~PrintTotal(p)
  <2>1. \A q \in Procs : /\ Printed(q)' = Printed(q)
                         /\ Latest(q)' = Latest(q)
      BY <1>5 DEF Printed, Latest, IsTotal, TotalOf, Line
  <2>2. /\ pc'[p] \in Before => pc[p] \in Before
        /\ pc'[p] = "print" => pc[p] \in Before
        /\ pc[p] \in Ended => pc'[p] \in Ended
    <3>1. CASE Takes(p) \/ Gives(p)
        BY <1>0, <3>1 DEF Takes, Gives, TakeUnit, GiveUnit, Semop, Before, Ended, Types
    <3>2. CASE Load(p) \/ Store(p)
        BY <1>0, <3>2 DEF Load, Store, Before, Ended, Types
    <3>3. CASE Ends(p)
        BY <1>0, <3>3 DEF Ends, End, Ended, Before, Types
    <3> QED BY <1>5, <3>1, <3>2, <3>3 DEF Move
  <2>3. \A q \in Procs : ~Printed(q) => Latest(q)
      BY DEF Printed, Latest
  <2>4. BlocksWhole' /\ \A i : IsTotal(i)' = IsTotal(i)
      BY <1>5 DEF BlockInv, BlocksWhole, IsTotal
  <2>5. \A i \in 1 .. Len(stdout) : stdout[i].by \in Procs
    <3>1. stdout \in Seq(Lines)
        BY <1>0 DEF Types
    <3>2. \A i \in 1 .. Len(stdout) : stdout[i] \in Lines
        BY <3>1
    <3> QED BY <3>2 DEF Lines
  <2>6. \A i \in 1 .. Len(stdout') : ~IsTotal(i)' => pc'[stdout'[i].by] \in Ended
      BY <1>1, <1>5, <2>2, <2>4, <2>5 DEF BlockInv
  <2>7. \A q \in Procs : pc'[q] = "print" => Latest(q)'
      BY <1>1, <2>1, <2>2, <2>3 DEF BlockInv
  <2>8. \A q \in Procs : pc'[q] \in Before => ~Printed(q)'
      BY <1>1, <2>1, <2>2 DEF BlockInv
  <2> QED BY <2>4, <2>6, <2>7, <2>8 DEF BlockInv
<1>6. Store(p) => UNCHANGED stdout
    BY DEF Store
<1>7. PrintTotal(p) \/ (Ends(p) /\ stdout' # stdout) \/ (UNCHANGED stdout /\ ~PrintTotal(p))
    BY <1>6, DataMoves
<1> QED BY <1>3, <1>4, <1>5, <1>7

-----------------------------------------------------------------------------
(* Sums over the inputs of some processes *)

Occurrences(S, c) == {o \in S \X (1 .. MaxCount) : o[2] <= local[o[1]][c]}

LEMMA SumType ==
    ASSUME NEW S \in SUBSET Procs, NEW c \in Slots
    PROVE  IsFiniteSet(Occurrences(S, c)) /\ SumOf(S, c) \in Nat
<1>1. IsFiniteSet(S)
    BY ShmBulkAssumption, FS_Subset
<1>2. IsFiniteSet(1 .. MaxCount)
    BY ShmBulkAssumption, FS_Interval
<1>3. IsFiniteSet(S \X (1 .. MaxCount))
    BY <1>1, <1>2, FS_Product
<1>4. IsFiniteSet(Occurrences(S, c))
    BY <1>3, FS_Subset DEF Occurrences
<1>5. Cardinality(Occurrences(S, c)) \in Nat
    BY <1>4, FS_CardinalityType
<1> QED BY <1>4, <1>5 DEF SumOf, Occurrences

LEMMA SumAdd ==
    ASSUME Types, NEW S \in SUBSET Procs, NEW c \in Slots, NEW p \in Procs, p \notin S
    PROVE  SumOf(S \cup {p}, c) = SumOf(S, c) + local[p][c]
<1> DEFINE n == local[p][c]
           U == {p} \X (1 .. n)
<1>1. n \in 0 .. MaxCount /\ n \in Nat /\ MaxCount \in Nat
    BY ShmBulkAssumption DEF Types
<1> HIDE DEF n
<1>2. IsFiniteSet({p}) /\ Cardinality({p}) = 1
    BY FS_Singleton
<1>3. IsFiniteSet(1 .. n) /\ Cardinality(1 .. n) = n
    BY <1>1, FS_Interval
<1>4. IsFiniteSet(U) /\ Cardinality(U) = Cardinality({p}) * Cardinality(1 .. n)
    BY <1>2, <1>3, FS_Product
<1>5. Cardinality(U) = n
    BY <1>1, <1>2, <1>3, <1>4
<1>6. Occurrences(S \cup {p}, c) = Occurrences(S, c) \cup U
    BY <1>1 DEF Occurrences, n
<1>7. Occurrences(S, c) \cap U = {}
    BY DEF Occurrences
<1>8. Cardinality(Occurrences(S, c) \cap U) = 0
    BY <1>7, FS_EmptySet
<1>9. IsFiniteSet(Occurrences(S, c)) /\ SumOf(S, c) \in Nat
    BY SumType
<1>10. Cardinality(Occurrences(S, c) \cup U)
        = Cardinality(Occurrences(S, c)) + Cardinality(U) - Cardinality(Occurrences(S, c) \cap U)
    BY <1>4, <1>9, FS_Union
<1>11. SumOf(S, c) = Cardinality(Occurrences(S, c))
    BY DEF SumOf, Occurrences
<1>12. SumOf(S \cup {p}, c) = Cardinality(Occurrences(S, c) \cup U)
    BY <1>6, Zenon DEF SumOf, Occurrences
<1>13. Cardinality(Occurrences(S, c) \cup U) = SumOf(S, c) + n
    BY <1>1, <1>5, <1>8, <1>9, <1>10, <1>11
<1> QED BY <1>12, <1>13 DEF n

\* The inputs do not change, and neither do their sums.
LEMMA SumKept ==
    ASSUME UNCHANGED local, NEW S, NEW c
    PROVE  SumOf(S, c)' = SumOf(S, c)
BY DEF SumOf

-----------------------------------------------------------------------------
(* The totals *)

RegisterInv == \A p \in Procs : pc[p] = "store" => reg[p] = counter[added[p]]

Added(c) == {q \in Procs : added[q] > c}

DataInv == RegisterInv /\ NoLostUpdate

LEMMA StoreAdds ==
    ASSUME ControlInv, DataInv, NEW p \in Procs, Store(p)
    PROVE  /\ added[p] \in Slots
           /\ p \notin Added(added[p])
           /\ Total(p) = counter[added[p]] + local[p][added[p]]
           /\ Total(p) = SumOf(Added(added[p]) \cup {p}, added[p])
<1>0. Types /\ Phase(p) /\ pc[p] = "store"
    BY DEF ControlInv, Store
<1>1. added[p] \in Slots /\ added[p] \in Nat /\ Total(p) = reg[p] + local[p][added[p]]
    BY <1>0, StoreTypes
<1>2. p \notin Added(added[p])
    BY <1>1 DEF Added
<1>3. counter[added[p]] = SumOf(Added(added[p]), added[p])
    BY <1>1 DEF DataInv, NoLostUpdate, Added
<1>4. reg[p] = counter[added[p]]
    BY <1>0 DEF DataInv, RegisterInv
<1>5. SumOf(Added(added[p]) \cup {p}, added[p])
       = SumOf(Added(added[p]), added[p]) + local[p][added[p]]
  <2>1. Added(added[p]) \in SUBSET Procs
      BY DEF Added
  <2> QED BY <1>0, <1>1, <1>2, <2>1, SumAdd
<1> QED BY <1>1, <1>2, <1>3, <1>4, <1>5

LEMMA DataKept ==
    ASSUME ControlInv, DataInv, NEW p \in Procs, Move(p)
    PROVE  DataInv'
<1>0. Types /\ Phase(p) /\ UNCHANGED local
    BY Elsewhere DEF ControlInv
<1>1. RegisterInv'
  <2> SUFFICES ASSUME NEW q \in Procs, pc'[q] = "store"
               PROVE  reg'[q] = counter'[added'[q]]
      BY DEF RegisterInv
  <2>1. CASE q = p
    <3>1. CASE Load(p)
        BY <1>0, <2>1, <3>1 DEF Load, Types
    <3>2. CASE ~Load(p)
      <4>1. CASE Takes(p) \/ Gives(p)
          BY <1>0, <2>1, <4>1 DEF Takes, Gives, TakeUnit, GiveUnit, Semop, Types
      <4>2. CASE Store(p) \/ PrintTotal(p)
          BY <1>0, <2>1, <4>2 DEF Store, PrintTotal, AfterAddition, Types
      <4>3. CASE Ends(p)
          BY <1>0, <2>1, <4>3 DEF Ends, End, Ended, Types
      <4> QED BY <3>2, <4>1, <4>2, <4>3 DEF Move
    <3> QED BY <3>1, <3>2
  <2>2. CASE q # p
    <3>1. pc[q] = "store" /\ reg'[q] = reg[q] /\ added'[q] = added[q]
        BY <1>0, <2>2, Elsewhere
    <3>2. ~Holding(p)
        BY <2>2, <3>1, Alone DEF Holding
    <3>3. counter' = counter
        BY <3>2, DataMoves DEF Store, PrintTotal, Holding
    <3> QED BY <3>1, <3>3 DEF DataInv, RegisterInv
  <2> QED BY <2>1, <2>2
<1>2. NoLostUpdate'
  <2> SUFFICES ASSUME NEW c \in Slots
               PROVE  counter'[c] = SumOf(Added(c)', c)
      BY <1>0 DEF NoLostUpdate, Added, SumOf
  <2>1. counter[c] = SumOf(Added(c), c)
      BY DEF DataInv, NoLostUpdate, Added
  <2>2. CASE Store(p)
    <3>1. /\ added[p] \in Slots /\ added[p] \in Nat
          /\ counter' = [counter EXCEPT ![added[p]] = Total(p)]
          /\ added' = [added EXCEPT ![p] = added[p] + 1]
        BY <1>0, <2>2, StoreTypes
    <3>2. CASE c = added[p]
      <4>1. Total(p) = SumOf(Added(c) \cup {p}, c)
          BY <2>2, <3>2, StoreAdds
      <4>2. Added(c)' = Added(c) \cup {p}
          BY <1>0, <3>1, <3>2 DEF Added, Types
      <4>3. counter'[c] = Total(p)
          BY <1>0, <3>1, <3>2 DEF Types
      <4> QED BY <4>1, <4>2, <4>3
    <3>3. CASE c # added[p]
      <4>1. Added(c)' = Added(c)
          BY <1>0, <3>1, <3>3, SlotFacts DEF Added, Types
      <4>2. counter'[c] = counter[c]
          BY <1>0, <3>1, <3>3 DEF Types
      <4> QED BY <2>1, <4>1, <4>2
    <3> QED BY <3>2, <3>3
  <2>3. CASE ~Store(p)
    <3>1. UNCHANGED <<counter, added>>
        BY <2>3, DataMoves DEF PrintTotal
    <3> QED BY <2>1, <3>1 DEF Added
  <2> QED BY <2>2, <2>3
<1> QED BY <1>1, <1>2 DEF DataInv

-----------------------------------------------------------------------------
(* The copies *)

CopyInv == Copies =>
    /\ \A p \in Procs, c \in Slots : c < added[p] =>
           copy[p][c] \in Nat /\ copy[p][c] <= counter[c]
    /\ \A p, q \in Procs, c \in Slots :
           p # q /\ pc[p] \in Adding /\ added[q] = ALPHA_SIZE /\ c < added[p] =>
               copy[p][c] >= copy[q][c] + local[p][c]
    /\ CopiesAreMoments

\* What Store does to the copy.
LEMMA StoreCopies ==
    ASSUME ControlInv, DataInv, NEW p \in Procs, Store(p), Copies
    PROVE  /\ copy'[p][added[p]] = counter[added[p]] + local[p][added[p]]
           /\ \A c \in Slots : c # added[p] => copy'[p][c] = copy[p][c]
<1>0. Types
    BY DEF ControlInv
<1>1. added[p] \in Slots /\ Total(p) = counter[added[p]] + local[p][added[p]]
    BY StoreAdds
<1>2. copy' = [copy EXCEPT ![p] = [copy[p] EXCEPT ![added[p]] = Total(p)]]
    BY DEF Store
<1>3. copy'[p] = [copy[p] EXCEPT ![added[p]] = Total(p)]
    BY <1>0, <1>2 DEF Types
<1> QED BY <1>0, <1>1, <1>3 DEF Types

LEMMA CopyKept ==
    ASSUME ControlInv, DataInv, CopyInv, NEW p \in Procs, Move(p)
    PROVE  CopyInv'
<1>0. /\ Types /\ Phase(p) /\ UNCHANGED <<program, local>>
      /\ \A q \in Procs : q # p =>
            pc'[q] = pc[q] /\ added'[q] = added[q] /\ copy'[q] = copy[q]
    BY Elsewhere DEF ControlInv
<1> SUFFICES ASSUME Copies PROVE CopyInv'
    BY <1>0 DEF CopyInv, Copies
<1>1. CASE Store(p)
  <2> DEFINE a == added[p]
  <2>1. /\ a \in Slots /\ a \in Nat /\ a < ALPHA_SIZE /\ pc[p] = "store"
        /\ counter' = [counter EXCEPT ![a] = Total(p)]
        /\ Total(p) = counter[a] + local[p][a]
        /\ added' = [added EXCEPT ![p] = a + 1]
      BY <1>0, <1>1, StoreTypes, StoreAdds, SlotFacts DEF Store
  <2>2. /\ copy'[p][a] = counter[a] + local[p][a]
        /\ \A c \in Slots : c # a => copy'[p][c] = copy[p][c]
      BY <1>1, StoreCopies
  <2>3. /\ counter[a] \in Nat /\ local[p][a] \in Nat
        /\ \A c \in Slots : counter[c] \in Nat /\ c \in Nat
      BY <1>0, <2>1, SlotFacts, ShmBulkAssumption DEF Types
  <2>4. /\ \A c \in Slots : counter'[c] >= counter[c] /\ counter'[c] \in Nat
        /\ counter'[a] = counter[a] + local[p][a]
      BY <1>0, <2>1, <2>3 DEF Types
  <2>5. added'[p] = a + 1
      BY <1>0, <2>1 DEF Types
  <2>6. \A q \in Procs : q # p => pc'[q] \notin Adding
      BY <1>0, <2>1, Alone DEF Holding
  <2> HIDE DEF a
  <2>7. ASSUME NEW q \in Procs, NEW c \in Slots, c < added'[q]
        PROVE  copy'[q][c] \in Nat /\ copy'[q][c] <= counter'[c]
    <3>1. CASE q # p
      <4>1. copy[q][c] \in Nat /\ copy[q][c] <= counter[c] /\ copy'[q] = copy[q]
          BY <1>0, <2>7, <3>1 DEF CopyInv
      <4> QED BY <2>3, <2>4, <4>1
    <3>2. CASE q = p /\ c = a
        BY <2>2, <2>3, <2>4, <3>2
    <3>3. CASE q = p /\ c # a
      <4>1. c < added[p]
          BY <2>1, <2>3, <2>5, <2>7, <3>3 DEF a
      <4>2. copy[p][c] \in Nat /\ copy[p][c] <= counter[c]
          BY <4>1 DEF CopyInv
      <4> QED BY <2>2, <2>3, <2>4, <3>3, <4>2
    <3> QED BY <3>1, <3>2, <3>3
  <2>8. ASSUME NEW q \in Procs, q # p, added[q] = ALPHA_SIZE, NEW c \in Slots, c < a + 1
        PROVE  copy'[p][c] >= copy[q][c] + local[p][c]
    <3>1. copy[q][c] \in Nat /\ copy[q][c] <= counter[c]
        BY <2>8, SlotFacts DEF CopyInv
    <3>2. CASE c = a
        BY <2>2, <2>3, <3>1, <3>2
    <3>3. CASE c # a
      <4>1. c < added[p] /\ pc[p] \in Adding
          BY <2>1, <2>3, <2>8, <3>3 DEF a, Adding
      <4>2. copy[p][c] >= copy[q][c] + local[p][c]
          BY <2>8, <4>1 DEF CopyInv
      <4> QED BY <2>2, <3>3, <4>2
    <3> QED BY <3>2, <3>3
  <2>9. ASSUME NEW q \in Procs, NEW r \in Procs, NEW c \in Slots, q # r, pc'[q] \in Adding,
               added'[r] = ALPHA_SIZE, c < added'[q]
        PROVE  copy'[q][c] >= copy'[r][c] + local[q][c]
    <3>1. q = p
        BY <2>6, <2>9
    <3> QED BY <1>0, <2>5, <2>8, <2>9, <3>1
  <2>10. ASSUME NEW q \in Procs, NEW r \in Procs, q # r,
                added'[q] = ALPHA_SIZE, added'[r] = ALPHA_SIZE
         PROVE  Above(q, r)' \/ Above(r, q)'
    <3>1. CASE q # p /\ r # p
        BY <1>0, <2>10, <3>1 DEF CopyInv, CopiesAreMoments, Copied, Above
    <3>2. CASE q = p
      <4>1. added[r] = ALPHA_SIZE /\ copy'[r] = copy[r] /\ a + 1 = ALPHA_SIZE
          BY <1>0, <2>5, <2>10, <3>2
      <4>2. \A c \in Slots : copy'[p][c] >= copy[r][c] + local[p][c]
          BY <2>8, <2>10, <3>2, <4>1, SlotFacts
      <4> QED BY <1>0, <3>2, <4>1, <4>2 DEF Above
    <3>3. CASE r = p
      <4>1. added[q] = ALPHA_SIZE /\ copy'[q] = copy[q] /\ a + 1 = ALPHA_SIZE
          BY <1>0, <2>5, <2>10, <3>3
      <4>2. \A c \in Slots : copy'[p][c] >= copy[q][c] + local[p][c]
          BY <2>8, <2>10, <3>3, <4>1, SlotFacts
      <4> QED BY <1>0, <3>3, <4>1, <4>2 DEF Above
    <3> QED BY <3>1, <3>2, <3>3
  <2>11. CopiesAreMoments'
      BY <2>10 DEF CopiesAreMoments, Copied
  <2> QED BY <1>0, <2>7, <2>9, <2>11 DEF CopyInv
<1>2. CASE ~Store(p)
  <2>1. UNCHANGED <<counter, added, copy>>
      BY <1>2, DataMoves DEF PrintTotal
  <2>2. pc'[p] \in Adding => pc[p] \in Adding \/ added[p] = 0
    <3>1. CASE Takes(p) \/ Gives(p)
        BY <1>0, <3>1 DEF Takes, Gives, TakeUnit, GiveUnit, Semop, Types, Phase, Adding
    <3>2. CASE Load(p)
        BY <3>2 DEF Load, Adding
    <3>3. CASE PrintTotal(p)
        BY <1>0, <3>3 DEF PrintTotal, Adding, Types
    <3>4. CASE Ends(p)
        BY <1>0, <3>4 DEF Ends, End, Ended, Adding, Types
    <3> QED BY <1>2, <3>1, <3>2, <3>3, <3>4 DEF Move
  <2>3. \A q \in Procs, c \in Slots :
            pc'[q] \in Adding /\ c < added[q] => pc[q] \in Adding
      BY <1>0, <2>2, SlotFacts
  <2>4. CopiesAreMoments'
      BY <1>0, <2>1 DEF CopyInv, CopiesAreMoments, Copied, Above, Copies
  <2> QED BY <1>0, <2>1, <2>3, <2>4 DEF CopyInv
<1> QED BY <1>1, <1>2

-----------------------------------------------------------------------------
(* Whole inputs: whenever no one is adding, the totals are the sums of the *)
(* inputs of Full and of what those in Half have got to.                   *)

Sum(S, K, c) == SumOf(S \cup Part(K, c), c)

Shows(p, S, K) == \A c \in Slots : shown[p][c] # NULL => shown[p][c] = Sum(S, K, c)
Keeps(p, S, K) == \A c \in Slots : copy[p][c] = Sum(S, K, c)

ShownInv ==
    \A p \in Procs, c \in Slots :
        /\ added[p] < ALPHA_SIZE => shown[p][c] = NULL
        /\ Copies => shown[p][c] \in {NULL, copy[p][c]}

PrintInv ==
    ~Copies =>
        /\ \A p \in Procs : pc[p] = "print" => Shows(p, Full, Half)
        /\ \A p \in Full : \E S \in SUBSET Full, K \in SUBSET Half :
                p \in S /\ Shows(p, S, K)

KeepInv ==
    Copies =>
        /\ \A p \in Procs, c \in Slots :
               pc[p] \in Adding /\ c < added[p] =>
                   copy[p][c] = Sum(Full \cup {p}, Half, c)
        /\ \A p \in Full : \E S \in SUBSET Full, K \in SUBSET Half :
               p \in S /\ Keeps(p, S, K)

\* Who has added all or has been killed halfway stays so; others join them
\* only when they are adding.
LEMMA FullHalf ==
    ASSUME ControlInv, NEW p \in Procs, Move(p)
    PROVE  /\ Full \subseteq Full' /\ Half \subseteq Half'
           /\ \A q \in Half : added'[q] = added[q]
           /\ pc[p] \notin Adding => Full' = Full /\ Half' = Half
           /\ ~Ends(p) => Half' = Half
           /\ p \notin Half
<1>0. Types /\ Phase(p)
    BY DEF ControlInv
<1>1. \A q \in Procs : q # p => pc'[q] = pc[q] /\ added'[q] = added[q]
    BY <1>0, Elsewhere
<1>2. CASE Store(p)
  <2>1. pc[p] = "store" /\ pc'[p] # "killed" /\ added[p] < ALPHA_SIZE
      BY <1>0, <1>2 DEF Store, AfterAddition, Types, Phase, Adding
  <2> QED BY <1>1, <2>1, SlotFacts DEF Full, Half, Adding
<1>3. CASE Ends(p)
  <2>1. added' = added /\ pc[p] # "killed"
      BY <1>3 DEF Ends, End
  <2>2. pc[p] \notin Adding => added[p] \notin 1 .. ALPHA_SIZE - 1
      BY <1>0, <2>1, SlotFacts DEF Phase
  <2> QED BY <1>1, <1>3, <2>1, <2>2 DEF Full, Half
<1>4. CASE ~Store(p) /\ ~Ends(p)
  <2>1. added' = added
      BY <1>4, DataMoves DEF PrintTotal
  <2>2. pc[p] # "killed" /\ pc'[p] # "killed"
    <3>1. CASE Takes(p) \/ Gives(p)
        BY <1>0, <3>1 DEF Takes, Gives, TakeUnit, GiveUnit, Semop, Types
    <3>2. CASE Load(p) \/ PrintTotal(p)
        BY <1>0, <3>2 DEF Load, PrintTotal, Types
    <3> QED BY <1>4, <3>1, <3>2 DEF Move
  <2> QED BY <1>1, <2>1, <2>2 DEF Full, Half
<1> QED BY <1>2, <1>3, <1>4

\* The sums are those of before.
LEMMA SumStays ==
    ASSUME ControlInv, NEW p \in Procs, Move(p), NEW S, NEW K \in SUBSET Half, NEW c
    PROVE  Sum(S, K, c)' = Sum(S, K, c)
<1>1. UNCHANGED local
    BY Elsewhere DEF ControlInv
<1>2. Part(K, c)' = Part(K, c)
    BY FullHalf DEF Part
<1> QED BY <1>1, <1>2, Zenon DEF Sum, SumOf

\* Who holds the unit finds whole inputs, and those of Half.
LEMMA AddedWhole ==
    ASSUME ControlInv, NEW p \in Procs, Holding(p), NEW c \in Slots
    PROVE  /\ added[p] <= c => Added(c) = Full \cup Part(Half, c)
           /\ added[p] = ALPHA_SIZE => Added(c) = Full \cup Part(Half, c)
<1>0. Types /\ \A q \in Procs : Phase(q)
    BY DEF ControlInv
<1>1. ASSUME NEW q \in Procs, q # p PROVE added[q] \in {0, ALPHA_SIZE} \/ q \in Half
  <2>1. pc[q] \notin Adding
      BY <1>1, Alone
  <2>2. added[q] \in Nat /\ added[q] <= ALPHA_SIZE
      BY <1>0 DEF Types, Phase
  <2> QED BY <1>0, <2>1, <2>2, SlotFacts DEF Phase, Half
<1>2. added[p] \in Nat /\ c \in Nat /\ c < ALPHA_SIZE
    BY <1>0, SlotFacts DEF Types
<1>3. \A q \in Procs : q # p =>
          (added[q] > c <=> added[q] = ALPHA_SIZE \/ (q \in Half /\ added[q] > c))
    BY <1>1, <1>2, SlotFacts
<1>4. added[p] <= c => ~(added[p] > c) /\ added[p] # ALPHA_SIZE
    BY <1>2, SlotFacts
<1>5. added[p] = ALPHA_SIZE => added[p] > c
    BY <1>2, SlotFacts
<1>6. Half \in SUBSET Procs
    BY DEF Half
<1> QED BY <1>3, <1>4, <1>5, <1>6 DEF Added, Full, Part

LEMMA ShownKept ==
    ASSUME ControlInv, ShownInv, NEW p \in Procs, Move(p)
    PROVE  ShownInv'
<1>0. /\ Types /\ Phase(p) /\ UNCHANGED <<program, local>>
      /\ \A q \in Procs : q # p =>
            added'[q] = added[q] /\ copy'[q] = copy[q] /\ shown'[q] = shown[q]
    BY Elsewhere DEF ControlInv
<1> SUFFICES ASSUME NEW c \in Slots
             PROVE  /\ added'[p] < ALPHA_SIZE => shown'[p][c] = NULL
                    /\ Copies => shown'[p][c] \in {NULL, copy'[p][c]}
    BY <1>0 DEF ShownInv, Copies
<1>1. CASE Store(p)
  <2>1. shown' = shown /\ pc[p] = "store"
      BY <1>1 DEF Store
  <2>2. shown[p][c] = NULL
      BY <1>0, <2>1 DEF Phase, Before
  <2> QED BY <2>1, <2>2
<1>2. CASE PrintTotal(p)
  <2>1. pc[p] = "print" /\ UNCHANGED <<added, copy>>
      BY <1>2 DEF PrintTotal
  <2>2. ~(added[p] < ALPHA_SIZE)
      BY <1>0, <2>1, SlotFacts DEF Phase, After
  <2>3. shown'[p][c] = shown[p][c] \/ shown'[p][c] = Totals(p)[c]
      BY <1>0, <1>2, PrintTypes
  <2> QED BY <2>1, <2>2, <2>3 DEF ShownInv, Totals
<1>3. CASE UNCHANGED <<added, copy, shown>>
    BY <1>3 DEF ShownInv
<1> QED BY <1>1, <1>2, <1>3, DataMoves

LEMMA PrintKept ==
    ASSUME ControlInv, DataInv, PrintInv, NEW p \in Procs, Move(p)
    PROVE  PrintInv'
<1>0. /\ Types /\ Phase(p) /\ UNCHANGED program
      /\ \A q \in Procs : q # p =>
            pc'[q] = pc[q] /\ added'[q] = added[q] /\ shown'[q] = shown[q]
    BY Elsewhere DEF ControlInv
<1> SUFFICES ASSUME ~Copies
             PROVE  /\ \A q \in Procs : pc'[q] = "print" => Shows(q, Full, Half)'
                    /\ \A q \in Full' :
                           \E S \in SUBSET Full', K \in SUBSET Half' :
                               q \in S /\ Shows(q, S, K)'
    BY <1>0 DEF PrintInv, Copies
<1>1. /\ \A q \in Procs : pc[q] = "print" => Shows(q, Full, Half)
      /\ \A q \in Full : \E S \in SUBSET Full, K \in SUBSET Half :
             q \in S /\ Shows(q, S, K)
    BY DEF PrintInv
<1>2. /\ Full \subseteq Full' /\ Half \subseteq Half'
      /\ Full \subseteq Procs /\ Half \subseteq Procs /\ Full' \subseteq Procs
    BY FullHalf DEF Full, Half
<1>3. \A S, c : \A K \in SUBSET Half : Sum(S, K, c)' = Sum(S, K, c)
    BY SumStays
<1>4. \A q \in Procs, S \in SUBSET Full, K \in SUBSET Half :
          shown'[q] = shown[q] => (Shows(q, S, K)' <=> Shows(q, S, K))
    BY <1>3 DEF Shows
<1>5. ASSUME NEW q \in Full, shown'[q] = shown[q]
      PROVE  \E S \in SUBSET Full', K \in SUBSET Half' : q \in S /\ Shows(q, S, K)'
  <2>1. PICK S \in SUBSET Full, K \in SUBSET Half : q \in S /\ Shows(q, S, K)
      BY <1>1
  <2>2. Shows(q, S, K)'
      BY <1>2, <1>4, <1>5, <2>1
  <2>3. S \in SUBSET Full' /\ K \in SUBSET Half'
      BY <1>2
  <2> QED BY <2>1, <2>2, <2>3
<1>6. ASSUME NEW q \in Procs, \A c \in Slots : shown'[q][c] = NULL
      PROVE  /\ Shows(q, Full, Half)'
             /\ q \in Full' => \E S \in SUBSET Full', K \in SUBSET Half' :
                                   q \in S /\ Shows(q, S, K)'
    BY <1>6 DEF Shows
<1>7. \A q \in Procs : q # p => (q \in Full' <=> q \in Full)
    BY <1>0 DEF Full
<1>8. CASE pc[p] \in Adding
  <2>1. shown' = shown
      BY <1>8, DataMoves DEF Store, PrintTotal, Adding
  <2>2. \A c \in Slots : shown'[p][c] = NULL
      BY <1>0, <1>8, <2>1 DEF Phase, Before, Adding
  <2>3. \A q \in Procs : q # p => pc'[q] # "print"
      BY <1>0, <1>8, Alone DEF Holding, Adding
  <2> QED BY <1>2, <1>5, <1>6, <1>7, <2>1, <2>2, <2>3
<1>9. CASE PrintTotal(p)
  <2>1. pc[p] = "print" /\ Holding(p) /\ UNCHANGED <<added, counter>>
      BY <1>9 DEF PrintTotal, Holding
  <2>2. Full' = Full /\ Half' = Half
      BY <2>1, FullHalf DEF Adding
  <2>3. added[p] = ALPHA_SIZE /\ p \in Full
      BY <1>0, <2>1 DEF Phase, After, Full
  <2>4. ASSUME NEW c \in Slots PROVE counter[c] = Sum(Full, Half, c)
    <3>1. Added(c) = Full \cup Part(Half, c)
        BY <2>1, <2>3, AddedWhole
    <3>2. counter[c] = SumOf(Added(c), c)
        BY DEF DataInv, NoLostUpdate, Added
    <3> QED BY <3>1, <3>2, Zenon DEF Sum
  <2>5. \A c \in Slots : shown'[p][c] = shown[p][c] \/ shown'[p][c] = counter[c]
      BY <1>0, <1>9, PrintTypes DEF Totals
  <2>6. \A c \in Slots : shown'[p][c] # NULL => shown'[p][c] = Sum(Full, Half, c)
      BY <1>1, <2>1, <2>4, <2>5 DEF Shows
  <2>7. \A S, K : S = Full /\ K = Half => Shows(p, S, K)'
      BY <1>3, <2>6 DEF Shows
  <2>8. Shows(p, Full, Half)'
      BY <2>2, <2>7 DEF Shows
  <2>9. \A q \in Procs : q # p => pc'[q] # "print"
      BY <1>0, <2>1, Alone
  <2>10. \E S \in SUBSET Full', K \in SUBSET Half' : p \in S /\ Shows(p, S, K)'
    <3>1. PICK S \in SUBSET Full, K \in SUBSET Half : S = Full /\ K = Half
        OBVIOUS
    <3>2. Shows(p, S, K)'
        BY <2>7, <3>1
    <3> QED BY <2>2, <2>3, <3>1, <3>2
  <2> QED BY <1>0, <1>2, <1>5, <1>7, <2>8, <2>9, <2>10
<1>10. CASE pc[p] \notin Adding /\ ~PrintTotal(p)
  <2>1. UNCHANGED shown
      BY <1>10, DataMoves DEF Store, Adding
  <2>2. Full' = Full /\ Half' = Half
      BY <1>10, FullHalf
  <2>3. ASSUME NEW q \in Procs, pc'[q] = "print" PROVE Shows(q, Full, Half)'
    <3>1. CASE pc[q] = "print"
      <4>1. Shows(q, Full, Half)
          BY <1>1, <3>1
      <4> QED BY <1>3, <2>1, <2>2, <4>1 DEF Shows
    <3>2. CASE pc[q] # "print"
      <4>1. q = p
          BY <1>0, <2>3, <3>2
      <4>2. pc[p] = "wait_output"
        <5>1. CASE Takes(p) \/ Gives(p)
            BY <1>0, <2>3, <4>1, <5>1 DEF Takes, Gives, TakeUnit, GiveUnit, Semop, Types
        <5>2. CASE Load(p) \/ Store(p)
            BY <1>10, <5>2 DEF Load, Store, Adding
        <5>3. CASE Ends(p)
            BY <1>0, <2>3, <4>1, <5>3 DEF Ends, End, Ended, Types
        <5> QED BY <1>10, <5>1, <5>2, <5>3 DEF Move
      <4>3. \A c \in Slots : shown'[q][c] = NULL
          BY <1>0, <2>1, <4>1, <4>2 DEF Phase, Before
      <4> QED BY <1>6, <4>3
    <3> QED BY <3>1, <3>2
  <2> QED BY <1>2, <1>5, <2>1, <2>2, <2>3
<1> QED BY <1>8, <1>9, <1>10

LEMMA KeepKept ==
    ASSUME ControlInv, DataInv, KeepInv, NEW p \in Procs, Move(p)
    PROVE  KeepInv'
<1>0. /\ Types /\ Phase(p) /\ UNCHANGED program
      /\ \A q \in Procs : q # p =>
            pc'[q] = pc[q] /\ added'[q] = added[q] /\ copy'[q] = copy[q]
    BY Elsewhere DEF ControlInv
<1> SUFFICES ASSUME Copies
             PROVE  /\ \A q \in Procs, c \in Slots :
                           pc'[q] \in Adding /\ c < added'[q] =>
                               copy'[q][c] = Sum(Full \cup {q}, Half, c)'
                    /\ \A q \in Full' :
                           \E S \in SUBSET Full', K \in SUBSET Half' :
                               q \in S /\ Keeps(q, S, K)'
    BY <1>0 DEF KeepInv, Copies
<1>1. /\ \A q \in Procs, c \in Slots :
            pc[q] \in Adding /\ c < added[q] =>
                copy[q][c] = Sum(Full \cup {q}, Half, c)
      /\ \A q \in Full : \E S \in SUBSET Full, K \in SUBSET Half :
            q \in S /\ Keeps(q, S, K)
    BY DEF KeepInv
<1>2. /\ Full \subseteq Full' /\ Half \subseteq Half'
      /\ Full \subseteq Procs /\ Half \subseteq Procs /\ Full' \subseteq Procs
    BY FullHalf DEF Full, Half
<1>3. \A S, c : \A K \in SUBSET Half : Sum(S, K, c)' = Sum(S, K, c)
    BY SumStays
<1>4. ASSUME NEW q \in Full, copy'[q] = copy[q]
      PROVE  \E S \in SUBSET Full', K \in SUBSET Half' : q \in S /\ Keeps(q, S, K)'
  <2>1. PICK S \in SUBSET Full, K \in SUBSET Half : q \in S /\ Keeps(q, S, K)
      BY <1>1
  <2>2. Keeps(q, S, K)'
      BY <1>3, <1>4, <2>1 DEF Keeps
  <2>3. S \in SUBSET Full' /\ K \in SUBSET Half'
      BY <1>2
  <2> QED BY <2>1, <2>2, <2>3
<1>5. CASE Store(p)
  <2> DEFINE a == added[p]
             F == Full \cup {p}
  <2>1. /\ a \in Slots /\ a \in Nat /\ a < ALPHA_SIZE /\ pc[p] = "store"
        /\ added' = [added EXCEPT ![p] = a + 1]
      BY <1>0, <1>5, StoreTypes, SlotFacts DEF Store
  <2>2. Holding(p) /\ pc[p] \in Adding
      BY <2>1 DEF Holding, Adding
  <2>3. Added(a) \cup {p} = F \cup Part(Half, a) /\ F \in SUBSET Procs /\ p \in F
      BY <1>2, <2>1, <2>2, AddedWhole
  <2>4. copy'[p][a] = Sum(F, Half, a)
    <3>1. copy'[p][a] = SumOf(Added(a) \cup {p}, a)
        BY <1>5, StoreAdds, StoreCopies
    <3> HIDE DEF F, a
    <3> QED BY <2>3, <3>1, Zenon DEF Sum
  <2>5. \A c \in Slots : c # a => copy'[p][c] = copy[p][c]
      BY <1>5, StoreCopies
  <2>6. ASSUME NEW c \in Slots, c < a + 1 PROVE copy'[p][c] = Sum(F, Half, c)
    <3>1. CASE c = a
        BY <2>4, <3>1
    <3>2. CASE c # a
      <4>1. c < added[p]
          BY <2>1, <2>6, <3>2, SlotFacts
      <4> QED BY <1>1, <2>2, <2>5, <3>2, <4>1
    <3> QED BY <3>1, <3>2
  <2>7. /\ added'[p] = a + 1 /\ p \notin Full
        /\ p \in Full' <=> a + 1 = ALPHA_SIZE
      BY <1>0, <2>1 DEF Types, Full
  <2>8. Half' = Half
    <3>1. ~Ends(p)
        BY <1>0, <1>5 DEF Store, Ends, End, Types, AfterAddition, Ended
    <3> QED BY <3>1, FullHalf
  <2>9. \A q \in Procs : q # p => pc'[q] \notin Adding
      BY <1>0, <2>2, Alone
  <2>10. \A q \in Procs : q # p => (q \in Full' <=> q \in Full)
      BY <1>0 DEF Full
  <2> HIDE DEF a
  <2>11. ASSUME pc'[p] \in Adding, NEW c \in Slots, c < added'[p]
         PROVE  copy'[p][c] = Sum(Full \cup {p}, Half, c)'
    <3>1. a + 1 < ALPHA_SIZE
        BY <1>0, <1>5, <2>11 DEF Store, Types, Adding, AfterAddition, a
    <3>2. Full' = Full
        BY <1>2, <2>1, <2>7, <2>10, <3>1
    <3>3. copy'[p][c] = Sum(F, Half, c)
        BY <2>6, <2>7, <2>11
    <3>4. Sum(F, Half, c)' = Sum(F, Half, c)
      <4>1. Part(Half, c)' = Part(Half, c)
          BY <2>8, FullHalf DEF Part
      <4>2. UNCHANGED local
          BY Elsewhere DEF ControlInv
      <4> QED BY <3>2, <4>1, <4>2, Zenon DEF Sum, SumOf
    <3> QED BY <3>3, <3>4
  <2>12. ASSUME p \in Full'
         PROVE  \E S \in SUBSET Full', K \in SUBSET Half' : p \in S /\ Keeps(p, S, K)'
    <3>1. \A c \in Slots : copy'[p][c] = Sum(F, Half, c)
        BY <2>6, <2>7, <2>12, SlotFacts
    <3>2. F \in SUBSET Full'
        BY <1>2, <2>12
    <3> HIDE DEF F
    <3>3. PICK S \in SUBSET Full', K \in SUBSET Half : S = F /\ K = Half
        BY <3>2
    <3>4. Keeps(p, S, K)'
      <4>1. \A c \in Slots : copy'[p][c] = Sum(S, K, c)
          BY <3>1, <3>3, Zenon
      <4> QED BY <1>3, <4>1 DEF Keeps
    <3> QED BY <1>2, <2>3, <3>3, <3>4
  <2> QED BY <1>0, <1>2, <1>4, <2>9, <2>10, <2>11, <2>12
<1>6. CASE ~Store(p)
  <2>1. UNCHANGED <<added, copy>>
      BY <1>6, DataMoves DEF PrintTotal
  <2>2. Full' = Full
      BY <2>1 DEF Full
  <2>3. pc'[p] \in Adding => pc[p] \in Adding \/ added[p] = 0
    <3>1. CASE Takes(p) \/ Gives(p)
        BY <1>0, <3>1 DEF Takes, Gives, TakeUnit, GiveUnit, Semop, Types, Phase, Adding
    <3>2. CASE Load(p)
        BY <3>2 DEF Load, Adding
    <3>3. CASE PrintTotal(p)
        BY <1>0, <3>3 DEF PrintTotal, Adding, Types
    <3>4. CASE Ends(p)
        BY <1>0, <3>4 DEF Ends, End, Ended, Adding, Types
    <3> QED BY <1>6, <3>1, <3>2, <3>3, <3>4 DEF Move
  <2>4. ASSUME NEW q \in Procs, pc'[q] \in Adding, NEW c \in Slots, c < added'[q]
        PROVE  copy'[q][c] = Sum(Full \cup {q}, Half, c)'
    <3>1. pc[q] \in Adding /\ c < added[q]
        BY <1>0, <2>1, <2>3, <2>4, SlotFacts
    <3>2. copy'[q][c] = Sum(Full \cup {q}, Half, c)
        BY <1>1, <2>1, <3>1
    <3>3. Half' = Half
      <4>1. CASE q = p
        <5>1. ~Ends(p)
            BY <1>0, <2>4, <4>1 DEF Ends, End, Ended, Adding, Types
        <5> QED BY <5>1, FullHalf
      <4>2. CASE q # p
        <5>1. Holding(q)
            BY <3>1 DEF Holding, Adding
        <5>2. pc[p] \notin Adding
            BY <4>2, <5>1, Alone
        <5> QED BY <5>2, FullHalf
      <4> QED BY <4>1, <4>2
    <3>4. Sum(Full \cup {q}, Half, c)' = Sum(Full \cup {q}, Half, c)
      <4>1. Part(Half, c)' = Part(Half, c)
          BY <3>3, FullHalf DEF Part
      <4>2. UNCHANGED local
          BY Elsewhere DEF ControlInv
      <4> QED BY <2>2, <4>1, <4>2, Zenon DEF Sum, SumOf
    <3> QED BY <3>2, <3>4
  <2>5. \A q \in Full' : \E S \in SUBSET Full', K \in SUBSET Half' :
            q \in S /\ Keeps(q, S, K)'
      BY <1>4, <2>1, <2>2
  <2> QED BY <2>4, <2>5
<1> QED BY <1>5, <1>6

LEMMA Whole ==
    ASSUME ControlInv, ShownInv, PrintInv, KeepInv
    PROVE  WholeInputsShown
<1> SUFFICES ASSUME NEW p \in Full
             PROVE  \E S \in SUBSET Full, K \in SUBSET Half : p \in S /\ Shows(p, S, K)
    BY DEF WholeInputsShown, Shows, Sum
<1>1. CASE ~Copies
    BY <1>1 DEF PrintInv
<1>2. CASE Copies
  <2>1. PICK S \in SUBSET Full, K \in SUBSET Half : p \in S /\ Keeps(p, S, K)
      BY <1>2 DEF KeepInv
  <2>2. p \in Procs
      BY DEF Full
  <2>3. Shows(p, S, K)
      BY <1>2, <2>1, <2>2 DEF Shows, Keeps, ShownInv
  <2> QED BY <2>1, <2>3
<1> QED BY <1>1, <1>2

-----------------------------------------------------------------------------
(* The theorems *)

IInv ==
    /\ ControlInv /\ BlockInv /\ DataInv /\ CopyInv
    /\ ShownInv /\ PrintInv /\ KeepInv

LEMMA Start ==
    ASSUME Init
    PROVE  IInv
<1> USE SlotFacts
<1>0. /\ local \in [Procs -> [Slots -> 0 .. MaxCount]]
      /\ counter = [c \in Slots |-> 0]
      /\ sem = 1
      /\ adj = [p \in Procs |-> 0]
      /\ pc = [p \in Procs |-> "wait"]
      /\ reg = [p \in Procs |-> 0]
      /\ added = [p \in Procs |-> 0]
      /\ copy = [p \in Procs |-> [c \in Slots |-> NULL]]
      /\ shown = [p \in Procs |-> [c \in Slots |-> NULL]]
      /\ stdout = <<>>
    BY DEF Init
<1>1. Types
    BY <1>0 DEF Types, PCs
<1>2. Unit /\ \A p \in Procs : Phase(p)
    BY <1>0 DEF Unit, Holding, Phase, Adding, After, Before
<1>3. BlockInv
    BY <1>0 DEF BlockInv, Printed, Latest, BlocksWhole
<1>4. NoLostUpdate
  <2> SUFFICES ASSUME NEW c \in Slots PROVE counter[c] = SumOf(Added(c), c)
      BY DEF NoLostUpdate, Added
  <2>1. Occurrences(Added(c), c) = {}
      BY <1>0 DEF Occurrences, Added
  <2>2. Cardinality(Occurrences(Added(c), c)) = 0
      BY <2>1, FS_EmptySet
  <2> QED BY <1>0, <2>2 DEF SumOf, Occurrences
<1>5. RegisterInv
    BY <1>0 DEF RegisterInv
<1>6. CopyInv
    BY <1>0 DEF CopyInv, Adding, CopiesAreMoments, Copied
<1>7. ShownInv
    BY <1>0 DEF ShownInv
<1>8. PrintInv
  <2>1. Full = {}
      BY <1>0 DEF Full
  <2> QED BY <1>0, <2>1 DEF PrintInv
<1>9. KeepInv
  <2>1. Full = {}
      BY <1>0 DEF Full
  <2> QED BY <1>0, <2>1 DEF KeepInv, Adding
<1> QED BY <1>1, <1>2, <1>3, <1>4, <1>5, <1>6, <1>7, <1>8, <1>9
        DEF IInv, ControlInv, DataInv

LEMMA QuietKept ==
    ASSUME IInv, Quiet
    PROVE  IInv'
<1> USE DEF IInv, Quiet
<1>1. ControlInv'
    BY DEF ControlInv, Types, Unit, Holding, Phase, SEM_UNDO
<1>2. BlockInv'
    BY DEF BlockInv, Printed, Latest, BlocksWhole, IsTotal
<1>3. DataInv'
    BY DEF DataInv, RegisterInv, NoLostUpdate, SumOf
<1>4. CopyInv'
    BY DEF CopyInv, CopiesAreMoments, Copied, Copies, Above
<1>5. Full' = Full /\ Half' = Half /\ Copies' = Copies
    BY DEF Full, Half, Copies
<1>6. \A S, K, c : Sum(S, K, c)' = Sum(S, K, c)
    BY DEF Sum, Part, SumOf
<1>7. ShownInv'
    BY DEF ShownInv, Copies
<1>8. PrintInv'
    BY <1>5, <1>6 DEF PrintInv, Shows
<1>9. KeepInv'
    BY <1>5, <1>6 DEF KeepInv, Keeps, Sum, Part, SumOf
<1> QED BY <1>1, <1>2, <1>3, <1>4, <1>7, <1>8, <1>9

LEMMA Inductive ==
    ASSUME IInv, [Next]_vars
    PROVE  IInv'
<1>1. CASE Quiet
    BY <1>1, QuietKept
<1>2. ASSUME NEW p \in Procs, Move(p) PROVE IInv'
    BY <1>2, ControlKept, BlockKept, DataKept, CopyKept, ShownKept, PrintKept,
       KeepKept DEF IInv
<1> QED BY <1>1, <1>2, Moves

THEOREM Invariance == Spec => []IInv
BY Start, Inductive, PTL DEF Spec

(* No addition is lost, and none is made twice, also if processes are      *)
(* killed halfway through theirs.                                          *)
THEOREM TotalsRight == Spec => []NoLostUpdate
<1>1. IInv => NoLostUpdate
    BY DEF IInv, DataInv
<1> QED BY <1>1, Invariance, PTL

(* What is printed are the sums of whole inputs, and of the beginnings of  *)
(* the additions that were killed halfway.                                 *)
THEOREM ShownWhole == Spec => []WholeInputsShown
<1>1. IInv => WholeInputsShown
    BY Whole DEF IInv
<1> QED BY <1>1, Invariance, PTL

(* On the common stdout the totals of a process are interrupted at most by *)
(* the last lines of others.                                               *)
THEOREM Blocks == Spec => []BlocksWhole
<1>1. IInv => BlocksWhole
    BY DEF IInv, BlockInv
<1> QED BY <1>1, Invariance, PTL

(* The copies of any two processes are the totals at two moments.          *)
THEOREM Moments == Spec => []CopiesAreMoments
<1>1. IInv => CopiesAreMoments
    BY DEF IInv, CopyInv, CopiesAreMoments, Copied
<1> QED BY <1>1, Invariance, PTL
=============================================================================
