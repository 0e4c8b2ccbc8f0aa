---------------------------- MODULE ShmCountProofs ----------------------------
(***************************************************************************)
(* Proofs about the counting programs with reader-writer units, for any    *)
(* number of processes, counters, semaphores and units, any inputs, and    *)
(* any processes killed.                                                   *)
(*                                                                         *)
(* The argument: what a semaphore lacks is the sum of the adjustments that *)
(* SEM_UNDO has recorded, and who is between semop and semop has as many   *)
(* of them recorded as it took.  A writer has them all.                    *)
(***************************************************************************)
EXTENDS ShmCountPrograms, FiniteSetTheorems, TLAPS

-----------------------------------------------------------------------------
(* Sums.  The units that h gives to the processes, numbered for each; the  *)
(* cardinality of this set is their sum.                                   *)

Units(h) == { x \in Procs \X Nat : 1 <= x[2] /\ x[2] <= h[x[1]] }

LEMMA UnitsOfOne ==
    ASSUME NEW p, NEW n \in Nat
    PROVE  IsFiniteSet({p} \X (1 .. n)) /\ Cardinality({p} \X (1 .. n)) = n
<1>1. IsFiniteSet({p}) /\ Cardinality({p}) = 1
    BY FS_Singleton
<1>2. IsFiniteSet(1 .. n) /\ Cardinality(1 .. n) = n
    BY FS_Interval
<1>3. IsFiniteSet({p} \X (1 .. n))
       /\ Cardinality({p} \X (1 .. n)) = Cardinality({p}) * Cardinality(1 .. n)
    BY <1>1, <1>2, FS_Product
<1> QED BY <1>1, <1>2, <1>3

LEMMA UnitsSplit ==
    ASSUME NEW h \in [Procs -> Nat], NEW p \in Procs,
           NEW R, R = { x \in Units(h) : x[1] # p }, IsFiniteSet(R)
    PROVE  IsFiniteSet(Units(h)) /\ Cardinality(Units(h)) = Cardinality(R) + h[p]
<1> DEFINE U == {p} \X (1 .. h[p])
<1>1. IsFiniteSet(U) /\ Cardinality(U) = h[p]
    BY UnitsOfOne
<1>2. Units(h) = R \cup U
    BY DEF Units
<1>3. R \cap U = {}
    OBVIOUS
<1>4. Cardinality(R \cap U) = 0
    BY <1>3, FS_EmptySet
<1>5. Cardinality(R) \in Nat
    BY FS_CardinalityType
<1>6. IsFiniteSet(R \cup U)
       /\ Cardinality(R \cup U) = Cardinality(R) + Cardinality(U) - Cardinality(R \cap U)
    BY <1>1, FS_Union
<1> HIDE DEF U
<1>7. IsFiniteSet(R \cup U) /\ Cardinality(R \cup U) = Cardinality(R) + h[p]
    BY <1>1, <1>4, <1>5, <1>6
<1> QED BY <1>2, <1>7, Zenon

\* One process gets n units instead of those it had.
LEMMA UnitsChange ==
    ASSUME NEW h \in [Procs -> Nat], IsFiniteSet(Units(h)),
           NEW p \in Procs, NEW n \in Nat
    PROVE  /\ IsFiniteSet(Units([h EXCEPT ![p] = n]))
           /\ Cardinality(Units([h EXCEPT ![p] = n])) + h[p] = Cardinality(Units(h)) + n
<1> DEFINE g == [h EXCEPT ![p] = n]
           R == { x \in Units(h) : x[1] # p }
<1>1. g \in [Procs -> Nat] /\ g[p] = n
    OBVIOUS
<1>2. R = { x \in Units(g) : x[1] # p }
    BY DEF Units
<1>3. IsFiniteSet(R)
    BY FS_Subset
<1>4. IsFiniteSet(Units(h)) /\ Cardinality(Units(h)) = Cardinality(R) + h[p]
    BY <1>3, UnitsSplit
<1>5. IsFiniteSet(Units(g)) /\ Cardinality(Units(g)) = Cardinality(R) + g[p]
    BY <1>1, <1>2, <1>3, UnitsSplit
<1>6. Cardinality(R) \in Nat
    BY <1>3, FS_CardinalityType
<1> HIDE DEF R, g
<1>7. Cardinality(Units(g)) + h[p] = Cardinality(Units(h)) + n
    BY <1>1, <1>4, <1>5, <1>6
<1> QED BY <1>5, <1>7 DEF g

\* Who has all the units there are has them alone.
LEMMA UnitsAlone ==
    ASSUME NEW h \in [Procs -> Nat], IsFiniteSet(Units(h)), NEW n \in Nat,
           Cardinality(Units(h)) <= n,
           NEW p \in Procs, NEW q \in Procs, p # q, h[p] >= n
    PROVE  h[q] = 0
<1> SUFFICES ASSUME h[q] # 0 PROVE FALSE
    OBVIOUS
<1> DEFINE U == {p} \X (1 .. n)
           V == U \cup {<<q, 1>>}
<1>1. IsFiniteSet(U) /\ Cardinality(U) = n
    BY UnitsOfOne
<1>2. <<q, 1>> \notin U
    OBVIOUS
<1>3. IsFiniteSet(V) /\ Cardinality(V) = n + 1
    BY <1>1, <1>2, FS_AddElement
<1>4. V \subseteq Units(h)
    BY DEF Units
<1>5. Cardinality(V) <= Cardinality(Units(h))
    BY <1>4, FS_Subset
<1>6. Cardinality(Units(h)) \in Nat
    BY FS_CardinalityType
<1> HIDE DEF V
<1> QED BY <1>3, <1>5, <1>6

-----------------------------------------------------------------------------
(* The steps of the three programs, without what distinguishes them in     *)
(* name only.                                                              *)

AllPCs == PCs \cup {"reserve_out", "release_out", "reserve"}

\* The output goes on with its next counter although giving back failed.
GoesOn(p) ==
    /\ Step(p, "unshow", AfterRead(p))
    /\ idx' = [idx EXCEPT ![p] = @ + 1]
    /\ UNCHANGED <<input, pos, counter, shown, sem, adj, reg>>

OutIdle == UNCHANGED <<sem_out, adj_out>>

EndsWith(p) == \E how \in Ended : End(p, how)

Move(p) ==
    \/ ReserveWrite(p) /\ OutIdle
    \/ Load(p) /\ OutIdle
    \/ Store(p) /\ OutIdle
    \/ ReleaseWrite(p) /\ OutIdle
    \/ /\ \E then \in {"show", "reserve_out", "reserve"} :
             /\ EndCountingThen(p, then)
             /\ program = "output-semaphore" => then = "reserve_out"
             /\ program = "segmented-semaphore" => then = "reserve"
       /\ OutIdle
    \/ ReserveRead(p) /\ OutIdle
    \/ ReadValue(p) /\ OutIdle
    \/ /\ \E then \in {"exit", "release_out"} :
             /\ ReleaseReadThen(p, then)
             /\ program = "output-semaphore" => then = "release_out"
             /\ program = "segmented-semaphore" => then = "exit"
       /\ OutIdle
    \/ program = "output-semaphore" /\ ReserveOut(p)
    \/ program = "output-semaphore" /\ ReleaseOut(p)
    \/ program = "segmented-semaphore" /\ ReserveOutput(p) /\ OutIdle
    \/ program = "segmented-semaphore" /\ GoesOn(p) /\ OutIdle
    \/ program # "output-semaphore" /\ EndsWith(p) /\ OutIdle
    \/ program = "output-semaphore" /\ EndsWith(p) /\ OutEnd(p)

\* What only removes semaphores changes nothing else.
Quiet ==
    UNCHANGED <<input, pos, counter, shown, sem, adj, pc, reg, idx,
                sem_out, adj_out>>

LEMMA Moves ==
    ASSUME [ProgramNext]_programVars
    PROVE  program' = program /\ (Quiet \/ \E p \in Procs : Move(p))
<1>1. CASE UNCHANGED programVars
    BY <1>1 DEF programVars, allVars, vars, outVars, Quiet
<1>2. CASE ProgramNext
  <2>0. program' = program
      BY <1>2 DEF ProgramNext
  <2>1. CASE ProgramCleanup
      BY <2>0, <2>1 DEF ProgramCleanup, OutCleanup, Cleanup, outVars, vars, Quiet
  <2>2. ASSUME NEW p \in Procs, ProgramKill(p) PROVE Move(p)
      BY <2>2 DEF ProgramKill, OutKill, Kill, Move, EndsWith, Ended, OutIdle, outVars
  <2>3. ASSUME NEW p \in Procs, ProgramStep(p) PROVE Move(p)
    <3>1. CASE program = "count" /\ ProcStep(p) /\ UNCHANGED outVars
        BY <3>1 DEF ProcStep, CountStep, OutputStep, EndCounting, ReleaseRead,
                    Exit, SemopFails, Move, EndsWith, Ended, OutIdle, outVars
    <3>2. CASE program = "output-semaphore" /\ OutStep(p)
      <4>1. CASE OutCount(p)
          BY <3>2, <4>1 DEF OutCount, Move, OutIdle, outVars
      <4>2. CASE ReserveOut(p) \/ ReleaseOut(p)
          BY <3>2, <4>2 DEF Move
      <4>3. CASE OutLoop(p)
          BY <3>2, <4>3 DEF OutLoop, Move, OutIdle, outVars
      <4>4. CASE OutExit(p) \/ OutSemopFails(p)
          BY <3>2, <4>4 DEF OutExit, OutSemopFails, Exit, SemopFails, Move, EndsWith, Ended
      <4> QED BY <3>2, <4>1, <4>2, <4>3, <4>4 DEF OutStep
    <3>3. CASE program = "segmented-semaphore" /\ SegStep(p) /\ UNCHANGED outVars
      <4>0. program # "output-semaphore" /\ OutIdle
          BY <3>3 DEF OutIdle, outVars
      <4>1. CASE SegCount(p)
          BY <3>3, <4>0, <4>1 DEF SegCount, Move
      <4>2. CASE SegOutput(p)
          BY <3>3, <4>0, <4>2 DEF SegOutput, SegReleaseRead, GoesOn, Move
      <4>3. CASE Exit(p) \/ SegSemopFails(p)
          BY <3>3, <4>0, <4>3 DEF Exit, SegSemopFails, Move, EndsWith, Ended
      <4> QED BY <3>3, <4>1, <4>2, <4>3 DEF SegStep
    <3> QED BY <2>3, <3>1, <3>2, <3>3 DEF ProgramStep
  <2> QED BY <1>2, <2>0, <2>1, <2>2, <2>3 DEF ProgramNext
<1> QED BY <1>1, <1>2

-----------------------------------------------------------------------------
(* What holds of a process by itself: where it is in its input and in its  *)
(* output, and what SEM_UNDO has recorded for it.                          *)

Types ==
    /\ input \in [Procs -> Seq(Slots)]
    /\ pos \in [Procs -> Nat]
    /\ counter \in [Slots -> Nat]
    /\ shown \in [Procs -> [Slots -> Nat \cup {NULL}]]
    /\ sem \in [Sems -> Nat]
    /\ adj \in [Procs -> [Sems -> Nat]]
    /\ reg \in [Procs -> Nat]
    /\ idx \in [Procs -> Nat]
    /\ pc \in [Procs -> AllPCs]

AtInput  == {"count", "load", "store", "release", "reserve_out", "reserve"}
AtOutput == {"show", "value", "unshow"}

Unshown(p, from) == \A c \in Slots : c >= from => shown[p][c] = NULL

Phase(p) ==
    /\ pos[p] <= Len(input[p])
    /\ pc[p] \in {"load", "store"} => pos[p] < Len(input[p])
    /\ pc[p] = "release" => pos[p] > 0
    /\ pc[p] \in {"reserve_out", "reserve"} \cup AtOutput => pos[p] = Len(input[p])
    /\ pc[p] \in AtInput => idx[p] = 0
    /\ pc[p] \in AtOutput => idx[p] < ALPHA_SIZE
    /\ pc[p] \in AtInput \cup {"show", "value"} => Unshown(p, idx[p])
    /\ pc[p] = "unshow" => Unshown(p, idx[p] + 1)

Holder(p) ==
    /\ \A k \in Sems : Writing(p, k) => adj[p][k] >= SEM_LIMIT
    /\ \A k \in Sems : Reading(p, k) => adj[p][k] >= 1
    /\ program = "segmented-semaphore" /\ KeepsUnit(p) =>
           adj[p][0] >= IF Reading(p, 0) THEN 2 ELSE 1

LocalInv == Types /\ \A p \in Procs : Phase(p) /\ Holder(p)

LEMMA SlotFacts ==
    /\ \A c \in Slots : c \in Nat /\ SemOf(c) \in Sems
    /\ \A n \in Nat : n < ALPHA_SIZE => n \in Slots
    /\ 0 \in Sems /\ 0 \in Slots
    /\ NULL \notin Nat
<1>1. ASSUME NEW c \in Nat PROVE c % SEM_SIZE \in 0 .. SEM_SIZE - 1
    BY ShmCountAssumption
<1> QED BY <1>1, ShmCountAssumption DEF Slots, Sems, SemOf, NULL

LEMMA CharFacts ==
    ASSUME Types, NEW p \in Procs, Phase(p)
    PROVE  /\ pos[p] < Len(input[p]) => NextChar(p) \in Slots
           /\ pos[p] > 0 => LastChar(p) \in Slots
<1>1. input[p] \in Seq(Slots) /\ pos[p] \in Nat /\ pos[p] <= Len(input[p])
    BY DEF Types, Phase
<1>2. ASSUME NEW n \in 1 .. Len(input[p]) PROVE input[p][n] \in Slots
    BY <1>1, <1>2
<1>3. pos[p] < Len(input[p]) => pos[p] + 1 \in 1 .. Len(input[p])
    BY <1>1
<1>4. pos[p] > 0 => pos[p] \in 1 .. Len(input[p])
    BY <1>1
<1> QED BY <1>2, <1>3, <1>4 DEF NextChar, LastChar

\* Nothing a step leaves alone loses its part of the invariant.
Own(p) == <<pos[p], pc[p], idx[p], shown[p], adj[p]>>

LEMMA Untouched ==
    ASSUME NEW q \in Procs, Phase(q), Holder(q), Own(q)' = Own(q),
           input' = input, program' = program
    PROVE  Phase(q)' /\ Holder(q)'
<1>1. /\ pos'[q] = pos[q] /\ pc'[q] = pc[q] /\ idx'[q] = idx[q]
      /\ shown'[q] = shown[q] /\ adj'[q] = adj[q]
    BY DEF Own
<1>2. Phase(q)'
    BY <1>1 DEF Phase, Unshown
<1>3. Holder(q)'
    BY <1>1 DEF Holder, Writing, Reading, KeepsUnit, NextChar, LastChar
<1> QED BY <1>2, <1>3

\* What a step of p has to show: its own part of the invariant.
LEMMA LocalKeptBy ==
    ASSUME LocalInv, NEW p \in Procs, program' = program, input' = input,
           \A q \in Procs : q # p => Own(q)' = Own(q),
           Types', Phase(p)', Holder(p)'
    PROVE  LocalInv'
BY Untouched DEF LocalInv

\* What a step does to the semaphores: what the process p gives or takes
\* is recorded for it.
Conserving(p) ==
    /\ sem' \in [Sems -> Nat]
    /\ adj' \in [Procs -> [Sems -> Nat]]
    /\ \A q \in Procs : q # p => adj'[q] = adj[q]
    /\ \A k \in Sems : sem'[k] + adj'[p][k] = sem[k] + adj[p][k]

LEMMA SemopEffect ==
    ASSUME Types, NEW p \in Procs, NEW k \in Sems, NEW n \in Int, NEW next \in AllPCs,
           Semop(p, k, n, next), adj[p][k] - n \in Nat
    PROVE  /\ Conserving(p)
           /\ adj'[p][k] = adj[p][k] - n
           /\ \A l \in Sems : l # k => adj'[p][l] = adj[p][l]
           /\ pc' \in [Procs -> AllPCs] /\ pc'[p] = next
           /\ \A q \in Procs : q # p => pc'[q] = pc[q]
<1>1. /\ sem' = [sem EXCEPT ![k] = sem[k] + n] /\ sem[k] + n >= 0
      /\ adj' = [adj EXCEPT ![p] = [adj[p] EXCEPT ![k] = adj[p][k] - n]]
      /\ pc' = [pc EXCEPT ![p] = next]
    BY DEF Semop, SemReady, SemAfter, AdjAfter
<1>2. /\ sem \in [Sems -> Nat] /\ adj \in [Procs -> [Sems -> Nat]]
      /\ adj[p] \in [Sems -> Nat] /\ pc \in [Procs -> AllPCs]
    BY DEF Types
<1>3. sem[k] + n \in Nat
    BY <1>1, <1>2
<1>4. [adj[p] EXCEPT ![k] = adj[p][k] - n] \in [Sems -> Nat]
    BY <1>2
<1>5. sem' \in [Sems -> Nat] /\ adj' \in [Procs -> [Sems -> Nat]]
    BY <1>1, <1>2, <1>3, <1>4
<1>6. /\ adj'[p] = [adj[p] EXCEPT ![k] = adj[p][k] - n]
      /\ \A q \in Procs : q # p => adj'[q] = adj[q]
    BY <1>1, <1>2
<1>7. /\ adj'[p][k] = adj[p][k] - n
      /\ \A l \in Sems : l # k => adj'[p][l] = adj[p][l]
    BY <1>2, <1>6
<1>8. /\ sem'[k] = sem[k] + n
      /\ \A l \in Sems : l # k => sem'[l] = sem[l]
    BY <1>1, <1>2
<1>9. \A l \in Sems : sem'[l] + adj'[p][l] = sem[l] + adj[p][l]
    BY <1>2, <1>7, <1>8
<1> QED BY <1>1, <1>2, <1>5, <1>6, <1>7, <1>9 DEF Conserving

\* A step that leaves the semaphores alone.
LEMMA StepEffect ==
    ASSUME Types, NEW p \in Procs, NEW to \in AllPCs,
           pc' = [pc EXCEPT ![p] = to], UNCHANGED <<sem, adj>>
    PROVE  /\ Conserving(p) /\ adj' = adj
           /\ pc' \in [Procs -> AllPCs] /\ pc'[p] = to
           /\ \A q \in Procs : q # p => pc'[q] = pc[q]
BY DEF Types, Conserving

\* The end of a process, with SEM_UNDO.
LEMMA EndEffect ==
    ASSUME Types, NEW p \in Procs, EndsWith(p)
    PROVE  /\ Conserving(p) /\ adj'[p] = [k \in Sems |-> 0]
           /\ pc' \in [Procs -> AllPCs] /\ pc'[p] \in Ended
           /\ \A q \in Procs : q # p => pc'[q] = pc[q]
<1>1. PICK how \in Ended :
          /\ pc' = [pc EXCEPT ![p] = how]
          /\ sem' = SemUndone(sem, adj, p)
          /\ adj' = [adj EXCEPT ![p] = [k \in Sems |-> 0]]
    BY DEF EndsWith, End, Undo
<1>2. /\ sem \in [Sems -> Nat] /\ adj \in [Procs -> [Sems -> Nat]]
      /\ adj[p] \in [Sems -> Nat] /\ pc \in [Procs -> AllPCs] /\ how \in AllPCs
    BY DEF Types, AllPCs, PCs
<1>3. sem' = [k \in Sems |-> sem[k] + adj[p][k]]
    BY <1>1, <1>2 DEF SemUndone
<1>4. sem' \in [Sems -> Nat]
    BY <1>2, <1>3
<1>5. /\ adj' \in [Procs -> [Sems -> Nat]] /\ adj'[p] = [k \in Sems |-> 0]
      /\ \A q \in Procs : q # p => adj'[q] = adj[q]
    BY <1>1, <1>2
<1>6. \A k \in Sems : sem'[k] + adj'[p][k] = sem[k] + adj[p][k]
    BY <1>2, <1>3, <1>5
<1>7. /\ pc' \in [Procs -> AllPCs] /\ pc'[p] \in Ended
      /\ \A q \in Procs : q # p => pc'[q] = pc[q]
    BY <1>1, <1>2
<1> QED BY <1>4, <1>5, <1>6, <1>7 DEF Conserving

-----------------------------------------------------------------------------
(* Every step keeps the invariant of the process that makes it. *)

LEMMA ReserveWriteLocal ==
    ASSUME LocalInv, NEW p \in Procs, ReserveWrite(p), program' = program
    PROVE  LocalInv' /\ Conserving(p)
<1> DEFINE k == SemOf(NextChar(p))
<1>0. Types /\ Phase(p) /\ Holder(p)
    BY DEF LocalInv
<1>1. /\ pc[p] = "count" /\ pos[p] < Len(input[p])
      /\ Semop(p, k, -SEM_LIMIT, "load")
      /\ UNCHANGED <<input, pos, counter, shown, reg, idx>>
    BY DEF ReserveWrite, WriteUnits
<1>2. NextChar(p) \in Slots /\ k \in Sems
    BY <1>0, <1>1, CharFacts, SlotFacts
<1>3. adj[p][k] \in Nat /\ -SEM_LIMIT \in Int /\ adj[p][k] - (-SEM_LIMIT) \in Nat
      /\ adj[p][k] - (-SEM_LIMIT) >= SEM_LIMIT
    BY <1>0, <1>2, ShmCountAssumption DEF Types
<1> HIDE DEF k
<1>4. /\ Conserving(p) /\ adj'[p][k] >= SEM_LIMIT
      /\ pc' \in [Procs -> AllPCs] /\ pc'[p] = "load"
      /\ \A q \in Procs : q # p => pc'[q] = pc[q]
    BY <1>0, <1>1, <1>2, <1>3, SemopEffect DEF AllPCs, PCs
<1>5. Types'
    BY <1>0, <1>1, <1>4 DEF Types, Conserving
<1>6. \A q \in Procs : q # p => Own(q)' = Own(q)
    BY <1>1, <1>4 DEF Own, Conserving
<1>7. Phase(p)'
    BY <1>0, <1>1, <1>4 DEF Phase, AtInput, AtOutput, Unshown
<1>8. \A l \in Sems : Writing(p, l)' => l = k
    BY <1>1, <1>4 DEF Writing, NextChar, k
<1>9. Holder(p)'
    BY <1>1, <1>4, <1>8 DEF Holder, Reading, KeepsUnit
<1> QED BY <1>1, <1>4, <1>5, <1>6, <1>7, <1>9, LocalKeptBy

LEMMA LoadLocal ==
    ASSUME LocalInv, NEW p \in Procs, Load(p), program' = program
    PROVE  LocalInv' /\ Conserving(p)
<1>0. Types /\ Phase(p) /\ Holder(p)
    BY DEF LocalInv
<1>1. /\ pc[p] = "load" /\ pc' = [pc EXCEPT ![p] = "store"]
      /\ reg' = [reg EXCEPT ![p] = counter[NextChar(p)]]
      /\ UNCHANGED <<input, pos, counter, shown, sem, adj, idx>>
    BY DEF Load, Step
<1>2. NextChar(p) \in Slots
    BY <1>0, <1>1, CharFacts DEF Phase
<1>3. /\ Conserving(p) /\ adj' = adj
      /\ pc' \in [Procs -> AllPCs] /\ pc'[p] = "store"
      /\ \A q \in Procs : q # p => pc'[q] = pc[q]
    BY <1>0, <1>1, StepEffect DEF AllPCs, PCs
<1>4. Types'
    BY <1>0, <1>1, <1>2, <1>3 DEF Types
<1>5. \A q \in Procs : q # p => Own(q)' = Own(q)
    BY <1>1, <1>3 DEF Own
<1>6. Phase(p)'
    BY <1>0, <1>1, <1>3 DEF Phase, AtInput, AtOutput, Unshown
<1>7. Holder(p)'
    BY <1>0, <1>1, <1>3 DEF Holder, Writing, Reading, KeepsUnit, NextChar
<1> QED BY <1>1, <1>3, <1>4, <1>5, <1>6, <1>7, LocalKeptBy

LEMMA StoreLocal ==
    ASSUME LocalInv, NEW p \in Procs, Store(p), program' = program
    PROVE  LocalInv' /\ Conserving(p)
<1>0. Types /\ Phase(p) /\ Holder(p)
    BY DEF LocalInv
<1>1. /\ pc[p] = "store" /\ pc' = [pc EXCEPT ![p] = "release"]
      /\ counter' = [counter EXCEPT ![NextChar(p)] = reg[p] + 1]
      /\ pos' = [pos EXCEPT ![p] = pos[p] + 1]
      /\ UNCHANGED <<input, shown, sem, adj, reg, idx>>
    BY DEF Store, Step
<1>a. pos[p] \in Nat /\ pos[p] < Len(input[p]) /\ Len(input[p]) \in Nat
    BY <1>0, <1>1 DEF Phase, Types
<1>2. NextChar(p) \in Slots
    BY <1>0, <1>a, CharFacts
<1>3. /\ Conserving(p) /\ adj' = adj
      /\ pc' \in [Procs -> AllPCs] /\ pc'[p] = "release"
      /\ \A q \in Procs : q # p => pc'[q] = pc[q]
    BY <1>0, <1>1, StepEffect DEF AllPCs, PCs
<1>4. Types'
    BY <1>0, <1>1, <1>a, <1>2, <1>3 DEF Types
<1>5. /\ pos'[p] = pos[p] + 1
      /\ \A q \in Procs : q # p => pos'[q] = pos[q]
    BY <1>0, <1>1 DEF Types
<1>6. \A q \in Procs : q # p => Own(q)' = Own(q)
    BY <1>1, <1>3, <1>5 DEF Own
<1>7. Phase(p)'
    BY <1>0, <1>1, <1>a, <1>3, <1>5 DEF Phase, AtInput, AtOutput, Unshown
<1>8. LastChar(p)' = NextChar(p)
    BY <1>1, <1>5 DEF LastChar, NextChar
<1>9. Holder(p)'
    BY <1>0, <1>1, <1>3, <1>8 DEF Holder, Writing, Reading, KeepsUnit
<1> QED BY <1>1, <1>3, <1>4, <1>6, <1>7, <1>9, LocalKeptBy

LEMMA ReleaseWriteLocal ==
    ASSUME LocalInv, NEW p \in Procs, ReleaseWrite(p), program' = program
    PROVE  LocalInv' /\ Conserving(p)
<1> DEFINE k == SemOf(LastChar(p))
<1>0. Types /\ Phase(p) /\ Holder(p)
    BY DEF LocalInv
<1>1. /\ pc[p] = "release"
      /\ Semop(p, k, SEM_LIMIT, "count")
      /\ UNCHANGED <<input, pos, counter, shown, reg, idx>>
    BY DEF ReleaseWrite, WriteUnits
<1>2. LastChar(p) \in Slots /\ k \in Sems
    BY <1>0, <1>1, CharFacts, SlotFacts DEF Phase
<1>3. Writing(p, k)
    BY <1>1 DEF Writing
<1>4. adj[p][k] \in Nat /\ SEM_LIMIT \in Int /\ adj[p][k] - SEM_LIMIT \in Nat
    BY <1>0, <1>2, <1>3, ShmCountAssumption DEF Types, Holder
<1> HIDE DEF k
<1>5. /\ Conserving(p)
      /\ pc' \in [Procs -> AllPCs] /\ pc'[p] = "count"
      /\ \A q \in Procs : q # p => pc'[q] = pc[q]
    BY <1>0, <1>1, <1>2, <1>4, SemopEffect DEF AllPCs, PCs
<1>6. Types'
    BY <1>0, <1>1, <1>5 DEF Types, Conserving
<1>7. \A q \in Procs : q # p => Own(q)' = Own(q)
    BY <1>1, <1>5 DEF Own, Conserving
<1>8. Phase(p)'
    BY <1>0, <1>1, <1>5 DEF Phase, AtInput, AtOutput, Unshown
<1>9. Holder(p)'
    BY <1>5 DEF Holder, Writing, Reading, KeepsUnit
<1> QED BY <1>1, <1>5, <1>6, <1>7, <1>8, <1>9, LocalKeptBy

LEMMA EndCountingLocal ==
    ASSUME LocalInv, NEW p \in Procs, NEW then \in {"show", "reserve_out", "reserve"},
           EndCountingThen(p, then),
           program = "segmented-semaphore" => then = "reserve",
           program' = program
    PROVE  LocalInv' /\ Conserving(p)
<1>0. Types /\ Phase(p) /\ Holder(p)
    BY DEF LocalInv
<1>1. /\ pc[p] = "count" /\ pc' = [pc EXCEPT ![p] = then] /\ pos[p] = Len(input[p])
      /\ UNCHANGED <<input, pos, counter, shown, sem, adj, reg, idx>>
    BY DEF EndCountingThen, EndOfFile, Step
<1>2. /\ Conserving(p) /\ adj' = adj
      /\ pc' \in [Procs -> AllPCs] /\ pc'[p] = then
      /\ \A q \in Procs : q # p => pc'[q] = pc[q]
    BY <1>0, <1>1, StepEffect DEF AllPCs, PCs
<1>3. Types'
    BY <1>0, <1>1, <1>2 DEF Types
<1>4. \A q \in Procs : q # p => Own(q)' = Own(q)
    BY <1>1, <1>2 DEF Own
<1>5. Phase(p)'
    BY <1>0, <1>1, <1>2, ShmCountAssumption DEF Phase, AtInput, AtOutput, Unshown
<1>6. Holder(p)'
    BY <1>1, <1>2 DEF Holder, Writing, Reading, KeepsUnit
<1> QED BY <1>1, <1>2, <1>3, <1>4, <1>5, <1>6, LocalKeptBy

LEMMA ReserveReadLocal ==
    ASSUME LocalInv, NEW p \in Procs, ReserveRead(p), program' = program
    PROVE  LocalInv' /\ Conserving(p)
<1> DEFINE k == SemOf(idx[p])
<1>0. Types /\ Phase(p) /\ Holder(p)
    BY DEF LocalInv
<1>1. /\ pc[p] = "show"
      /\ Semop(p, k, -1, "value")
      /\ UNCHANGED <<input, pos, counter, shown, reg, idx>>
    BY DEF ReserveRead
<1>2. idx[p] \in Slots /\ k \in Sems
    BY <1>0, <1>1, SlotFacts DEF Phase, AtOutput, Types
<1>3. adj[p] \in [Sems -> Nat] /\ adj[p][k] \in Nat /\ adj[p][k] - (-1) = adj[p][k] + 1
    BY <1>0, <1>2 DEF Types
<1> HIDE DEF k
<1>4. /\ Conserving(p) /\ adj'[p][k] = adj[p][k] + 1
      /\ \A l \in Sems : l # k => adj'[p][l] = adj[p][l]
      /\ pc' \in [Procs -> AllPCs] /\ pc'[p] = "value"
      /\ \A q \in Procs : q # p => pc'[q] = pc[q]
    BY <1>0, <1>1, <1>2, <1>3, SemopEffect DEF AllPCs, PCs
<1>5. Types'
    BY <1>0, <1>1, <1>4 DEF Types, Conserving
<1>6. \A q \in Procs : q # p => Own(q)' = Own(q)
    BY <1>1, <1>4 DEF Own, Conserving
<1>7. Phase(p)'
    BY <1>0, <1>1, <1>4 DEF Phase, AtInput, AtOutput, Unshown
<1>8. \A l \in Sems : ~Writing(p, l)' /\ (Reading(p, l)' => l = k)
    BY <1>1, <1>4 DEF Writing, Reading, k
<1>9. Reading(p, 0)' => k = 0
    BY <1>8, SlotFacts
<1>10. ~Reading(p, 0)
    BY <1>1 DEF Reading
<1>11. program = "segmented-semaphore" => adj[p][0] >= 1 /\ adj[p][0] \in Nat
    BY <1>0, <1>1, <1>3, <1>10, SlotFacts DEF Holder, KeepsUnit
<1>12. program = "segmented-semaphore" =>
          adj'[p][0] >= 1 /\ (Reading(p, 0)' => adj'[p][0] >= 2)
    BY <1>4, <1>9, <1>11, SlotFacts
<1>13. \A l \in Sems : Reading(p, l)' => adj'[p][l] >= 1
    BY <1>3, <1>4, <1>8
<1>14. Holder(p)'
    BY <1>8, <1>12, <1>13 DEF Holder
<1> QED BY <1>1, <1>4, <1>5, <1>6, <1>7, <1>14, LocalKeptBy

LEMMA ReadValueLocal ==
    ASSUME LocalInv, NEW p \in Procs, ReadValue(p), program' = program
    PROVE  LocalInv' /\ Conserving(p)
<1>0. Types /\ Phase(p) /\ Holder(p)
    BY DEF LocalInv
<1>1. /\ pc[p] = "value" /\ pc' = [pc EXCEPT ![p] = "unshow"]
      /\ shown' = [shown EXCEPT ![p] = [shown[p] EXCEPT ![idx[p]] = counter[idx[p]]]]
      /\ UNCHANGED <<input, pos, counter, sem, adj, reg, idx>>
    BY DEF ReadValue, Step
<1>2. idx[p] \in Slots /\ idx[p] \in Nat
    BY <1>0, <1>1, SlotFacts DEF Phase, AtOutput, Types
<1>3. /\ Conserving(p) /\ adj' = adj
      /\ pc' \in [Procs -> AllPCs] /\ pc'[p] = "unshow"
      /\ \A q \in Procs : q # p => pc'[q] = pc[q]
    BY <1>0, <1>1, StepEffect DEF AllPCs, PCs
<1>4. [shown[p] EXCEPT ![idx[p]] = counter[idx[p]]] \in [Slots -> Nat \cup {NULL}]
    BY <1>0, <1>2 DEF Types
<1>5. shown' \in [Procs -> [Slots -> Nat \cup {NULL}]]
    BY <1>0, <1>1, <1>4 DEF Types
<1>6. Types'
    BY <1>0, <1>1, <1>3, <1>5 DEF Types
<1>7. \A q \in Procs : q # p => shown'[q] = shown[q]
    BY <1>0, <1>1 DEF Types
<1>8. \A q \in Procs : q # p => Own(q)' = Own(q)
    BY <1>1, <1>3, <1>7 DEF Own
<1>9. \A c \in Slots : c # idx[p] => shown'[p][c] = shown[p][c]
    BY <1>0, <1>1 DEF Types
<1>10. Unshown(p, idx[p])
    BY <1>0, <1>1 DEF Phase
<1>11. Unshown(p, idx[p] + 1)'
    BY <1>1, <1>2, <1>9, <1>10, SlotFacts DEF Unshown
<1>12. Phase(p)'
    BY <1>0, <1>1, <1>3, <1>11 DEF Phase, AtInput, AtOutput
<1>13. Holder(p)'
    BY <1>0, <1>1, <1>3 DEF Holder, Writing, Reading, KeepsUnit
<1> QED BY <1>1, <1>3, <1>6, <1>8, <1>12, <1>13, LocalKeptBy

\* What the output loop does with its index.
LEMMA NextIndexLocal ==
    ASSUME LocalInv, NEW p \in Procs, pc[p] = "unshow",
           idx' = [idx EXCEPT ![p] = idx[p] + 1],
           UNCHANGED <<input, pos, counter, shown, reg>>,
           Conserving(p), pc' \in [Procs -> AllPCs],
           pc'[p] \in {"show", "exit", "release_out"},
           pc'[p] = "show" => idx[p] + 1 < ALPHA_SIZE,
           \A q \in Procs : q # p => pc'[q] = pc[q],
           program = "segmented-semaphore" =>
               pc'[p] # "release_out" /\ adj'[p][0] >= 1,
           program' = program
    PROVE  LocalInv'
<1>0. Types /\ Phase(p) /\ Holder(p)
    BY DEF LocalInv
<1>1. /\ idx' \in [Procs -> Nat] /\ idx'[p] = idx[p] + 1 /\ idx[p] \in Nat
      /\ \A q \in Procs : q # p => idx'[q] = idx[q]
    BY <1>0 DEF Types
<1>2. Types'
    BY <1>0, <1>1 DEF Types, Conserving
<1>3. \A q \in Procs : q # p => Own(q)' = Own(q)
    BY <1>1 DEF Own, Conserving
<1>4. pos[p] = Len(input[p]) /\ Unshown(p, idx[p] + 1) /\ pos[p] \in Nat
    BY <1>0 DEF Phase, AtOutput, Types
<1>5. Unshown(p, idx[p])'
    BY <1>1, <1>4 DEF Unshown
<1>6. Phase(p)'
    BY <1>0, <1>1, <1>4, <1>5 DEF Phase, AtInput, AtOutput
<1>7. Holder(p)'
    BY DEF Holder, Writing, Reading, KeepsUnit
<1> QED BY <1>2, <1>3, <1>6, <1>7, LocalKeptBy

LEMMA ReleaseReadLocal ==
    ASSUME LocalInv, NEW p \in Procs, NEW then \in {"exit", "release_out"},
           ReleaseReadThen(p, then),
           program = "segmented-semaphore" => then = "exit",
           program' = program
    PROVE  LocalInv' /\ Conserving(p)
<1> DEFINE k == SemOf(idx[p])
           next == IF idx[p] + 1 < ALPHA_SIZE THEN "show" ELSE then
<1>0. Types /\ Phase(p) /\ Holder(p)
    BY DEF LocalInv
<1>1. /\ pc[p] = "unshow"
      /\ Semop(p, k, 1, next)
      /\ idx' = [idx EXCEPT ![p] = idx[p] + 1]
      /\ UNCHANGED <<input, pos, counter, shown, reg>>
    BY DEF ReleaseReadThen
<1>2. idx[p] \in Slots /\ k \in Sems
    BY <1>0, <1>1, SlotFacts DEF Phase, AtOutput, Types
<1>3. Reading(p, k)
    BY <1>1 DEF Reading
<1>4. adj[p] \in [Sems -> Nat] /\ adj[p][k] \in Nat /\ adj[p][k] - 1 \in Nat
    BY <1>0, <1>2, <1>3 DEF Types, Holder
<1>5. program = "segmented-semaphore" =>
          adj[p][0] >= 1 /\ (k = 0 => adj[p][0] >= 2) /\ adj[p][0] \in Nat
    BY <1>0, <1>1, <1>3, <1>4, SlotFacts DEF Holder, KeepsUnit
<1>6. next \in {"show", "exit", "release_out"}
    OBVIOUS
<1>7. next = "show" => idx[p] + 1 < ALPHA_SIZE
    OBVIOUS
<1>8. program = "segmented-semaphore" => next # "release_out"
    OBVIOUS
<1>9. next \in AllPCs
    BY <1>6 DEF AllPCs, PCs
<1> HIDE DEF k, next
<1>10. /\ Conserving(p) /\ adj'[p][k] = adj[p][k] - 1
       /\ \A l \in Sems : l # k => adj'[p][l] = adj[p][l]
       /\ pc' \in [Procs -> AllPCs] /\ pc'[p] = next
       /\ \A q \in Procs : q # p => pc'[q] = pc[q]
    BY <1>0, <1>1, <1>2, <1>4, <1>9, SemopEffect
<1>11. program = "segmented-semaphore" => adj'[p][0] >= 1
    BY <1>4, <1>5, <1>10, SlotFacts
<1> QED BY <1>1, <1>6, <1>7, <1>8, <1>10, <1>11, NextIndexLocal

LEMMA GoesOnLocal ==
    ASSUME LocalInv, NEW p \in Procs, GoesOn(p), program' = program
    PROVE  LocalInv' /\ Conserving(p)
<1>0. Types /\ Phase(p) /\ Holder(p)
    BY DEF LocalInv
<1>1. /\ pc[p] = "unshow" /\ pc' = [pc EXCEPT ![p] = AfterRead(p)]
      /\ idx' = [idx EXCEPT ![p] = idx[p] + 1]
      /\ UNCHANGED <<input, pos, counter, shown, sem, adj, reg>>
    BY DEF GoesOn, Step
<1>2. /\ AfterRead(p) \in {"show", "exit"}
      /\ AfterRead(p) = "show" => idx[p] + 1 < ALPHA_SIZE
    BY DEF AfterRead
<1>3. /\ Conserving(p) /\ adj' = adj
      /\ pc' \in [Procs -> AllPCs] /\ pc'[p] = AfterRead(p)
      /\ \A q \in Procs : q # p => pc'[q] = pc[q]
    BY <1>0, <1>1, <1>2, StepEffect DEF AllPCs, PCs
<1>4. program = "segmented-semaphore" => adj[p][0] >= 1
    BY <1>0, <1>1, SlotFacts DEF Holder, KeepsUnit, Types
<1> QED BY <1>1, <1>2, <1>3, <1>4, NextIndexLocal

LEMMA ReserveOutputLocal ==
    ASSUME LocalInv, NEW p \in Procs, ReserveOutput(p), program' = program
    PROVE  LocalInv' /\ Conserving(p)
<1>0. Types /\ Phase(p) /\ Holder(p)
    BY DEF LocalInv
<1>1. /\ pc[p] = "reserve"
      /\ Semop(p, 0, -1, "show")
      /\ UNCHANGED <<input, pos, counter, shown, reg, idx>>
    BY DEF ReserveOutput, KeptUnits
<1>2. adj[p][0] \in Nat /\ adj[p][0] - (-1) = adj[p][0] + 1 /\ 0 \in Sems
    BY <1>0, SlotFacts DEF Types
<1>3. /\ Conserving(p) /\ adj'[p][0] = adj[p][0] + 1
      /\ pc' \in [Procs -> AllPCs] /\ pc'[p] = "show"
      /\ \A q \in Procs : q # p => pc'[q] = pc[q]
    BY <1>0, <1>1, <1>2, SemopEffect DEF AllPCs, PCs
<1>4. Types'
    BY <1>0, <1>1, <1>3 DEF Types, Conserving
<1>5. \A q \in Procs : q # p => Own(q)' = Own(q)
    BY <1>1, <1>3 DEF Own, Conserving
<1>6. Phase(p)'
    BY <1>0, <1>1, <1>3, ShmCountAssumption DEF Phase, AtInput, AtOutput, Unshown
<1>7. Holder(p)'
    BY <1>2, <1>3 DEF Holder, Writing, Reading, KeepsUnit
<1> QED BY <1>1, <1>3, <1>4, <1>5, <1>6, <1>7, LocalKeptBy

\* Taking and giving back the output semaphore.
LEMMA SemopOutLocal ==
    ASSUME LocalInv, NEW p \in Procs, program = "output-semaphore", program' = program,
           ReserveOut(p) \/ ReleaseOut(p)
    PROVE  LocalInv' /\ Conserving(p)
<1>0. Types /\ Phase(p) /\ Holder(p)
    BY DEF LocalInv
<1>1. PICK to \in {"show", "exit"} :
          /\ pc' = [pc EXCEPT ![p] = to]
          /\ to = "show" => pc[p] = "reserve_out"
          /\ UNCHANGED <<input, pos, counter, shown, sem, adj, reg, idx>>
    BY DEF ReserveOut, ReleaseOut, SemopOut, Step
<1>2. /\ Conserving(p) /\ adj' = adj
      /\ pc' \in [Procs -> AllPCs] /\ pc'[p] = to
      /\ \A q \in Procs : q # p => pc'[q] = pc[q]
    BY <1>0, <1>1, StepEffect DEF AllPCs, PCs
<1>3. Types'
    BY <1>0, <1>1, <1>2 DEF Types
<1>4. \A q \in Procs : q # p => Own(q)' = Own(q)
    BY <1>1, <1>2 DEF Own
<1>5. Phase(p)'
    BY <1>0, <1>1, <1>2, ShmCountAssumption DEF Phase, AtInput, AtOutput, Unshown
<1>6. Holder(p)'
    BY <1>2 DEF Holder, Writing, Reading, KeepsUnit
<1> QED BY <1>1, <1>2, <1>3, <1>4, <1>5, <1>6, LocalKeptBy

LEMMA EndLocal ==
    ASSUME LocalInv, NEW p \in Procs, EndsWith(p), program' = program
    PROVE  LocalInv' /\ Conserving(p)
<1>0. Types /\ Phase(p)
    BY DEF LocalInv
<1>1. UNCHANGED <<input, pos, counter, shown, reg, idx>>
    BY DEF EndsWith, End
<1>2. /\ Conserving(p)
      /\ pc' \in [Procs -> AllPCs] /\ pc'[p] \in Ended
      /\ \A q \in Procs : q # p => pc'[q] = pc[q]
    BY <1>0, EndEffect
<1>3. Types'
    BY <1>0, <1>1, <1>2 DEF Types, Conserving
<1>4. \A q \in Procs : q # p => Own(q)' = Own(q)
    BY <1>1, <1>2 DEF Own, Conserving
<1>5. Phase(p)'
    BY <1>0, <1>1, <1>2 DEF Phase, AtInput, AtOutput, Ended
<1>6. Holder(p)'
    BY <1>2 DEF Holder, Writing, Reading, KeepsUnit, Ended
<1> QED BY <1>1, <1>2, <1>3, <1>4, <1>5, <1>6, LocalKeptBy

LEMMA MoveLocal ==
    ASSUME LocalInv, NEW p \in Procs, Move(p), program' = program
    PROVE  LocalInv' /\ Conserving(p)
BY ReserveWriteLocal, LoadLocal, StoreLocal, ReleaseWriteLocal, EndCountingLocal,
   ReserveReadLocal, ReadValueLocal, ReleaseReadLocal, GoesOnLocal,
   ReserveOutputLocal, SemopOutLocal, EndLocal DEF Move

-----------------------------------------------------------------------------
(* No unit is lost: what a semaphore lacks is recorded for some process.   *)

Slice(k) == [p \in Procs |-> adj[p][k]]

UnitsInv ==
    \A k \in Sems : /\ IsFiniteSet(Units(Slice(k)))
                    /\ sem[k] + Cardinality(Units(Slice(k))) = SEM_LIMIT

LEMMA UnitsKept ==
    ASSUME Types, Types', UnitsInv, NEW p \in Procs, Conserving(p)
    PROVE  UnitsInv'
<1> SUFFICES ASSUME NEW k \in Sems
             PROVE  /\ IsFiniteSet(Units(Slice(k))')
                    /\ sem'[k] + Cardinality(Units(Slice(k))') = SEM_LIMIT
    BY DEF UnitsInv
<1> DEFINE h == Slice(k)
           n == adj'[p][k]
           g == [h EXCEPT ![p] = n]
<1>1. h \in [Procs -> Nat] /\ h[p] = adj[p][k] /\ n \in Nat
      /\ adj[p][k] \in Nat /\ sem[k] \in Nat /\ sem'[k] \in Nat
    BY DEF Types, Slice, Conserving
<1>2. Slice(k)' = g
    BY DEF Types, Slice, Conserving
<1>3. Units(Slice(k))' = Units(g)
    BY <1>2 DEF Units
<1>4. IsFiniteSet(Units(h)) /\ sem[k] + Cardinality(Units(h)) = SEM_LIMIT
    BY DEF UnitsInv
<1> HIDE DEF h
<1>5. IsFiniteSet(Units(g)) /\ Cardinality(Units(g)) + h[p] = Cardinality(Units(h)) + n
    BY <1>1, <1>4, UnitsChange
<1>6. sem'[k] + n = sem[k] + adj[p][k]
    BY DEF Conserving
<1>7. Cardinality(Units(g)) \in Nat /\ Cardinality(Units(h)) \in Nat
    BY <1>4, <1>5, FS_CardinalityType
<1> HIDE DEF g, n
<1>8. sem'[k] + Cardinality(Units(g)) = SEM_LIMIT
    BY <1>1, <1>4, <1>5, <1>6, <1>7, ShmCountAssumption
<1> QED BY <1>3, <1>5, <1>8

\* Who has all units of a semaphore has them alone.
LEMMA AloneWithUnits ==
    ASSUME Types, UnitsInv, NEW k \in Sems, NEW p \in Procs, NEW q \in Procs,
           p # q, adj[p][k] >= SEM_LIMIT
    PROVE  adj[q][k] = 0
<1> DEFINE h == Slice(k)
<1>1. h \in [Procs -> Nat] /\ h[p] = adj[p][k] /\ h[q] = adj[q][k] /\ sem[k] \in Nat
    BY DEF Types, Slice
<1>2. IsFiniteSet(Units(h)) /\ sem[k] + Cardinality(Units(h)) = SEM_LIMIT
    BY DEF UnitsInv
<1> HIDE DEF h
<1>3. Cardinality(Units(h)) \in Nat
    BY <1>2, FS_CardinalityType
<1>4. Cardinality(Units(h)) <= SEM_LIMIT /\ SEM_LIMIT \in Nat
    BY <1>1, <1>2, <1>3, ShmCountAssumption
<1> QED BY <1>1, <1>2, <1>4, UnitsAlone

LEMMA Exclusion ==
    ASSUME LocalInv, UnitsInv
    PROVE  ReadersWriters
<1> SUFFICES ASSUME NEW p \in Procs, NEW q \in Procs, NEW k \in Sems,
                    p # q, Writing(p, k)
             PROVE  ~Writing(q, k) /\ ~Reading(q, k)
    BY DEF ReadersWriters
<1>1. Types /\ Holder(p) /\ Holder(q)
    BY DEF LocalInv
<1>2. adj[p][k] >= SEM_LIMIT
    BY <1>1 DEF Holder
<1>3. adj[q][k] = 0
    BY <1>1, <1>2, AloneWithUnits
<1>4. Writing(q, k) => adj[q][k] >= SEM_LIMIT
    BY <1>1 DEF Holder
<1>5. Reading(q, k) => adj[q][k] >= 1
    BY <1>1 DEF Holder
<1> QED BY <1>3, <1>4, <1>5, ShmCountAssumption

-----------------------------------------------------------------------------
(* The data: what a process has in its register is the counter it is       *)
(* about to write, and no output is ahead of the counters.                 *)

RegisterInv == \A p \in Procs : pc[p] = "store" => reg[p] = counter[NextChar(p)]
ShownInv    == \A p \in Procs, c \in Slots : shown[p][c] <= counter[c]

LEMMA DataMoves ==
    ASSUME NEW p \in Procs, Move(p)
    PROVE  \/ Store(p) \/ ReadValue(p)
           \/ UNCHANGED <<input, pos, counter, shown>>
BY DEF Move, ReserveWrite, Load, ReleaseWrite, EndCountingThen, ReserveRead,
       ReleaseReadThen, ReserveOut, ReleaseOut, SemopOut, ReserveOutput, GoesOn,
       EndsWith, End

LEMMA Elsewhere ==
    ASSUME Types, NEW p \in Procs, Move(p), NEW q \in Procs, q # p
    PROVE  /\ pc'[q] = pc[q] /\ pos'[q] = pos[q] /\ reg'[q] = reg[q]
           /\ shown'[q] = shown[q] /\ input' = input
<1>1. pc'[q] = pc[q]
  <2>1. \E to : pc' = [pc EXCEPT ![p] = to]
      BY Zenon DEF Move, ReserveWrite, Load, Store, ReleaseWrite, EndCountingThen,
             ReserveRead, ReadValue, ReleaseReadThen, ReserveOut, ReleaseOut,
             SemopOut, ReserveOutput, GoesOn, EndsWith, End, Step, Semop
  <2> QED BY <2>1 DEF Types
<1>2. pos' = pos \/ pos' = [pos EXCEPT ![p] = pos[p] + 1]
    BY DataMoves DEF Store, ReadValue
<1>3. reg' = reg \/ Load(p)
    BY DEF Move, ReserveWrite, Store, ReleaseWrite, EndCountingThen,
           ReserveRead, ReadValue, ReleaseReadThen, ReserveOut, ReleaseOut,
           SemopOut, ReserveOutput, GoesOn, EndsWith, End
<1>4. reg'[q] = reg[q]
    BY <1>3 DEF Load, Types
<1>5. shown' = shown \/ ReadValue(p)
    BY DataMoves DEF Store
<1>6. shown'[q] = shown[q]
    BY <1>5 DEF ReadValue, Types
<1>7. input' = input
    BY DataMoves DEF Store, ReadValue
<1> QED BY <1>1, <1>2, <1>4, <1>6, <1>7 DEF Types

LEMMA OnlyLoad ==
    ASSUME Types, NEW p \in Procs, Move(p), pc'[p] = "store"
    PROVE  Load(p)
<1> SUFFICES ASSUME ~Load(p) PROVE FALSE
    OBVIOUS
<1>0. p \in DOMAIN pc
    BY DEF Types
<1>1. CASE \/ ReserveWrite(p) \/ ReleaseWrite(p) \/ ReserveRead(p)
           \/ ReserveOut(p) \/ ReleaseOut(p) \/ ReserveOutput(p)
    BY <1>0, <1>1 DEF ReserveWrite, ReleaseWrite, ReserveRead, ReserveOut,
           ReleaseOut, SemopOut, ReserveOutput, Step, Semop
<1>2. CASE Store(p) \/ ReadValue(p) \/ GoesOn(p)
    BY <1>0, <1>2 DEF Store, ReadValue, GoesOn, AfterRead, Step
<1>3. CASE \E then \in {"show", "reserve_out", "reserve"} : EndCountingThen(p, then)
    BY <1>0, <1>3 DEF EndCountingThen, Step
<1>4. CASE \E then \in {"exit", "release_out"} : ReleaseReadThen(p, then)
    BY <1>0, <1>4 DEF ReleaseReadThen, Semop
<1>5. CASE EndsWith(p)
    BY <1>0, <1>5 DEF EndsWith, End, Ended
<1> QED BY <1>1, <1>2, <1>3, <1>4, <1>5 DEF Move

LEMMA RegisterKept ==
    ASSUME LocalInv, UnitsInv, RegisterInv, NEW p \in Procs, Move(p)
    PROVE  RegisterInv'
<1>0. Types /\ ReadersWriters /\ \A q \in Procs : Phase(q)
    BY Exclusion DEF LocalInv
<1> SUFFICES ASSUME NEW q \in Procs, pc'[q] = "store"
             PROVE  reg'[q] = counter'[NextChar(q)']
    BY DEF RegisterInv
<1>1. CASE q = p
  <2>1. Load(p)
      BY <1>0, <1>1, OnlyLoad
  <2> QED BY <1>0, <1>1, <2>1 DEF Load, NextChar, Types
<1>2. CASE q # p
  <2>1. /\ pc[q] = "store" /\ reg'[q] = reg[q] /\ NextChar(q)' = NextChar(q)
        BY <1>0, <1>2, Elsewhere DEF NextChar
  <2>2. reg[q] = counter[NextChar(q)]
      BY <2>1 DEF RegisterInv
  <2>3. CASE Store(p)
    <3>1. Phase(q) /\ Phase(p) /\ pc[p] = "store"
        BY <1>0, <2>3 DEF Store, Step
    <3>a. pos[q] < Len(input[q]) /\ pos[p] < Len(input[p])
        BY <2>1, <3>1 DEF Phase
    <3>2. NextChar(q) \in Slots /\ NextChar(p) \in Slots
        BY <1>0, <3>1, <3>a, CharFacts
    <3>3. /\ SemOf(NextChar(p)) \in Sems
          /\ Writing(p, SemOf(NextChar(p))) /\ Writing(q, SemOf(NextChar(q)))
        BY <2>1, <3>1, <3>2, SlotFacts DEF Writing
    <3>4. NextChar(q) # NextChar(p)
        BY <1>0, <1>2, <3>3 DEF ReadersWriters
    <3>5. counter'[NextChar(q)] = counter[NextChar(q)]
        BY <1>0, <2>3, <3>2, <3>4 DEF Store, Types
    <3> QED BY <2>1, <2>2, <3>5
  <2>4. CASE ~Store(p)
    <3>1. counter' = counter
        BY <2>4, DataMoves DEF ReadValue
    <3> QED BY <2>1, <2>2, <3>1
  <2> QED BY <2>3, <2>4
<1> QED BY <1>1, <1>2

\* An increment is one, and what it shows is what the counter was.
LEMMA StoreIsCount ==
    ASSUME LocalInv, RegisterInv, NEW p \in Procs, Store(p)
    PROVE  /\ NextChar(p) \in Slots
           /\ counter' = [counter EXCEPT ![NextChar(p)] = counter[NextChar(p)] + 1]
           /\ pos[p] < Len(input[p])
           /\ UNCHANGED <<input, shown>>
<1>1. Types /\ Phase(p) /\ pc[p] = "store"
    BY DEF LocalInv, Store, Step
<1>2. pos[p] < Len(input[p])
    BY <1>1 DEF Phase
<1>3. NextChar(p) \in Slots
    BY <1>1, <1>2, CharFacts
<1>4. reg[p] = counter[NextChar(p)]
    BY <1>1 DEF RegisterInv
<1> QED BY <1>2, <1>3, <1>4 DEF Store

LEMMA ReadIsShow ==
    ASSUME LocalInv, NEW p \in Procs, ReadValue(p)
    PROVE  /\ idx[p] \in Slots /\ pos[p] = Len(input[p]) /\ shown[p][idx[p]] = NULL
           /\ shown' = [shown EXCEPT ![p] = [shown[p] EXCEPT ![idx[p]] = counter[idx[p]]]]
           /\ UNCHANGED <<input, pos, counter>>
<1>1. Types /\ Phase(p) /\ pc[p] = "value"
    BY DEF LocalInv, ReadValue, Step
<1>2. idx[p] \in Slots /\ idx[p] \in Nat
    BY <1>1, SlotFacts DEF Phase, AtOutput, Types
<1>3. pos[p] = Len(input[p]) /\ shown[p][idx[p]] = NULL
    BY <1>1, <1>2 DEF Phase, AtOutput, Unshown
<1> QED BY <1>2, <1>3 DEF ReadValue

LEMMA ShownKept ==
    ASSUME LocalInv, RegisterInv, ShownInv, NEW p \in Procs, Move(p)
    PROVE  ShownInv'
<1>0. counter \in [Slots -> Nat] /\ shown \in [Procs -> [Slots -> Nat \cup {NULL}]]
    BY DEF LocalInv, Types
<1>1. CASE Store(p)
  <2>1. /\ counter' = [counter EXCEPT ![NextChar(p)] = counter[NextChar(p)] + 1]
        /\ shown' = shown
      BY <1>1, StoreIsCount
  <2>2. \A c \in Slots : counter'[c] >= counter[c]
      BY <1>0, <2>1
  <2>3. \A q \in Procs, c \in Slots : shown[q][c] \in Int /\ counter[c] \in Int /\ counter'[c] \in Int
      BY <1>0, <2>1 DEF NULL
  <2> QED BY <2>1, <2>2, <2>3 DEF ShownInv
<1>2. CASE ReadValue(p)
  <2>1. /\ idx[p] \in Slots /\ counter' = counter
        /\ shown' = [shown EXCEPT ![p] = [shown[p] EXCEPT ![idx[p]] = counter[idx[p]]]]
      BY <1>2, ReadIsShow
  <2>2. ASSUME NEW q \in Procs, NEW c \in Slots
        PROVE  shown'[q][c] <= counter[c]
    <3>1. shown[q][c] <= counter[c] /\ counter[c] \in Nat
        BY <1>0 DEF ShownInv
    <3>2. shown'[q][c] = shown[q][c] \/ shown'[q][c] = counter[c]
        BY <1>0, <2>1
    <3> QED BY <3>1, <3>2
  <2> QED BY <2>1, <2>2 DEF ShownInv
<1>3. CASE UNCHANGED <<input, pos, counter, shown>>
    BY <1>3 DEF ShownInv
<1> QED BY <1>1, <1>2, <1>3, DataMoves

-----------------------------------------------------------------------------
(* The output semaphore: who holds it, and what the others have shown.     *)

InOutput(p) == pc[p] \in AtOutput \cup {"release_out"}

HeldOut ==
    /\ sem_out \in Nat /\ sem_out <= 1
    /\ adj_out = [p \in Procs |-> IF InOutput(p) THEN 1 ELSE 0]
    /\ sem_out = 1 => \A p \in Procs : ~InOutput(p)
    /\ \A p, q \in Procs : InOutput(p) /\ InOutput(q) => p = q

\* The output that is under way is ahead of all the others.
LatestInv == \A p, q \in Procs : InOutput(p) => ShowsNoMore(q, p)

OutInv == program = "output-semaphore" => HeldOut /\ OutputsInOrder /\ LatestInv

LEMMA OutMoves ==
    ASSUME Types, NEW p \in Procs, Move(p), program = "output-semaphore"
    PROVE  \/ InOutput(p)' = InOutput(p) /\ OutIdle
           \/ ReserveOut(p)
           \/ ReleaseOut(p)
           \/ pc'[p] \in Ended /\ OutEnd(p) /\ UNCHANGED shown
<1> SUFFICES ASSUME ~ReserveOut(p), ~ReleaseOut(p)
             PROVE  \/ InOutput(p)' = InOutput(p) /\ OutIdle
                    \/ pc'[p] \in Ended /\ OutEnd(p) /\ UNCHANGED shown
    OBVIOUS
<1>0. p \in DOMAIN pc
    BY DEF Types
<1>1. CASE (ReserveWrite(p) \/ ReleaseWrite(p) \/ ReserveRead(p)) /\ OutIdle
    BY <1>0, <1>1 DEF ReserveWrite, ReleaseWrite, ReserveRead, Semop, InOutput, AtOutput
<1>2. CASE (Load(p) \/ Store(p) \/ ReadValue(p)) /\ OutIdle
    BY <1>0, <1>2 DEF Load, Store, ReadValue, Step, InOutput, AtOutput
<1>3. CASE EndCountingThen(p, "reserve_out") /\ OutIdle
    BY <1>0, <1>3 DEF EndCountingThen, Step, InOutput, AtOutput
<1>4. CASE ReleaseReadThen(p, "release_out") /\ OutIdle
    BY <1>0, <1>4 DEF ReleaseReadThen, Semop, InOutput, AtOutput
<1>5. CASE EndsWith(p) /\ OutEnd(p)
    BY <1>0, <1>5 DEF EndsWith, End
<1> QED BY <1>1, <1>2, <1>3, <1>4, <1>5 DEF Move

LEMMA HeldOutKept ==
    ASSUME Types, Types', HeldOut, NEW p \in Procs, Move(p),
           program = "output-semaphore"
    PROVE  /\ HeldOut'
           /\ InOutput(p)' => InOutput(p) \/ ReserveOut(p)
<1>1. \A q \in Procs : q # p => InOutput(q)' = InOutput(q)
    BY Elsewhere DEF InOutput
<1>2. CASE InOutput(p)' = InOutput(p) /\ OutIdle
    BY <1>1, <1>2 DEF HeldOut, OutIdle
<1>3. CASE ReserveOut(p)
  <2>1. /\ pc[p] = "reserve_out" /\ pc' = [pc EXCEPT ![p] = "show"]
        /\ sem_out - 1 >= 0 /\ sem_out' = sem_out - 1
        /\ adj_out' = [adj_out EXCEPT ![p] = adj_out[p] + 1]
      BY <1>3 DEF ReserveOut, SemopOut, OutUnits, Step, HeldOut
  <2>2. ~InOutput(p) /\ InOutput(p)'
      BY <2>1 DEF InOutput, AtOutput, Types
  <2>3. sem_out = 1 /\ sem_out' = 0 /\ \A q \in Procs : ~InOutput(q)
      BY <2>1 DEF HeldOut
  <2>4. adj_out'= [q \in Procs |-> IF InOutput(q)' THEN 1 ELSE 0]
    <3>1. adj_out = [q \in Procs |-> 0]
        BY <2>3 DEF HeldOut
    <3>2. adj_out' = [[q \in Procs |-> 0] EXCEPT ![p] = 1]
        BY <2>1, <3>1
    <3> QED BY <1>1, <2>2, <2>3, <3>2
  <2>5. \A q \in Procs : InOutput(q)' => q = p
      BY <1>1, <2>3
  <2> QED BY <1>3, <2>3, <2>4, <2>5 DEF HeldOut
<1>4. CASE ReleaseOut(p)
  <2>1. /\ pc[p] = "release_out" /\ pc' = [pc EXCEPT ![p] = "exit"]
        /\ sem_out' = sem_out + 1
        /\ adj_out' = [adj_out EXCEPT ![p] = adj_out[p] - 1]
      BY <1>4 DEF ReleaseOut, SemopOut, OutUnits, Step
  <2>2. InOutput(p) /\ ~InOutput(p)'
      BY <2>1 DEF InOutput, AtOutput, Types
  <2>3. /\ adj_out[p] = 1 /\ sem_out = 0
        /\ \A q \in Procs : InOutput(q) => q = p
      BY <2>2 DEF HeldOut
  <2>4. sem_out' = 1 /\ adj_out' = [adj_out EXCEPT ![p] = 0]
      BY <2>1, <2>3
  <2>5. \A q \in Procs : ~InOutput(q)'
      BY <1>1, <2>2, <2>3
  <2>6. adj_out' = [q \in Procs |-> IF InOutput(q)' THEN 1 ELSE 0]
      BY <2>3, <2>4, <2>5 DEF HeldOut
  <2> QED BY <2>2, <2>4, <2>5, <2>6 DEF HeldOut
<1>5. CASE pc'[p] \in Ended /\ OutEnd(p) /\ UNCHANGED shown
  <2>1. ~InOutput(p)'
      BY <1>5 DEF InOutput, AtOutput, Ended
  <2>2. sem_out' = sem_out + adj_out[p] /\ adj_out' = [adj_out EXCEPT ![p] = 0]
      BY <1>5 DEF OutEnd, OutUndo
  <2>3. adj_out' = [q \in Procs |-> IF InOutput(q)' THEN 1 ELSE 0]
      BY <1>1, <2>1, <2>2 DEF HeldOut
  <2>4. \A q, r \in Procs : InOutput(q)' /\ InOutput(r)' => q = r
      BY <1>1, <2>1 DEF HeldOut
  <2>5. CASE InOutput(p)
    <3>1. adj_out[p] = 1 /\ sem_out = 0 /\ \A q \in Procs : InOutput(q) => q = p
        BY <2>5 DEF HeldOut
    <3>2. sem_out' = 1 /\ \A q \in Procs : ~InOutput(q)'
        BY <1>1, <2>1, <2>2, <3>1
    <3> QED BY <2>1, <2>3, <3>2 DEF HeldOut
  <2>6. CASE ~InOutput(p)
    <3>1. adj_out[p] = 0 /\ sem_out' = sem_out
        BY <2>2, <2>6 DEF HeldOut
    <3> QED BY <1>1, <2>1, <2>3, <2>4, <3>1 DEF HeldOut
  <2> QED BY <2>5, <2>6
<1> QED BY <1>2, <1>3, <1>4, <1>5, OutMoves

LEMMA OutKept ==
    ASSUME LocalInv, LocalInv', RegisterInv, ShownInv, OutInv,
           NEW p \in Procs, Move(p), program' = program
    PROVE  OutInv'
<1> SUFFICES ASSUME program = "output-semaphore"
             PROVE  HeldOut' /\ OutputsInOrder' /\ LatestInv'
    BY DEF OutInv
<1>0. /\ HeldOut /\ OutputsInOrder /\ LatestInv
      /\ Types /\ Types' /\ Phase(p)
    BY DEF OutInv, LocalInv
<1>1. HeldOut' /\ (InOutput(p)' => InOutput(p) \/ ReserveOut(p))
    BY <1>0, HeldOutKept
<1>2. \A q \in Procs : q # p => (InOutput(q)' = InOutput(q))
    BY <1>0, Elsewhere DEF InOutput
<1>3. CASE ~ReadValue(p)
  <2>1. shown' = shown
      BY <1>3, DataMoves DEF Store
  <2>2. \A q, r \in Procs : ShowsNoMore(q, r)' = ShowsNoMore(q, r)
      BY <2>1 DEF ShowsNoMore
  <2>3. ASSUME ReserveOut(p), NEW q \in Procs PROVE ShowsNoMore(q, p)
    <3>1. pc[p] = "reserve_out"
        BY <2>3 DEF ReserveOut, SemopOut, Step
    <3>2. Unshown(p, 0)
        BY <1>0, <3>1 DEF Phase, AtInput
    <3> QED BY <3>2, SlotFacts DEF Unshown, ShowsNoMore
  <2>4. LatestInv'
      BY <1>0, <1>1, <1>2, <2>2, <2>3 DEF LatestInv
  <2>5. OutputsInOrder'
      BY <1>0, <2>2 DEF OutputsInOrder
  <2> QED BY <1>1, <2>4, <2>5
<1>4. CASE ReadValue(p)
  <2>1. /\ idx[p] \in Slots
        /\ shown' = [shown EXCEPT ![p] = [shown[p] EXCEPT ![idx[p]] = counter[idx[p]]]]
      BY <1>4, ReadIsShow
  <2>2. InOutput(p)
      BY <1>4 DEF ReadValue, Step, InOutput, AtOutput
  <2>3. /\ \A q \in Procs : q # p => shown'[q] = shown[q]
        /\ \A c \in Slots : c # idx[p] => shown'[p][c] = shown[p][c]
        /\ shown'[p][idx[p]] = counter[idx[p]]
      BY <1>0, <2>1 DEF Types
  <2>4. ASSUME NEW q \in Procs, q # p PROVE ShowsNoMore(q, p)'
    <3>1. ShowsNoMore(q, p)
        BY <1>0, <2>2 DEF LatestInv
    <3>2. shown[q][idx[p]] <= counter[idx[p]]
        BY <2>1 DEF ShownInv
    <3> QED BY <2>3, <2>4, <3>1, <3>2 DEF ShowsNoMore
  <2>5. ShowsNoMore(p, p)'
    <3>1. \A c \in Slots : shown'[p][c] \in Int
        BY <1>0 DEF Types, NULL
    <3> QED BY <3>1 DEF ShowsNoMore
  <2>6. \A q, r \in Procs : q # p /\ r # p => ShowsNoMore(q, r)' = ShowsNoMore(q, r)
      BY <2>3 DEF ShowsNoMore
  <2>7. LatestInv'
      BY <1>0, <1>1, <1>2, <2>2, <2>4, <2>5, <2>6 DEF LatestInv, HeldOut
  <2>8. OutputsInOrder'
      BY <1>0, <2>4, <2>5, <2>6 DEF OutputsInOrder
  <2> QED BY <1>1, <2>7, <2>8
<1> QED BY <1>3, <1>4

-----------------------------------------------------------------------------
(* Without the segmented program's unit, what is recorded is exactly what  *)
(* the process holds between semop and semop.                              *)

ExactInv ==
    program # "segmented-semaphore" =>
        \A p \in Procs, k \in Sems : adj[p][k] = Held(p, k)

LEMMA ExactKept ==
    ASSUME LocalInv, ExactInv, NEW p \in Procs, Move(p), program' = program
    PROVE  ExactInv'
<1> SUFFICES ASSUME program # "segmented-semaphore"
             PROVE  \A q \in Procs, k \in Sems : adj'[q][k] = Held(q, k)'
    BY DEF ExactInv
<1>0. /\ Types /\ Phase(p) /\ Conserving(p)
      /\ \A q \in Procs, k \in Sems : adj[q][k] = Held(q, k)
    BY MoveLocal DEF LocalInv, ExactInv
<1>1. ASSUME NEW q \in Procs, q # p, NEW k \in Sems PROVE adj'[q][k] = Held(q, k)'
  <2>1. adj'[q] = adj[q]
      BY <1>0, <1>1 DEF Conserving
  <2>2. /\ pc'[q] = pc[q] /\ idx'[q] = idx[q]
        /\ NextChar(q)' = NextChar(q) /\ LastChar(q)' = LastChar(q)
    <3>1. idx' = idx \/ idx' = [idx EXCEPT ![p] = idx[p] + 1]
        BY DEF Move, ReserveWrite, Load, Store, ReleaseWrite, EndCountingThen,
               ReserveRead, ReadValue, ReleaseReadThen, ReserveOut, ReleaseOut,
               SemopOut, ReserveOutput, GoesOn, EndsWith, End
    <3>2. idx'[q] = idx[q]
        BY <1>0, <1>1, <3>1 DEF Types
    <3> QED BY <1>0, <1>1, <3>2, Elsewhere DEF NextChar, LastChar
  <2>3. Held(q, k)' = Held(q, k)
      BY <2>2 DEF Held, Writing, Reading
  <2> QED BY <1>0, <2>1, <2>3
<1>2. ASSUME NEW k \in Sems PROVE adj'[p][k] = Held(p, k)'
  <2>0. adj[p] \in [Sems -> Nat] /\ adj[p][k] = Held(p, k) /\ SEM_LIMIT \in Nat /\ SEM_LIMIT # 0
      BY <1>0, ShmCountAssumption DEF Types
  <2>1. CASE ReserveWrite(p)
    <3> DEFINE l == SemOf(NextChar(p))
    <3>1. /\ pc[p] = "count" /\ pos[p] < Len(input[p])
          /\ Semop(p, l, -SEM_LIMIT, "load")
          /\ UNCHANGED <<input, pos>>
        BY <2>1 DEF ReserveWrite, WriteUnits
    <3>2. l \in Sems
        BY <1>0, <3>1, CharFacts, SlotFacts
    <3>3. adj'[p][k] = IF k = l THEN adj[p][k] + SEM_LIMIT ELSE adj[p][k]
      <4> HIDE DEF l
      <4>1. -SEM_LIMIT \in Int /\ adj[p][l] \in Nat /\ adj[p][l] - (-SEM_LIMIT) = adj[p][l] + SEM_LIMIT
          BY <2>0, <3>2
      <4> QED BY <1>0, <2>0, <3>1, <3>2, <4>1, SemopEffect DEF AllPCs, PCs
    <3>4. Held(p, k) = 0
        BY <3>1 DEF Held, Writing, Reading
    <3>5. pc'[p] = "load" /\ NextChar(p)' = NextChar(p)
        BY <1>0, <3>1 DEF Semop, NextChar, Types
    <3>6. Held(p, k)' = IF k = l THEN SEM_LIMIT ELSE 0
        BY <3>5 DEF Held, Writing, Reading, WriteUnits
    <3> HIDE DEF l
    <3> QED BY <2>0, <3>3, <3>4, <3>6
  <2>2. CASE Load(p)
    <3>1. /\ pc[p] = "load" /\ pc'[p] = "store" /\ adj' = adj /\ NextChar(p)' = NextChar(p)
        BY <1>0, <2>2 DEF Load, Step, Types, NextChar
    <3> QED BY <2>0, <3>1 DEF Held, Writing, Reading
  <2>3. CASE Store(p)
    <3>1. /\ pc[p] = "store" /\ pc'[p] = "release" /\ adj' = adj /\ LastChar(p)' = NextChar(p)
        BY <1>0, <2>3 DEF Store, Step, Types, NextChar, LastChar
    <3> QED BY <2>0, <3>1 DEF Held, Writing, Reading
  <2>4. CASE ReleaseWrite(p)
    <3> DEFINE l == SemOf(LastChar(p))
    <3>1. pc[p] = "release" /\ Semop(p, l, SEM_LIMIT, "count")
        BY <2>4 DEF ReleaseWrite, WriteUnits
    <3>2. l \in Sems
        BY <1>0, <3>1, CharFacts, SlotFacts DEF Phase
    <3>3. \A m \in Sems : Held(p, m) = IF m = l THEN SEM_LIMIT ELSE 0
        BY <3>1 DEF Held, Writing, Reading, WriteUnits
    <3> HIDE DEF l
    <3>4. adj[p][l] = SEM_LIMIT
        BY <1>0, <3>2, <3>3
    <3>5. adj'[p][k] = IF k = l THEN adj[p][k] - SEM_LIMIT ELSE adj[p][k]
      <4>1. SEM_LIMIT \in Int /\ adj[p][l] - SEM_LIMIT \in Nat
          BY <2>0, <3>4
      <4> QED BY <1>0, <2>0, <3>1, <3>2, <4>1, SemopEffect DEF AllPCs, PCs
    <3>6. adj'[p][k] = 0
        BY <2>0, <3>3, <3>5
    <3>7. pc'[p] = "count"
        BY <1>0, <3>1 DEF Semop, Types
    <3>8. Held(p, k)' = 0
        BY <3>7 DEF Held, Writing, Reading
    <3> QED BY <3>6, <3>8
  <2>5. CASE \E then \in {"show", "reserve_out", "reserve"} : EndCountingThen(p, then)
    <3>1. /\ pc[p] = "count" /\ adj' = adj
          /\ pc'[p] \in {"show", "reserve_out", "reserve"}
        BY <1>0, <2>5 DEF EndCountingThen, Step, Types
    <3> QED BY <2>0, <3>1 DEF Held, Writing, Reading
  <2>6. CASE ReserveRead(p)
    <3> DEFINE l == SemOf(idx[p])
    <3>1. pc[p] = "show" /\ Semop(p, l, -1, "value") /\ idx' = idx
        BY <2>6 DEF ReserveRead
    <3>2. l \in Sems
        BY <1>0, <3>1, SlotFacts DEF Phase, AtOutput, Types
    <3>3. pc'[p] = "value" /\ (\A m \in Sems : Held(p, m)' = IF m = l THEN 1 ELSE 0)
      <4>1. pc'[p] = "value"
          BY <1>0, <3>1 DEF Semop, Types
      <4> QED BY <3>1, <4>1 DEF Held, Writing, Reading
    <3>4. \A m \in Sems : Held(p, m) = 0
        BY <3>1 DEF Held, Writing, Reading
    <3> HIDE DEF l
    <3>5. adj'[p][k] = IF k = l THEN adj[p][k] + 1 ELSE adj[p][k]
      <4>1. -1 \in Int /\ adj[p][l] \in Nat /\ adj[p][l] - (-1) = adj[p][l] + 1
          BY <2>0, <3>2
      <4> QED BY <1>0, <2>0, <3>1, <3>2, <4>1, SemopEffect DEF AllPCs, PCs
    <3> QED BY <2>0, <3>3, <3>4, <3>5
  <2>7. CASE ReadValue(p)
    <3>1. /\ pc[p] = "value" /\ pc'[p] = "unshow" /\ adj' = adj /\ idx' = idx
        BY <1>0, <2>7 DEF ReadValue, Step, Types
    <3> QED BY <2>0, <3>1 DEF Held, Writing, Reading
  <2>8. ASSUME NEW then \in {"exit", "release_out"}, ReleaseReadThen(p, then)
        PROVE  adj'[p][k] = Held(p, k)'
    <3> DEFINE l == SemOf(idx[p])
               next == IF idx[p] + 1 < ALPHA_SIZE THEN "show" ELSE then
    <3>1. pc[p] = "unshow" /\ Semop(p, l, 1, next)
        BY <2>8 DEF ReleaseReadThen
    <3>2. l \in Sems
        BY <1>0, <3>1, SlotFacts DEF Phase, AtOutput, Types
    <3>3. next \in {"show", "exit", "release_out"} /\ next \in AllPCs
        BY DEF AllPCs, PCs
    <3>4. \A m \in Sems : Held(p, m) = IF m = l THEN 1 ELSE 0
        BY <3>1 DEF Held, Writing, Reading
    <3> HIDE DEF l, next
    <3>5. adj[p][l] = 1
        BY <1>0, <3>2, <3>4
    <3>6. adj'[p][k] = IF k = l THEN adj[p][k] - 1 ELSE adj[p][k]
      <4>1. 1 \in Int /\ adj[p][l] - 1 \in Nat
          BY <3>5
      <4> QED BY <1>0, <2>0, <3>1, <3>2, <3>3, <4>1, SemopEffect
    <3>7. adj'[p][k] = 0
        BY <2>0, <3>4, <3>6
    <3>8. pc'[p] = next
        BY <1>0, <3>1 DEF Semop, Types
    <3>9. Held(p, k)' = 0
        BY <3>3, <3>8 DEF Held, Writing, Reading
    <3> QED BY <3>7, <3>9
  <2>9. CASE ReserveOut(p) \/ ReleaseOut(p)
    <3>1. /\ pc[p] \in {"reserve_out", "release_out"} /\ pc'[p] \in {"show", "exit"}
          /\ adj' = adj
        BY <1>0, <2>9 DEF ReserveOut, ReleaseOut, SemopOut, Step, Types
    <3> QED BY <2>0, <3>1 DEF Held, Writing, Reading
  <2>10. CASE EndsWith(p)
    <3>1. adj'[p][k] = 0 /\ pc'[p] \in Ended
        BY <1>0, <2>10, EndEffect
    <3> QED BY <3>1 DEF Held, Writing, Reading, Ended
  <2> QED BY <2>1, <2>2, <2>3, <2>4, <2>5, <2>6, <2>7, <2>8, <2>9, <2>10 DEF Move
<1> QED BY <1>1, <1>2

LEMMA Conserved ==
    ASSUME Types, UnitsInv, ExactInv
    PROVE  NoUnitLost
<1> SUFFICES ASSUME program # "segmented-semaphore", NEW k \in Sems
             PROVE  sem[k] + Cardinality(HeldUnits(k)) = SEM_LIMIT
    BY DEF NoUnitLost, UnitsConserved
<1>1. \A p \in Procs : Slice(k)[p] = Held(p, k)
    BY DEF ExactInv, Slice
<1>2. \A p \in Procs : Held(p, k) \in 0 .. SEM_LIMIT
    BY ShmCountAssumption DEF Held, WriteUnits
<1>3. Units(Slice(k)) = HeldUnits(k)
    BY <1>1, <1>2, ShmCountAssumption DEF Units, HeldUnits
<1> QED BY <1>3, Zenon DEF UnitsInv

-----------------------------------------------------------------------------
(* The counters contain what each process has counted, and what it shows   *)
(* contains all of its input.                                              *)

Mine(p, c) == {k \in 1 .. pos[p] : input[p][k] = c}

CountedInv ==
    \A p \in Procs, c \in Slots :
        /\ IsFiniteSet(Mine(p, c))
        /\ counter[c] >= Cardinality(Mine(p, c))

LEMMA CountedKept ==
    ASSUME LocalInv, RegisterInv, CountedInv, NEW p \in Procs, Move(p)
    PROVE  CountedInv'
<1>0. Types /\ counter \in [Slots -> Nat]
    BY DEF LocalInv, Types
<1>1. CASE ~Store(p)
  <2>1. UNCHANGED <<input, pos, counter>>
      BY <1>1, DataMoves DEF ReadValue
  <2> QED BY <2>1 DEF CountedInv, Mine
<1>2. CASE Store(p)
  <2>1. /\ NextChar(p) \in Slots /\ input' = input
        /\ counter' = [counter EXCEPT ![NextChar(p)] = counter[NextChar(p)] + 1]
      BY <1>2, StoreIsCount
  <2>2. pos' = [pos EXCEPT ![p] = pos[p] + 1]
      BY <1>2 DEF Store
  <2> SUFFICES ASSUME NEW q \in Procs, NEW c \in Slots
               PROVE  IsFiniteSet(Mine(q, c)') /\ counter'[c] >= Cardinality(Mine(q, c)')
      BY DEF CountedInv
  <2>3. /\ IsFiniteSet(Mine(q, c)) /\ counter[c] >= Cardinality(Mine(q, c))
        /\ Cardinality(Mine(q, c)) \in Nat
      BY FS_CardinalityType DEF CountedInv
  <2>4. CASE q = p /\ c = NextChar(p)
    <3>1. /\ Mine(q, c)' = Mine(q, c) \cup {pos[p] + 1}
          /\ pos[p] + 1 \notin Mine(q, c)
        BY <1>0, <2>1, <2>2, <2>4 DEF Mine, NextChar, Types
    <3>2. /\ IsFiniteSet(Mine(q, c) \cup {pos[p] + 1})
          /\ Cardinality(Mine(q, c) \cup {pos[p] + 1}) = Cardinality(Mine(q, c)) + 1
        BY <2>3, <3>1, FS_AddElement
    <3>3. counter'[c] = counter[c] + 1 /\ counter[c] \in Nat
        BY <1>0, <2>1, <2>4
    <3>4. counter'[c] >= Cardinality(Mine(q, c) \cup {pos[p] + 1})
        BY <2>3, <3>2, <3>3
    <3> QED BY <3>1, <3>2, <3>4
  <2>5. CASE q # p \/ c # NextChar(p)
    <3>1. Mine(q, c)' = Mine(q, c)
      <4>1. CASE q # p
          BY <1>0, <2>1, <2>2, <4>1 DEF Mine, Types
      <4>2. CASE q = p /\ c # NextChar(p)
          BY <1>0, <2>1, <2>2, <4>2 DEF Mine, NextChar, Types
      <4> QED BY <2>5, <4>1, <4>2
    <3>2. counter'[c] >= counter[c] /\ counter'[c] \in Nat /\ counter[c] \in Nat
        BY <1>0, <2>1
    <3>3. counter'[c] >= Cardinality(Mine(q, c))
        BY <2>3, <3>2
    <3> QED BY <2>3, <3>1, <3>3
  <2> QED BY <2>4, <2>5
<1> QED BY <1>1, <1>2

LEMMA OwnShownKept ==
    ASSUME LocalInv, RegisterInv, CountedInv, OwnInputShown, NEW p \in Procs, Move(p)
    PROVE  OwnInputShown'
<1>0. Types /\ Phase(p)
    BY DEF LocalInv
<1>1. CASE ~ReadValue(p)
  <2>1. UNCHANGED <<input, shown>>
      BY <1>1, DataMoves DEF Store
  <2> QED BY <2>1 DEF OwnInputShown
<1>2. CASE ReadValue(p)
  <2>1. /\ idx[p] \in Slots /\ pos[p] = Len(input[p]) /\ input' = input
        /\ shown' = [shown EXCEPT ![p] = [shown[p] EXCEPT ![idx[p]] = counter[idx[p]]]]
      BY <1>2, ReadIsShow
  <2> SUFFICES ASSUME NEW q \in Procs, NEW c \in Slots, shown'[q][c] # NULL
               PROVE  shown'[q][c] >= Cardinality({k \in DOMAIN input[q] : input[q][k] = c})
      BY <2>1 DEF OwnInputShown
  <2>2. CASE q = p /\ c = idx[p]
    <3>1. shown'[q][c] = counter[c]
        BY <1>0, <2>1, <2>2 DEF Types
    <3>2. DOMAIN input[p] = 1 .. pos[p]
        BY <1>0, <2>1 DEF Types
    <3>3. {k \in DOMAIN input[p] : input[p][k] = c} = Mine(p, c)
        BY <3>2 DEF Mine
    <3>4. counter[c] >= Cardinality(Mine(p, c))
        BY DEF CountedInv
    <3>5. counter[c] >= Cardinality({k \in DOMAIN input[p] : input[p][k] = c})
        BY <3>3, <3>4, Zenon
    <3> QED BY <2>2, <3>1, <3>5, Zenon
  <2>3. CASE q # p \/ c # idx[p]
    <3>1. shown'[q][c] = shown[q][c]
        BY <1>0, <2>1, <2>3 DEF Types
    <3> QED BY <3>1 DEF OwnInputShown
  <2> QED BY <2>2, <2>3
<1> QED BY <1>1, <1>2

-----------------------------------------------------------------------------
(* The theorems *)

IInv ==
    /\ LocalInv /\ UnitsInv /\ ExactInv
    /\ RegisterInv /\ ShownInv /\ OutInv
    /\ CountedInv /\ OwnInputShown

LEMMA Start ==
    ASSUME ProgramInit
    PROVE  IInv
<1> USE SlotFacts, ShmCountAssumption
<1>0. /\ input \in [Procs -> Inputs]
      /\ pos = [p \in Procs |-> 0]
      /\ counter = [c \in Slots |-> 0]
      /\ shown = [p \in Procs |-> [c \in Slots |-> NULL]]
      /\ sem = [k \in Sems |-> SEM_LIMIT]
      /\ adj = [p \in Procs |-> [k \in Sems |-> 0]]
      /\ pc = [p \in Procs |-> "count"]
      /\ reg = [p \in Procs |-> 0]
      /\ idx = [p \in Procs |-> 0]
      /\ sem_out = 1 /\ adj_out = [p \in Procs |-> 0]
    BY DEF ProgramInit, OutInit, Init
<1>1. Inputs \subseteq Seq(Slots)
    BY DEF Inputs
<1>2. Types
    BY <1>0, <1>1 DEF Types, AllPCs, PCs
<1>3. ASSUME NEW p \in Procs PROVE Phase(p) /\ Holder(p)
  <2>1. input[p] \in Seq(Slots)
      BY <1>0, <1>1
  <2>2. Len(input[p]) >= 0
      BY <2>1
  <2> QED BY <1>0, <2>2 DEF Phase, Holder, AtInput, AtOutput, Unshown, Writing,
             Reading, KeepsUnit
<1>4. UnitsInv
  <2> SUFFICES ASSUME NEW k \in Sems
               PROVE  /\ IsFiniteSet(Units(Slice(k)))
                      /\ sem[k] + Cardinality(Units(Slice(k))) = SEM_LIMIT
      BY DEF UnitsInv
  <2>1. Slice(k) = [p \in Procs |-> 0]
      BY <1>0 DEF Slice
  <2>2. Units(Slice(k)) = {}
      BY <2>1 DEF Units
  <2>3. IsFiniteSet(Units(Slice(k))) /\ Cardinality(Units(Slice(k))) = 0
      BY <2>2, FS_EmptySet
  <2> QED BY <1>0, <2>3
<1>5. RegisterInv /\ ShownInv
    BY <1>0 DEF RegisterInv, ShownInv, NULL
<1>6. OutInv
    BY <1>0 DEF OutInv, HeldOut, OutputsInOrder, LatestInv, InOutput, AtOutput, ShowsNoMore
<1>7. ExactInv
    BY <1>0 DEF ExactInv, Held, Writing, Reading
<1>8. CountedInv
  <2> SUFFICES ASSUME NEW p \in Procs, NEW c \in Slots
               PROVE  IsFiniteSet(Mine(p, c)) /\ counter[c] >= Cardinality(Mine(p, c))
      BY DEF CountedInv
  <2>1. Mine(p, c) = {} /\ counter[c] = 0
      BY <1>0 DEF Mine
  <2>2. IsFiniteSet(Mine(p, c)) /\ Cardinality(Mine(p, c)) = 0
      BY <2>1, FS_EmptySet
  <2> QED BY <2>1, <2>2
<1>9. OwnInputShown
    BY <1>0 DEF OwnInputShown
<1> QED BY <1>2, <1>3, <1>4, <1>5, <1>6, <1>7, <1>8, <1>9 DEF IInv, LocalInv

LEMMA QuietKept ==
    ASSUME IInv, Quiet, program' = program
    PROVE  IInv'
<1> USE DEF IInv, Quiet
<1>1. LocalInv'
    BY DEF LocalInv, Types, Phase, Holder, Unshown, Writing, Reading, KeepsUnit,
           NextChar, LastChar
<1>2. UnitsInv'
    BY DEF UnitsInv, Slice, Units
<1>3. RegisterInv' /\ ShownInv'
    BY DEF RegisterInv, ShownInv, NextChar
<1>4. OutInv'
    BY DEF OutInv, HeldOut, OutputsInOrder, LatestInv, InOutput, ShowsNoMore
<1>5. ExactInv'
    BY DEF ExactInv, Held, Writing, Reading, NextChar, LastChar
<1>6. CountedInv' /\ OwnInputShown'
    BY DEF CountedInv, OwnInputShown, Mine
<1> QED BY <1>1, <1>2, <1>3, <1>4, <1>5, <1>6

LEMMA Inductive ==
    ASSUME IInv, [ProgramNext]_programVars
    PROVE  IInv'
<1>1. program' = program /\ (Quiet \/ \E p \in Procs : Move(p))
    BY Moves
<1>2. CASE Quiet
    BY <1>1, <1>2, QuietKept
<1>3. ASSUME NEW p \in Procs, Move(p) PROVE IInv'
  <2>1. /\ LocalInv /\ UnitsInv /\ ExactInv /\ RegisterInv /\ ShownInv /\ OutInv
        /\ CountedInv /\ OwnInputShown
      BY DEF IInv
  <2>2. LocalInv' /\ Conserving(p)
      BY <1>1, <1>3, <2>1, MoveLocal
  <2>3. UnitsInv'
      BY <2>1, <2>2, UnitsKept DEF LocalInv
  <2>4. RegisterInv'
      BY <1>3, <2>1, RegisterKept
  <2>5. ShownInv'
      BY <1>3, <2>1, ShownKept
  <2>6. OutInv'
      BY <1>1, <1>3, <2>1, <2>2, OutKept
  <2>7. ExactInv'
      BY <1>1, <1>3, <2>1, ExactKept
  <2>8. CountedInv' /\ OwnInputShown'
      BY <1>3, <2>1, CountedKept, OwnShownKept
  <2> QED BY <2>2, <2>3, <2>4, <2>5, <2>6, <2>7, <2>8 DEF IInv
<1> QED BY <1>1, <1>2, <1>3

THEOREM Invariance == ProgramSpec => []IInv
BY Start, Inductive, PTL DEF ProgramSpec

(* While a process increments a counter, nobody else is at a counter of    *)
(* the same semaphore: in all three programs, with processes that are      *)
(* killed at any point, and also once the semaphores have been removed.    *)
THEOREM Excluded == ProgramSpec => []ReadersWriters
<1>1. IInv => ReadersWriters
    BY Exclusion DEF IInv
<1> QED BY <1>1, Invariance, PTL

(* Whatever a semaphore lacks is held by processes that are between semop  *)
(* and semop, also after processes have been killed there.                 *)
THEOREM UnitsNeverLost == ProgramSpec => []NoUnitLost
<1>1. IInv => NoUnitLost
    BY Conserved DEF IInv, LocalInv
<1> QED BY <1>1, Invariance, PTL

(* What a process shows contains all it has counted itself.                *)
THEOREM ShowsOwn == ProgramSpec => []OwnInputShown
<1>1. IInv => OwnInputShown
    BY DEF IInv
<1> QED BY <1>1, Invariance, PTL

(* The outputs under the output semaphore come one after the other, also   *)
(* those that are cut short.                                               *)
THEOREM Ordered == ProgramSpec => []OneOutputAtATime
<1>1. IInv => OneOutputAtATime
    BY DEF IInv, OutInv, OneOutputAtATime
<1> QED BY <1>1, Invariance, PTL

(* The counters of semaphore 0 stand still as long as a process of the     *)
(* segmented program keeps its unit of it.                                 *)
LEMMA FrozenStep ==
    ASSUME IInv, [ProgramNext]_programVars, program = "segmented-semaphore"
    PROVE  Frozen
<1>0. LocalInv /\ UnitsInv /\ RegisterInv /\ Types
    BY DEF IInv, LocalInv
<1> SUFFICES ASSUME NEW p \in Procs, KeepsUnit(p), NEW c \in Slots, SemOf(c) = 0
             PROVE  counter'[c] = counter[c]
    BY DEF Frozen
<1>1. CASE Quiet
    BY <1>1 DEF Quiet
<1>2. ASSUME NEW q \in Procs, Move(q) PROVE counter'[c] = counter[c]
  <2>1. CASE Store(q)
    <3>1. /\ NextChar(q) \in Slots
          /\ counter' = [counter EXCEPT ![NextChar(q)] = counter[NextChar(q)] + 1]
        BY <1>0, <2>1, StoreIsCount
    <3>2. pc[q] = "store"
        BY <2>1 DEF Store, Step
    <3>3. SUFFICES NextChar(q) # c
        BY <1>0, <3>1 DEF Types
    <3>4. SUFFICES ASSUME NextChar(q) = c PROVE FALSE
        OBVIOUS
    <3>5. Writing(q, 0) /\ 0 \in Sems
        BY <3>2, <3>4, SlotFacts DEF Writing
    <3>6. adj[q][0] >= SEM_LIMIT
        BY <1>0, <3>5 DEF LocalInv, Holder
    <3>7. p # q
        BY <3>2 DEF KeepsUnit
    <3>8. adj[p][0] = 0
        BY <1>0, <3>5, <3>6, <3>7, AloneWithUnits
    <3>9. adj[p][0] >= 1
      <4>1. Holder(p)
          BY <1>0 DEF LocalInv
      <4>2. adj[p][0] >= IF Reading(p, 0) THEN 2 ELSE 1
          BY <4>1 DEF Holder
      <4> QED BY <3>8, <4>2
    <3> QED BY <3>8, <3>9
  <2>2. CASE ~Store(q)
      BY <1>2, <2>2, DataMoves DEF ReadValue
  <2> QED BY <2>1, <2>2
<1> QED BY <1>1, <1>2, Moves

THEOREM FrozenOutput == ProgramSpec => OutputFrozen
<1>1. IInv /\ [ProgramNext]_programVars
       => [program = "segmented-semaphore" => Frozen]_programVars
    BY FrozenStep
<1> QED BY <1>1, Invariance, PTL DEF ProgramSpec, OutputFrozen

(* Each of the three programs counts as if every byte were counted in one  *)
(* step and every counter shown in one step, after all of the own input.   *)
LEMMA CountStart ==
    ASSUME ProgramInit
    PROVE  Promise!Init
<1>1. input \in [Procs -> Seq(Slots)]
    BY Start DEF IInv, LocalInv, Types
<1> QED BY <1>1 DEF ProgramInit, OutInit, Init, Promise!Init, Promise!NULL, NULL

LEMMA CountNext ==
    ASSUME IInv, [ProgramNext]_programVars
    PROVE  [Promise!Next]_(Promise!vars)
<1>0. LocalInv /\ RegisterInv
    BY DEF IInv
<1>1. CASE Quiet
    BY <1>1 DEF Quiet, Promise!vars
<1>2. ASSUME NEW p \in Procs, Move(p) PROVE [Promise!Next]_(Promise!vars)
  <2>1. CASE Store(p)
    <3>1. pos' = [pos EXCEPT ![p] = @ + 1]
        BY <2>1 DEF Store
    <3>2. Promise!Count(p)
        BY <1>0, <2>1, <3>1, StoreIsCount DEF Promise!Count, NextChar
    <3> QED BY <3>2 DEF Promise!Next
  <2>2. CASE ReadValue(p)
    <3>1. Promise!Show(p, idx[p]) /\ idx[p] \in Slots
        BY <1>0, <2>2, ReadIsShow DEF Promise!Show, Promise!NULL, NULL
    <3> QED BY <3>1 DEF Promise!Next
  <2>3. CASE UNCHANGED <<input, pos, counter, shown>>
      BY <2>3 DEF Promise!vars
  <2> QED BY <1>2, <2>1, <2>2, <2>3, DataMoves
<1> QED BY <1>1, <1>2, Moves

THEOREM Implements == ProgramSpec => ImplementsCount
BY CountStart, CountNext, Invariance, PTL
   DEF ProgramSpec, ImplementsCount, Promise!Spec
=============================================================================
