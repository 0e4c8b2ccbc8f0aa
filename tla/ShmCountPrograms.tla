-------------------------- MODULE ShmCountPrograms --------------------------
(***************************************************************************)
(* The three programs with reader-writer units side by side: which of them *)
(* the processes run is a choice of the initial state.  They have objects  *)
(* of their own in the repository as well and never meet.                  *)
(***************************************************************************)
EXTENDS ShmCountOutput, ShmCountSegmented

CONSTANT Programs

ASSUME ProgramsAssumption ==
    Programs \subseteq {"count", "output-semaphore", "segmented-semaphore"}

VARIABLE program

programVars == <<allVars, program>>

ProgramInit == OutInit /\ program \in Programs

ProgramStep(p) ==
    \/ program = "count" /\ ProcStep(p) /\ UNCHANGED outVars
    \/ program = "output-semaphore" /\ OutStep(p)
    \/ program = "segmented-semaphore" /\ SegStep(p) /\ UNCHANGED outVars

ProgramKill(p) ==
    IF program = "output-semaphore" THEN OutKill(p)
    ELSE Kill(p) /\ UNCHANGED outVars

ProgramCleanup ==
    IF program = "output-semaphore" THEN OutCleanup
    ELSE Cleanup /\ UNCHANGED outVars

ProgramNext ==
    /\ UNCHANGED program
    /\ \/ \E p \in Procs : ProgramStep(p) \/ ProgramKill(p)
       \/ ProgramCleanup

ProgramSpec == ProgramInit /\ [][ProgramNext]_programVars

(* The scheduler runs every process that can run. *)
ProgramFairSpec ==
    ProgramSpec /\ \A p \in Procs :
        WF_programVars(ProgramStep(p) /\ UNCHANGED program)

-----------------------------------------------------------------------------
(* Properties *)

(* Every variable has its type. *)
ProgramTypeOK ==
    /\ program \in Programs
    /\ CASE program = "count" -> TypeOK
         [] program = "output-semaphore" -> OutTypeOK
         [] program = "segmented-semaphore" -> SegTypeOK

(* With an output semaphore one output comes after the other, and the      *)
(* later one shows nowhere less.                                           *)
OneOutputAtATime == program = "output-semaphore" => OutputsInOrder

(* The units are conserved in the programs that give back what they take   *)
(* before they end.                                                        *)
NoUnitLost == program # "segmented-semaphore" => UnitsConserved

(* The segmented program freezes the counters of semaphore 0 while it      *)
(* shows them: the unit it keeps makes their writers wait for its end, so  *)
(* that its output has them all of one moment.                             *)
OutputFrozen ==
    [][program = "segmented-semaphore" => Frozen]_programVars
=============================================================================
