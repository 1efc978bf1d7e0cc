----------------------------- MODULE MCPrograms -----------------------------
(***************************************************************************)
(* Program objects and program slots: the life of a program in the kernel  *)
(* (ProgLifecycle), the load pipeline that builds one (ProgLoad) and the   *)
(* program slots of the Zephyr runtime (ZephyrRuntime), in one instance.   *)
(* They share no state here: one of them moves while the others are in     *)
(* their initial states, which reaches every state of each.                *)
(*                                                                         *)
(* Liveness needs fairness, and model values that no symmetry permutes:    *)
(* Fair is a second and smaller copy of ProgLifecycle, in which a file     *)
(* descriptor may fail to be had.                                          *)
(***************************************************************************)
EXTENDS ProgLifecycle, ProgLoad, ZephyrRuntime, TLC

CONSTANTS FairTasks, FairProgs, FairFds

VARIABLES fmem, frefcount, fid, fidr, ffdt, ffrefs, ffstate, fwork, fpc, fprog

fairVars == <<fmem, frefcount, fid, fidr, ffdt, ffrefs, ffstate, fwork, fpc,
              fprog>>

Fair == INSTANCE ProgLifecycle WITH
    Tasks <- FairTasks, KernelTasks <- {}, Progs <- FairProgs, Fds <- FairFds,
    ForeignFds <- {}, FdFailure <- TRUE,
    mem <- fmem, refs <- frefcount, id <- fid, idr <- fidr, fdt <- ffdt,
    frefs <- ffrefs, fstate <- ffstate, work <- fwork, pc <- fpc,
    prog <- fprog

programVars == <<vars, loadVars, runtimeVars, fairVars>>

ProgramsInit == Init /\ LoadInit /\ RuntimeInit /\ Fair!Init

(* The load pipeline before a call, of one build.                          *)
LoadRests == step = "idle" /\ ~logWanted /\ jit = "NULL"

LifecycleMoves == /\ LoadRests /\ RuntimeInit /\ Fair!Init
                  /\ Next /\ UNCHANGED <<loadVars, runtimeVars, fairVars>>
LoadMoves      == /\ Init /\ RuntimeInit /\ Fair!Init
                  /\ LoadNext /\ UNCHANGED <<vars, runtimeVars, fairVars>>
RuntimeMoves   == /\ Init /\ LoadRests /\ Fair!Init
                  /\ RuntimeNext /\ UNCHANGED <<vars, loadVars, fairVars>>
FairMoves      == /\ Init /\ LoadRests /\ RuntimeInit
                  /\ Fair!Next /\ UNCHANGED <<vars, loadVars, runtimeVars>>

ProgramsSpec ==
    /\ ProgramsInit
    /\ [][LifecycleMoves \/ LoadMoves \/ RuntimeMoves \/ FairMoves]_programVars
    /\ Fair!Fairness

(* ReclaimedWithoutFile, of the copy that is fair: a program that no       *)
(* descriptor and no fget() refers to gets its file or is freed.           *)
FairReclaimed == Fair!ReclaimedWithoutFile

(* Programs and text buffers, descriptors and tasks of the same kind are   *)
(* interchangeable; ids and slots are searched in order.                   *)
Symmetry ==
    Permutations(Progs) \cup Permutations(Fds \ ForeignFds)
        \cup Permutations(Tasks \ KernelTasks)
=============================================================================
