---------------------------- MODULE ProgLifecycle ----------------------------
(***************************************************************************)
(* Life of a program object in the MERLIN-V kernel module: kernel/merlin/  *)
(* core.c (reference count, id registry, file, deferred free) and the      *)
(* commands of kernel/merlin/syscall.c that create, look up, run and drop  *)
(* programs.                                                               *)
(*                                                                         *)
(* A program object is an element of Progs and is used for one allocation  *)
(* only, so that an access after kfree is visible as an access to an       *)
(* object whose memory is "freed".  Every program gets at most one file    *)
(* (merlin_prog_new_fd has one caller), so the file of p is named p too.   *)
(* A critical section of merlin_idr_lock is one step; everything between   *)
(* two shared accesses may be interleaved with the other tasks, the        *)
(* workqueue and the file layer.                                           *)
(***************************************************************************)
EXTENDS Integers, FiniteSets

CONSTANTS
    Tasks,          \* threads of control inside the module
    KernelTasks,    \* those that call the exported merlin_prog_get_by_id
    Progs,          \* allocations of struct merlin_prog
    Fds,            \* slots of the file descriptor table
    ForeignFds,     \* slots that hold some other kind of file
    MaxId,          \* largest id of merlin_prog_idr
    FdFailure,      \* may anon_inode_getfd fail (EMFILE, ENFILE, ENOMEM)?
    NoProg,         \* NULL
    Foreign         \* a file whose f_op is not merlin_prog_fops

ASSUME LifecycleAssumption ==
    /\ KernelTasks \subseteq Tasks
    /\ ForeignFds \subseteq Fds
    /\ IsFiniteSet(Tasks) /\ IsFiniteSet(Fds)
    /\ MaxId \in Nat
    /\ FdFailure \in BOOLEAN
    /\ NoProg \notin Progs /\ Foreign \notin Progs /\ NoProg # Foreign

VARIABLES
    mem,     \* memory of the object: "unused", "live" or "freed"
    refs,    \* prog->refs
    id,      \* prog->id, 0 until merlin_prog_alloc_id stores it
    idr,     \* merlin_prog_idr
    fdt,     \* the file descriptor table
    frefs,   \* references to the program's file: table slots and fget()s
    fstate,  \* the file: "none", "open", "released"
    work,    \* prog->work_free: "idle", "queued", "freeing"
    pc,      \* where a task is
    prog     \* the program a task works on

objVars  == <<mem, refs, id, work>>
fileVars == <<fdt, frefs, fstate>>
taskVars == <<pc, prog>>
vars     == <<mem, refs, id, idr, fdt, frefs, fstate, work, pc, prog>>

Ids == 1 .. MaxId

(***************************************************************************)
(* refcount_t saturates instead of wrapping: an increment from zero or a   *)
(* decrement below zero leaves the counter stuck at this value.            *)
(***************************************************************************)
Saturated == -1

(* The points at which a task owns one of the references refs counts, and  *)
(* those at which it is going to touch the object prog[t] points to.       *)
RefPcs   == {"alloc_id", "set_id", "new_fd", "fput", "info", "run", "exec",
             "use", "put"}
TouchPcs == RefPcs \cup {"inc"}

TypeOK ==
    /\ mem \in [Progs -> {"unused", "live", "freed"}]
    /\ refs \in [Progs -> Nat \cup {Saturated}]
    /\ id \in [Progs -> 0 .. MaxId]
    /\ idr \in [Ids -> Progs \cup {NoProg}]
    /\ fdt \in [Fds -> Progs \cup {NoProg, Foreign}]
    /\ frefs \in [Progs -> Nat]
    /\ fstate \in [Progs -> {"none", "open", "released"}]
    /\ work \in [Progs -> {"idle", "queued", "freeing"}]
    /\ pc \in [Tasks -> {"idle", "load", "get_by_fd"} \cup TouchPcs]
    /\ prog \in [Tasks -> Progs \cup {NoProg}]

Init ==
    /\ mem = [p \in Progs |-> "unused"]
    /\ refs = [p \in Progs |-> 0]
    /\ id = [p \in Progs |-> 0]
    /\ idr = [i \in Ids |-> NoProg]
    /\ fdt = [fd \in Fds |-> IF fd \in ForeignFds THEN Foreign ELSE NoProg]
    /\ frefs = [p \in Progs |-> 0]
    /\ fstate = [p \in Progs |-> "none"]
    /\ work = [p \in Progs |-> "idle"]
    /\ pc = [t \in Tasks |-> "idle"]
    /\ prog = [t \in Tasks |-> NoProg]

-----------------------------------------------------------------------------
(* Control of a task.                                                      *)

Goto(t, from, to) ==
    /\ pc[t] = from
    /\ pc' = [pc EXCEPT ![t] = to]

Return(t, from) ==
    /\ Goto(t, from, "idle")
    /\ prog' = [prog EXCEPT ![t] = NoProg]

(***************************************************************************)
(* refcount_inc and refcount_dec_and_test of <linux/refcount.h>; the guard *)
(* of refcount_inc_not_zero is in the action that calls it.                *)
(***************************************************************************)
Inc(n) == IF n \in {0, Saturated} THEN Saturated ELSE n + 1
Dec(n) == IF n \in {0, Saturated} THEN Saturated ELSE n - 1

(* Mutant: the last put forgets to queue the deferred free.                *)
merlin_prog_put_NeverFrees(p) ==
    /\ refs' = [refs EXCEPT ![p] = Dec(@)]
    /\ UNCHANGED work

(* merlin_prog_put: the last reference queues the deferred free.           *)
merlin_prog_put(p) ==
    /\ refs' = [refs EXCEPT ![p] = Dec(@)]
    /\ work' = [work EXCEPT ![p] = IF refs[p] = 1 THEN "queued" ELSE @]

-----------------------------------------------------------------------------
(* PROG_LOAD.                                                              *)

(* An idle task enters merlin_do_cmd.  A command that merlin_check_cap,    *)
(* the size checks or the command switch refuse changes nothing.           *)
merlin_do_cmd(t) ==
    /\ t \notin KernelTasks
    /\ \E cmd \in {"load", "get_by_fd"} : Goto(t, "idle", cmd)
    /\ UNCHANGED <<objVars, idr, fileVars, prog>>

(* merlin_prog_load up to merlin_prog_alloc_id works on memory of its own  *)
(* only; module ProgLoad has its steps.  Seen from the other tasks it      *)
(* fails and leaves nothing, or has built an object with one reference.    *)
LoadFail(t) ==
    /\ Return(t, "load")
    /\ UNCHANGED <<objVars, idr, fileVars>>

LoadBuild(t) == \E p \in Progs :
    /\ mem[p] = "unused"
    /\ Goto(t, "load", "alloc_id")
    /\ prog' = [prog EXCEPT ![t] = p]
    /\ mem' = [mem EXCEPT ![p] = "live"]
    /\ refs' = [refs EXCEPT ![p] = 1]
    /\ UNCHANGED <<id, idr, work, fileVars>>

(* merlin_prog_alloc_id: idr_alloc hands out the smallest free id from 1.  *)
AllocId(t) == \E i \in Ids :
    /\ Goto(t, "alloc_id", "set_id")
    /\ idr[i] = NoProg
    /\ \A j \in Ids : j < i => idr[j] # NoProg
    /\ idr' = [idr EXCEPT ![i] = prog[t]]
    /\ UNCHANGED <<objVars, fileVars, prog>>

(* idr_alloc returns -ENOSPC or -ENOMEM; the loader's unwinding frees the  *)
(* object directly, its reference count is never consulted.                *)
AllocIdFail(t) ==
    /\ Return(t, "alloc_id")
    /\ mem' = [mem EXCEPT ![prog[t]] = "freed"]
    /\ UNCHANGED <<refs, id, idr, work, fileVars>>

(* Mutant: prog->id is never stored.                                       *)
SetId_NotStored(t) ==
    /\ Goto(t, "set_id", "new_fd")
    /\ UNCHANGED <<objVars, idr, fileVars, prog>>

(* The id reaches prog->id only after merlin_idr_lock was released.        *)
SetId(t) == \E i \in Ids :
    /\ Goto(t, "set_id", "new_fd")
    /\ idr[i] = prog[t]
    /\ id' = [id EXCEPT ![prog[t]] = i]
    /\ UNCHANGED <<mem, refs, work, idr, fileVars, prog>>

(* Mutant: the new file starts without the reference of its table slot.    *)
NewFd_NoFileRef(t) == \E fd \in Fds :
    /\ Return(t, "new_fd")
    /\ fdt[fd] = NoProg
    /\ fdt' = [fdt EXCEPT ![fd] = prog[t]]
    /\ fstate' = [fstate EXCEPT ![prog[t]] = "open"]
    /\ UNCHANGED <<objVars, idr, frefs>>

(* anon_inode_getfd succeeds: the file owns the loader's reference.        *)
NewFd(t) == \E fd \in Fds :
    /\ Return(t, "new_fd")
    /\ fdt[fd] = NoProg
    /\ fdt' = [fdt EXCEPT ![fd] = prog[t]]
    /\ frefs' = [frefs EXCEPT ![prog[t]] = 1]
    /\ fstate' = [fstate EXCEPT ![prog[t]] = "open"]
    /\ UNCHANGED <<objVars, idr>>

(* anon_inode_getfd fails: merlin_prog_new_fd drops the reference, and its *)
(* caller merlin_cmd_prog_load goes on to drop it once more.               *)
NewFdFail(t) ==
    /\ FdFailure
    /\ Goto(t, "new_fd", "put")
    /\ merlin_prog_put(prog[t])
    /\ UNCHANGED <<mem, id, idr, fileVars, prog>>

-----------------------------------------------------------------------------
(* Commands on an existing program: PROG_GET_INFO and PROG_TEST_RUN.  Both *)
(* begin with merlin_prog_get_by_fd, so which one it is matters only after *)
(* that.                                                                   *)

(* fget finds a program file and holds it.                                 *)
FGet(t) == \E fd \in Fds :
    /\ Goto(t, "get_by_fd", "inc")
    /\ fdt[fd] \in Progs
    /\ prog' = [prog EXCEPT ![t] = fdt[fd]]
    /\ frefs' = [frefs EXCEPT ![fdt[fd]] = @ + 1]
    /\ UNCHANGED <<objVars, idr, fdt, fstate>>

(* -EFAULT on the attributes, -EBADF on an empty slot, or -EINVAL on a     *)
(* file of another kind, whose fget/fput pair leaves no trace.             *)
FGetFail(t) ==
    /\ Return(t, "get_by_fd")
    /\ UNCHANGED <<objVars, idr, fileVars>>

(* refcount_inc: not the _not_zero form, the file's reference is relied on.*)
RefInc(t) ==
    /\ Goto(t, "inc", "fput")
    /\ refs' = [refs EXCEPT ![prog[t]] = Inc(@)]
    /\ UNCHANGED <<mem, id, work, idr, fileVars, prog>>

FPut(t) == \E next \in {"info", "run"} :
    /\ Goto(t, "fput", next)
    /\ frefs' = [frefs EXCEPT ![prog[t]] = @ - 1]
    /\ UNCHANGED <<objVars, idr, fdt, fstate, prog>>

(* merlin_cmd_prog_get_info reads the object and goes on to the put,       *)
(* whether or not copy_to_user succeeds.                                   *)
GetInfo(t) ==
    /\ Goto(t, "info", "put")
    /\ UNCHANGED <<objVars, idr, fileVars, prog>>

(* Mutant: the error path of the test run returns without the put.         *)
TestRun_ErrorLeaks(t) ==
    /\ Goto(t, "run", "exec") \/ Goto(t, "run", "idle")
    /\ UNCHANGED <<objVars, idr, fileVars, prog>>

(* merlin_cmd_prog_test_run: -ENOEXEC, -ENOMEM or -EFAULT before the call  *)
(* of prog_fn jump to the put; otherwise the JIT image executes.           *)
TestRun(t) == \E next \in {"put", "exec"} :
    /\ Goto(t, "run", next)
    /\ UNCHANGED <<objVars, idr, fileVars, prog>>

(* prog_fn returned; the counters of the object are updated.               *)
TestRunDone(t) ==
    /\ Goto(t, "exec", "put")
    /\ UNCHANGED <<objVars, idr, fileVars, prog>>

(* Mutant: refcount_inc in place of refcount_inc_not_zero.                 *)
GetById_NoZeroCheck(t) == \E i \in Ids :
    /\ t \in KernelTasks
    /\ Goto(t, "idle", "use")
    /\ idr[i] # NoProg
    /\ refs' = [refs EXCEPT ![idr[i]] = Inc(@)]
    /\ prog' = [prog EXCEPT ![t] = idr[i]]
    /\ UNCHANGED <<mem, id, work, idr, fileVars>>

(* merlin_prog_get_by_id by an in-kernel user of the exported symbol.      *)
GetById(t) == \E i \in Ids :
    /\ t \in KernelTasks
    /\ Goto(t, "idle", "use")
    /\ idr[i] # NoProg
    /\ refs[idr[i]] # 0
    /\ refs' = [refs EXCEPT ![idr[i]] = Inc(@)]
    /\ prog' = [prog EXCEPT ![t] = idr[i]]
    /\ UNCHANGED <<mem, id, work, idr, fileVars>>

UseDone(t) ==
    /\ Goto(t, "use", "put")
    /\ UNCHANGED <<objVars, idr, fileVars, prog>>

(* The merlin_prog_put that ends a command.                                *)
Put(t) ==
    /\ Return(t, "put")
    /\ merlin_prog_put(prog[t])
    /\ UNCHANGED <<mem, id, idr, fileVars>>

-----------------------------------------------------------------------------
(* The file layer: dup(2) and close(2) by user space, and the release      *)
(* callback, which __fput runs some time after the last reference is gone. *)

Dup(fd, new) ==
    /\ fdt[fd] \in Progs
    /\ fdt[new] = NoProg
    /\ fdt' = [fdt EXCEPT ![new] = fdt[fd]]
    /\ frefs' = [frefs EXCEPT ![fdt[fd]] = @ + 1]
    /\ UNCHANGED <<objVars, idr, fstate, taskVars>>

Close(fd) ==
    /\ fdt[fd] \in Progs
    /\ fdt' = [fdt EXCEPT ![fd] = NoProg]
    /\ frefs' = [frefs EXCEPT ![fdt[fd]] = @ - 1]
    /\ UNCHANGED <<objVars, idr, fstate, taskVars>>

merlin_prog_release(p) ==
    /\ fstate[p] = "open"
    /\ frefs[p] = 0
    /\ fstate' = [fstate EXCEPT ![p] = "released"]
    /\ merlin_prog_put(p)
    /\ UNCHANGED <<mem, id, idr, fdt, frefs, taskVars>>

-----------------------------------------------------------------------------
(* merlin_prog_free_work on the system workqueue: the registry entry goes  *)
(* under the lock, the memory after it.                                    *)

(* Mutant: the registry entry is left behind.                              *)
FreeWorkIdr_KeepsEntry(p) ==
    /\ work[p] = "queued"
    /\ work' = [work EXCEPT ![p] = "freeing"]
    /\ UNCHANGED <<mem, refs, id, idr, fileVars, taskVars>>

FreeWorkIdr(p) ==
    /\ work[p] = "queued"
    /\ work' = [work EXCEPT ![p] = "freeing"]
    /\ idr' = [i \in Ids |-> IF i = id[p] THEN NoProg ELSE idr[i]]
    /\ UNCHANGED <<mem, refs, id, fileVars, taskVars>>

FreeWorkMem(p) ==
    /\ work[p] = "freeing"
    /\ work' = [work EXCEPT ![p] = "idle"]
    /\ mem' = [mem EXCEPT ![p] = "freed"]
    /\ UNCHANGED <<refs, id, idr, fileVars, taskVars>>

-----------------------------------------------------------------------------
(* A command that has begun runs to its end: the steps a task is bound to  *)
(* take.                                                                   *)
TaskStep(t) ==
    \/ LoadFail(t) \/ LoadBuild(t)
    \/ AllocId(t) \/ AllocIdFail(t) \/ SetId(t)
    \/ NewFd(t) \/ NewFdFail(t)
    \/ FGet(t) \/ FGetFail(t) \/ RefInc(t) \/ FPut(t)
    \/ GetInfo(t) \/ TestRun(t) \/ TestRunDone(t)
    \/ UseDone(t) \/ Put(t)

KernelStep(p) ==
    merlin_prog_release(p) \/ FreeWorkIdr(p) \/ FreeWorkMem(p)

Next ==
    \/ \E t \in Tasks : merlin_do_cmd(t) \/ GetById(t) \/ TaskStep(t)
    \/ \E p \in Progs : KernelStep(p)
    \/ \E fd \in Fds : Close(fd) \/ \E new \in Fds : Dup(fd, new)

Spec == Init /\ [][Next]_vars

(* Tasks inside the module, the file layer and the workqueue make          *)
(* progress; nothing obliges user space to issue a command or to close.    *)
Fairness ==
    /\ \A t \in Tasks : WF_vars(TaskStep(t))
    /\ \A p \in Progs : WF_vars(KernelStep(p))

FairSpec == Spec /\ Fairness

-----------------------------------------------------------------------------
(* Properties.                                                             *)

(* A pointer to a program that some part of the module is still going to   *)
(* follow - a task in a command, an open file's private_data, the id       *)
(* registry, a queued work item - points to memory kfree has not taken.    *)
NoUseAfterFree ==
    /\ \A t \in Tasks : pc[t] \in TouchPcs => mem[prog[t]] = "live"
    /\ \A p \in Progs :
           fstate[p] = "open" \/ work[p] # "idle" => mem[p] = "live"
    /\ \A i \in Ids : idr[i] # NoProg => mem[idr[i]] = "live"

Holders(p) == {t \in Tasks : prog[t] = p /\ pc[t] \in RefPcs}
FileHeld(p) == IF fstate[p] = "open" THEN 1 ELSE 0

(* prog->refs is exactly the number of references that are owned: one per  *)
(* task that has to put it and one for the open file.  When it is zero the *)
(* free is on its way.                                                     *)
RefsExact == \A p \in Progs : mem[p] = "live" =>
    /\ refs[p] = Cardinality(Holders(p)) + FileHeld(p)
    /\ refs[p] = 0 <=> work[p] # "idle"

(* The id registry and the objects agree: an entry i is a live program     *)
(* whose id is i or is about to become i, a program with an open file is   *)
(* found under its id, and the memory is only freed once no entry is left. *)
RegistryExact ==
    /\ \A i \in Ids : idr[i] # NoProg =>
           \/ id[idr[i]] = i
           \/ \E t \in Tasks : pc[t] = "set_id" /\ prog[t] = idr[i]
    /\ \A p \in Progs :
           /\ fstate[p] = "open" \/ work[p] = "queued" =>
                  id[p] \in Ids /\ idr[id[p]] = p
           /\ mem[p] = "freed" => \A i \in Ids : idr[i] # p

(* Once the count of a program has dropped to zero no lookup, by id or by  *)
(* fd, revives it (refcount_inc_not_zero under the lock of the registry).  *)
NoResurrection == [][\A p \in Progs :
    mem[p] = "live" /\ refs[p] = 0 => refs'[p] = 0]_vars

(* "Takes the refcount we got from merlin_prog_load": whoever is about to  *)
(* call merlin_prog_put still owns a reference to put, even after          *)
(* merlin_prog_new_fd failed and dropped "the ref we promised to consume". *)
RefConsumedOnce == \A t \in Tasks :
    pc[t] = "put" => mem[prog[t]] = "live" /\ refs[prog[t]] > 0

(* A program that no descriptor and no fget() refers to does not stay: it  *)
(* gets its file or, whatever commands are still running on it and whether *)
(* or not a descriptor could be had for it, its memory is freed.           *)
ReclaimedWithoutFile == \A p \in Progs :
    (mem[p] = "live" /\ frefs[p] = 0) ~> (mem[p] = "freed" \/ frefs[p] > 0)
=============================================================================
