--------------------------- MODULE ProgInvariant ---------------------------
(***************************************************************************)
(* The inductive invariant of ProgLifecycle, and the proof that the steps  *)
(* of the loader and the steps that only move a task preserve it.          *)
(*                                                                         *)
(* RefsExact is not inductive by itself.  It needs to know who else can    *)
(* reach a program: the loader is alone with it until it is registered     *)
(* (LoaderPrivate), an fget()ed file keeps the file's own reference alive  *)
(* because frefs counts it (FileRefsExact), and the registry entry of a    *)
(* program lasts until its free work removes it (RegistryInv).             *)
(***************************************************************************)
EXTENDS ProgLifecycle, FiniteSetTheorems, TLAPS

LoaderPcs == {"alloc_id", "set_id", "new_fd"}
FilePcs   == {"inc", "fput"}

FileTasks(p) == {t \in Tasks : prog[t] = p /\ pc[t] \in FilePcs}
FdsOf(p)     == {fd \in Fds : fdt[fd] = p}

(* What a task may rely on about its program.                              *)
TaskInv == \A t \in Tasks :
    /\ pc[t] \in TouchPcs => prog[t] \in Progs /\ mem[prog[t]] = "live"
    /\ pc[t] \in FilePcs => fstate[prog[t]] = "open"

(* A program under construction has no file and one loader; until it is    *)
(* registered nobody else knows it.                                        *)
LoaderPrivate == \A t \in Tasks :
    /\ pc[t] \in LoaderPcs =>
           /\ fstate[prog[t]] = "none"
           /\ \A u \in Tasks : u # t /\ prog[u] = prog[t] =>
                                   pc[u] \notin LoaderPcs
    /\ pc[t] = "alloc_id" =>
           /\ \A u \in Tasks : u # t /\ pc[u] \in TouchPcs =>
                                   prog[u] # prog[t]
           /\ \A i \in Ids : idr[i] # prog[t]

ObjectInv == \A p \in Progs :
    /\ mem[p] = "unused" => fstate[p] = "none"
    /\ fstate[p] = "open" => mem[p] = "live"
    /\ work[p] # "idle" => mem[p] = "live"

(* frefs counts the table slots and the fget()s of a file.                 *)
FileRefsExact == \A p \in Progs :
    /\ fstate[p] = "open" =>
           frefs[p] = Cardinality(FdsOf(p)) + Cardinality(FileTasks(p))
    /\ fstate[p] # "open" => \A fd \in Fds : fdt[fd] # p

Registered(p) == id[p] \in Ids /\ idr[id[p]] = p

RegistryInv ==
    /\ \A i \in Ids : idr[i] # NoProg =>
           /\ mem[idr[i]] = "live"
           /\ work[idr[i]] # "freeing"
           /\ \/ id[idr[i]] = i
              \/ \E t \in Tasks : pc[t] = "set_id" /\ prog[t] = idr[i]
    /\ \A i, j \in Ids : idr[i] # NoProg /\ idr[i] = idr[j] => i = j
    /\ \A p \in Progs :
           \/ mem[p] # "live"
           \/ work[p] = "freeing"
           \/ \E t \in Tasks : pc[t] \in {"alloc_id", "set_id"} /\ prog[t] = p
           \/ Registered(p)

IInv ==
    /\ TypeOK
    /\ TaskInv
    /\ LoaderPrivate
    /\ ObjectInv
    /\ FileRefsExact
    /\ RefsExact
    /\ RegistryInv
-----------------------------------------------------------------------------
(* Counting.                                                               *)

(* Two finite sets that differ at most in x have cardinalities that differ *)
(* accordingly: how every count below changes in a step of one task.       *)
LEMMA CountChange ==
    ASSUME NEW A, NEW B, NEW x, IsFiniteSet(A), IsFiniteSet(B),
           \A y : y # x => (y \in A <=> y \in B)
    PROVE  /\ Cardinality(A) \in Nat /\ Cardinality(B) \in Nat
           /\ (x \in A <=> x \in B) => Cardinality(B) = Cardinality(A)
           /\ x \notin A /\ x \in B => Cardinality(B) = Cardinality(A) + 1
           /\ x \in A /\ x \notin B => Cardinality(B) = Cardinality(A) - 1
           /\ x \in A => Cardinality(A) # 0
<1>1. Cardinality(A) \in Nat /\ Cardinality(B) \in Nat
  BY FS_CardinalityType
<1>2. (x \in A <=> x \in B) => A = B
  OBVIOUS
<1>3. ASSUME x \notin A, x \in B PROVE Cardinality(B) = Cardinality(A) + 1
  <2>1. B = A \cup {x}
    BY <1>3
  <2> QED BY <1>3, <2>1, FS_AddElement
<1>4. ASSUME x \in A, x \notin B PROVE Cardinality(B) = Cardinality(A) - 1
  <2>1. A = B \cup {x}
    BY <1>4
  <2>2. Cardinality(A) = Cardinality(B) + 1
    BY <1>4, <2>1, FS_AddElement
  <2> QED BY <1>1, <2>2
<1>5. x \in A => Cardinality(A) # 0
  BY FS_EmptySet
<1> QED BY <1>1, <1>2, <1>3, <1>4, <1>5

(* What is counted is finite: owners, users of a file, table slots.        *)
LEMMA FiniteSets ==
    ASSUME NEW p
    PROVE  /\ IsFiniteSet(Holders(p)) /\ IsFiniteSet(FileTasks(p))
           /\ IsFiniteSet(FdsOf(p))
<1>1. Holders(p) \subseteq Tasks /\ FileTasks(p) \subseteq Tasks
        /\ FdsOf(p) \subseteq Fds
  BY DEF Holders, FileTasks, FdsOf
<1> QED BY <1>1, FS_Subset, LifecycleAssumption

(* In a step of task t alone, the owners of references to p change only by *)
(* t, and so do the tasks that hold the file of p.                         *)
OnlyTask(t) == \A u \in Tasks : u # t => pc'[u] = pc[u] /\ prog'[u] = prog[u]

LEMMA HoldersChange ==
    ASSUME NEW t \in Tasks, OnlyTask(t), NEW p
    PROVE  LET A == Holders(p)
               B == Holders(p)'
           IN  /\ Cardinality(A) \in Nat /\ Cardinality(B) \in Nat
               /\ (t \in A <=> t \in B) => Cardinality(B) = Cardinality(A)
               /\ t \notin A /\ t \in B => Cardinality(B) = Cardinality(A) + 1
               /\ t \in A /\ t \notin B => Cardinality(B) = Cardinality(A) - 1
               /\ t \in A => Cardinality(A) # 0
<1> DEFINE A == Holders(p)
           B == Holders(p)'
<1>1. IsFiniteSet(A) /\ IsFiniteSet(B)
  <2>1. A \subseteq Tasks /\ B \subseteq Tasks
    BY DEF Holders
  <2> QED BY <2>1, FS_Subset, LifecycleAssumption
<1>2. \A y : y # t => (y \in A <=> y \in B)
  BY DEF OnlyTask, Holders
<1> HIDE DEF A, B
<1>3. /\ Cardinality(A) \in Nat /\ Cardinality(B) \in Nat
      /\ (t \in A <=> t \in B) => Cardinality(B) = Cardinality(A)
      /\ t \notin A /\ t \in B => Cardinality(B) = Cardinality(A) + 1
      /\ t \in A /\ t \notin B => Cardinality(B) = Cardinality(A) - 1
      /\ t \in A => Cardinality(A) # 0
  BY <1>1, <1>2, CountChange
<1> QED BY <1>3 DEF A, B

(* The same for the tasks between fget and fput on the file of p.          *)
LEMMA FileTasksChange ==
    ASSUME NEW t \in Tasks, OnlyTask(t), NEW p
    PROVE  LET A == FileTasks(p)
               B == FileTasks(p)'
           IN  /\ Cardinality(A) \in Nat /\ Cardinality(B) \in Nat
               /\ (t \in A <=> t \in B) => Cardinality(B) = Cardinality(A)
               /\ t \notin A /\ t \in B => Cardinality(B) = Cardinality(A) + 1
               /\ t \in A /\ t \notin B => Cardinality(B) = Cardinality(A) - 1
               /\ t \in A => Cardinality(A) # 0
<1> DEFINE A == FileTasks(p)
           B == FileTasks(p)'
<1>1. IsFiniteSet(A) /\ IsFiniteSet(B)
  <2>1. A \subseteq Tasks /\ B \subseteq Tasks
    BY DEF FileTasks
  <2> QED BY <2>1, FS_Subset, LifecycleAssumption
<1>2. \A y : y # t => (y \in A <=> y \in B)
  BY DEF OnlyTask, FileTasks
<1> HIDE DEF A, B
<1>3. /\ Cardinality(A) \in Nat /\ Cardinality(B) \in Nat
      /\ (t \in A <=> t \in B) => Cardinality(B) = Cardinality(A)
      /\ t \notin A /\ t \in B => Cardinality(B) = Cardinality(A) + 1
      /\ t \in A /\ t \notin B => Cardinality(B) = Cardinality(A) - 1
      /\ t \in A => Cardinality(A) # 0
  BY <1>1, <1>2, CountChange
<1> QED BY <1>3 DEF A, B

(* The slots of the file of p change only in the slot a step writes.       *)
LEMMA FdsChange ==
    ASSUME NEW fd \in Fds, \A g \in Fds : g # fd => fdt'[g] = fdt[g], NEW p
    PROVE  LET A == FdsOf(p)
               B == FdsOf(p)'
           IN  /\ Cardinality(A) \in Nat /\ Cardinality(B) \in Nat
               /\ (fd \in A <=> fd \in B) => Cardinality(B) = Cardinality(A)
               /\ fd \notin A /\ fd \in B => Cardinality(B) = Cardinality(A) + 1
               /\ fd \in A /\ fd \notin B => Cardinality(B) = Cardinality(A) - 1
               /\ fd \in A => Cardinality(A) # 0
<1> DEFINE A == FdsOf(p)
           B == FdsOf(p)'
<1>1. IsFiniteSet(A) /\ IsFiniteSet(B)
  <2>1. A \subseteq Fds /\ B \subseteq Fds
    BY DEF FdsOf
  <2> QED BY <2>1, FS_Subset, LifecycleAssumption
<1>2. \A y : y # fd => (y \in A <=> y \in B)
  BY DEF FdsOf
<1> HIDE DEF A, B
<1>3. /\ Cardinality(A) \in Nat /\ Cardinality(B) \in Nat
      /\ (fd \in A <=> fd \in B) => Cardinality(B) = Cardinality(A)
      /\ fd \notin A /\ fd \in B => Cardinality(B) = Cardinality(A) + 1
      /\ fd \in A /\ fd \notin B => Cardinality(B) = Cardinality(A) - 1
      /\ fd \in A => Cardinality(A) # 0
  BY <1>1, <1>2, CountChange
<1> QED BY <1>3 DEF A, B

(* The registry invariant rests on the objects, the registry and the tasks *)
(* between the allocation and the assignment of an id.                     *)
LEMMA RegistryUntouched ==
    ASSUME RegistryInv, UNCHANGED <<mem, id, work, idr>>,
           \A u \in Tasks : pc[u] \in {"alloc_id", "set_id"} =>
               pc'[u] = pc[u] /\ prog'[u] = prog[u]
    PROVE  RegistryInv'
<1>1. ASSUME NEW i \in Ids, idr'[i] # NoProg
      PROVE  /\ mem'[idr'[i]] = "live" /\ work'[idr'[i]] # "freeing"
             /\ \/ id'[idr'[i]] = i
                \/ \E t \in Tasks : pc'[t] = "set_id" /\ prog'[t] = idr'[i]
  BY <1>1 DEF RegistryInv
<1>2. \A i, j \in Ids : idr'[i] # NoProg /\ idr'[i] = idr'[j] => i = j
  BY DEF RegistryInv
<1>3. ASSUME NEW p \in Progs
      PROVE  \/ mem'[p] # "live"
             \/ work'[p] = "freeing"
             \/ \E t \in Tasks : pc'[t] \in {"alloc_id", "set_id"}
                                  /\ prog'[t] = p
             \/ Registered(p)'
  <2>1. Registered(p)' <=> Registered(p)
    BY DEF Registered
  <2> QED BY <2>1 DEF RegistryInv
<1> QED BY <1>1, <1>2, <1>3 DEF RegistryInv

-----------------------------------------------------------------------------
(* Steps that move one task and nothing else: commands that begin, fail,   *)
(* read the object or execute its image.                                   *)

Quiet(t) ==
    /\ UNCHANGED <<objVars, idr, fileVars>>
    /\ OnlyTask(t)
    /\ pc[t] \notin LoaderPcs \cup FilePcs
    /\ pc'[t] \notin LoaderPcs \cup FilePcs
    /\ pc[t] \in RefPcs <=> pc'[t] \in RefPcs
    /\ pc[t] \in RefPcs => prog'[t] = prog[t]

(* These commands are such steps.                                          *)
LEMMA QuietIsQuiet ==
    ASSUME TypeOK, NEW t \in Tasks,
           \/ merlin_do_cmd(t) \/ LoadFail(t) \/ FGetFail(t) \/ GetInfo(t)
           \/ TestRun(t) \/ TestRunDone(t) \/ UseDone(t)
    PROVE  Quiet(t) /\ TypeOK'
<1> USE DEF TypeOK, Quiet, OnlyTask, Goto, Return, LoaderPcs, FilePcs,
            RefPcs, TouchPcs, objVars, fileVars
<1>1. CASE merlin_do_cmd(t)
  BY <1>1 DEF merlin_do_cmd
<1>2. CASE LoadFail(t)
  BY <1>2 DEF LoadFail
<1>3. CASE FGetFail(t)
  BY <1>3 DEF FGetFail
<1>4. CASE GetInfo(t)
  BY <1>4 DEF GetInfo
<1>5. CASE TestRun(t)
  BY <1>5 DEF TestRun
<1>6. CASE TestRunDone(t)
  BY <1>6 DEF TestRunDone
<1>7. CASE UseDone(t)
  BY <1>7 DEF UseDone
<1> QED BY <1>1, <1>2, <1>3, <1>4, <1>5, <1>6, <1>7

(* Such a step preserves the invariant.                                    *)
LEMMA QuietStep ==
    ASSUME IInv, NEW t \in Tasks, Quiet(t), TypeOK'
    PROVE  IInv'
<1> USE DEF Quiet, objVars, fileVars
<1>1. \A u \in Tasks :
        /\ pc[u] \in RefPcs <=> pc'[u] \in RefPcs
        /\ pc[u] \in FilePcs <=> pc'[u] \in FilePcs
        /\ pc[u] \in LoaderPcs <=> pc'[u] \in LoaderPcs
        /\ pc[u] \in TouchPcs <=> pc'[u] \in TouchPcs
        /\ pc[u] = "alloc_id" <=> pc'[u] = "alloc_id"
        /\ pc[u] = "set_id" <=> pc'[u] = "set_id"
        /\ pc[u] \in TouchPcs => prog'[u] = prog[u]
  BY DEF OnlyTask, TouchPcs, FilePcs, LoaderPcs
<1>2. LoaderPcs \subseteq TouchPcs /\ FilePcs \subseteq TouchPcs
        /\ RefPcs \subseteq TouchPcs
  BY DEF LoaderPcs, FilePcs, TouchPcs, RefPcs
<1>3. \A q : Holders(q)' = Holders(q) /\ FileTasks(q)' = FileTasks(q)
               /\ FdsOf(q)' = FdsOf(q)
  BY <1>1, <1>2 DEF Holders, FileTasks, FdsOf
<1>4. TaskInv'
  BY <1>1, <1>2 DEF IInv, TaskInv
<1>5. LoaderPrivate'
  BY <1>1, <1>2 DEF IInv, LoaderPrivate, LoaderPcs, TouchPcs, RefPcs
<1>6. ObjectInv'
  BY DEF IInv, ObjectInv
<1>7. FileRefsExact'
  BY <1>3 DEF IInv, FileRefsExact
<1>8. RefsExact'
  BY <1>3 DEF IInv, RefsExact, FileHeld
<1>9. RegistryInv'
  <2>1. \A u \in Tasks : pc[u] \in {"alloc_id", "set_id"} =>
            pc'[u] = pc[u] /\ prog'[u] = prog[u]
    BY <1>1 DEF TouchPcs, RefPcs
  <2> QED BY <2>1, RegistryUntouched DEF IInv
<1> QED BY <1>4, <1>5, <1>6, <1>7, <1>8, <1>9 DEF IInv
-----------------------------------------------------------------------------
(* The loader: it is alone with the object until AllocId publishes it.     *)

(* The loader builds an object from unused memory.                         *)
LEMMA LoadBuildStep ==
    ASSUME IInv, NEW t \in Tasks, LoadBuild(t)
    PROVE  IInv'
<1>1. PICK p \in Progs :
        /\ mem[p] = "unused"
        /\ Goto(t, "load", "alloc_id")
        /\ prog' = [prog EXCEPT ![t] = p]
        /\ mem' = [mem EXCEPT ![p] = "live"]
        /\ refs' = [refs EXCEPT ![p] = 1]
        /\ UNCHANGED <<id, idr, work, fileVars>>
  BY Zenon DEF LoadBuild
<1> USE DEF fileVars, Goto
<1>2. TypeOK'
  BY <1>1 DEF IInv, TypeOK, TouchPcs, RefPcs
<1>3. OnlyTask(t) /\ pc[t] = "load" /\ pc'[t] = "alloc_id" /\ prog'[t] = p
  BY <1>1 DEF IInv, TypeOK, OnlyTask
<1>4. \A u \in Tasks : pc[u] \in TouchPcs => prog[u] # p
  BY <1>1 DEF IInv, TaskInv
<1>5. fstate[p] = "none" /\ work[p] = "idle" /\ \A i \in Ids : idr[i] # p
  BY <1>1, LifecycleAssumption DEF IInv, TypeOK, ObjectInv, RegistryInv
<1>6. \A q \in Progs : q # p => mem'[q] = mem[q] /\ refs'[q] = refs[q]
  BY <1>1 DEF IInv, TypeOK
<1>7. mem'[p] = "live" /\ refs'[p] = 1
  BY <1>1 DEF IInv, TypeOK
<1>8. \A q \in Progs : Cardinality(FileTasks(q))' = Cardinality(FileTasks(q))
  <2> SUFFICES ASSUME NEW q \in Progs
               PROVE  Cardinality(FileTasks(q)') = Cardinality(FileTasks(q))
    OBVIOUS
  <2>1. t \notin FileTasks(q) /\ t \notin FileTasks(q)'
    BY <1>3 DEF FileTasks, FilePcs
  <2> QED BY <1>3, <2>1, FileTasksChange
<1>9. \A q \in Progs : Cardinality(Holders(q)') =
          IF q = p THEN 1 ELSE Cardinality(Holders(q))
  <2> SUFFICES ASSUME NEW q \in Progs
               PROVE  Cardinality(Holders(q)') =
                          IF q = p THEN 1 ELSE Cardinality(Holders(q))
    OBVIOUS
  <2>1. t \notin Holders(q) /\ (t \in Holders(q)' <=> q = p)
    BY <1>3 DEF Holders, RefPcs
  <2>2. q = p => Cardinality(Holders(q)) = 0
    BY <1>4, FS_EmptySet DEF Holders, TouchPcs
  <2> QED BY <1>3, <2>1, <2>2, HoldersChange
<1>10. TaskInv'
  BY <1>1, <1>3, <1>4, <1>6, <1>7 DEF IInv, TaskInv, OnlyTask, FilePcs, TouchPcs
<1>11. LoaderPrivate'
  BY <1>1, <1>3, <1>4, <1>5
     DEF IInv, LoaderPrivate, OnlyTask, LoaderPcs, TouchPcs, RefPcs
<1>12. ObjectInv'
  BY <1>1, <1>5, <1>6, <1>7 DEF IInv, ObjectInv
<1>13. FileRefsExact'
  <2>1. \A q : FdsOf(q)' = FdsOf(q)
    BY <1>1 DEF FdsOf
  <2> QED BY <1>1, <1>8, <2>1 DEF IInv, FileRefsExact
<1>14. RefsExact'
  BY <1>1, <1>5, <1>6, <1>7, <1>9 DEF IInv, RefsExact, FileHeld
<1>15. RegistryInv'
  BY <1>1, <1>3, <1>5, <1>6, <1>7
     DEF IInv, RegistryInv, Registered, OnlyTask, TypeOK
<1> QED BY <1>2, <1>10, <1>11, <1>12, <1>13, <1>14, <1>15 DEF IInv

(* merlin_prog_alloc_id: the registry gets its one entry for the program.  *)
LEMMA AllocIdStep ==
    ASSUME IInv, NEW t \in Tasks, AllocId(t)
    PROVE  IInv'
<1>1. PICK k \in Ids :
        /\ Goto(t, "alloc_id", "set_id")
        /\ idr[k] = NoProg
        /\ idr' = [idr EXCEPT ![k] = prog[t]]
        /\ UNCHANGED <<objVars, fileVars, prog>>
  BY Zenon DEF AllocId
<1> USE DEF objVars, fileVars, Goto
<1> DEFINE p == prog[t]
<1>2. OnlyTask(t) /\ pc[t] = "alloc_id" /\ pc'[t] = "set_id" /\ prog'[t] = p
  BY <1>1 DEF IInv, TypeOK, OnlyTask
<1>3. p \in Progs /\ mem[p] = "live" /\ \A i \in Ids : idr[i] # p
  BY <1>2 DEF IInv, TaskInv, LoaderPrivate, TouchPcs, RefPcs
<1>4. TypeOK'
  BY <1>1, <1>3 DEF IInv, TypeOK, TouchPcs, RefPcs
<1>5. \A q : Holders(q)' = Holders(q) /\ FileTasks(q)' = FileTasks(q)
               /\ FdsOf(q)' = FdsOf(q)
  BY <1>1, <1>2 DEF Holders, FileTasks, FdsOf, OnlyTask, RefPcs, FilePcs
<1>6. work[p] = "idle"
  <2>1. t \in Holders(p)
    BY <1>2 DEF Holders, RefPcs
  <2>2. Cardinality(Holders(p)) \in Nat /\ Cardinality(Holders(p)) # 0
    BY <1>2, <2>1, HoldersChange
  <2> QED BY <1>3, <2>2 DEF IInv, RefsExact, FileHeld
<1>7. \A i \in Ids : idr'[i] = IF i = k THEN p ELSE idr[i]
  BY <1>1 DEF IInv, TypeOK
<1>8. TaskInv'
  BY <1>1, <1>2, <1>3 DEF IInv, TaskInv, OnlyTask, FilePcs, TouchPcs, RefPcs
<1>9. LoaderPrivate'
  BY <1>1, <1>2, <1>7 DEF IInv, LoaderPrivate, OnlyTask, LoaderPcs, TouchPcs, RefPcs
<1>10. ObjectInv'
  BY <1>1 DEF IInv, ObjectInv
<1>11. FileRefsExact'
  BY <1>1, <1>5 DEF IInv, FileRefsExact
<1>12. RefsExact'
  BY <1>1, <1>5 DEF IInv, RefsExact, FileHeld
<1>13. RegistryInv'
  <2>1. \A i, j \in Ids : idr'[i] # NoProg /\ idr'[i] = idr'[j] => i = j
    BY <1>3, <1>7 DEF IInv, RegistryInv
  <2>2. \A i \in Ids : idr'[i] # NoProg =>
          /\ mem'[idr'[i]] = "live" /\ work'[idr'[i]] # "freeing"
          /\ \/ id'[idr'[i]] = i
             \/ \E u \in Tasks : pc'[u] = "set_id" /\ prog'[u] = idr'[i]
    BY <1>1, <1>2, <1>3, <1>6, <1>7 DEF IInv, RegistryInv, OnlyTask
  <2>3. \A q \in Progs : q # p => (Registered(q) => Registered(q)')
    BY <1>1, <1>3, <1>7, LifecycleAssumption DEF Registered
  <2>4. \A q \in Progs :
           \/ mem'[q] # "live" \/ work'[q] = "freeing"
           \/ \E u \in Tasks : pc'[u] \in {"alloc_id", "set_id"} /\ prog'[u] = q
           \/ Registered(q)'
    BY <1>1, <1>2, <2>3 DEF IInv, RegistryInv, OnlyTask
  <2> QED BY <2>1, <2>2, <2>4 DEF RegistryInv
<1> QED BY <1>4, <1>8, <1>9, <1>10, <1>11, <1>12, <1>13 DEF IInv

(* No id is free: the loader frees an object nobody else knows.            *)
LEMMA AllocIdFailStep ==
    ASSUME IInv, NEW t \in Tasks, AllocIdFail(t)
    PROVE  IInv'
<1> USE DEF fileVars, Goto, Return, AllocIdFail
<1> DEFINE p == prog[t]
<1>1. pc[t] = "alloc_id" /\ pc'[t] = "idle" /\ OnlyTask(t)
  BY DEF IInv, TypeOK, OnlyTask
<1>2. /\ p \in Progs /\ mem[p] = "live" /\ fstate[p] = "none"
      /\ \A i \in Ids : idr[i] # p
      /\ \A u \in Tasks : u # t /\ pc[u] \in TouchPcs => prog[u] # p
  BY <1>1 DEF IInv, TaskInv, LoaderPrivate, LoaderPcs, TouchPcs, RefPcs
<1>3. TypeOK'
  BY <1>2 DEF IInv, TypeOK
<1>4. mem'[p] = "freed" /\ \A q \in Progs : q # p => mem'[q] = mem[q]
  BY <1>2 DEF IInv, TypeOK
<1>5. work[p] = "idle"
  <2>1. t \in Holders(p)
    BY <1>1 DEF Holders, RefPcs
  <2>2. Cardinality(Holders(p)) \in Nat /\ Cardinality(Holders(p)) # 0
    BY <1>1, <2>1, HoldersChange
  <2> QED BY <1>2, <2>2 DEF IInv, RefsExact, FileHeld
<1>6. \A q \in Progs : q # p => Holders(q)' = Holders(q)
  BY <1>1 DEF Holders, OnlyTask, RefPcs
<1>7. \A q : FileTasks(q)' = FileTasks(q) /\ FdsOf(q)' = FdsOf(q)
  BY <1>1 DEF FileTasks, FdsOf, OnlyTask, FilePcs
<1>8. TaskInv'
  BY <1>1, <1>2, <1>4 DEF IInv, TaskInv, OnlyTask, FilePcs, TouchPcs, RefPcs
<1>9. LoaderPrivate'
  BY <1>1 DEF IInv, LoaderPrivate, OnlyTask, LoaderPcs, TouchPcs, RefPcs
<1>10. ObjectInv'
  BY <1>2, <1>4, <1>5 DEF IInv, ObjectInv
<1>11. FileRefsExact'
  BY <1>7 DEF IInv, FileRefsExact
<1>12. RefsExact'
  BY <1>4, <1>6 DEF IInv, RefsExact, FileHeld
<1>13. RegistryInv'
  <2>1. \A i \in Ids : idr'[i] # NoProg =>
          /\ mem'[idr'[i]] = "live" /\ work'[idr'[i]] # "freeing"
          /\ \/ id'[idr'[i]] = i
             \/ \E u \in Tasks : pc'[u] = "set_id" /\ prog'[u] = idr'[i]
    BY <1>1, <1>2, <1>4 DEF IInv, RegistryInv, OnlyTask, TypeOK
  <2>2. \A q \in Progs :
           \/ mem'[q] # "live" \/ work'[q] = "freeing"
           \/ \E u \in Tasks : pc'[u] \in {"alloc_id", "set_id"} /\ prog'[u] = q
           \/ Registered(q)'
    BY <1>1, <1>4 DEF IInv, RegistryInv, Registered, OnlyTask
  <2> QED BY <2>1, <2>2 DEF IInv, RegistryInv
<1> QED BY <1>3, <1>8, <1>9, <1>10, <1>11, <1>12, <1>13 DEF IInv

(* prog->id is stored after the registry lock is released.                 *)
LEMMA SetIdStep ==
    ASSUME IInv, NEW t \in Tasks, SetId(t)
    PROVE  IInv'
<1>1. PICK k \in Ids :
        /\ Goto(t, "set_id", "new_fd")
        /\ idr[k] = prog[t]
        /\ id' = [id EXCEPT ![prog[t]] = k]
        /\ UNCHANGED <<mem, refs, work, idr, fileVars, prog>>
  BY Zenon DEF SetId
<1> USE DEF fileVars, Goto
<1> DEFINE p == prog[t]
<1>2. OnlyTask(t) /\ pc[t] = "set_id" /\ pc'[t] = "new_fd" /\ prog'[t] = p
  BY <1>1 DEF IInv, TypeOK, OnlyTask
<1>3. p \in Progs /\ mem[p] = "live"
  BY <1>2 DEF IInv, TaskInv, TouchPcs, RefPcs
<1>4. TypeOK'
  BY <1>1, <1>3, LifecycleAssumption DEF IInv, TypeOK, TouchPcs, RefPcs, Ids
<1>5. \A q : Holders(q)' = Holders(q) /\ FileTasks(q)' = FileTasks(q)
               /\ FdsOf(q)' = FdsOf(q)
  BY <1>1, <1>2 DEF Holders, FileTasks, FdsOf, OnlyTask, RefPcs, FilePcs
<1>6. id'[p] = k /\ \A q \in Progs : q # p => id'[q] = id[q]
  BY <1>1, <1>3 DEF IInv, TypeOK
<1>7. TaskInv'
  BY <1>1, <1>2, <1>3 DEF IInv, TaskInv, OnlyTask, FilePcs, TouchPcs, RefPcs
<1>8. LoaderPrivate'
  BY <1>1, <1>2 DEF IInv, LoaderPrivate, OnlyTask, LoaderPcs, TouchPcs, RefPcs
<1>9. ObjectInv'
  BY <1>1 DEF IInv, ObjectInv
<1>10. FileRefsExact'
  BY <1>1, <1>5 DEF IInv, FileRefsExact
<1>11. RefsExact'
  BY <1>1, <1>5 DEF IInv, RefsExact, FileHeld
<1>12. RegistryInv'
  <2>1. \A i \in Ids : idr'[i] # NoProg =>
          /\ mem'[idr'[i]] = "live" /\ work'[idr'[i]] # "freeing"
          /\ \/ id'[idr'[i]] = i
             \/ \E u \in Tasks : pc'[u] = "set_id" /\ prog'[u] = idr'[i]
    <3> SUFFICES ASSUME NEW i \in Ids, idr[i] # NoProg
                 PROVE  /\ mem[idr[i]] = "live" /\ work[idr[i]] # "freeing"
                        /\ \/ id'[idr[i]] = i
                           \/ \E u \in Tasks : pc'[u] = "set_id" /\ prog'[u] = idr[i]
      BY <1>1
    <3>1. CASE idr[i] = p
      <4>1. i = k
        BY <1>1, <3>1 DEF IInv, RegistryInv
      <4> QED BY <1>6, <3>1, <4>1 DEF IInv, RegistryInv
    <3>2. CASE idr[i] # p
      BY <1>2, <1>6, <3>2 DEF IInv, RegistryInv, OnlyTask, TypeOK
    <3> QED BY <3>1, <3>2
  <2>2. \A q \in Progs :
           \/ mem'[q] # "live" \/ work'[q] = "freeing"
           \/ \E u \in Tasks : pc'[u] \in {"alloc_id", "set_id"} /\ prog'[u] = q
           \/ Registered(q)'
    BY <1>1, <1>2, <1>6 DEF IInv, RegistryInv, Registered, OnlyTask
  <2> QED BY <1>1, <2>1, <2>2 DEF IInv, RegistryInv
<1> QED BY <1>4, <1>7, <1>8, <1>9, <1>10, <1>11, <1>12 DEF IInv

(* The loader's reference passes to the file.                              *)
LEMMA NewFdStep ==
    ASSUME IInv, NEW t \in Tasks, NewFd(t)
    PROVE  IInv'
<1>1. PICK fd \in Fds :
        /\ Return(t, "new_fd")
        /\ fdt[fd] = NoProg
        /\ fdt' = [fdt EXCEPT ![fd] = prog[t]]
        /\ frefs' = [frefs EXCEPT ![prog[t]] = 1]
        /\ fstate' = [fstate EXCEPT ![prog[t]] = "open"]
        /\ UNCHANGED <<objVars, idr>>
  BY Zenon DEF NewFd
<1> USE DEF objVars, Goto, Return
<1> DEFINE p == prog[t]
<1>2. OnlyTask(t) /\ pc[t] = "new_fd" /\ pc'[t] = "idle" /\ prog'[t] = NoProg
  BY <1>1 DEF IInv, TypeOK, OnlyTask
<1>3. p \in Progs /\ mem[p] = "live" /\ fstate[p] = "none"
  BY <1>2 DEF IInv, TaskInv, LoaderPrivate, LoaderPcs, TouchPcs, RefPcs
<1>4. TypeOK'
  BY <1>1, <1>3 DEF IInv, TypeOK
<1>5. /\ fstate'[p] = "open" /\ frefs'[p] = 1 /\ fdt'[fd] = p
      /\ \A q \in Progs : q # p => fstate'[q] = fstate[q] /\ frefs'[q] = frefs[q]
      /\ \A g \in Fds : g # fd => fdt'[g] = fdt[g]
  BY <1>1, <1>3 DEF IInv, TypeOK
<1>6. \A q : FileTasks(q)' = FileTasks(q)
  BY <1>2 DEF FileTasks, OnlyTask, FilePcs
<1>7. \A q \in Progs : /\ Cardinality(Holders(q)) \in Nat
                       /\ Cardinality(Holders(q)') =
                              IF q = p THEN Cardinality(Holders(q)) - 1
                                       ELSE Cardinality(Holders(q))
                       /\ Cardinality(Holders(p)) # 0
  <2> SUFFICES ASSUME NEW q \in Progs
               PROVE  /\ Cardinality(Holders(q)) \in Nat
                      /\ Cardinality(Holders(q)') =
                              IF q = p THEN Cardinality(Holders(q)) - 1
                                       ELSE Cardinality(Holders(q))
                      /\ Cardinality(Holders(p)) # 0
    OBVIOUS
  <2>1. (t \in Holders(q) <=> q = p) /\ t \notin Holders(q)' /\ t \in Holders(p)
    BY <1>2 DEF Holders, RefPcs
  <2> QED BY <1>2, <2>1, HoldersChange
<1>8. TaskInv'
  <2>1. \A u \in Tasks : pc'[u] \in TouchPcs => u # t
    BY <1>2 DEF TouchPcs, RefPcs
  <2> QED BY <1>1, <1>2, <1>5, <2>1 DEF IInv, TaskInv, OnlyTask, FilePcs, TouchPcs
<1>9. LoaderPrivate'
  <2>1. \A u \in Tasks : pc'[u] \in LoaderPcs =>
            u # t /\ prog[u] # p /\ prog[u] \in Progs
    BY <1>2 DEF IInv, LoaderPrivate, OnlyTask, LoaderPcs, TaskInv, TouchPcs, RefPcs
  <2> QED BY <1>1, <1>2, <1>5, <2>1
          DEF IInv, LoaderPrivate, OnlyTask, LoaderPcs, TouchPcs, RefPcs
<1>10. ObjectInv'
  BY <1>1, <1>3, <1>5 DEF IInv, ObjectInv
<1>11. FileRefsExact'
  <2>1. Cardinality(FdsOf(p)) = 0 /\ Cardinality(FileTasks(p)) = 0
    BY <1>3, FS_EmptySet, Zenon
       DEF IInv, FileRefsExact, TaskInv, FdsOf, FileTasks
  <2>2. \A q \in Progs : Cardinality(FdsOf(q)') =
                IF q = p THEN 1 ELSE Cardinality(FdsOf(q))
    <3> SUFFICES ASSUME NEW q \in Progs
                 PROVE  Cardinality(FdsOf(q)') =
                              IF q = p THEN 1 ELSE Cardinality(FdsOf(q))
      OBVIOUS
    <3>1. fd \notin FdsOf(q) /\ (fd \in FdsOf(q)' <=> q = p)
      BY <1>1, <1>5, LifecycleAssumption DEF FdsOf
    <3> QED BY <1>5, <2>1, <3>1, FdsChange
  <2> QED BY <1>1, <1>3, <1>5, <1>6, <2>1, <2>2 DEF IInv, FileRefsExact
<1>12. RefsExact'
  BY <1>1, <1>3, <1>5, <1>7 DEF IInv, RefsExact, FileHeld
<1>13. RegistryInv'
  BY <1>1, <1>2, RegistryUntouched DEF IInv, OnlyTask
<1> QED BY <1>4, <1>8, <1>9, <1>10, <1>11, <1>12, <1>13 DEF IInv
=============================================================================
