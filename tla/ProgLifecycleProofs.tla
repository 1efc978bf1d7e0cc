------------------------ MODULE ProgLifecycleProofs ------------------------
(***************************************************************************)
(* The theorems about ProgLifecycle, for any number of tasks, programs,    *)
(* file descriptors and ids, provided that anon_inode_getfd does not fail. *)
(* ProgInvariant has the inductive invariant IInv and the steps of the     *)
(* loader; here are the lookups and puts, the file layer, the workqueue,   *)
(* and the theorems.                                                       *)
(***************************************************************************)
EXTENDS ProgInvariant

-----------------------------------------------------------------------------
(* Lookups and puts.                                                       *)

(* fget takes a reference to the file, not to the program.                 *)
LEMMA FGetStep ==
    ASSUME IInv, NEW t \in Tasks, FGet(t)
    PROVE  IInv'
<1>1. PICK fd \in Fds :
        /\ Goto(t, "get_by_fd", "inc")
        /\ fdt[fd] \in Progs
        /\ prog' = [prog EXCEPT ![t] = fdt[fd]]
        /\ frefs' = [frefs EXCEPT ![fdt[fd]] = @ + 1]
        /\ UNCHANGED <<objVars, idr, fdt, fstate>>
  BY Zenon DEF FGet
<1> USE DEF objVars, Goto
<1> DEFINE p == fdt[fd]
<1>2. OnlyTask(t) /\ pc[t] = "get_by_fd" /\ pc'[t] = "inc" /\ prog'[t] = p
  BY <1>1 DEF IInv, TypeOK, OnlyTask
<1>3. p \in Progs /\ fstate[p] = "open" /\ mem[p] = "live"
  BY <1>1 DEF IInv, FileRefsExact, ObjectInv
<1>4. TypeOK'
  BY <1>1, <1>3 DEF IInv, TypeOK, TouchPcs
<1>5. \A q : Holders(q)' = Holders(q) /\ FdsOf(q)' = FdsOf(q)
  BY <1>1, <1>2 DEF Holders, FdsOf, OnlyTask, RefPcs
<1>6. \A q \in Progs : /\ Cardinality(FileTasks(q)) \in Nat
                       /\ Cardinality(FileTasks(q)') =
                              IF q = p THEN Cardinality(FileTasks(q)) + 1
                                       ELSE Cardinality(FileTasks(q))
  <2> SUFFICES ASSUME NEW q \in Progs
               PROVE  /\ Cardinality(FileTasks(q)) \in Nat
                      /\ Cardinality(FileTasks(q)') =
                              IF q = p THEN Cardinality(FileTasks(q)) + 1
                                       ELSE Cardinality(FileTasks(q))
    OBVIOUS
  <2>1. t \notin FileTasks(q) /\ (t \in FileTasks(q)' <=> q = p)
    BY <1>2 DEF FileTasks, FilePcs
  <2> QED BY <1>2, <2>1, FileTasksChange
<1>7. TaskInv'
  BY <1>1, <1>2, <1>3 DEF IInv, TaskInv, OnlyTask, TouchPcs
<1>8. LoaderPrivate'
  <2>1. \A u \in Tasks : pc[u] \in LoaderPcs => prog[u] # p
    BY <1>3 DEF IInv, LoaderPrivate
  <2> QED BY <1>1, <1>2, <2>1 DEF IInv, LoaderPrivate, OnlyTask, LoaderPcs
<1>9. ObjectInv'
  BY <1>1 DEF IInv, ObjectInv
<1>10. FileRefsExact'
  <2>1. \A q \in Progs : Cardinality(FdsOf(q)) \in Nat
    BY <1>1, FdsChange
  <2>2. \A q \in Progs : frefs'[q] = IF q = p THEN frefs[q] + 1 ELSE frefs[q]
    BY <1>1 DEF IInv, TypeOK
  <2> QED BY <1>1, <1>5, <1>6, <2>1, <2>2 DEF IInv, FileRefsExact
<1>11. RefsExact'
  BY <1>1, <1>5 DEF IInv, RefsExact, FileHeld
<1>12. RegistryInv'
  BY <1>1, <1>2, RegistryUntouched DEF IInv, OnlyTask
<1> QED BY <1>4, <1>7, <1>8, <1>9, <1>10, <1>11, <1>12 DEF IInv

(* The file a task holds is open, so the count it increments is not zero.  *)
LEMMA RefIncStep ==
    ASSUME IInv, NEW t \in Tasks, RefInc(t)
    PROVE  IInv'
<1> USE DEF fileVars, Goto, RefInc
<1> DEFINE p == prog[t]
<1>1. OnlyTask(t) /\ pc[t] = "inc" /\ pc'[t] = "fput" /\ prog' = prog
  BY DEF IInv, TypeOK, OnlyTask
<1>2. p \in Progs /\ mem[p] = "live" /\ fstate[p] = "open"
  BY <1>1 DEF IInv, TaskInv, TouchPcs, FilePcs
<1>3. \A q \in Progs : /\ Cardinality(Holders(q)) \in Nat
                       /\ Cardinality(Holders(q)') =
                              IF q = p THEN Cardinality(Holders(q)) + 1
                                       ELSE Cardinality(Holders(q))
  <2> SUFFICES ASSUME NEW q \in Progs
               PROVE  /\ Cardinality(Holders(q)) \in Nat
                      /\ Cardinality(Holders(q)') =
                              IF q = p THEN Cardinality(Holders(q)) + 1
                                       ELSE Cardinality(Holders(q))
    OBVIOUS
  <2>1. t \notin Holders(q) /\ (t \in Holders(q)' <=> q = p)
    BY <1>1 DEF Holders, RefPcs
  <2> QED BY <1>1, <2>1, HoldersChange
<1>4. refs[p] \in Nat /\ refs[p] # 0 /\ work[p] = "idle"
  BY <1>2, <1>3 DEF IInv, RefsExact, FileHeld
<1>5. \A q \in Progs : refs'[q] = IF q = p THEN refs[q] + 1 ELSE refs[q]
  BY <1>4 DEF IInv, TypeOK, Inc, Saturated
<1>6. TypeOK'
  BY <1>2, <1>4 DEF IInv, TypeOK, TouchPcs, RefPcs, Inc, Saturated
<1>7. \A q : FileTasks(q)' = FileTasks(q) /\ FdsOf(q)' = FdsOf(q)
  BY <1>1 DEF FileTasks, FdsOf, OnlyTask, FilePcs
<1>8. TaskInv'
  BY <1>1, <1>2 DEF IInv, TaskInv, OnlyTask
<1>9. LoaderPrivate'
  BY <1>1 DEF IInv, LoaderPrivate, OnlyTask, LoaderPcs, TouchPcs
<1>10. ObjectInv'
  BY DEF IInv, ObjectInv
<1>11. FileRefsExact'
  BY <1>7 DEF IInv, FileRefsExact
<1>12. RefsExact'
  BY <1>2, <1>3, <1>4, <1>5 DEF IInv, RefsExact, FileHeld
<1>13. RegistryInv'
  BY <1>1, <1>2, RegistryUntouched DEF IInv, OnlyTask
<1> QED BY <1>6, <1>8, <1>9, <1>10, <1>11, <1>12, <1>13 DEF IInv

(* fput gives the reference to the file back; the program has its own now. *)
LEMMA FPutStep ==
    ASSUME IInv, NEW t \in Tasks, FPut(t)
    PROVE  IInv'
<1>1. PICK next \in {"info", "run"} :
        /\ Goto(t, "fput", next)
        /\ frefs' = [frefs EXCEPT ![prog[t]] = @ - 1]
        /\ UNCHANGED <<objVars, idr, fdt, fstate, prog>>
  BY DEF FPut
<1> USE DEF objVars, Goto
<1> DEFINE p == prog[t]
<1>2. OnlyTask(t) /\ pc[t] = "fput" /\ pc'[t] = next /\ prog' = prog
  BY <1>1 DEF IInv, TypeOK, OnlyTask
<1>3. p \in Progs /\ mem[p] = "live" /\ fstate[p] = "open"
  BY <1>2 DEF IInv, TaskInv, TouchPcs, RefPcs, FilePcs
<1>4. \A q \in Progs : /\ Cardinality(FileTasks(q)) \in Nat
                       /\ Cardinality(FileTasks(q)') =
                              IF q = p THEN Cardinality(FileTasks(q)) - 1
                                       ELSE Cardinality(FileTasks(q))
                       /\ Cardinality(FileTasks(p)) # 0
  <2> SUFFICES ASSUME NEW q \in Progs
               PROVE  /\ Cardinality(FileTasks(q)) \in Nat
                      /\ Cardinality(FileTasks(q)') =
                              IF q = p THEN Cardinality(FileTasks(q)) - 1
                                       ELSE Cardinality(FileTasks(q))
                      /\ Cardinality(FileTasks(p)) # 0
    OBVIOUS
  <2>1. /\ t \in FileTasks(q) <=> q = p
        /\ t \notin FileTasks(q)' /\ t \in FileTasks(p)
    BY <1>2 DEF FileTasks, FilePcs
  <2> QED BY <1>2, <2>1, FileTasksChange
<1>5. \A q \in Progs : Cardinality(FdsOf(q)) \in Nat
  BY FiniteSets, FS_CardinalityType
<1>6. frefs[p] - 1 \in Nat
  BY <1>3, <1>4, <1>5 DEF IInv, FileRefsExact
<1>7. TypeOK'
  BY <1>1, <1>3, <1>6 DEF IInv, TypeOK, TouchPcs, RefPcs
<1>8. \A q : Holders(q)' = Holders(q) /\ FdsOf(q)' = FdsOf(q)
  BY <1>1, <1>2 DEF Holders, FdsOf, OnlyTask, RefPcs
<1>9. TaskInv'
  BY <1>1, <1>2, <1>3 DEF IInv, TaskInv, OnlyTask, FilePcs
<1>10. LoaderPrivate'
  BY <1>1, <1>2 DEF IInv, LoaderPrivate, OnlyTask, LoaderPcs, TouchPcs, RefPcs
<1>11. ObjectInv'
  BY <1>1 DEF IInv, ObjectInv
<1>12. FileRefsExact'
  <2>1. \A q \in Progs : frefs'[q] = IF q = p THEN frefs[q] - 1 ELSE frefs[q]
    BY <1>1 DEF IInv, TypeOK
  <2> QED BY <1>1, <1>4, <1>5, <1>8, <2>1 DEF IInv, FileRefsExact
<1>13. RefsExact'
  BY <1>1, <1>8 DEF IInv, RefsExact, FileHeld
<1>14. RegistryInv'
  BY <1>1, <1>2, RegistryUntouched DEF IInv, OnlyTask
<1> QED BY <1>7, <1>9, <1>10, <1>11, <1>12, <1>13, <1>14 DEF IInv

(* A registered program whose count is not zero is live.                   *)
LEMMA GetByIdStep ==
    ASSUME IInv, NEW t \in Tasks, GetById(t)
    PROVE  IInv'
<1>1. PICK k \in Ids :
        /\ Goto(t, "idle", "use")
        /\ idr[k] # NoProg
        /\ refs[idr[k]] # 0
        /\ refs' = [refs EXCEPT ![idr[k]] = Inc(@)]
        /\ prog' = [prog EXCEPT ![t] = idr[k]]
        /\ UNCHANGED <<mem, id, work, idr, fileVars>>
  BY Zenon DEF GetById
<1> USE DEF fileVars, Goto
<1> DEFINE p == idr[k]
<1>2. OnlyTask(t) /\ pc[t] = "idle" /\ pc'[t] = "use" /\ prog'[t] = p
  BY <1>1 DEF IInv, TypeOK, OnlyTask
<1>3. p \in Progs /\ mem[p] = "live"
  BY <1>1 DEF IInv, TypeOK, RegistryInv
<1>4. \A q \in Progs : /\ Cardinality(Holders(q)) \in Nat
                       /\ Cardinality(Holders(q)') =
                              IF q = p THEN Cardinality(Holders(q)) + 1
                                       ELSE Cardinality(Holders(q))
  <2> SUFFICES ASSUME NEW q \in Progs
               PROVE  /\ Cardinality(Holders(q)) \in Nat
                      /\ Cardinality(Holders(q)') =
                              IF q = p THEN Cardinality(Holders(q)) + 1
                                       ELSE Cardinality(Holders(q))
    OBVIOUS
  <2>1. t \notin Holders(q) /\ (t \in Holders(q)' <=> q = p)
    BY <1>2 DEF Holders, RefPcs
  <2> QED BY <1>2, <2>1, HoldersChange
<1>5. refs[p] \in Nat /\ refs[p] # 0 /\ work[p] = "idle"
  BY <1>1, <1>3, <1>4 DEF IInv, RefsExact, FileHeld
<1>6. \A q \in Progs : refs'[q] = IF q = p THEN refs[q] + 1 ELSE refs[q]
  BY <1>1, <1>5 DEF IInv, TypeOK, Inc, Saturated
<1>7. TypeOK'
  BY <1>1, <1>3, <1>5 DEF IInv, TypeOK, TouchPcs, RefPcs, Inc, Saturated
<1>8. \A q : FileTasks(q)' = FileTasks(q) /\ FdsOf(q)' = FdsOf(q)
  BY <1>1, <1>2 DEF FileTasks, FdsOf, OnlyTask, FilePcs
<1>9. TaskInv'
  BY <1>1, <1>2, <1>3 DEF IInv, TaskInv, OnlyTask, FilePcs
<1>10. LoaderPrivate'
  <2>1. \A u \in Tasks : pc[u] = "alloc_id" => prog[u] # p
    BY <1>1 DEF IInv, LoaderPrivate
  <2> QED BY <1>1, <1>2, <2>1 DEF IInv, LoaderPrivate, OnlyTask, LoaderPcs
<1>11. ObjectInv'
  BY <1>1 DEF IInv, ObjectInv
<1>12. FileRefsExact'
  BY <1>1, <1>8 DEF IInv, FileRefsExact
<1>13. RefsExact'
  BY <1>1, <1>4, <1>5, <1>6 DEF IInv, RefsExact, FileHeld
<1>14. RegistryInv'
  BY <1>1, <1>2, RegistryUntouched DEF IInv, OnlyTask
<1> QED BY <1>7, <1>9, <1>10, <1>11, <1>12, <1>13, <1>14 DEF IInv

(* merlin_prog_put by a command that owns a reference.                     *)
LEMMA PutStep ==
    ASSUME IInv, NEW t \in Tasks, Put(t)
    PROVE  IInv'
<1> USE DEF fileVars, Goto, Return, Put, merlin_prog_put
<1> DEFINE p == prog[t]
<1>1. OnlyTask(t) /\ pc[t] = "put" /\ pc'[t] = "idle"
  BY DEF IInv, TypeOK, OnlyTask
<1>2. p \in Progs /\ mem[p] = "live"
  BY <1>1 DEF IInv, TaskInv, TouchPcs, RefPcs
<1>3. \A q \in Progs : /\ Cardinality(Holders(q)) \in Nat
                       /\ Cardinality(Holders(q)') =
                              IF q = p THEN Cardinality(Holders(q)) - 1
                                       ELSE Cardinality(Holders(q))
                       /\ Cardinality(Holders(p)) # 0
  <2> SUFFICES ASSUME NEW q \in Progs
               PROVE  /\ Cardinality(Holders(q)) \in Nat
                      /\ Cardinality(Holders(q)') =
                              IF q = p THEN Cardinality(Holders(q)) - 1
                                       ELSE Cardinality(Holders(q))
                      /\ Cardinality(Holders(p)) # 0
    OBVIOUS
  <2>1. (t \in Holders(q) <=> q = p) /\ t \notin Holders(q)' /\ t \in Holders(p)
    BY <1>1 DEF Holders, RefPcs
  <2> QED BY <1>1, <2>1, HoldersChange
<1>4. refs[p] \in Nat /\ refs[p] # 0 /\ work[p] = "idle"
  BY <1>2, <1>3 DEF IInv, RefsExact, FileHeld
<1>5. \A q \in Progs :
        /\ refs'[q] = IF q = p THEN refs[q] - 1 ELSE refs[q]
        /\ work'[q] = IF q = p /\ refs[p] = 1 THEN "queued" ELSE work[q]
  BY <1>4 DEF IInv, TypeOK, Dec, Saturated
<1>6. TypeOK'
  BY <1>2, <1>4 DEF IInv, TypeOK, Dec, Saturated
<1>7. \A q : FileTasks(q)' = FileTasks(q) /\ FdsOf(q)' = FdsOf(q)
  BY <1>1 DEF FileTasks, FdsOf, OnlyTask, FilePcs
<1>8. TaskInv'
  BY <1>1 DEF IInv, TaskInv, OnlyTask, TouchPcs, RefPcs, FilePcs
<1>9. LoaderPrivate'
  BY <1>1 DEF IInv, LoaderPrivate, OnlyTask, LoaderPcs, TouchPcs, RefPcs
<1>10. ObjectInv'
  BY <1>2, <1>5 DEF IInv, ObjectInv
<1>11. FileRefsExact'
  BY <1>7 DEF IInv, FileRefsExact
<1>12. RefsExact'
  BY <1>2, <1>3, <1>4, <1>5 DEF IInv, RefsExact, FileHeld
<1>13. RegistryInv'
  <2>1. \A q \in Progs : work'[q] = "freeing" <=> work[q] = "freeing"
    BY <1>4, <1>5
  <2> QED BY <1>1, <2>1 DEF IInv, RegistryInv, Registered, OnlyTask, TypeOK
<1> QED BY <1>6, <1>8, <1>9, <1>10, <1>11, <1>12, <1>13 DEF IInv

-----------------------------------------------------------------------------
(* The file layer and the workqueue: no task moves.                        *)

(* Then the owners among the tasks are the same.                           *)
LEMMA TasksUnmoved ==
    ASSUME UNCHANGED taskVars
    PROVE  \A q : Holders(q)' = Holders(q) /\ FileTasks(q)' = FileTasks(q)
BY DEF taskVars, Holders, FileTasks

(* A second slot refers to an open file.                                   *)
LEMMA DupStep ==
    ASSUME IInv, NEW fd \in Fds, NEW new \in Fds, Dup(fd, new)
    PROVE  IInv'
<1> USE DEF objVars, taskVars, Dup
<1> DEFINE p == fdt[fd]
<1>1. p \in Progs /\ fstate[p] = "open"
  BY DEF IInv, FileRefsExact
<1>2. TypeOK'
  BY DEF IInv, TypeOK
<1>3. \A q \in Progs : /\ Cardinality(FdsOf(q)) \in Nat
                       /\ Cardinality(FdsOf(q)') =
                              IF q = p THEN Cardinality(FdsOf(q)) + 1
                                       ELSE Cardinality(FdsOf(q))
  <2> SUFFICES ASSUME NEW q \in Progs
               PROVE  /\ Cardinality(FdsOf(q)) \in Nat
                      /\ Cardinality(FdsOf(q)') =
                              IF q = p THEN Cardinality(FdsOf(q)) + 1
                                       ELSE Cardinality(FdsOf(q))
    OBVIOUS
  <2>1. /\ new \notin FdsOf(q) /\ (new \in FdsOf(q)' <=> q = p)
        /\ \A g \in Fds : g # new => fdt'[g] = fdt[g]
    BY LifecycleAssumption DEF FdsOf, IInv, TypeOK
  <2> QED BY <2>1, FdsChange
<1>4. FileRefsExact'
  <2>1. \A q \in Progs : frefs'[q] = IF q = p THEN frefs[q] + 1 ELSE frefs[q]
    BY DEF IInv, TypeOK
  <2>2. \A q \in Progs : Cardinality(FileTasks(q)) \in Nat
    BY FiniteSets, FS_CardinalityType
  <2>3. \A q \in Progs : fstate[q] # "open" => \A g \in Fds : fdt'[g] # q
    BY <1>1 DEF IInv, FileRefsExact, TypeOK
  <2> QED BY <1>3, <2>1, <2>2, <2>3, TasksUnmoved DEF IInv, FileRefsExact
<1>5. RefsExact'
  BY TasksUnmoved DEF IInv, RefsExact, FileHeld
<1>6. TaskInv' /\ LoaderPrivate' /\ ObjectInv' /\ RegistryInv'
  <2>1. TaskInv'
    BY DEF IInv, TaskInv
  <2>2. LoaderPrivate'
    BY DEF IInv, LoaderPrivate
  <2>3. ObjectInv'
    BY DEF IInv, ObjectInv
  <2>4. RegistryInv'
    BY RegistryUntouched DEF IInv
  <2> QED BY <2>1, <2>2, <2>3, <2>4
<1> QED BY <1>2, <1>4, <1>5, <1>6 DEF IInv

(* A slot is emptied.                                                      *)
LEMMA CloseStep ==
    ASSUME IInv, NEW fd \in Fds, Close(fd)
    PROVE  IInv'
<1> USE DEF objVars, taskVars, Close
<1> DEFINE p == fdt[fd]
<1>1. p \in Progs /\ fstate[p] = "open"
  BY DEF IInv, FileRefsExact
<1>2. \A q \in Progs : /\ Cardinality(FdsOf(q)) \in Nat
                       /\ Cardinality(FdsOf(q)') =
                              IF q = p THEN Cardinality(FdsOf(q)) - 1
                                       ELSE Cardinality(FdsOf(q))
                       /\ Cardinality(FdsOf(p)) # 0
  <2> SUFFICES ASSUME NEW q \in Progs
               PROVE  /\ Cardinality(FdsOf(q)) \in Nat
                      /\ Cardinality(FdsOf(q)') =
                              IF q = p THEN Cardinality(FdsOf(q)) - 1
                                       ELSE Cardinality(FdsOf(q))
                      /\ Cardinality(FdsOf(p)) # 0
    OBVIOUS
  <2>1. /\ (fd \in FdsOf(q) <=> q = p) /\ fd \notin FdsOf(q)' /\ fd \in FdsOf(p)
        /\ \A g \in Fds : g # fd => fdt'[g] = fdt[g]
    BY LifecycleAssumption DEF FdsOf, IInv, TypeOK
  <2> QED BY <2>1, FdsChange
<1>3. \A q \in Progs : Cardinality(FileTasks(q)) \in Nat
  BY FiniteSets, FS_CardinalityType
<1>4. frefs[p] - 1 \in Nat
  BY <1>1, <1>2, <1>3 DEF IInv, FileRefsExact
<1>5. TypeOK'
  BY <1>1, <1>4 DEF IInv, TypeOK
<1>6. FileRefsExact'
  <2>1. \A q \in Progs : frefs'[q] = IF q = p THEN frefs[q] - 1 ELSE frefs[q]
    BY DEF IInv, TypeOK
  <2>2. \A q \in Progs : fstate[q] # "open" => \A g \in Fds : fdt'[g] # q
    BY LifecycleAssumption DEF IInv, FileRefsExact, TypeOK
  <2> QED BY <1>2, <1>3, <2>1, <2>2, TasksUnmoved DEF IInv, FileRefsExact
<1>7. RefsExact'
  BY TasksUnmoved DEF IInv, RefsExact, FileHeld
<1>8. TaskInv' /\ LoaderPrivate' /\ ObjectInv' /\ RegistryInv'
  <2>1. TaskInv'
    BY DEF IInv, TaskInv
  <2>2. LoaderPrivate'
    BY DEF IInv, LoaderPrivate
  <2>3. ObjectInv'
    BY DEF IInv, ObjectInv
  <2>4. RegistryInv'
    BY RegistryUntouched DEF IInv
  <2> QED BY <2>1, <2>2, <2>3, <2>4
<1> QED BY <1>5, <1>6, <1>7, <1>8 DEF IInv

(* The last user of a file is gone: merlin_prog_release puts its reference.*)
LEMMA ReleaseStep ==
    ASSUME IInv, NEW p \in Progs, merlin_prog_release(p)
    PROVE  IInv'
<1> USE DEF taskVars, merlin_prog_release, merlin_prog_put
<1>1. mem[p] = "live" /\ \A q : FdsOf(q)' = FdsOf(q)
  BY DEF IInv, ObjectInv, FdsOf
<1>2. \A q \in Progs : /\ Cardinality(Holders(q)) \in Nat
                       /\ Cardinality(FileTasks(q)) \in Nat
                       /\ Cardinality(FdsOf(q)) \in Nat
  BY FiniteSets, FS_CardinalityType
<1>3. (\A fd \in Fds : fdt[fd] # p)
        /\ \A u \in Tasks : pc[u] \in FilePcs => prog[u] # p
  <2>1. Cardinality(FdsOf(p)) = 0 /\ Cardinality(FileTasks(p)) = 0
    BY <1>2 DEF IInv, FileRefsExact
  <2>2. FdsOf(p) = {} /\ FileTasks(p) = {}
    BY <2>1, FiniteSets, FS_EmptySet
  <2> QED BY <2>2 DEF FdsOf, FileTasks
<1>4. refs[p] \in Nat /\ refs[p] # 0 /\ work[p] = "idle"
  BY <1>1, <1>2 DEF IInv, RefsExact, FileHeld
<1>5. \A q \in Progs :
        /\ refs'[q] = IF q = p THEN refs[q] - 1 ELSE refs[q]
        /\ work'[q] = IF q = p /\ refs[p] = 1 THEN "queued" ELSE work[q]
        /\ fstate'[q] = IF q = p THEN "released" ELSE fstate[q]
  BY <1>4 DEF IInv, TypeOK, Dec, Saturated
<1>6. TypeOK'
  BY <1>4 DEF IInv, TypeOK, Dec, Saturated
<1>7. TaskInv'
  BY <1>3, <1>5 DEF IInv, TaskInv, TouchPcs, FilePcs, RefPcs
<1>8. LoaderPrivate'
  <2>1. \A u \in Tasks : pc[u] \in LoaderPcs => prog[u] # p /\ prog[u] \in Progs
    BY DEF IInv, LoaderPrivate, TaskInv, LoaderPcs, TouchPcs, RefPcs
  <2> QED BY <1>5, <2>1 DEF IInv, LoaderPrivate
<1>9. ObjectInv'
  BY <1>1, <1>5 DEF IInv, ObjectInv
<1>10. FileRefsExact'
  BY <1>1, <1>3, <1>5, TasksUnmoved DEF IInv, FileRefsExact
<1>11. RefsExact'
  BY <1>1, <1>2, <1>4, <1>5, TasksUnmoved DEF IInv, RefsExact, FileHeld
<1>12. RegistryInv'
  <2>1. \A q \in Progs : work'[q] = "freeing" <=> work[q] = "freeing"
    BY <1>4, <1>5
  <2> QED BY <2>1 DEF IInv, RegistryInv, Registered, TypeOK
<1> QED BY <1>6, <1>7, <1>8, <1>9, <1>10, <1>11, <1>12 DEF IInv

(* A program whose free is under way has no owner left: nobody is in a     *)
(* command on it and its file is closed.                                   *)
LEMMA FreeAlone ==
    ASSUME IInv, NEW p \in Progs, work[p] # "idle"
    PROVE  /\ mem[p] = "live" /\ refs[p] = 0 /\ fstate[p] # "open"
           /\ \A u \in Tasks : pc[u] \in TouchPcs => prog[u] # p
<1>1. mem[p] = "live" /\ refs[p] = 0
  BY DEF IInv, ObjectInv, RefsExact
<1>2. Cardinality(Holders(p)) \in Nat
  BY FiniteSets, FS_CardinalityType
<1>3. Cardinality(Holders(p)) = 0 /\ fstate[p] # "open"
  BY <1>1, <1>2 DEF IInv, RefsExact, FileHeld
<1>4. Holders(p) = {}
  BY <1>3, FiniteSets, FS_EmptySet
<1> QED BY <1>1, <1>3, <1>4 DEF Holders, IInv, TaskInv, TouchPcs, FilePcs

(* merlin_prog_free_work removes the registry entry ...                    *)
LEMMA FreeWorkIdrStep ==
    ASSUME IInv, NEW p \in Progs, FreeWorkIdr(p)
    PROVE  IInv'
<1> USE DEF taskVars, fileVars, FreeWorkIdr
<1>1. /\ mem[p] = "live" /\ refs[p] = 0
      /\ \A u \in Tasks : pc[u] \in TouchPcs => prog[u] # p
  BY FreeAlone
<1>2. Registered(p)
  BY <1>1 DEF IInv, RegistryInv, TouchPcs, RefPcs
<1>3. \A i \in Ids : idr'[i] = IF i = id[p] THEN NoProg ELSE idr[i]
  OBVIOUS
<1>4. \A i \in Ids : idr'[i] # p
  BY <1>1, <1>3, LifecycleAssumption
     DEF IInv, RegistryInv, TouchPcs, RefPcs
<1>5. \A q \in Progs : work'[q] = IF q = p THEN "freeing" ELSE work[q]
  BY DEF IInv, TypeOK
<1>6. TypeOK'
  BY DEF IInv, TypeOK
<1>7. TaskInv'
  BY DEF IInv, TaskInv
<1>8. LoaderPrivate'
  <2>1. \A u \in Tasks : pc[u] = "alloc_id" => prog[u] # NoProg
    BY LifecycleAssumption DEF IInv, TaskInv, TouchPcs, RefPcs
  <2> QED BY <1>3, <2>1 DEF IInv, LoaderPrivate
<1>9. ObjectInv'
  BY <1>1, <1>5 DEF IInv, ObjectInv
<1>10. FileRefsExact'
  <2>1. \A q : FdsOf(q)' = FdsOf(q)
    BY DEF FdsOf
  <2> QED BY <2>1, TasksUnmoved DEF IInv, FileRefsExact
<1>11. RefsExact'
  BY <1>5, TasksUnmoved DEF IInv, RefsExact, FileHeld
<1>12. RegistryInv'
  <2>1. \A i \in Ids : idr'[i] # NoProg => idr'[i] = idr[i] /\ idr[i] # p
    BY <1>3, <1>4
  <2>2. \A q \in Progs : q # p => (Registered(q) => Registered(q)')
    BY <1>2, <1>3 DEF Registered
  <2>3. \A i \in Ids : idr[i] # NoProg => idr[i] \in Progs
    BY DEF IInv, TypeOK
  <2> QED BY <1>5, <2>1, <2>2, <2>3 DEF IInv, RegistryInv
<1> QED BY <1>6, <1>7, <1>8, <1>9, <1>10, <1>11, <1>12 DEF IInv

(* ... and then frees the memory, which nobody refers to any more.         *)
LEMMA FreeWorkMemStep ==
    ASSUME IInv, NEW p \in Progs, FreeWorkMem(p)
    PROVE  IInv'
<1> USE DEF taskVars, fileVars, FreeWorkMem
<1>1. /\ fstate[p] # "open"
      /\ \A u \in Tasks : pc[u] \in TouchPcs => prog[u] # p
  BY FreeAlone
<1>2. \A q \in Progs :
        /\ work'[q] = IF q = p THEN "idle" ELSE work[q]
        /\ mem'[q] = IF q = p THEN "freed" ELSE mem[q]
  BY DEF IInv, TypeOK
<1>3. TypeOK'
  BY DEF IInv, TypeOK
<1>4. TaskInv'
  BY <1>1, <1>2 DEF IInv, TaskInv
<1>5. LoaderPrivate'
  BY DEF IInv, LoaderPrivate
<1>6. ObjectInv'
  BY <1>1, <1>2 DEF IInv, ObjectInv
<1>7. FileRefsExact'
  <2>1. \A q : FdsOf(q)' = FdsOf(q)
    BY DEF FdsOf
  <2> QED BY <2>1, TasksUnmoved DEF IInv, FileRefsExact
<1>8. RefsExact'
  BY <1>2, TasksUnmoved DEF IInv, RefsExact, FileHeld
<1>9. RegistryInv'
  <2>1. \A i \in Ids : idr[i] # NoProg => idr[i] \in Progs /\ idr[i] # p
    BY LifecycleAssumption DEF IInv, RegistryInv, TypeOK
  <2> QED BY <1>2, <2>1 DEF IInv, RegistryInv, Registered
<1> QED BY <1>3, <1>4, <1>5, <1>6, <1>7, <1>8, <1>9 DEF IInv

-----------------------------------------------------------------------------
(* The theorems.                                                           *)

(* The empty module satisfies the invariant.                               *)
LEMMA InitIInv == Init => IInv
<1> SUFFICES ASSUME Init PROVE IInv
  OBVIOUS
<1> USE DEF Init
<1>1. TypeOK
  BY LifecycleAssumption DEF TypeOK, TouchPcs, RefPcs
<1>2. TaskInv /\ LoaderPrivate
  BY DEF TaskInv, LoaderPrivate, LoaderPcs, FilePcs, TouchPcs, RefPcs
<1>3. ObjectInv /\ RefsExact
  BY DEF ObjectInv, RefsExact
<1>4. FileRefsExact
  BY LifecycleAssumption DEF FileRefsExact
<1>5. RegistryInv
  BY DEF RegistryInv
<1> QED BY <1>1, <1>2, <1>3, <1>4, <1>5 DEF IInv

(* Every step preserves it, if anon_inode_getfd does not fail.             *)
LEMMA NextIInv ==
    ASSUME ~FdFailure, IInv, [Next]_vars
    PROVE  IInv'
<1>1. CASE UNCHANGED vars
  <2>1. \A q : /\ Holders(q)' = Holders(q) /\ FileTasks(q)' = FileTasks(q)
               /\ FdsOf(q)' = FdsOf(q)
    BY <1>1 DEF vars, Holders, FileTasks, FdsOf
  <2>2. FileRefsExact' /\ RefsExact'
    BY <1>1, <2>1 DEF vars, IInv, FileRefsExact, RefsExact, FileHeld
  <2>3. TypeOK' /\ TaskInv' /\ LoaderPrivate' /\ ObjectInv' /\ RegistryInv'
    BY <1>1 DEF vars, IInv, TypeOK, TaskInv, LoaderPrivate, ObjectInv,
                RegistryInv, Registered
  <2> QED BY <2>2, <2>3 DEF IInv
<1>2. ASSUME NEW t \in Tasks,
             \/ merlin_do_cmd(t) \/ LoadFail(t) \/ FGetFail(t) \/ GetInfo(t)
             \/ TestRun(t) \/ TestRunDone(t) \/ UseDone(t)
      PROVE  IInv'
  <2>1. Quiet(t) /\ TypeOK'
    BY <1>2, QuietIsQuiet DEF IInv
  <2> QED BY <2>1, QuietStep
<1>3. ASSUME NEW t \in Tasks, merlin_do_cmd(t) \/ GetById(t) \/ TaskStep(t)
      PROVE  IInv'
  <2>1. ~NewFdFail(t)
    BY DEF NewFdFail
  <2> QED BY <1>2, <1>3, <2>1, LoadBuildStep, AllocIdStep, AllocIdFailStep,
             SetIdStep, NewFdStep, FGetStep, RefIncStep, FPutStep, GetByIdStep,
             PutStep DEF TaskStep
<1>4. ASSUME NEW p \in Progs, KernelStep(p)
      PROVE  IInv'
  BY <1>4, ReleaseStep, FreeWorkIdrStep, FreeWorkMemStep DEF KernelStep
<1>5. ASSUME NEW fd \in Fds, Close(fd) \/ \E new \in Fds : Dup(fd, new)
      PROVE  IInv'
  BY <1>5, CloseStep, DupStep
<1> QED BY <1>1, <1>3, <1>4, <1>5 DEF Next

(* IInv holds throughout every execution in which anon_inode_getfd does    *)
(* not fail (merlin_prog_new_fd never takes its error path).               *)
THEOREM Invariance ==
    ASSUME ~FdFailure
    PROVE  Spec => []IInv
<1>1. Init => IInv
  BY InitIInv
<1>2. IInv /\ [Next]_vars => IInv'
  BY NextIInv
<1> QED BY <1>1, <1>2, PTL DEF Spec

(* Type correctness of the kernel module's state; with it, that prog->refs *)
(* and the file's count never go below zero.                               *)
THEOREM TypeCorrect ==
    ASSUME ~FdFailure
    PROVE  Spec => []TypeOK
<1>1. IInv => TypeOK
  BY DEF IInv
<1> QED BY <1>1, Invariance, PTL

(* prog->refs equals the number of owned references, and is zero exactly   *)
(* while the free is queued or running (core.c: merlin_prog_put,           *)
(* merlin_prog_get_by_fd, merlin_prog_get_by_id, merlin_prog_new_fd).      *)
THEOREM RefCountCorrect ==
    ASSUME ~FdFailure
    PROVE  Spec => []RefsExact
<1>1. IInv => RefsExact
  BY DEF IInv
<1> QED BY <1>1, Invariance, PTL

(* No task, open file, registry entry or work item points to memory that   *)
(* merlin_prog_free_work or the loader's unwinding has freed.              *)
THEOREM MemorySafe ==
    ASSUME ~FdFailure
    PROVE  Spec => []NoUseAfterFree
<1>1. IInv => NoUseAfterFree
  BY DEF IInv, NoUseAfterFree, TaskInv, ObjectInv, RegistryInv
<1> QED BY <1>1, Invariance, PTL

(* merlin_prog_idr and the objects' ids agree, although prog->id is stored *)
(* after the registry lock is released and read by the deferred free.      *)
THEOREM RegistryCorrect ==
    ASSUME ~FdFailure
    PROVE  Spec => []RegistryExact
<1>1. IInv => RegistryExact
  <2> SUFFICES ASSUME IInv PROVE RegistryExact
    OBVIOUS
  <2>1. \A i \in Ids : idr[i] # NoProg =>
           \/ id[idr[i]] = i
           \/ \E t \in Tasks : pc[t] = "set_id" /\ prog[t] = idr[i]
    BY DEF IInv, RegistryInv
  <2>2. ASSUME NEW p \in Progs, fstate[p] = "open"
        PROVE  Registered(p)
    <3>1. \A t \in Tasks : pc[t] \in LoaderPcs => prog[t] # p
      BY <2>2 DEF IInv, LoaderPrivate
    <3>2. work[p] = "idle"
      BY <2>2, FreeAlone
    <3> QED BY <2>2, <3>1, <3>2 DEF IInv, RegistryInv, ObjectInv, LoaderPcs
  <2>3. ASSUME NEW p \in Progs, work[p] = "queued"
        PROVE  Registered(p)
    BY <2>3, FreeAlone DEF IInv, RegistryInv, TouchPcs, RefPcs
  <2>4. ASSUME NEW p \in Progs, mem[p] = "freed", NEW i \in Ids
        PROVE  idr[i] # p
    BY <2>4, LifecycleAssumption DEF IInv, RegistryInv
  <2> QED BY <2>1, <2>2, <2>3, <2>4 DEF RegistryExact, Registered
<1> QED BY <1>1, Invariance, PTL

(* A count that reached zero stays zero: no lookup revives a program whose *)
(* free has been scheduled, and nobody drops a reference twice.            *)
THEOREM NeverRevived ==
    ASSUME ~FdFailure
    PROVE  Spec => NoResurrection
<1> DEFINE Stays == \A p \in Progs :
               mem[p] = "live" /\ refs[p] = 0 => refs'[p] = 0
<1>1. IInv /\ [Next]_vars => [Stays]_vars
  <2> SUFFICES ASSUME IInv, Next, NEW p \in Progs, mem[p] = "live", refs[p] = 0
               PROVE  refs'[p] = 0
    OBVIOUS
  <2>1. fstate[p] # "open" /\ \A u \in Tasks : pc[u] \in TouchPcs => prog[u] # p
    <3>1. work[p] # "idle"
      BY DEF IInv, RefsExact
    <3> QED BY <3>1, FreeAlone
  <2> USE DEF IInv, TypeOK, objVars, Goto, Return
  <2>2. ASSUME NEW t \in Tasks, TaskStep(t)
        PROVE  refs'[p] = 0
    <3>1. CASE LoadBuild(t)
      BY <3>1 DEF LoadBuild
    <3>2. CASE RefInc(t)
      BY <2>1, <3>2 DEF RefInc, TouchPcs
    <3>3. CASE Put(t)
      BY <2>1, <3>3 DEF Put, merlin_prog_put, TouchPcs, RefPcs
    <3>4. CASE NewFdFail(t)
      BY <3>4 DEF NewFdFail
    <3> QED BY <2>2, <3>1, <3>2, <3>3, <3>4
            DEF TaskStep, LoadFail, AllocId, AllocIdFail, SetId, NewFd, FGet,
                FGetFail, FPut, GetInfo, TestRun, TestRunDone, UseDone
  <2>3. ASSUME NEW t \in Tasks, merlin_do_cmd(t) \/ GetById(t)
        PROVE  refs'[p] = 0
    BY <2>3 DEF merlin_do_cmd, GetById
  <2>4. ASSUME NEW q \in Progs, KernelStep(q)
        PROVE  refs'[p] = 0
    BY <2>1, <2>4 DEF KernelStep, merlin_prog_release, merlin_prog_put,
                      FreeWorkIdr, FreeWorkMem
  <2>5. ASSUME NEW fd \in Fds, Close(fd) \/ \E new \in Fds : Dup(fd, new)
        PROVE  refs'[p] = 0
    BY <2>5 DEF Close, Dup
  <2> QED BY <2>2, <2>3, <2>4, <2>5 DEF Next
<1>2. Spec => []IInv
  BY Invariance
<1> QED BY <1>1, <1>2, PTL DEF Spec, NoResurrection
=============================================================================
