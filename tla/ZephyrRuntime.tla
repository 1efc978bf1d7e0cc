---------------------------- MODULE ZephyrRuntime ----------------------------
(***************************************************************************)
(* The program slots of the Zephyr runtime: zephyr/merlin/src/runtime.c    *)
(* and merlin_prog_load / merlin_prog_unload of loader.c, called by        *)
(* several threads.                                                        *)
(*                                                                         *)
(* A section under prog_mutex is one step.  What the code does outside the *)
(* mutex (install, uninstall, the checks of run and unload) is split at    *)
(* each access to a slot that another thread may see.  Text buffers are    *)
(* elements of Bufs, one per k_malloc, so that running or freeing a buffer *)
(* that is already free can be seen.                                       *)
(***************************************************************************)
EXTENDS Integers

CONSTANTS
    Threads,
    MaxProgs,    \* CONFIG_MERLIN_MAX_PROGS
    Bufs,        \* the k_malloc allocations of program text
    IdMod,       \* next_prog_id is an integer modulo this (2^32 in the code)
    MaxLoads,    \* bound on the calls of merlin_prog_load
    Sharing,     \* may a thread look up programs another thread loaded?
    NULL

ASSUME RuntimeAssumption ==
    /\ MaxProgs \in Nat /\ IdMod \in Nat \ {0, 1} /\ MaxLoads \in Nat
    /\ Sharing \in BOOLEAN
    /\ NULL \notin Bufs

VARIABLES
    slots,     \* prog_slots
    nextId,    \* next_prog_id
    loads,     \* calls of merlin_prog_load so far, for the bound
    buf,       \* each text buffer: "none", "live", "freed" or freed twice
    tpc,        \* where a thread is
    cur,       \* the slot a thread works on, 0 if none
    fn,        \* the entry point a thread has read from its slot
    known      \* the handles a thread may use: pairs of slot and program id

runtimeVars == <<slots, nextId, loads, buf, tpc, cur, fn, known>>

Slots == 1 .. MaxProgs
ProgIds   == 0 .. IdMod - 1

RuntimeTypeOK ==
    /\ slots \in [Slots -> [in_use : BOOLEAN, id : ProgIds,
                            text : Bufs \cup {NULL}, fn : Bufs \cup {NULL}]]
    /\ nextId \in ProgIds
    /\ loads \in 0 .. MaxLoads
    /\ buf \in [Bufs -> {"none", "live", "freed", "double"}]
    /\ tpc \in [Threads -> {"idle", "verify", "alloc", "install", "publish",
                           "free_slot", "uninstall", "clear", "call",
                           "running"}]
    /\ cur \in [Threads -> Slots \cup {0}]
    /\ fn \in [Threads -> Bufs \cup {NULL}]
    /\ known \in [Threads -> SUBSET (Slots \X ProgIds)]

Zeroed == [in_use |-> FALSE, id |-> 0, text |-> NULL, fn |-> NULL]

(* merlin_init, before any other call.                                     *)
RuntimeInit ==
    /\ slots = [s \in Slots |-> Zeroed]
    /\ nextId = 1
    /\ loads = 0
    /\ buf = [b \in Bufs |-> "none"]
    /\ tpc = [t \in Threads |-> "idle"]
    /\ cur = [t \in Threads |-> 0]
    /\ fn = [t \in Threads |-> NULL]
    /\ known = [t \in Threads |-> {}]

Proceed(t, from, to) ==
    /\ tpc[t] = from
    /\ tpc' = [tpc EXCEPT ![t] = to]

Finish(t, from) ==
    /\ Proceed(t, from, "idle")
    /\ cur' = [cur EXCEPT ![t] = 0]

-----------------------------------------------------------------------------
(* merlin_prog_load.                                                       *)

Load(t) ==
    /\ loads < MaxLoads
    /\ loads' = loads + 1
    /\ Proceed(t, "idle", "verify")
    /\ UNCHANGED <<slots, nextId, buf, cur, fn, known>>

(* Argument, ELF, size and verifier checks touch nothing shared.           *)
LoadVerify(t) ==
    /\ \E next \in {"alloc", "idle"} : Proceed(t, "verify", next)
    /\ UNCHANGED <<slots, nextId, loads, buf, cur, fn, known>>

(* Mutants: the id counter outgrows its word; the slot's in_use is not     *)
(* looked at; the id counter does not advance.                             *)
AllocSlot_WideId(t) == \E s \in Slots :
    /\ ~slots[s].in_use
    /\ slots' = [slots EXCEPT ![s] =
                    [Zeroed EXCEPT !.in_use = TRUE, !.id = nextId]]
    /\ nextId' = nextId + 1
    /\ Proceed(t, "alloc", "install")
    /\ cur' = [cur EXCEPT ![t] = s]
    /\ UNCHANGED <<loads, buf, fn, known>>

AllocSlot_InUseIgnored(t) == \E s \in Slots :
    /\ slots' = [slots EXCEPT ![s] =
                    [Zeroed EXCEPT !.in_use = TRUE, !.id = nextId]]
    /\ nextId' = (nextId + 1) % IdMod
    /\ Proceed(t, "alloc", "install")
    /\ cur' = [cur EXCEPT ![t] = s]
    /\ UNCHANGED <<loads, buf, fn, known>>

AllocSlot_SameId(t) == \E s \in Slots :
    /\ ~slots[s].in_use
    /\ slots' = [slots EXCEPT ![s] =
                    [Zeroed EXCEPT !.in_use = TRUE, !.id = nextId]]
    /\ Proceed(t, "alloc", "install")
    /\ cur' = [cur EXCEPT ![t] = s]
    /\ UNCHANGED <<nextId, loads, buf, fn, known>>

(* merlin_alloc_slot takes the first slot not in use, zeroes it and gives  *)
(* it the next id; without one the load returns MERLIN_ERR_NOMEM.          *)
AllocSlot(t) == \E s \in Slots :
    /\ ~slots[s].in_use
    /\ \A r \in Slots : r < s => slots[r].in_use
    /\ slots' = [slots EXCEPT ![s] =
                    [Zeroed EXCEPT !.in_use = TRUE, !.id = nextId]]
    /\ nextId' = (nextId + 1) % IdMod
    /\ Proceed(t, "alloc", "install")
    /\ cur' = [cur EXCEPT ![t] = s]
    /\ UNCHANGED <<loads, buf, fn, known>>

AllocSlotFail(t) ==
    /\ \A s \in Slots : slots[s].in_use
    /\ Proceed(t, "alloc", "idle")
    /\ UNCHANGED <<slots, nextId, loads, buf, cur, fn, known>>

(* merlin_runtime_install, outside the mutex: copy the text, ...           *)
Install(t) == \E b \in Bufs :
    /\ buf[b] = "none"
    /\ Proceed(t, "install", "publish")
    /\ buf' = [buf EXCEPT ![b] = "live"]
    /\ slots' = [slots EXCEPT ![cur[t]].text = b]
    /\ UNCHANGED <<nextId, loads, cur, fn, known>>

(* ... or run out of heap, upon which the slot is given back, ...          *)
InstallFail(t) ==
    /\ Proceed(t, "install", "free_slot")
    /\ UNCHANGED <<slots, nextId, loads, buf, cur, fn, known>>

(* ... and set the entry point; merlin_prog_load returns handle and id.    *)
Publish(t) ==
    /\ Finish(t, "publish")
    /\ slots' = [slots EXCEPT ![cur[t]].fn = slots[cur[t]].text]
    /\ known' = [known EXCEPT ![t] = @ \cup {<<cur[t], slots[cur[t]].id>>}]
    /\ UNCHANGED <<nextId, loads, buf, fn>>

-----------------------------------------------------------------------------
(* merlin_prog_unload: refused unless the slot is in use, then uninstall   *)
(* (outside the mutex) and free the slot (inside).  The caller gives the   *)
(* handle up when it makes the call.                                       *)

(* Mutant: the slot is given back before the text is uninstalled.          *)
Unload_SlotFirst(t, h) ==
    /\ h \in known[t]
    /\ Proceed(t, "idle", "uninstall")
    /\ cur' = [cur EXCEPT ![t] = h[1]]
    /\ known' = [known EXCEPT ![t] = @ \ {h}]
    /\ slots' = [slots EXCEPT ![h[1]].in_use = FALSE]
    /\ UNCHANGED <<nextId, loads, buf, fn>>

Unload(t, h) ==
    /\ h \in known[t]
    /\ Proceed(t, "idle", IF slots[h[1]].in_use THEN "uninstall" ELSE "idle")
    /\ cur' = [cur EXCEPT ![t] = IF slots[h[1]].in_use THEN h[1] ELSE 0]
    /\ known' = [known EXCEPT ![t] = @ \ {h}]
    /\ UNCHANGED <<slots, nextId, loads, buf, fn>>

(* Mutant: the text is forgotten, not freed.                               *)
Uninstall_Leaks(t) ==
    /\ Proceed(t, "uninstall", "clear")
    /\ UNCHANGED <<slots, nextId, loads, buf, cur, fn, known>>

(* if (prog->text) k_free(prog->text)                                      *)
Uninstall(t) ==
    /\ Proceed(t, "uninstall", "clear")
    /\ buf' = IF slots[cur[t]].text = NULL THEN buf
              ELSE [buf EXCEPT ![slots[cur[t]].text] =
                       IF @ = "live" THEN "freed" ELSE "double"]
    /\ UNCHANGED <<slots, nextId, loads, cur, fn, known>>

Clear(t) ==
    /\ Proceed(t, "clear", "free_slot")
    /\ slots' = [slots EXCEPT ![cur[t]].text = NULL, ![cur[t]].fn = NULL]
    /\ UNCHANGED <<nextId, loads, buf, cur, fn, known>>

FreeSlot(t) ==
    /\ Finish(t, "free_slot")
    /\ slots' = [slots EXCEPT ![cur[t]].in_use = FALSE]
    /\ UNCHANGED <<nextId, loads, buf, fn, known>>

-----------------------------------------------------------------------------
(* merlin_prog_run takes no mutex: it checks the slot, reads the entry     *)
(* point and calls it.                                                     *)

Run(t, h) ==
    /\ h \in known[t]
    /\ slots[h[1]].in_use /\ slots[h[1]].fn # NULL
    /\ Proceed(t, "idle", "call")
    /\ cur' = [cur EXCEPT ![t] = h[1]]
    /\ UNCHANGED <<slots, nextId, loads, buf, fn, known>>

Call(t) ==
    /\ Proceed(t, "call", "running")
    /\ fn' = [fn EXCEPT ![t] = slots[cur[t]].fn]
    /\ UNCHANGED <<slots, nextId, loads, buf, cur, known>>

(* The program returned; run_cnt and run_time_ns are updated.              *)
RunDone(t) ==
    /\ Finish(t, "running")
    /\ fn' = [fn EXCEPT ![t] = NULL]
    /\ UNCHANGED <<slots, nextId, loads, buf, known>>

(* merlin_prog_get_by_id: the first slot in use with that id.              *)
RuntimeGetById(t, i) == \E s \in Slots :
    /\ tpc[t] = "idle"
    /\ Sharing \/ \E h \in known[t] : h[2] = i
    /\ slots[s].in_use /\ slots[s].id = i
    /\ \A r \in Slots : r < s => ~(slots[r].in_use /\ slots[r].id = i)
    /\ known' = [known EXCEPT ![t] = @ \cup {<<s, i>>}]
    /\ UNCHANGED <<slots, nextId, loads, buf, tpc, cur, fn>>

Step(t) ==
    \/ Load(t) \/ LoadVerify(t) \/ AllocSlot(t) \/ AllocSlotFail(t)
    \/ Install(t) \/ InstallFail(t) \/ Publish(t)
    \/ Uninstall(t) \/ Clear(t) \/ FreeSlot(t)
    \/ Call(t) \/ RunDone(t)
    \/ \E h \in known[t] : Unload(t, h) \/ Run(t, h)
    \/ \E i \in ProgIds : RuntimeGetById(t, i)

RuntimeNext == \E t \in Threads : Step(t)

RuntimeSpec == RuntimeInit /\ [][RuntimeNext]_runtimeVars
-----------------------------------------------------------------------------
(* Properties.                                                             *)

(* The text a thread executes has not been given back to the heap: no      *)
(* unload frees a program while a run of it is in progress.                *)
TextOutlivesRun == \A t \in Threads :
    tpc[t] = "running" => fn[t] # NULL /\ buf[fn[t]] = "live"

(* merlin.h: a handle stays valid until it is unloaded.  Whatever the      *)
(* other threads load, unload and run, a handle designates the program it  *)
(* was returned for - same slot, same id, installed text - and no other    *)
(* program that is loaded has that id.                                     *)
HandleStable == \A t \in Threads : \A h \in known[t] :
    LET p == slots[h[1]]
    IN  /\ p.in_use /\ p.id = h[2] /\ p.text # NULL /\ p.fn = p.text
        /\ buf[p.text] = "live"
        /\ \A s \in Slots \ {h[1]} : ~(slots[s].in_use /\ slots[s].id = p.id)

(* Text is neither leaked nor freed twice nor shared: a live buffer is the *)
(* text of exactly one slot, and that slot is in use.                      *)
TextOwned ==
    /\ RuntimeTypeOK
    /\ \A b \in Bufs : buf[b] = "live" =>
           \E s \in Slots : /\ slots[s].in_use /\ slots[s].text = b
                            /\ \A r \in Slots \ {s} : slots[r].text # b
    /\ \A b \in Bufs : buf[b] # "double"
=============================================================================
