------------------------------ MODULE TxnStore ------------------------------
(***************************************************************************)
(* The in-memory map store and transaction engine of tools/merlin-txn      *)
(* (store.c), driven the way merlin-txn.c drives it.  Each function of     *)
(* store.c is one step: the prototype is single-threaded, so no other call *)
(* runs inside a commit.                                                   *)
(*                                                                         *)
(* A map is an array of slots; a slot that is not used is Unused, its      *)
(* stale key and value are never read.  The operations of a transaction    *)
(* that is not open are never read either and are dropped.                 *)
(***************************************************************************)
EXTENDS Integers, Sequences, FiniteSets

CONSTANTS
    MaxMaps,      \* MERLIN_STORE_MAX_MAPS
    MaxEntries,   \* MERLIN_STORE_MAX_ENTRIES
    MaxOps,       \* MERLIN_TXN_MAX_OPS
    Txns,         \* transaction objects (struct merlin_txn) of the clients
    Keys, Values,
    OpTypes,      \* the operation codes clients stage
    Destroyable,  \* the handles clients may destroy
    Unused        \* a slot with used = false

ASSUME StoreAssumption ==
    /\ MaxMaps \in Nat /\ MaxEntries \in Nat \ {0} /\ MaxOps \in Nat
    /\ Destroyable \subseteq 1 .. MaxMaps
    /\ Unused \notin Values \cup (Keys \X Values)

VARIABLES
    maps,       \* g_maps, by handle
    locked,     \* g_map_locked, by handle
    txn         \* the transaction objects

vars == <<maps, locked, txn>>

Handles == 1 .. MaxMaps
Slots   == 1 .. MaxEntries
Entry   == Keys \X Values

(* The value that comes with a DELETE, or with an unknown code, is never   *)
(* read.                                                                   *)
Valued == {"INSERT", "UPDATE", "UPSERT", "REPLACE_ALL"}
Op == [map : Handles, op : OpTypes \cap Valued, key : Keys, value : Values]
          \cup [map : Handles, op : OpTypes \ Valued, key : Keys,
                value : {Unused}]

TypeOK ==
    /\ maps \in [Handles -> [valid : BOOLEAN, count : 0 .. MaxEntries,
                             entries : [Slots -> Entry \cup {Unused}]]]
    /\ locked \in [Handles -> BOOLEAN]
    /\ \A t \in Txns :
           /\ txn[t].state \in {"new", "open", "committed", "aborted"}
           /\ txn[t].ops \in Seq(Op) /\ Len(txn[t].ops) <= MaxOps
           /\ txn[t].touched \subseteq Handles

NoEntries == [i \in Slots |-> Unused]
Cleared   == [valid |-> FALSE, count |-> 0, entries |-> NoEntries]
NewTxn    == [state |-> "new", ops |-> <<>>, touched |-> {}]

(* merlin_store_init, and the zeroed static transaction object.            *)
Init ==
    /\ maps = [h \in Handles |-> Cleared]
    /\ locked = [h \in Handles |-> FALSE]
    /\ txn = [t \in Txns |-> NewTxn]

-----------------------------------------------------------------------------
(* Low-level map operations.  Each returns the error code and the map.     *)

Used(m)       == {i \in Slots : m.entries[i] # Unused}
SlotsOf(m, k) == {i \in Used(m) : m.entries[i][1] = k}
First(S)      == CHOOSE i \in S : \A j \in S : i <= j
Free(m)       == Slots \ Used(m)

Ret(rc, m) == [rc |-> rc, map |-> m]

(* Mutant: no search for the key before it is inserted.                    *)
map_insert_NoSearch(m, k, v) ==
    IF Free(m) = {} THEN Ret("ENOSPC", m)
    ELSE Ret("0", [m EXCEPT !.entries[First(Free(m))] = <<k, v>>,
                            !.count = @ + 1])

map_insert(m, k, v) ==
    IF SlotsOf(m, k) # {} THEN Ret("EEXIST", m)
    ELSE IF Free(m) = {} THEN Ret("ENOSPC", m)
    ELSE Ret("0", [m EXCEPT !.entries[First(Free(m))] = <<k, v>>,
                            !.count = @ + 1])

map_update(m, k, v) ==
    IF SlotsOf(m, k) = {} THEN Ret("ENOENT", m)
    ELSE Ret("0", [m EXCEPT !.entries[First(SlotsOf(m, k))] = <<k, v>>])

map_upsert(m, k, v) ==
    IF SlotsOf(m, k) # {} THEN map_update(m, k, v) ELSE map_insert(m, k, v)

map_delete(m, k) ==
    IF SlotsOf(m, k) = {} THEN Ret("ENOENT", m)
    ELSE Ret("0", [m EXCEPT !.entries[First(SlotsOf(m, k))] = Unused,
                            !.count = @ - 1])

(* Called with n = 1: the map is emptied and gets the one pair.            *)
map_replace_all(m, k, v) ==
    [m EXCEPT !.entries = [NoEntries EXCEPT ![1] = <<k, v>>], !.count = 1]

MapOp(m, o) ==
    CASE o.op = "INSERT" -> map_insert(m, o.key, o.value)
      [] o.op = "UPDATE" -> map_update(m, o.key, o.value)
      [] o.op = "UPSERT" -> map_upsert(m, o.key, o.value)
      [] o.op = "DELETE" -> map_delete(m, o.key)
      [] o.op = "REPLACE_ALL" -> Ret("0", map_replace_all(m, o.key, o.value))
      [] OTHER -> Ret("EINVAL", m)

(***************************************************************************)
(* The loop of merlin_txn_commit: -EEXIST and -ENOENT skip the operation,  *)
(* any other error ends the loop and leaves what was applied before it.    *)
(***************************************************************************)
ApplyOne_NoSoftErrors(acc, o) ==   \* mutant: -EEXIST and -ENOENT end the loop
    IF acc.rc # "0" THEN acc
    ELSE IF ~acc.maps[o.map].valid THEN [acc EXCEPT !.rc = "EBADF"]
    ELSE LET r == MapOp(acc.maps[o.map], o)
         IN  [acc EXCEPT !.rc = r.rc, !.maps[o.map] = r.map]

ApplyOne(acc, o) ==
    IF acc.rc # "0" THEN acc
    ELSE IF ~acc.maps[o.map].valid THEN [acc EXCEPT !.rc = "EBADF"]
    ELSE LET r == MapOp(acc.maps[o.map], o)
         IN  CASE r.rc = "0" -> [acc EXCEPT !.maps[o.map] = r.map]
               [] r.rc \in {"EEXIST", "ENOENT"} -> acc
               [] OTHER -> [acc EXCEPT !.rc = r.rc]

ApplyOps(ms, ops) ==
    LET done[n \in 0 .. Len(ops)] ==
            IF n = 0 THEN [rc |-> "0", maps |-> ms]
            ELSE ApplyOne(done[n - 1], ops[n])
    IN  done[Len(ops)]
-----------------------------------------------------------------------------
(* The store and transaction API.                                          *)

(* The first invalid slot of g_maps is taken and cleared.                  *)
merlin_store_map_create ==
    LET invalid == {h \in Handles : ~maps[h].valid}
    IN  /\ invalid # {}
        /\ maps' = [maps EXCEPT ![First(invalid)] =
                       [Cleared EXCEPT !.valid = TRUE]]
        /\ UNCHANGED <<locked, txn>>

(* The slot is invalidated and its count reset; its entries stay behind.   *)
merlin_store_map_destroy(h) ==
    /\ h \in Destroyable
    /\ maps[h].valid
    /\ maps' = [maps EXCEPT ![h].valid = FALSE, ![h].count = 0]
    /\ UNCHANGED <<locked, txn>>

(* The client does not begin a transaction it has open.                    *)
merlin_txn_begin(t) ==
    /\ txn[t].state # "open"
    /\ txn' = [txn EXCEPT ![t] = [NewTxn EXCEPT !.state = "open"]]
    /\ UNCHANGED <<maps, locked>>

(* Mutant: off by one at the limit of staged operations.                   *)
merlin_txn_stage_OffByOne(t, o) ==
    /\ txn[t].state = "open"
    /\ Len(txn[t].ops) <= MaxOps
    /\ maps[o.map].valid
    /\ txn' = [txn EXCEPT ![t].ops = Append(@, o),
                          ![t].touched = @ \cup {o.map}]
    /\ UNCHANGED <<maps, locked>>

(* Refused (-EINVAL, -ENOSPC, -EBADF) unless the guards hold; a refusal    *)
(* changes nothing.                                                        *)
merlin_txn_stage(t, o) ==
    /\ txn[t].state = "open"
    /\ Len(txn[t].ops) < MaxOps
    /\ maps[o.map].valid
    /\ txn' = [txn EXCEPT ![t].ops = Append(@, o),
                          ![t].touched = @ \cup {o.map}]
    /\ UNCHANGED <<maps, locked>>

Conflict(t) == \E h \in txn[t].touched : locked[h]

Closed(t, state) == [txn EXCEPT ![t] = [NewTxn EXCEPT !.state = state]]

(* Conflict check unless MERLIN_TXN_F_FAST (-EBUSY changes nothing), lock  *)
(* the touched maps, apply, unlock them, close the transaction.            *)
merlin_txn_commit(t, fast) ==
    LET r == ApplyOps(maps, txn[t].ops)
    IN  /\ txn[t].state = "open"
        /\ fast \/ ~Conflict(t)
        /\ maps' = r.maps
        /\ locked' = [h \in Handles |-> locked[h] /\ h \notin txn[t].touched]
        /\ txn' = Closed(t, IF r.rc = "0" THEN "committed" ELSE "aborted")

merlin_txn_abort(t) ==
    /\ txn[t].state = "open"
    /\ txn' = Closed(t, "aborted")
    /\ UNCHANGED <<maps, locked>>

Next ==
    \/ merlin_store_map_create
    \/ \E h \in Handles : merlin_store_map_destroy(h)
    \/ \E t \in Txns :
           \/ merlin_txn_begin(t) \/ merlin_txn_abort(t)
           \/ \E o \in Op : merlin_txn_stage(t, o)
           \/ \E fast \in BOOLEAN : merlin_txn_commit(t, fast)

Spec == Init /\ [][Next]_vars

-----------------------------------------------------------------------------
(* Properties.                                                             *)

(* In a valid map no key occupies two slots, so that the linear search of  *)
(* lookup, update and delete is a map lookup, and count is the number of   *)
(* used slots; no commit, failed or not, leaves a map locked; and no        *)
(* transaction holds more than MaxOps operations (TypeOK).                 *)
MapsConsistent ==
    /\ TypeOK
    /\ \A h \in Handles : maps[h].valid =>
           /\ \A k \in Keys : Cardinality(SlotsOf(maps[h], k)) <= 1
           /\ maps[h].count = Cardinality(Used(maps[h]))
    /\ \A h \in Handles : ~locked[h]

(* txn.h: "Commit is atomic-or-none across all staged ops and across all   *)
(* touched maps."  A commit that fails leaves every map as it was.         *)
AtomicOrNone == [][\A t \in Txns :
    txn[t].state = "open" /\ txn'[t].state = "aborted" => maps' = maps]_vars

-----------------------------------------------------------------------------
(* The map of slots as a partial function, by merlin_store_lookup.         *)
merlin_store_lookup(m, k) ==
    IF ~m.valid \/ SlotsOf(m, k) = {} THEN Unused
    ELSE m.entries[First(SlotsOf(m, k))][2]

Atomic == INSTANCE TxnAtomic WITH
    NoValue <- Unused, Capacity <- MaxEntries, OpCodes <- OpTypes,
    exists <- {h \in Handles : maps[h].valid},
    store <- [h \in Handles |->
                 [k \in Keys |-> merlin_store_lookup(maps[h], k)]],
    state <- [t \in Txns |-> txn[t].state],
    staged <- [t \in Txns |-> txn[t].ops]

(* The arrays of slots, with their linear searches, holes, stale entries   *)
(* and counts, implement maps on which a transaction is one step: nothing  *)
(* that is staged or aborted shows, and a commit does exactly what its     *)
(* operations say, up to the first for which there is no room or no map.   *)
ImplementsAtomic == Atomic!AtomicSpec
=============================================================================
