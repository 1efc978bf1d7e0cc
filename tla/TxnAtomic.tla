------------------------------ MODULE TxnAtomic ------------------------------
(***************************************************************************)
(* A map batch transaction as a client sees it: staged operations are      *)
(* invisible until commit, and a commit applies them in order, across all  *)
(* touched maps, in one step.  A map is a partial function from keys to    *)
(* values with a capacity.  An operation that cannot be applied ends the   *)
(* commit; the operations before it stay applied, which is less than       *)
(* docs/design/uapi/merlin/txn.h promises (see AtomicOrNone of TxnStore).  *)
(***************************************************************************)
EXTENDS Integers, Sequences, FiniteSets

CONSTANTS Handles, Keys, Values, Txns,
          Capacity,  \* the keys a map may hold
          OpCodes,   \* what clients stage, unknown codes included
          NoValue    \* the key is absent

VARIABLES
    exists,   \* the handles of the maps that exist
    store,    \* contents of each map
    state,    \* of each transaction
    staged    \* the operations each transaction has staged

absVars == <<exists, store, state, staged>>

Ops == [map : Handles, op : OpCodes, key : Keys,
        value : Values \cup {NoValue}]
Known == {"INSERT", "UPDATE", "UPSERT", "DELETE", "REPLACE_ALL"}

(* INSERT fails softly if the key exists, UPDATE if it does not, DELETE of *)
(* an absent key is a no-op, REPLACE_ALL leaves one entry.                 *)
Effect(f, o) ==
    CASE o.op = "INSERT" ->
            IF f[o.key] = NoValue THEN [f EXCEPT ![o.key] = o.value] ELSE f
      [] o.op = "UPDATE" ->
            IF f[o.key] # NoValue THEN [f EXCEPT ![o.key] = o.value] ELSE f
      [] o.op = "UPSERT" -> [f EXCEPT ![o.key] = o.value]
      [] o.op = "DELETE" -> [f EXCEPT ![o.key] = NoValue]
      [] o.op = "REPLACE_ALL" ->
            [k \in Keys |-> IF k = o.key THEN o.value ELSE NoValue]

Size(f) == Cardinality({k \in Keys : f[k] # NoValue})

Applicable(s, o) ==
    /\ o.map \in exists
    /\ o.op \in Known
    /\ Size(Effect(s[o.map], o)) <= Capacity

Step(acc, o) ==
    IF acc.ok /\ Applicable(acc.store, o)
    THEN [acc EXCEPT !.store[o.map] = Effect(@, o)]
    ELSE [acc EXCEPT !.ok = FALSE]

ApplyAll(s, ops) ==
    LET done[n \in 0 .. Len(ops)] ==
            IF n = 0 THEN [ok |-> TRUE, store |-> s]
            ELSE Step(done[n - 1], ops[n])
    IN  done[Len(ops)]

Empty == [k \in Keys |-> NoValue]

AtomicInit ==
    /\ exists = {}
    /\ store = [h \in Handles |-> Empty]
    /\ state = [t \in Txns |-> "new"]
    /\ staged = [t \in Txns |-> <<>>]

CreateMap(h) ==
    /\ h \notin exists
    /\ exists' = exists \cup {h}
    /\ UNCHANGED <<store, state, staged>>

DestroyMap(h) ==
    /\ h \in exists
    /\ exists' = exists \ {h}
    /\ store' = [store EXCEPT ![h] = Empty]
    /\ UNCHANGED <<state, staged>>

Close(t, s) ==
    /\ state[t] = "open"
    /\ state' = [state EXCEPT ![t] = s]
    /\ staged' = [staged EXCEPT ![t] = <<>>]
    /\ UNCHANGED exists

BeginTxn(t) ==
    /\ state[t] # "open"
    /\ state' = [state EXCEPT ![t] = "open"]
    /\ staged' = [staged EXCEPT ![t] = <<>>]
    /\ UNCHANGED <<exists, store>>

StageOp(t, o) ==
    /\ state[t] = "open"
    /\ o.map \in exists
    /\ staged' = [staged EXCEPT ![t] = Append(@, o)]
    /\ UNCHANGED <<exists, store, state>>

CommitTxn(t) ==
    LET r == ApplyAll(store, staged[t])
    IN  /\ Close(t, IF r.ok THEN "committed" ELSE "aborted")
        /\ store' = r.store

AbortTxn(t) == Close(t, "aborted") /\ UNCHANGED store

AtomicNext ==
    \/ \E h \in Handles : CreateMap(h) \/ DestroyMap(h)
    \/ \E t \in Txns :
           \/ BeginTxn(t) \/ CommitTxn(t) \/ AbortTxn(t)
           \/ \E o \in Ops : StageOp(t, o)

AtomicSpec == AtomicInit /\ [][AtomicNext]_absVars
=============================================================================
