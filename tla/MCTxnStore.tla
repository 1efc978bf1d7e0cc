----------------------------- MODULE MCTxnStore -----------------------------
(***************************************************************************)
(* Instances of TxnStore for TLC.  Keys, values and transactions are       *)
(* interchangeable; handles are not, map creation takes the smallest.      *)
(***************************************************************************)
EXTENDS TxnStore, TLC

Symmetry ==
    Permutations(Keys) \cup Permutations(Values) \cup Permutations(Txns)
=============================================================================
