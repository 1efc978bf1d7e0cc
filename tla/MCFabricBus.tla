---------------------------- MODULE MCFabricBus ----------------------------
(***************************************************************************)
(* Two words of two byte lanes.  The program reads and writes any of them, *)
(* with every strobe; a store puts 1 into the lanes it strobes.  The host  *)
(* clears words of the data memory, and changes one of the instruction     *)
(* memory, so that the two differ.  Data the adapter does not look at, and *)
(* the word index outside the memories, are fixed.                         *)
(***************************************************************************)
EXTENDS FabricBus

Const(b) == [l \in Lanes |-> b]

MCUploads ==
    [mem : {"imem"}, write : [word : {1}, data : {Const(0), Const(1)}]]
        \cup [mem : {"dmem"}, write : [word : Words, data : {Const(0)}]]

MCIssued == {r \in Request :
    /\ r.data = Const(IF r.space \in {"dmem", "halt"} /\ r.wstrb # {}
                      THEN 1 ELSE 0)
    /\ r.space \in {"halt", "none"} => r.word = 0
    /\ r.space \in {"imem", "halt", "none"} => r.wstrb \in {{}, Lanes}}
=============================================================================
