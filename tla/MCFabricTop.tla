---------------------------- MODULE MCFabricTop ----------------------------
(***************************************************************************)
(* A program of two words, two different packets of two words, and a       *)
(* program that reads both memories, writes the packet and halts; and the  *)
(* handshake of axi_ctrl with any master (FabricAxi).  The two models look *)
(* at axi_ctrl at different levels and share no variable, so it is enough  *)
(* that one of them moves while the other is in its initial state.         *)
(***************************************************************************)
EXTENDS FabricTop, FabricAxi

fabricVars == <<topVars, axiVars>>

FabricInit == TopInit /\ AxiInit

TopMoves == AxiInit /\ TopNext /\ UNCHANGED axiVars
AxiMoves == TopInit /\ AxiNext /\ UNCHANGED topVars

(* ENABLED <<QuietEdge>>_core, written out: the tool may always do nothing *)
(* (Idle), which leaves rst_n alone, and the trap stays as it is unless a  *)
(* CPU in reset drops it.  TLC evaluates this faster than it finds a step. *)
EdgeMatters == Clocked # core /\ (cpu_resetn \/ ~trap)

(* The clock does not stop: TopSpec's fairness (weak fairness of QuietEdge *)
(* is "not enabled, or taken, again and again") while the fabric moves,    *)
(* and that of the handshake while it does.                                *)
FabricSpec ==
    /\ FabricInit /\ [][TopMoves \/ AxiMoves]_fabricVars
    /\ []<>(~AxiInit \/ ~EdgeMatters) \/ []<><<TopMoves /\ QuietEdge>>_core
    /\ WF_axiVars(AxiMoves)
    /\ MasterFair

W(b) == [l \in Lanes |-> b]

MCText == <<W(1), W(0)>>
MCCtxs == <<<<W(1), W(0)>>, <<W(0), W(1)>>>>

Req(space, word, wstrb, b) ==
    [space |-> space, word |-> word, wstrb |-> wstrb, data |-> W(b)]

MCIssued ==
    {Req(s, w, {}, 0) : s \in {"imem", "dmem"}, w \in Words}
        \cup {Req("dmem", w, Lanes, b) : w \in Words, b \in Bytes}
        \cup {Req("halt", 0, Lanes, b) : b \in Bytes}
=============================================================================
