------------------------------ MODULE FabricAxi ------------------------------
(***************************************************************************)
(* The AXI-Lite handshake of rtl/axi_ctrl.v with any master that keeps the *)
(* rules of the bus: the address and the data of a write come in any order *)
(* and stay until they are taken, responses are taken at any time.  A step *)
(* is a clock edge.  What a register write does is in FabricTop; here each *)
(* write that fires is counted, to see that the master's accesses and the  *)
(* writes and reads of axi_ctrl are the same ones.                         *)
(***************************************************************************)
EXTENDS Integers

CONSTANTS
    Values,       \* what the status register may hold
    DEADC0DE,     \* what a read of no register returns
    Undriven      \* no value

ASSUME AxiAssumption == 0 \in Values

VARIABLES
    master,       \* awvalid, wvalid, bready, arvalid, araddr, rready
    slave,        \* bvalid, waiting_for_bready, arready, rvalid, rdata
    status,       \* the register the master reads, driven by the core
    count         \* history: accesses taken and not yet answered

axiVars == <<master, slave, status, count>>

Signals == [awvalid : BOOLEAN, wvalid : BOOLEAN, bready : BOOLEAN,
            arvalid : BOOLEAN, araddr : {"STATUS", "none"}, rready : BOOLEAN]

AxiTypeOK ==
    /\ master \in Signals
    /\ slave \in [bvalid : BOOLEAN, waiting_for_bready : BOOLEAN,
                  arready : BOOLEAN, rvalid : BOOLEAN,
                  rdata : Values \cup {DEADC0DE}]
    /\ status \in Values
    /\ count \in [writes : Int, reads : Int]

(* After the external reset.                                               *)
AxiInit ==
    /\ master = [awvalid |-> FALSE, wvalid |-> FALSE, bready |-> FALSE,
                 arvalid |-> FALSE, araddr |-> "none", rready |-> FALSE]
    /\ slave = [bvalid |-> FALSE, waiting_for_bready |-> FALSE,
                arready |-> TRUE, rvalid |-> FALSE, rdata |-> 0]
    /\ status = 0
    /\ count = [writes |-> 0, reads |-> 0]
-----------------------------------------------------------------------------
(* axi_ctrl.                                                               *)

(* Mutant: a write fires although the response of the last one is pending. *)
write_fire_Eager == master.awvalid /\ master.wvalid

write_fire == master.awvalid /\ master.wvalid /\ ~slave.waiting_for_bready

Answers == slave.bvalid /\ master.bready

(* Mutant: the slave goes on waiting after the response was taken.         *)
WriteChannel_NeverReady ==
    [bvalid |-> (slave.bvalid \/ write_fire) /\ ~Answers,
     waiting_for_bready |-> slave.waiting_for_bready \/ write_fire]

WriteChannel ==
    [bvalid |-> (slave.bvalid \/ write_fire) /\ ~Answers,
     waiting_for_bready |-> (slave.waiting_for_bready \/ write_fire) /\ ~Answers]

ar_fire == master.arvalid /\ slave.arready

Returns == slave.rvalid /\ master.rready

(* Mutant: the data of a read of no register is left undriven.             *)
Register_NoDefault == IF master.araddr = "STATUS" THEN status ELSE Undriven

Register == IF master.araddr = "STATUS" THEN status ELSE DEADC0DE

(* Mutant: the data follows the register until it is taken.                *)
ReadChannel_Unlatched ==
    [arready |-> (slave.arready /\ ~ar_fire) \/ Returns,
     rvalid |-> (slave.rvalid \/ ar_fire) /\ ~Returns,
     rdata |-> IF ar_fire \/ slave.rvalid THEN Register ELSE slave.rdata]

ReadChannel ==
    [arready |-> (slave.arready /\ ~ar_fire) \/ Returns,
     rvalid |-> (slave.rvalid \/ ar_fire) /\ ~Returns,
     rdata |-> IF ar_fire THEN Register ELSE slave.rdata]

axi_ctrl ==
    slave' = [bvalid |-> WriteChannel.bvalid,
              waiting_for_bready |-> WriteChannel.waiting_for_bready,
              arready |-> ReadChannel.arready,
              rvalid |-> ReadChannel.rvalid,
              rdata |-> ReadChannel.rdata]
-----------------------------------------------------------------------------
(* The master: a valid that was not taken stays up.                        *)
Master ==
    /\ master' \in Signals
    /\ master.awvalid /\ ~write_fire => master'.awvalid
    /\ master.wvalid /\ ~write_fire => master'.wvalid
    /\ master.arvalid /\ ~ar_fire => /\ master'.arvalid
                                     /\ master'.araddr = master.araddr

One(b) == IF b THEN 1 ELSE 0

AxiNext ==
    /\ axi_ctrl
    /\ Master
    /\ status' \in Values
    /\ count' = [writes |-> count.writes + One(write_fire) - One(Answers),
                 reads  |-> count.reads + One(ar_fire) - One(Returns)]

AxiSpec == AxiInit /\ [][AxiNext]_axiVars

(* The master does not refuse a response forever.                          *)
MasterFair ==
    /\ []<>(~slave.bvalid \/ master.bready)
    /\ []<>(~slave.rvalid \/ master.rready)
-----------------------------------------------------------------------------
(* Properties.                                                             *)

(* Every access that axi_ctrl takes is answered once: a response is up     *)
(* exactly while one access is unanswered, and there is never another.     *)
OneResponse ==
    /\ AxiTypeOK
    /\ count.writes = One(slave.bvalid)
    /\ count.reads = One(slave.rvalid)

(* That is so after every step, and a response that was not taken stays as *)
(* it is, whatever the core does to the register meanwhile.                *)
OneStableResponse == [][
    /\ OneResponse'
    /\ slave.bvalid /\ ~master.bready => slave'.bvalid
    /\ slave.rvalid /\ ~master.rready =>
           slave'.rvalid /\ slave'.rdata = slave.rdata]_axiVars

(* A write whose address and data are both there takes place, and a read   *)
(* is taken and answered.                                                  *)
AccessCompletes ==
    /\ (master.awvalid /\ master.wvalid) ~> write_fire
    /\ master.arvalid ~> slave.rvalid
=============================================================================
