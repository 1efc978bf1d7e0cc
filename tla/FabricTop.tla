------------------------------ MODULE FabricTop ------------------------------
(***************************************************************************)
(* platforms/icicle-fabric as a whole: the host tool                       *)
(* host/merlin-fabric-load.c drives the registers of rtl/axi_ctrl.v, which *)
(* drive the memories and the core of FabricBus (rtl/merlin_top.v).        *)
(*                                                                         *)
(* A step is a clock edge; at an edge the host makes one register access   *)
(* or none.  (FabricAxi has the handshake by which an access takes place   *)
(* exactly once.)  A tool that ends or is killed leaves the hardware as it *)
(* is, and the next invocation finds it so.                                *)
(***************************************************************************)
EXTENDS FabricBus, Sequences

CONSTANTS
    Text,         \* the words of the program
    Ctxs,         \* the words of the two packets
    WSel,         \* 2^12, the size of IMEM_WSEL and DMEM_WSEL
    WAddr         \* 2^10, the words a 12-bit byte address reaches

ASSUME TopAssumption ==
    /\ Text \in Seq(Word) /\ Ctxs \in Seq(Seq(Word)) \ {<<>>}
    /\ WSel \in Nat \ {0} /\ WAddr \in Nat \ {0}

VARIABLES
    wsel,         \* imem_wsel and dmem_wsel
    host,         \* where the tool is
    ended,        \* history: has the program halted since the last start?
    abandoned     \* history: was a run given up, and none started since?

topVars == <<busVars, wsel, host, ended, abandoned>>

HostPcs == {"imem_wsel", "upload_text", "dmem_wsel", "upload_ctx",
            "reset", "release", "start", "poll", "exit"}

TopTypeOK ==
    /\ TypeOK
    /\ wsel \in [imem : 0 .. WSel - 1, dmem : 0 .. WSel - 1]
    /\ host \in [pc : HostPcs, i : Nat, run : DOMAIN Ctxs]
    /\ host.i <= CASE host.pc = "upload_text" -> Len(Text)
                   [] host.pc = "upload_ctx"  -> Len(Ctxs[host.run])
                   [] OTHER -> 0
    /\ ended \in BOOLEAN /\ abandoned \in BOOLEAN

main == [pc |-> "imem_wsel", i |-> 0, run |-> 1]

TopInit ==
    /\ BusInit
    /\ wsel = [imem |-> 0, dmem |-> 0]
    /\ host = main
    /\ ended = FALSE /\ abandoned = FALSE

At(pc)   == host.pc = pc
Goto(pc) == host' = [host EXCEPT !.pc = pc, !.i = 0]
-----------------------------------------------------------------------------
(* Register writes of axi_ctrl: each lasts one cycle on the write port.    *)

CTRL(run, rst_n) ==
    /\ ctl' = [Unpulsed EXCEPT !.run = run, !.rst_n = rst_n]
    /\ UNCHANGED wsel

(* The byte address of the write port is wsel << 2 in 12 bits; a write     *)
(* beyond the end of the memory changes nothing.                           *)
Port(sel, data) == IF sel % WAddr \in Words
                   THEN [word |-> sel % WAddr, data |-> data]
                   ELSE None

IMEM_WSEL(k) == ctl' = Unpulsed /\ wsel' = [wsel EXCEPT !.imem = k % WSel]
DMEM_WSEL(k) == ctl' = Unpulsed /\ wsel' = [wsel EXCEPT !.dmem = k % WSel]

(* Mutant: the index does not advance.                                     *)
IMEM_WDATA_SameWord(w) ==
    /\ ctl' = [Unpulsed EXCEPT !.imem = Port(wsel.imem, w)]
    /\ UNCHANGED wsel

IMEM_WDATA(w) ==
    /\ ctl' = [Unpulsed EXCEPT !.imem = Port(wsel.imem, w)]
    /\ wsel' = [wsel EXCEPT !.imem = (@ + 1) % WSel]

DMEM_WDATA(w) ==
    /\ ctl' = [Unpulsed EXCEPT !.dmem = Port(wsel.dmem, w)]
    /\ wsel' = [wsel EXCEPT !.dmem = (@ + 1) % WSel]

NoWrite == ctl' = Unpulsed /\ UNCHANGED wsel
-----------------------------------------------------------------------------
(* The tool.                                                               *)

upload_text ==
    \/ At("imem_wsel") /\ IMEM_WSEL(0) /\ Goto("upload_text")
    \/ /\ At("upload_text") /\ host.i < Len(Text)
       /\ IMEM_WDATA(Text[host.i + 1])
       /\ host' = [host EXCEPT !.i = @ + 1]
    \/ /\ At("upload_text") /\ host.i = Len(Text)
       /\ NoWrite /\ Goto("dmem_wsel")

(* Mutant: the index is not set before the upload.                         *)
upload_ctx_NoSelect ==
    \/ At("dmem_wsel") /\ NoWrite /\ Goto("upload_ctx")
    \/ /\ At("upload_ctx") /\ host.i < Len(Ctxs[host.run])
       /\ DMEM_WDATA(Ctxs[host.run][host.i + 1])
       /\ host' = [host EXCEPT !.i = @ + 1]
    \/ /\ At("upload_ctx") /\ host.i = Len(Ctxs[host.run])
       /\ NoWrite /\ Goto("reset")

upload_ctx ==
    \/ At("dmem_wsel") /\ DMEM_WSEL(0) /\ Goto("upload_ctx")
    \/ /\ At("upload_ctx") /\ host.i < Len(Ctxs[host.run])
       /\ DMEM_WDATA(Ctxs[host.run][host.i + 1])
       /\ host' = [host EXCEPT !.i = @ + 1]
    \/ /\ At("upload_ctx") /\ host.i = Len(Ctxs[host.run])
       /\ NoWrite /\ Goto("reset")

(* Mutant: main does not stop after the last packet.                       *)
NextRun_PastEnd ==
    host' = [pc |-> "dmem_wsel", i |-> 0, run |-> host.run + 1]

(* main goes on to the next packet, or ends: the next invocation begins.   *)
NextRun == host' = IF host.run < Len(Ctxs)
                   THEN [pc |-> "dmem_wsel", i |-> 0, run |-> host.run + 1]
                   ELSE main

(* Mutant: the program is started without the soft reset.                  *)
run_and_wait_NoReset ==
    \/ At("reset") /\ NoWrite /\ Goto("release")
    \/ At("release") /\ NoWrite /\ Goto("start")
    \/ At("start") /\ CTRL(TRUE, TRUE) /\ Goto("poll")
    \/ At("poll") /\ NoWrite /\ core.halted /\ Goto("exit")
    \/ At("exit") /\ NoWrite /\ NextRun

run_and_wait ==
    \/ At("reset") /\ CTRL(FALSE, FALSE) /\ Goto("release")
    \/ At("release") /\ CTRL(FALSE, TRUE) /\ Goto("start")
    \/ At("start") /\ CTRL(TRUE, TRUE) /\ Goto("poll")
    \/ /\ At("poll") /\ NoWrite
       /\ core.halted
       /\ Goto("exit")
    \/ /\ At("poll") /\ NoWrite
       /\ ~core.halted
       /\ NextRun
    \/ At("exit") /\ NoWrite /\ NextRun

Killed == NoWrite /\ host' = main

Idle == NoWrite /\ UNCHANGED host
-----------------------------------------------------------------------------
Starts  == At("start") /\ host'.pc = "poll"
GivesUp == At("poll") /\ ~core.halted /\ host'.pc \notin {"poll", "exit"}

TopNext ==
    /\ upload_text \/ upload_ctx \/ run_and_wait \/ Killed \/ Idle
    /\ Edge
    /\ ended' = IF Starts THEN FALSE
                ELSE ended \/ (core'.halted /\ ~core.halted)
    /\ abandoned' = IF Starts THEN FALSE
                    ELSE abandoned \/ GivesUp

(* An edge at which the tool makes no access and the CPU does not trap.    *)
QuietEdge == TopNext /\ ctl' = Unpulsed /\ trap' = trap

(* The clock does not stop: while such an edge would change the adapter,   *)
(* there is an edge.  Neither the tool nor the CPU is forced to do         *)
(* anything.                                                               *)
TopSpec == TopInit /\ [][TopNext]_topVars /\ WF_core(QuietEdge)
-----------------------------------------------------------------------------
(* Properties.                                                             *)

(* The EXIT that run_and_wait returns is of the program it started: never  *)
(* what a halt before the start left in the registers, even if the run     *)
(* before was given up.                                                    *)
ResultOfRun ==
    /\ TopTypeOK
    /\ At("exit") => ended /\ core.halted

Holds(mem, words) == \A k \in 1 .. Len(words) : mem[k - 1] = words[k]

(* When the program is started the instruction memory holds the text, and  *)
(* the data memory the packet it is started for, unless the run before was *)
(* given up and went on while the packet was uploaded.                     *)
MemoriesLoaded ==
    [][Starts => /\ Holds(imem, Text)
                 /\ ~abandoned => Holds(dmem, Ctxs[host.run])]_topVars

(* The host writes the memories while the CPU is held in reset, as         *)
(* merlin_dmem.v relies on and FabricBus assumes: a halted core is in      *)
(* reset.  After a run that was given up it need not be so, because the    *)
(* tool uploads before it resets.                                          *)
HostWritesInReset == HostWrites /\ ~abandoned => ~cpu_resetn
=============================================================================
