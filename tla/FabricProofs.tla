---------------------------- MODULE FabricProofs ----------------------------
(***************************************************************************)
(* Proofs about the fabric, for memories and words of any size, any        *)
(* program and any uploads.                                                *)
(*                                                                         *)
(* The core with its bus adapter: what the CPU reads is what the memories  *)
(* hold, the data memory is what the CPU and the host wrote, and the exit  *)
(* value of a run does not change (BInv).                                  *)
(*                                                                         *)
(* The core with the host tool: the host reads the result of the run that  *)
(* it started, writes the memories only while the CPU is in reset, and has *)
(* uploaded the program and the packet of this run when it starts the CPU  *)
(* (TopInv, with TextInv and PacketInv for the uploads).                   *)
(*                                                                         *)
(* The AXI handshake: each access gets one response, held until it is      *)
(* taken (AxiInv).                                                         *)
(***************************************************************************)
EXTENDS FabricTop, FabricAxi, TLAPS

(* The host port is used only while the CPU is in reset.                   *)
PortInv == HostWrites => ~cpu_resetn

(* The handshake: ready is asserted in DONE, and only there; the adapter   *)
(* is between IDLE and DONE for a request the CPU still holds, unless the  *)
(* core has halted under it; and a halted core takes no new request.       *)
ShakeInv ==
    /\ core.ready <=> core.state = "DONE"
    /\ cpu = None /\ core.state # "IDLE" => core.halted
    /\ cpu # None /\ core.halted => core.state # "IDLE"

(* A read in progress is the read the CPU holds: first the address, then   *)
(* the output register, then the data are those of the word it asked for.  *)
ReadInv == cpu # None =>
    /\ core.state \in {"READ_DRIVE", "READ_LATCH"} =>
           /\ cpu.wstrb = {}
           /\ cpu.space = "imem" =>
                  core.last = "imem" /\ core.imem_addr = cpu.word
           /\ cpu.space = "dmem" =>
                  core.last = "dmem" /\ core.dmem_addr = cpu.word
    /\ core.state = "READ_LATCH" =>
           /\ cpu.space = "imem" => imem_rdata = imem[cpu.word]
           /\ cpu.space = "dmem" => dmem_rdata = dmem[cpu.word]
    /\ core.state = "DONE" /\ cpu.wstrb = {} =>
           /\ cpu.space = "imem" => core.rdata = imem[cpu.word]
           /\ cpu.space = "dmem" => core.rdata = dmem[cpu.word]

(* The write port of the data memory carries the store the CPU holds, in   *)
(* the cycle in which it is acknowledged.                                  *)
WriteInv ==
    /\ core.dmem_we # None => core.state = "DONE" /\ Writes("dmem")
    /\ core.state = "DONE" /\ Writes("dmem") =>
           /\ core.dmem_we = [wstrb |-> cpu.wstrb, data |-> cpu.data]
           /\ core.dmem_addr = cpu.word

BInv == TypeOK /\ PortInv /\ ShakeInv /\ ReadInv /\ WriteInv

-----------------------------------------------------------------------------
(* What one edge does to the registers of the adapter.                     *)

LEMMA ResetTyped == ZeroWord \in Word /\ CoreReset \in Core
<1>1. ZeroWord \in Word
  BY BusAssumption DEF ZeroWord, Word
<1> QED BY <1>1, BusAssumption DEF CoreReset, Core

(* The default of a cycle changes two registers.                           *)
LEMMA QuietFields ==
    ASSUME core \in Core
    PROVE  /\ Quiet \in Core
           /\ Quiet.state = core.state /\ ~Quiet.ready
           /\ Quiet.dmem_we = None
           /\ Quiet.rdata = core.rdata
           /\ Quiet.imem_addr = core.imem_addr
           /\ Quiet.dmem_addr = core.dmem_addr
           /\ Quiet.last = core.last
           /\ Quiet.halted = core.halted
           /\ Quiet.exit_value = core.exit_value
  BY DEF Quiet, Core

LEMMA AcceptWriteFields ==
    ASSUME core \in Core, cpu \in Request
    PROVE  /\ AcceptWrite \in Core
           /\ AcceptWrite.state = "DONE" /\ AcceptWrite.ready
           /\ cpu.space = "dmem" =>
                 /\ AcceptWrite.dmem_addr = cpu.word
                 /\ AcceptWrite.dmem_we =
                        [wstrb |-> cpu.wstrb, data |-> cpu.data]
           /\ cpu.space # "dmem" => AcceptWrite.dmem_we = None
           /\ core.halted => AcceptWrite.halted
<1> DEFINE acked == [Quiet EXCEPT !.ready = TRUE, !.state = "DONE"]
<1>1. /\ acked \in Core /\ acked.state = "DONE" /\ acked.ready
      /\ acked.dmem_we = None /\ acked.halted = core.halted
  <2> HIDE DEF acked
  <2>1. \A q \in Core :
            LET a == [q EXCEPT !.ready = TRUE, !.state = "DONE"]
            IN  /\ a \in Core /\ a.state = "DONE" /\ a.ready
                /\ a.dmem_we = q.dmem_we /\ a.halted = q.halted
    BY DEF Core
  <2> QED BY <2>1, QuietFields DEF acked
<1>2. AcceptWrite = CASE cpu.space = "dmem" ->
                            [acked EXCEPT !.dmem_addr = cpu.word,
                                          !.dmem_we = [wstrb |-> cpu.wstrb,
                                                       data |-> cpu.data]]
                      [] cpu.space = "halt" ->
                            [acked EXCEPT !.halted = TRUE,
                                          !.exit_value = cpu.data]
                      [] OTHER -> acked
  BY DEF AcceptWrite
<1> HIDE DEF acked
<1>3. CASE cpu.space = "dmem"
  <2>1. /\ [wstrb |-> cpu.wstrb, data |-> cpu.data] \in Strobed
        /\ cpu.word \in Words
    BY DEF Request, Strobed
  <2>2. AcceptWrite = [acked EXCEPT !.dmem_addr = cpu.word,
                                    !.dmem_we = [wstrb |-> cpu.wstrb,
                                                 data |-> cpu.data]]
    BY <1>2, <1>3
  <2> QED BY <1>1, <1>3, <2>1, <2>2 DEF Core
<1>4. CASE cpu.space = "halt"
  <2>1. cpu.data \in Word
    BY DEF Request
  <2>2. AcceptWrite = [acked EXCEPT !.halted = TRUE, !.exit_value = cpu.data]
    BY <1>2, <1>4
  <2> QED BY <1>1, <1>4, <2>1, <2>2 DEF Core
<1>5. CASE cpu.space \notin {"dmem", "halt"}
  <2>1. AcceptWrite = acked
    BY <1>2, <1>5
  <2> QED BY <1>1, <1>5, <2>1
<1> QED BY <1>3, <1>4, <1>5

LEMMA AcceptReadFields ==
    ASSUME core \in Core, cpu \in Request
    PROVE  /\ AcceptRead \in Core
           /\ AcceptRead.state = "READ_DRIVE" /\ ~AcceptRead.ready
           /\ AcceptRead.dmem_we = None
           /\ cpu.space = "imem" =>
                  AcceptRead.last = "imem" /\ AcceptRead.imem_addr = cpu.word
           /\ cpu.space = "dmem" =>
                  AcceptRead.last = "dmem" /\ AcceptRead.dmem_addr = cpu.word
           /\ AcceptRead.halted = core.halted
           /\ AcceptRead.exit_value = core.exit_value
<1> DEFINE l == IF cpu.space \in {"imem", "dmem"} THEN cpu.space ELSE "none"
           i == IF cpu.space = "imem" THEN cpu.word ELSE Quiet.imem_addr
           d == IF cpu.space = "dmem" THEN cpu.word ELSE Quiet.dmem_addr
<1>1. l \in {"imem", "dmem", "none"}
  OBVIOUS
<1>2. i \in Words /\ d \in Words
  BY QuietFields DEF Request, Core
<1>3. AcceptRead = [Quiet EXCEPT !.state = "READ_DRIVE", !.last = l,
                                 !.imem_addr = i, !.dmem_addr = d]
  BY DEF AcceptRead
<1>4. /\ cpu.space = "imem" => l = "imem" /\ i = cpu.word
      /\ cpu.space = "dmem" => l = "dmem" /\ d = cpu.word
  OBVIOUS
<1> HIDE DEF l, i, d
<1>5. \A q \in Core :
          LET a == [q EXCEPT !.state = "READ_DRIVE", !.last = l,
                             !.imem_addr = i, !.dmem_addr = d]
          IN  /\ a \in Core /\ a.state = "READ_DRIVE" /\ a.ready = q.ready
              /\ a.dmem_we = q.dmem_we /\ a.last = l
              /\ a.imem_addr = i /\ a.dmem_addr = d
              /\ a.halted = q.halted /\ a.exit_value = q.exit_value
  BY <1>1, <1>2 DEF Core
<1> QED BY <1>3, <1>4, <1>5, QuietFields

LEMMA ReadLatchFields ==
    ASSUME core \in Core, imem_rdata \in Word, dmem_rdata \in Word
    PROVE  /\ ReadLatch \in Core
           /\ ReadLatch.state = "DONE" /\ ReadLatch.ready
           /\ ReadLatch.dmem_we = None
           /\ core.last = "imem" => ReadLatch.rdata = imem_rdata
           /\ core.last = "dmem" => ReadLatch.rdata = dmem_rdata
           /\ ReadLatch.halted = core.halted
           /\ ReadLatch.exit_value = core.exit_value
<1> DEFINE d == CASE core.last = "imem" -> imem_rdata
                  [] core.last = "dmem" -> dmem_rdata
                  [] OTHER -> DEADBEEF
<1>1. /\ d \in Word \cup {DEADBEEF}
      /\ core.last = "imem" => d = imem_rdata
      /\ core.last = "dmem" => d = dmem_rdata
  OBVIOUS
<1>2. ReadLatch = [Quiet EXCEPT !.rdata = d, !.ready = TRUE, !.state = "DONE"]
  BY DEF ReadLatch
<1> HIDE DEF d
<1>3. \A q \in Core :
          LET a == [q EXCEPT !.rdata = d, !.ready = TRUE, !.state = "DONE"]
          IN  /\ a \in Core /\ a.state = "DONE" /\ a.ready /\ a.rdata = d
              /\ a.dmem_we = q.dmem_we
              /\ a.halted = q.halted /\ a.exit_value = q.exit_value
  BY <1>1 DEF Core
<1> QED BY <1>1, <1>2, <1>3, QuietFields

(* The states in which nothing is latched or acknowledged.                 *)
LEMMA MoveFields ==
    ASSUME core \in Core,
           NEW s \in {"IDLE", "READ_DRIVE", "READ_LATCH", "DONE"}
    PROVE  LET a == [Quiet EXCEPT !.state = s]
           IN  /\ a \in Core /\ a.state = s /\ ~a.ready /\ a.dmem_we = None
               /\ a.last = core.last
               /\ a.imem_addr = core.imem_addr /\ a.dmem_addr = core.dmem_addr
               /\ a.halted = core.halted /\ a.exit_value = core.exit_value
<1>1. \A q \in Core :
          LET a == [q EXCEPT !.state = s]
          IN  /\ a \in Core /\ a.state = s /\ a.ready = q.ready
              /\ a.dmem_we = q.dmem_we /\ a.last = q.last
              /\ a.imem_addr = q.imem_addr /\ a.dmem_addr = q.dmem_addr
              /\ a.halted = q.halted /\ a.exit_value = q.exit_value
  BY DEF Core
<1> QED BY <1>1, QuietFields

(* The trap changes what the core shows the host, not the bus.             *)
LEMMA TrappedFields ==
    ASSUME NEW c \in Core
    PROVE  LET a == Trapped(c)
           IN  /\ a \in Core /\ a.state = c.state /\ a.ready = c.ready
               /\ a.rdata = c.rdata
               /\ a.dmem_we = c.dmem_we /\ a.last = c.last
               /\ a.imem_addr = c.imem_addr /\ a.dmem_addr = c.dmem_addr
               /\ c.halted => a.halted
               /\ core.halted => a = c
<1>1. CASE trap /\ ~core.halted
  BY <1>1 DEF Trapped, Core
<1>2. CASE ~(trap /\ ~core.halted)
  <2>1. Trapped(c) = c
    BY <1>2 DEF Trapped
  <2> QED BY <1>2, <2>1
<1> QED BY <1>1, <1>2

(* An edge is one of these, as far as the adapter's bus goes.              *)
Rests == core'.state = "IDLE" /\ ~core'.ready /\ core'.dmem_we = None
KeepsAddress ==
         /\ core'.last = core.last
         /\ core'.imem_addr = core.imem_addr
         /\ core'.dmem_addr = core.dmem_addr
Stores == /\ Accepts /\ cpu.wstrb # {}
          /\ core'.state = "DONE" /\ core'.ready
          /\ cpu.space = "dmem" =>
                /\ core'.dmem_addr = cpu.word
                /\ core'.dmem_we = [wstrb |-> cpu.wstrb, data |-> cpu.data]
          /\ cpu.space # "dmem" => core'.dmem_we = None
Fetches ==
          /\ Accepts /\ cpu.wstrb = {}
          /\ core'.state = "READ_DRIVE" /\ ~core'.ready /\ core'.dmem_we = None
          /\ cpu.space = "imem" =>
                core'.last = "imem" /\ core'.imem_addr = cpu.word
          /\ cpu.space = "dmem" =>
                core'.last = "dmem" /\ core'.dmem_addr = cpu.word
Drives == /\ core.state = "READ_DRIVE" /\ KeepsAddress
          /\ core'.state = "READ_LATCH" /\ ~core'.ready /\ core'.dmem_we = None
Latches == /\ core.state = "READ_LATCH"
           /\ core'.state = "DONE" /\ core'.ready /\ core'.dmem_we = None
           /\ core.last = "imem" => core'.rdata = imem_rdata
           /\ core.last = "dmem" => core'.rdata = dmem_rdata

(* The edges of a core that runs, from BusStep.                            *)
LEMMA RunningEdge ==
    ASSUME TypeOK, core' = Trapped(BusStep)
    PROVE  /\ core' \in Core
           /\ \/ Stores \/ Fetches \/ Drives \/ Latches
              \/ Rests /\ (core.state = "DONE"
                              \/ (core.state = "IDLE" /\ ~Accepts))
           /\ core.halted => core'.halted
           /\ core.halted /\ ~Accepts => core'.exit_value = core.exit_value
<1>1. core \in Core /\ imem_rdata \in Word /\ dmem_rdata \in Word
  BY DEF TypeOK
<1>2. CASE Accepts /\ cpu.wstrb # {}
  <2>1. cpu \in Request
    BY <1>2 DEF Accepts, TypeOK
  <2>2. BusStep = AcceptWrite
    BY <1>2 DEF BusStep, Accepts
  <2> QED BY <1>1, <1>2, <2>1, <2>2, AcceptWriteFields, TrappedFields
          DEF Stores
<1>3. CASE Accepts /\ cpu.wstrb = {}
  <2>1. cpu \in Request
    BY <1>3 DEF Accepts, TypeOK
  <2>2. BusStep = AcceptRead
    BY <1>3 DEF BusStep, Accepts
  <2> QED BY <1>1, <1>3, <2>1, <2>2, AcceptReadFields, TrappedFields
          DEF Fetches
<1>4. CASE core.state = "READ_DRIVE"
  <2>1. BusStep = [Quiet EXCEPT !.state = "READ_LATCH"]
    BY <1>4 DEF BusStep, Accepts
  <2> QED BY <1>1, <1>4, <2>1, MoveFields, TrappedFields DEF Drives, KeepsAddress
<1>5. CASE core.state = "READ_LATCH"
  <2>1. BusStep = ReadLatch
    BY <1>5 DEF BusStep, Accepts
  <2> QED BY <1>1, <1>5, <2>1, ReadLatchFields, TrappedFields DEF Latches
<1>6. CASE core.state = "DONE"
  <2>1. BusStep = [Quiet EXCEPT !.state = "IDLE"]
    BY <1>6 DEF BusStep, Accepts
  <2>2. /\ BusStep \in Core /\ BusStep.state = "IDLE" /\ ~BusStep.ready
        /\ BusStep.dmem_we = None /\ BusStep.halted = core.halted
        /\ BusStep.exit_value = core.exit_value
    BY <1>1, <2>1, MoveFields
  <2> QED BY <1>6, <2>2, TrappedFields DEF Rests
<1>7. CASE core.state = "IDLE" /\ ~Accepts
  <2>1. BusStep = Quiet
    BY <1>7 DEF BusStep
  <2> QED BY <1>1, <1>7, <2>1, QuietFields, TrappedFields DEF Rests
<1>8. core.state \in {"IDLE", "READ_DRIVE", "READ_LATCH", "DONE"}
  BY <1>1 DEF Core
<1> QED BY <1>2, <1>3, <1>4, <1>5, <1>6, <1>7, <1>8

(* The edges of a core that is reset or stopped.                           *)
LEMMA StoppedEdge ==
    ASSUME TypeOK,
           \/ core' = CoreReset
           \/ core' = [Quiet EXCEPT !.state = "IDLE", !.halted = FALSE]
    PROVE  core' \in Core /\ Rests /\ ~core'.halted
<1>1. CASE core' = CoreReset
  BY <1>1, ResetTyped DEF CoreReset, Rests
<1>2. CASE core' = [Quiet EXCEPT !.state = "IDLE", !.halted = FALSE]
  <2>1. \A q \in Core :
            LET a == [q EXCEPT !.state = "IDLE", !.halted = FALSE]
            IN  /\ a \in Core /\ a.state = "IDLE" /\ a.ready = q.ready
                /\ a.dmem_we = q.dmem_we /\ ~a.halted
    BY DEF Core
  <2> QED BY <1>2, <2>1, QuietFields DEF TypeOK, Rests
<1> QED BY <1>1, <1>2

(* The two kinds of edge.                                                  *)
LEMMA EdgeCases ==
    ASSUME merlin_core
    PROVE  \/ core' = CoreReset
           \/ core' = [Quiet EXCEPT !.state = "IDLE", !.halted = FALSE]
           \/ ctl.rst_n /\ ctl.run /\ core' = Trapped(BusStep)
  BY DEF merlin_core, Clocked

-----------------------------------------------------------------------------
(* The invariant.                                                          *)

LEMMA MergeTyped ==
    ASSUME NEW old \in Word, NEW w, w.data \in Word
    PROVE  Merge(old, w) \in Word
  BY DEF Merge, Word

(* What axi_ctrl drives, when the host side is left open.                  *)
LEMMA InputsTyped ==
    ASSUME TypeOK, Inputs
    PROVE  ctl' \in Ctl
<1>1. Unpulsed \in Ctl
  BY DEF Unpulsed, TypeOK, Ctl
<1>2. \A r, n \in BOOLEAN : [Unpulsed EXCEPT !.run = r, !.rst_n = n] \in Ctl
  BY <1>1 DEF Ctl
<1>3. \A u \in Uploads : u.write \in Write
  BY BusAssumption
<1>4. \A x \in Write : /\ [Unpulsed EXCEPT !.imem = x] \in Ctl
                       /\ [Unpulsed EXCEPT !.dmem = x] \in Ctl
  BY <1>1 DEF Ctl
<1> QED BY <1>2, <1>3, <1>4 DEF Inputs

LEMMA TypeStep ==
    ASSUME TypeOK, Edge, ctl' \in Ctl
    PROVE  TypeOK'
<1>2. imem' \in [Words -> Word] /\ imem_rdata' \in Word
  <2>1. /\ imem' = IF ctl.imem = None THEN imem
                   ELSE [imem EXCEPT ![ctl.imem.word] = ctl.imem.data]
        /\ imem_rdata' = imem[core.imem_addr]
    BY DEF Edge, merlin_imem
  <2>2. ctl.imem # None => ctl.imem.data \in Word
    BY DEF TypeOK, Ctl, Write
  <2>3. core.imem_addr \in Words
    BY DEF TypeOK, Core
  <2> QED BY <2>1, <2>2, <2>3 DEF TypeOK
<1>3. dmem' \in [Words -> Word] /\ dmem_rdata' \in Word
  <2>1. /\ dmem' = IF ctl.dmem # None
                   THEN [dmem EXCEPT ![ctl.dmem.word] = ctl.dmem.data]
                   ELSE IF core.dmem_we # None
                   THEN [dmem EXCEPT ![core.dmem_addr] =
                             Merge(dmem[core.dmem_addr], core.dmem_we)]
                   ELSE dmem
        /\ dmem_rdata' = dmem[core.dmem_addr]
    BY DEF Edge, merlin_dmem
  <2>2. ctl.dmem # None => ctl.dmem.data \in Word
    BY DEF TypeOK, Ctl, Write
  <2>3. core.dmem_addr \in Words /\ dmem[core.dmem_addr] \in Word
    BY DEF TypeOK, Core
  <2>4. core.dmem_we # None =>
            Merge(dmem[core.dmem_addr], core.dmem_we) \in Word
    <3>1. core.dmem_we # None => core.dmem_we.data \in Word
      BY DEF TypeOK, Core, Strobed
    <3> QED BY <2>3, <3>1, MergeTyped
  <2> QED BY <2>1, <2>2, <2>3, <2>4 DEF TypeOK
<1>4. core' \in Core
  BY EdgeCases, StoppedEdge, RunningEdge DEF Edge
<1>5. cpu' \in Request \cup {None} /\ trap' \in BOOLEAN
  BY BusAssumption DEF Edge, PicoRV32, TypeOK
<1> QED BY <1>2, <1>3, <1>4, <1>5 DEF TypeOK

(* A CPU that still holds its request after an edge was running before it, *)
(* and so no memory changed under it but by its own store.                 *)
LEMMA HeldRequest ==
    ASSUME BInv, Clock, cpu' # None
    PROVE  /\ cpu_resetn /\ ctl.imem = None /\ ctl.dmem = None
           /\ \/ cpu # None /\ ~core.ready /\ cpu' = cpu
              \/ cpu = None
           /\ imem' = imem /\ imem_rdata' = imem[core.imem_addr]
           /\ core.dmem_we = None => dmem' = dmem
           /\ dmem_rdata' = dmem[core.dmem_addr]
<1>1. /\ cpu_resetn
      /\ \/ cpu # None /\ ~core.ready /\ cpu' = cpu
         \/ cpu = None
  BY DEF Clock, Edge, PicoRV32
<1>2. ctl.imem = None /\ ctl.dmem = None
  BY <1>1 DEF BInv, PortInv, HostWrites
<1> QED BY <1>1, <1>2 DEF Clock, Edge, merlin_imem, merlin_dmem

LEMMA ShakeStep ==
    ASSUME TypeOK, ShakeInv, Edge
    PROVE  ShakeInv'
<1>1. CASE Rests /\ ~core'.halted
  BY <1>1 DEF Rests, ShakeInv
<1>2. CASE ctl.rst_n /\ ctl.run /\ core' = Trapped(BusStep)
  <2>1. /\ \/ Stores \/ Fetches \/ Drives \/ Latches
           \/ Rests /\ (core.state = "DONE"
                           \/ (core.state = "IDLE" /\ ~Accepts))
        /\ core.halted => core'.halted
    BY <1>2, RunningEdge
  <2>2. core'.ready <=> core'.state = "DONE"
    BY <2>1 DEF Stores, Fetches, Drives, Latches, Rests
  <2>3. cpu' = None /\ core'.state # "IDLE" => core'.halted
    <3> SUFFICES ASSUME cpu' = None, core'.state # "IDLE", ~core.halted
                 PROVE  FALSE
      BY <2>1
    <3>1. cpu_resetn
      BY <1>2 DEF cpu_resetn
    <3>2. core.ready \/ cpu = None
      BY <3>1 DEF Edge, PicoRV32
    <3>3. core.state = "DONE" \/ (cpu = None /\ core.state = "IDLE")
      BY <3>2 DEF ShakeInv
    <3> QED BY <2>1, <3>3 DEF Stores, Fetches, Drives, Latches, Rests, Accepts
  <2>4. cpu' # None /\ core'.halted => core'.state # "IDLE"
    <3> SUFFICES ASSUME cpu' # None, core'.state = "IDLE"
                 PROVE  ~core'.halted
      OBVIOUS
    <3>1. cpu_resetn /\ ((cpu # None /\ ~core.ready) \/ cpu = None)
      BY DEF Edge, PicoRV32
    <3>2. Rests /\ (core.state = "DONE" \/ (core.state = "IDLE" /\ ~Accepts))
      BY <2>1 DEF Stores, Fetches, Drives, Latches
    <3>3. cpu = None /\ core.state = "IDLE"
      BY <3>1, <3>2 DEF Accepts, ShakeInv, cpu_resetn
    <3>4. ~trap
      BY <3>1, <3>3 DEF Edge, PicoRV32
    <3>5. core' = Quiet
      BY <1>2, <3>3, <3>4 DEF Trapped, BusStep, Accepts
    <3> QED BY <3>1, <3>5, QuietFields DEF cpu_resetn, TypeOK
  <2> QED BY <2>2, <2>3, <2>4 DEF ShakeInv
<1> QED BY <1>1, <1>2, EdgeCases, StoppedEdge DEF Edge

(* A running core, seen by a CPU that holds a request after the edge.      *)
LEMMA HeldEdge ==
    ASSUME BInv, Clock, cpu' # None
    PROVE  \/ Rests
           \/ /\ cpu # None /\ cpu' = cpu /\ ~core.ready
              /\ imem' = imem /\ dmem' = dmem
              /\ imem_rdata' = imem[core.imem_addr]
              /\ dmem_rdata' = dmem[core.dmem_addr]
              /\ Stores \/ Fetches \/ Drives \/ Latches
<1>1. CASE Rests
  BY <1>1
<1>2. CASE core' = Trapped(BusStep) /\ ~Rests
  <2>1. Stores \/ Fetches \/ Drives \/ Latches
    BY <1>2, RunningEdge DEF BInv
  <2>2. cpu # None
    <3> SUFFICES ASSUME cpu = None PROVE FALSE
      OBVIOUS
    <3>1. core.state = "IDLE"
      BY HeldRequest DEF BInv, ShakeInv, cpu_resetn
    <3> QED BY <2>1, <3>1 DEF Stores, Fetches, Drives, Latches, Accepts
  <2>3. cpu' = cpu /\ ~core.ready
    BY <2>2, HeldRequest
  <2>4. core.dmem_we = None
    BY <2>3 DEF BInv, ShakeInv, WriteInv
  <2> QED BY <2>1, <2>2, <2>3, <2>4, HeldRequest
<1> QED BY <1>1, <1>2, EdgeCases, StoppedEdge DEF Clock, Edge, BInv

LEMMA ReadStep ==
    ASSUME BInv, Clock
    PROVE  ReadInv'
<1> SUFFICES ASSUME cpu' # None
             PROVE  ReadInv'
  BY DEF ReadInv
<1>1. CASE Rests
  BY <1>1 DEF Rests, ReadInv
<1>2. CASE /\ cpu # None /\ cpu' = cpu /\ ~core.ready
           /\ imem' = imem /\ dmem' = dmem
           /\ imem_rdata' = imem[core.imem_addr]
           /\ dmem_rdata' = dmem[core.dmem_addr]
           /\ Stores \/ Fetches \/ Drives \/ Latches
  <2>1. CASE Stores
    BY <1>2, <2>1 DEF Stores, ReadInv
  <2>2. CASE Fetches
    BY <1>2, <2>2 DEF Fetches, ReadInv
  <2>3. CASE Drives
    BY <1>2, <2>3 DEF Drives, KeepsAddress, BInv, ReadInv
  <2>4. CASE Latches
    BY <1>2, <2>4 DEF Latches, BInv, ReadInv
  <2> QED BY <1>2, <2>1, <2>2, <2>3, <2>4
<1> QED BY <1>1, <1>2, HeldEdge

LEMMA WriteStep ==
    ASSUME BInv, Clock
    PROVE  WriteInv'
<1>1. core'.dmem_we # None => core'.state = "DONE" /\ Writes("dmem")'
  <2> SUFFICES ASSUME core'.dmem_we # None
               PROVE  core'.state = "DONE" /\ Writes("dmem")'
    OBVIOUS
  <2>1. ctl.rst_n /\ ctl.run /\ core' = Trapped(BusStep)
    BY EdgeCases, StoppedEdge DEF Clock, Edge, BInv, Rests
  <2>2. Stores /\ cpu.space = "dmem"
    BY <2>1, RunningEdge DEF BInv, Stores, Fetches, Drives, Latches, Rests
  <2>3. cpu # None /\ ~core.ready /\ ~core.halted
    BY <2>2 DEF Stores, Accepts, BInv, ShakeInv
  <2>4. cpu' = cpu
    BY <2>1, <2>3 DEF Clock, Edge, PicoRV32, cpu_resetn
  <2> QED BY <2>2, <2>3, <2>4 DEF Stores, Writes
<1>2. core'.state = "DONE" /\ Writes("dmem")' =>
          /\ core'.dmem_we = [wstrb |-> cpu'.wstrb, data |-> cpu'.data]
          /\ core'.dmem_addr = cpu'.word
  <2> SUFFICES ASSUME core'.state = "DONE", Writes("dmem")'
               PROVE  /\ core'.dmem_we = [wstrb |-> cpu'.wstrb,
                                          data |-> cpu'.data]
                      /\ core'.dmem_addr = cpu'.word
    OBVIOUS
  <2>1. cpu' # None /\ cpu'.wstrb # {} /\ cpu'.space = "dmem"
    BY DEF Writes
  <2>2. /\ cpu # None /\ cpu' = cpu
        /\ Stores \/ Fetches \/ Drives \/ Latches
    BY <2>1, HeldEdge DEF Rests
  <2>3. Stores
    BY <2>1, <2>2 DEF Fetches, Drives, Latches, BInv, ReadInv
  <2> QED BY <2>1, <2>2, <2>3 DEF Stores
<1> QED BY <1>1, <1>2 DEF WriteInv

LEMMA BInvInit ==
    ASSUME BusInit
    PROVE  BInv
<1> USE DEF BusInit
<1>1. TypeOK
  BY ResetTyped DEF TypeOK, Ctl
<1>2. PortInv
  BY DEF PortInv, HostWrites
<1>3. core.state = "IDLE" /\ ~core.ready /\ core.dmem_we = None /\ ~core.halted
  BY DEF CoreReset
<1>4. ShakeInv /\ ReadInv /\ WriteInv
  BY <1>3 DEF ShakeInv, ReadInv, WriteInv
<1> QED BY <1>1, <1>2, <1>4 DEF BInv

LEMMA BInvNext ==
    ASSUME BInv, [Clock]_busVars
    PROVE  BInv'
<1>1. CASE Clock
  <2>1. PortInv'
    BY <1>1 DEF Clock, PortInv
  <2>2. TypeOK' /\ ShakeInv'
    BY <1>1, InputsTyped, TypeStep, ShakeStep DEF BInv, Clock
  <2> QED BY <1>1, <2>1, <2>2, ReadStep, WriteStep DEF BInv
<1>2. CASE UNCHANGED busVars
  BY <1>2 DEF busVars, BInv, TypeOK, PortInv, HostWrites, cpu_resetn, ShakeInv,
              ReadInv, WriteInv, Writes
<1> QED BY <1>1, <1>2

(* For memories and words of any size, any program and any uploads made    *)
(* while the CPU is in reset: the adapter answers a read with the word     *)
(* that the memory holds, whatever resets, restarts and traps come between.*)
THEOREM BusReadsCurrent == Spec => []ReadsCurrent
<1>1. BInv => ReadsCurrent
  BY DEF BInv, ReadsCurrent, ReadInv, ShakeInv, Reads
<1>2. BInv /\ [Clock]_busVars => BInv'
  BY BInvNext
<1> QED BY <1>1, <1>2, BInvInit, PTL DEF Spec

(* Likewise, a store the adapter acknowledges takes place, in the strobed  *)
(* lanes of its word and at that edge, and no other edge changes the data  *)
(* memory but for the host's writes.                                       *)
THEOREM BusDmemFollows == Spec => DmemFollowsBus
<1> DEFINE Follows ==
        /\ cpu_resetn /\ core.ready /\ Writes("dmem") =>
               dmem' = [dmem EXCEPT ![cpu.word] = Merge(@, cpu)]
        /\ dmem' # dmem => ctl.dmem # None \/ (core.ready /\ Writes("dmem"))
<1>1. BInv /\ [Clock]_busVars => [Follows]_busVars
  <2> SUFFICES ASSUME BInv, Clock
               PROVE  Follows
    OBVIOUS
  <2>1. dmem' = IF ctl.dmem # None
                THEN [dmem EXCEPT ![ctl.dmem.word] = ctl.dmem.data]
                ELSE IF core.dmem_we # None
                THEN [dmem EXCEPT ![core.dmem_addr] =
                          Merge(dmem[core.dmem_addr], core.dmem_we)]
                ELSE dmem
    BY DEF Clock, Edge, merlin_dmem
  <2>2. ASSUME cpu_resetn, core.ready, Writes("dmem")
        PROVE  dmem' = [dmem EXCEPT ![cpu.word] = Merge(dmem[cpu.word], cpu)]
    <3>1. ctl.dmem = None
      BY <2>2 DEF BInv, PortInv, HostWrites
    <3>2. /\ core.dmem_we = [wstrb |-> cpu.wstrb, data |-> cpu.data]
          /\ core.dmem_addr = cpu.word
      BY <2>2 DEF BInv, ShakeInv, WriteInv
    <3>3. core.dmem_we # None
      <4>1. cpu \in Request
        BY <2>2 DEF BInv, TypeOK, Writes
      <4>2. core.dmem_we \in Strobed
        BY <3>2, <4>1 DEF Request, Strobed
      <4> QED BY <4>2, BusAssumption
    <3>4. Merge(dmem[cpu.word], core.dmem_we) = Merge(dmem[cpu.word], cpu)
      BY <3>2 DEF Merge
    <3> QED BY <2>1, <3>1, <3>2, <3>3, <3>4
  <2>3. dmem' # dmem => ctl.dmem # None \/ (core.ready /\ Writes("dmem"))
    BY <2>1 DEF BInv, ShakeInv, WriteInv
  <2> QED BY <2>2, <2>3
<1>2. BInv /\ [Clock]_busVars => BInv'
  BY BInvNext
<1> QED BY <1>1, <1>2, BInvInit, PTL DEF Spec, DmemFollowsBus

(* Likewise, the exit value the host reads from a halted core is that of   *)
(* the first halt: no later store and no trap replaces it.                 *)
THEOREM BusExitHeld == Spec => ExitHeld
<1>1. BInv /\ [Clock]_busVars =>
          [core.halted /\ core'.halted =>
               core'.exit_value = core.exit_value]_busVars
  <2> SUFFICES ASSUME BInv, Clock, core.halted, core'.halted
               PROVE  core'.exit_value = core.exit_value
    OBVIOUS
  <2>1. core' = Trapped(BusStep)
    BY EdgeCases, StoppedEdge DEF Clock, Edge, BInv
  <2>2. ~Accepts
    BY DEF Accepts, BInv, ShakeInv
  <2> QED BY <2>1, <2>2, RunningEdge DEF BInv
<1>2. BInv /\ [Clock]_busVars => BInv'
  BY BInvNext
<1> QED BY <1>1, <1>2, BInvInit, PTL DEF Spec, ExitHeld
-----------------------------------------------------------------------------
(* The whole of platforms/icicle-fabric: the host tool on top of the bus.  *)

(* A write port is driven only in the loop of the tool that uploads to it. *)
UploadInv ==
    /\ ctl.imem # None => At("upload_text")
    /\ ctl.dmem # None => At("upload_ctx")

(* Where the tool is says whether the core runs: unless a run was given up *)
(* the CPU is out of reset only while the tool polls, and a halt seen      *)
(* there is of the run that the tool started.                              *)
PhaseInv ==
    /\ cpu_resetn /\ ~abandoned => At("poll")
    /\ At("release") \/ At("start") => ~ctl.run
    /\ At("poll") \/ At("exit") => ctl.run /\ ctl.rst_n
    /\ At("poll") /\ core.halted => ended
    /\ At("exit") => core.halted /\ ended

(* No store of a program is under way once the tool has left its run: a    *)
(* store that a trap overtakes reaches the memory before the tool goes on. *)
SettledInv ==
    ~abandoned /\ ~At("poll") => cpu = None /\ core.dmem_we = None

(* What the memories are after the next edge, if only the host writes.     *)
NextImem == IF ctl.imem = None THEN imem
            ELSE [imem EXCEPT ![ctl.imem.word] = ctl.imem.data]
NextDmem == IF ctl.dmem = None THEN dmem
            ELSE [dmem EXCEPT ![ctl.dmem.word] = ctl.dmem.data]

(* The first n of the words are at the start of the memory.                *)
Loaded(mem, words, n) == \A k \in 1 .. n : mem[k - 1] = words[k]

(* An upload has come as far as the tool's index, the word on the write    *)
(* port included, and the index register points to the next word.          *)
TextInv ==
    /\ At("upload_text") =>
           /\ Loaded(NextImem, Text, host.i)
           /\ host.i < Len(Text) => wsel.imem = host.i
    /\ host.pc \notin {"imem_wsel", "upload_text"} =>
           Loaded(imem, Text, Len(Text))

PacketInv == ~abandoned =>
    /\ At("upload_ctx") =>
           /\ Loaded(NextDmem, Ctxs[host.run], host.i)
           /\ host.i < Len(Ctxs[host.run]) => wsel.dmem = host.i
    /\ host.pc \in {"reset", "release", "start"} =>
           Loaded(dmem, Ctxs[host.run], Len(Ctxs[host.run]))

TopInv == TopTypeOK /\ ShakeInv /\ UploadInv /\ PhaseInv /\ SettledInv

HostStep == upload_text \/ upload_ctx \/ run_and_wait \/ Killed \/ Idle

(* The registers of axi_ctrl after an access of the tool.                  *)
LEMMA UnpulsedFields ==
    ASSUME TypeOK
    PROVE  /\ Unpulsed \in Ctl
           /\ Unpulsed.run = ctl.run /\ Unpulsed.rst_n = ctl.rst_n
           /\ Unpulsed.imem = None /\ Unpulsed.dmem = None
  BY DEF Unpulsed, TypeOK, Ctl

LEMMA CTRLFields ==
    ASSUME TypeOK, NEW run \in BOOLEAN, NEW rst_n \in BOOLEAN, CTRL(run, rst_n)
    PROVE  /\ ctl' \in Ctl /\ ctl'.run = run /\ ctl'.rst_n = rst_n
           /\ ctl'.imem = None /\ ctl'.dmem = None
           /\ wsel' = wsel
<1>1. \A u \in Ctl :
          LET a == [u EXCEPT !.run = run, !.rst_n = rst_n]
          IN  /\ a \in Ctl /\ a.run = run /\ a.rst_n = rst_n
              /\ a.imem = u.imem /\ a.dmem = u.dmem
  BY DEF Ctl
<1> QED BY <1>1, UnpulsedFields DEF CTRL

LEMMA PortTyped ==
    ASSUME NEW sel, NEW data \in Word
    PROVE  Port(sel, data) \in Write \cup {None}
  BY DEF Port, Write

LEMMA PulseFields ==
    ASSUME TypeOK, NEW p \in Write \cup {None}
    PROVE  /\ LET a == [Unpulsed EXCEPT !.imem = p]
              IN  /\ a \in Ctl /\ a.run = ctl.run /\ a.rst_n = ctl.rst_n
                  /\ a.imem = p /\ a.dmem = None
           /\ LET a == [Unpulsed EXCEPT !.dmem = p]
              IN  /\ a \in Ctl /\ a.run = ctl.run /\ a.rst_n = ctl.rst_n
                  /\ a.imem = None /\ a.dmem = p
<1>1. \A u \in Ctl :
          /\ LET a == [u EXCEPT !.imem = p]
             IN  /\ a \in Ctl /\ a.run = u.run /\ a.rst_n = u.rst_n
                 /\ a.imem = p /\ a.dmem = u.dmem
          /\ LET a == [u EXCEPT !.dmem = p]
             IN  /\ a \in Ctl /\ a.run = u.run /\ a.rst_n = u.rst_n
                 /\ a.imem = u.imem /\ a.dmem = p
  BY DEF Ctl
<1> QED BY <1>1, UnpulsedFields

(* What an access of the tool is, as far as the ports go.                  *)
Keeps == /\ ctl'.run = ctl.run /\ ctl'.rst_n = ctl.rst_n
         /\ ctl'.imem = None /\ ctl'.dmem = None
Sets(r, n) == /\ ctl'.run = r /\ ctl'.rst_n = n
              /\ ctl'.imem = None /\ ctl'.dmem = None
PushesText == /\ At("upload_text") /\ host.i < Len(Text)
              /\ ctl'.run = ctl.run /\ ctl'.rst_n = ctl.rst_n
              /\ ctl'.imem = Port(wsel.imem, Text[host.i + 1])
              /\ ctl'.dmem = None
              /\ wsel' = [wsel EXCEPT !.imem = (wsel.imem + 1) % WSel]
              /\ host' = [host EXCEPT !.i = host.i + 1]
PushesPacket == /\ At("upload_ctx") /\ host.i < Len(Ctxs[host.run])
                /\ ctl'.run = ctl.run /\ ctl'.rst_n = ctl.rst_n
                /\ ctl'.imem = None
                /\ ctl'.dmem = Port(wsel.dmem, Ctxs[host.run][host.i + 1])
                /\ wsel' = [wsel EXCEPT !.dmem = (wsel.dmem + 1) % WSel]
                /\ host' = [host EXCEPT !.i = host.i + 1]

(* The moves of the tool between its phases.                               *)
Moves ==
    \/ At("imem_wsel") /\ IMEM_WSEL(0) /\ Goto("upload_text")
    \/ At("upload_text") /\ host.i = Len(Text) /\ NoWrite /\ Goto("dmem_wsel")
    \/ At("dmem_wsel") /\ DMEM_WSEL(0) /\ Goto("upload_ctx")
    \/ /\ At("upload_ctx") /\ host.i = Len(Ctxs[host.run])
       /\ NoWrite /\ Goto("reset")
    \/ At("poll") /\ core.halted /\ NoWrite /\ Goto("exit")
    \/ At("poll") /\ ~core.halted /\ NoWrite /\ NextRun
    \/ At("exit") /\ NoWrite /\ NextRun
    \/ Killed
    \/ Idle

LEMMA HostCases ==
    ASSUME TopTypeOK, HostStep
    PROVE  /\ ctl' \in Ctl
           /\ \/ Moves /\ Keeps
              \/ PushesText
              \/ PushesPacket
              \/ At("reset") /\ Sets(FALSE, FALSE) /\ wsel' = wsel
                    /\ Goto("release")
              \/ At("release") /\ Sets(FALSE, TRUE) /\ wsel' = wsel
                    /\ Goto("start")
              \/ At("start") /\ Sets(TRUE, TRUE) /\ wsel' = wsel
                    /\ Goto("poll")
<1>0. TypeOK /\ host \in [pc : HostPcs, i : Nat, run : DOMAIN Ctxs]
  BY DEF TopTypeOK
<1>1. CASE Moves
  <2>1. ctl' = Unpulsed
    BY <1>1 DEF Moves, IMEM_WSEL, DMEM_WSEL, NoWrite, Killed, Idle
  <2> QED BY <1>0, <1>1, <2>1, UnpulsedFields DEF Keeps
<1>2. CASE /\ At("upload_text") /\ host.i < Len(Text)
           /\ IMEM_WDATA(Text[host.i + 1])
           /\ host' = [host EXCEPT !.i = @ + 1]
  <2>1. Text[host.i + 1] \in Word
    BY <1>0, <1>2, TopAssumption
  <2> DEFINE p == Port(wsel.imem, Text[host.i + 1])
  <2>2. p \in Write \cup {None}
    BY <2>1, PortTyped
  <2>3. ctl' = [Unpulsed EXCEPT !.imem = p]
    BY <1>2 DEF IMEM_WDATA
  <2>4. wsel' = [wsel EXCEPT !.imem = (wsel.imem + 1) % WSel]
    BY <1>2 DEF IMEM_WDATA
  <2> HIDE DEF p
  <2>5. /\ ctl' \in Ctl /\ ctl'.run = ctl.run /\ ctl'.rst_n = ctl.rst_n
        /\ ctl'.imem = p /\ ctl'.dmem = None
    BY <1>0, <2>2, <2>3, PulseFields
  <2> QED BY <1>2, <2>4, <2>5 DEF PushesText, p
<1>3. CASE /\ At("upload_ctx") /\ host.i < Len(Ctxs[host.run])
           /\ DMEM_WDATA(Ctxs[host.run][host.i + 1])
           /\ host' = [host EXCEPT !.i = @ + 1]
  <2>1. Ctxs[host.run] \in Seq(Word)
    BY <1>0, TopAssumption
  <2>2. Ctxs[host.run][host.i + 1] \in Word
    BY <1>0, <1>3, <2>1
  <2> DEFINE p == Port(wsel.dmem, Ctxs[host.run][host.i + 1])
  <2>3. p \in Write \cup {None}
    BY <2>2, PortTyped
  <2>4. ctl' = [Unpulsed EXCEPT !.dmem = p]
    BY <1>3 DEF DMEM_WDATA
  <2>5. wsel' = [wsel EXCEPT !.dmem = (wsel.dmem + 1) % WSel]
    BY <1>3 DEF DMEM_WDATA
  <2> HIDE DEF p
  <2>6. /\ ctl' \in Ctl /\ ctl'.run = ctl.run /\ ctl'.rst_n = ctl.rst_n
        /\ ctl'.imem = None /\ ctl'.dmem = p
    BY <1>0, <2>3, <2>4, PulseFields
  <2> QED BY <1>3, <2>5, <2>6 DEF PushesPacket, p
<1>4. CASE At("reset") /\ CTRL(FALSE, FALSE) /\ Goto("release")
  BY <1>0, <1>4, CTRLFields DEF Sets
<1>5. CASE At("release") /\ CTRL(FALSE, TRUE) /\ Goto("start")
  BY <1>0, <1>5, CTRLFields DEF Sets
<1>6. CASE At("start") /\ CTRL(TRUE, TRUE) /\ Goto("poll")
  BY <1>0, <1>6, CTRLFields DEF Sets
<1>7. \/ Moves
      \/ /\ At("upload_text") /\ host.i < Len(Text)
         /\ IMEM_WDATA(Text[host.i + 1])
         /\ host' = [host EXCEPT !.i = @ + 1]
      \/ /\ At("upload_ctx") /\ host.i < Len(Ctxs[host.run])
         /\ DMEM_WDATA(Ctxs[host.run][host.i + 1])
         /\ host' = [host EXCEPT !.i = @ + 1]
      \/ At("reset") /\ CTRL(FALSE, FALSE) /\ Goto("release")
      \/ At("release") /\ CTRL(FALSE, TRUE) /\ Goto("start")
      \/ At("start") /\ CTRL(TRUE, TRUE) /\ Goto("poll")
  BY Zenon DEF HostStep, upload_text, upload_ctx, run_and_wait, Moves
<1> QED BY <1>1, <1>2, <1>3, <1>4, <1>5, <1>6, <1>7

HostType == [pc : HostPcs, i : Nat, run : DOMAIN Ctxs]

(* Where a move takes the tool.                                            *)
LEMMA GotoFields ==
    ASSUME host \in HostType, NEW pc \in HostPcs, Goto(pc)
    PROVE  /\ host' \in HostType
           /\ host'.pc = pc /\ host'.i = 0 /\ host'.run = host.run
  BY DEF Goto, HostType

LEMMA AdvanceFields ==
    ASSUME host \in HostType, host' = [host EXCEPT !.i = host.i + 1]
    PROVE  /\ host' \in HostType
           /\ host'.pc = host.pc /\ host'.i = host.i + 1
           /\ host'.run = host.run
  BY DEF HostType

LEMMA MainFields ==
    main \in HostType /\ main.pc = "imem_wsel" /\ main.i = 0 /\ main.run = 1
<1>1. 1 \in DOMAIN Ctxs
  BY TopAssumption
<1> QED BY <1>1 DEF main, HostType, HostPcs

LEMMA NextRunFields ==
    ASSUME host \in HostType, NextRun
    PROVE  /\ host' \in HostType
           /\ host'.pc \in {"dmem_wsel", "imem_wsel"} /\ host'.i = 0
<1>1. CASE host.run < Len(Ctxs)
  <2>1. host' = [pc |-> "dmem_wsel", i |-> 0, run |-> host.run + 1]
    BY <1>1 DEF NextRun
  <2>2. host.run + 1 \in DOMAIN Ctxs
    BY <1>1, TopAssumption DEF HostType
  <2> QED BY <2>1, <2>2 DEF HostType, HostPcs
<1>2. CASE ~(host.run < Len(Ctxs))
  BY <1>2, MainFields DEF NextRun
<1> QED BY <1>1, <1>2

(* The tool's position after any of its steps.                             *)
LEMMA MoveCases ==
    ASSUME host \in HostType, Moves
    PROVE  /\ host' \in HostType
           /\ \/ host' = host
              \/ /\ host'.i = 0
                 /\ \/ host'.pc = "imem_wsel"
                    \/ At("imem_wsel") /\ host'.pc = "upload_text"
                    \/ At("upload_text") /\ host'.pc = "dmem_wsel"
                    \/ At("dmem_wsel") /\ host'.pc = "upload_ctx"
                    \/ At("upload_ctx") /\ host'.pc = "reset"
                    \/ At("poll") /\ core.halted /\ host'.pc = "exit"
                    \/ At("poll") /\ host'.pc = "dmem_wsel"
                    \/ At("exit") /\ host'.pc = "dmem_wsel"
<1> USE DEF HostPcs
<1>1. CASE At("imem_wsel") /\ Goto("upload_text")
  BY <1>1, GotoFields
<1>2. CASE At("upload_text") /\ Goto("dmem_wsel")
  BY <1>2, GotoFields
<1>3. CASE At("dmem_wsel") /\ Goto("upload_ctx")
  BY <1>3, GotoFields
<1>4. CASE At("upload_ctx") /\ Goto("reset")
  BY <1>4, GotoFields
<1>5. CASE At("poll") /\ core.halted /\ Goto("exit")
  BY <1>5, GotoFields
<1>6. CASE At("poll") /\ NextRun
  BY <1>6, NextRunFields
<1>7. CASE At("exit") /\ NextRun
  BY <1>7, NextRunFields
<1>8. CASE Killed
  BY <1>8, MainFields DEF Killed
<1>9. CASE Idle
  BY <1>9 DEF Idle
<1> QED BY <1>1, <1>2, <1>3, <1>4, <1>5, <1>6, <1>7, <1>8, <1>9 DEF Moves

(* The bound on the tool's index.                                          *)
Limit == CASE host.pc = "upload_text" -> Len(Text)
           [] host.pc = "upload_ctx"  -> Len(Ctxs[host.run])
           [] OTHER -> 0

LEMMA Lengths ==
    /\ Len(Text) \in Nat
    /\ \A r \in DOMAIN Ctxs : Ctxs[r] \in Seq(Word) /\ Len(Ctxs[r]) \in Nat
<1>1. \A r \in DOMAIN Ctxs : Ctxs[r] \in Seq(Word)
  BY TopAssumption
<1> QED BY <1>1, TopAssumption

LEMMA ModTyped ==
    ASSUME NEW k \in Nat
    PROVE  k % WSel \in 0 .. WSel - 1
  BY TopAssumption

LEMMA HostTyped ==
    ASSUME TopTypeOK, HostStep
    PROVE  /\ host' \in HostType /\ host'.i <= Limit'
           /\ wsel' \in [imem : 0 .. WSel - 1, dmem : 0 .. WSel - 1]
<1>0. /\ host \in HostType /\ host.i <= Limit
      /\ wsel \in [imem : 0 .. WSel - 1, dmem : 0 .. WSel - 1]
  BY DEF TopTypeOK, HostType, Limit
<1> DEFINE Sels == [imem : 0 .. WSel - 1, dmem : 0 .. WSel - 1]
<1>a. \A k \in Nat : /\ [wsel EXCEPT !.imem = k % WSel] \in Sels
                     /\ [wsel EXCEPT !.dmem = k % WSel] \in Sels
  BY <1>0, ModTyped
<1>1. CASE Moves
  <2>1. host' \in HostType /\ (host' = host \/ host'.i = 0)
    BY <1>0, <1>1, MoveCases
  <2>2. host' = host => host'.i <= Limit'
    BY <1>0 DEF Limit
  <2>3. 0 <= Limit'
    BY <2>1, Lengths DEF Limit, HostType
  <2>4. wsel' = wsel \/ wsel' = [wsel EXCEPT !.imem = 0 % WSel]
                     \/ wsel' = [wsel EXCEPT !.dmem = 0 % WSel]
    BY <1>1 DEF Moves, IMEM_WSEL, DMEM_WSEL, NoWrite, Killed, Idle
  <2> QED BY <1>0, <1>a, <2>1, <2>2, <2>3, <2>4
<1>2. CASE PushesText
  <2>1. host' \in HostType /\ host'.pc = "upload_text" /\ host'.i = host.i + 1
    BY <1>0, <1>2, AdvanceFields DEF PushesText, At
  <2>2. host'.i <= Limit'
    BY <1>0, <1>2, <2>1, Lengths DEF PushesText, Limit, HostType
  <2>3. wsel.imem + 1 \in Nat
    BY <1>0, TopAssumption
  <2> QED BY <1>2, <1>a, <2>1, <2>2, <2>3 DEF PushesText
<1>3. CASE PushesPacket
  <2>1. /\ host' \in HostType /\ host'.pc = "upload_ctx"
        /\ host'.i = host.i + 1 /\ host'.run = host.run
    BY <1>0, <1>3, AdvanceFields DEF PushesPacket, At
  <2>2. host'.i <= Limit'
    BY <1>0, <1>3, <2>1, Lengths DEF PushesPacket, Limit, HostType
  <2>3. wsel.dmem + 1 \in Nat
    BY <1>0, TopAssumption
  <2> QED BY <1>3, <1>a, <2>1, <2>2, <2>3 DEF PushesPacket
<1>4. CASE wsel' = wsel /\ (Goto("release") \/ Goto("start") \/ Goto("poll"))
  <2>1. host' \in HostType /\ host'.i = 0
    BY <1>0, <1>4, GotoFields DEF HostPcs
  <2>2. 0 <= Limit'
    BY <2>1, Lengths DEF Limit, HostType
  <2> QED BY <1>0, <1>4, <2>1, <2>2
<1> QED BY <1>1, <1>2, <1>3, <1>4, HostCases

LEMMA TopTypeStep ==
    ASSUME TopTypeOK, TopNext
    PROVE  TopTypeOK'
<1>1. HostStep /\ Edge
  BY DEF TopNext, HostStep
<1>2. TypeOK'
  BY <1>1, HostCases, TypeStep DEF TopTypeOK
<1>3. ended' \in BOOLEAN /\ abandoned' \in BOOLEAN
  <2>1. core'.halted \in BOOLEAN /\ core.halted \in BOOLEAN
    BY <1>2 DEF TopTypeOK, TypeOK, Core
  <2> QED BY <2>1 DEF TopNext, TopTypeOK, GivesUp
<1> QED BY <1>1, <1>2, <1>3, HostTyped DEF TopTypeOK, HostType, Limit

(* The position and the ports after a step of the tool, without the data.  *)
LEMMA StepCases ==
    ASSUME TopTypeOK, HostStep
    PROVE  \/ /\ Keeps
              /\ \/ host' = host
                 \/ host'.pc = "imem_wsel"
                 \/ At("imem_wsel") /\ host'.pc = "upload_text"
                 \/ At("upload_text") /\ host'.pc = "dmem_wsel"
                 \/ At("dmem_wsel") /\ host'.pc = "upload_ctx"
                 \/ At("upload_ctx") /\ host'.pc = "reset"
                 \/ At("poll") /\ core.halted /\ host'.pc = "exit"
                 \/ At("poll") /\ host'.pc = "dmem_wsel"
                 \/ At("exit") /\ host'.pc = "dmem_wsel"
           \/ /\ At("upload_text") /\ host'.pc = "upload_text"
              /\ ctl'.run = ctl.run /\ ctl'.rst_n = ctl.rst_n
              /\ ctl'.dmem = None
           \/ /\ At("upload_ctx") /\ host'.pc = "upload_ctx"
              /\ ctl'.run = ctl.run /\ ctl'.rst_n = ctl.rst_n
              /\ ctl'.imem = None
           \/ At("reset") /\ host'.pc = "release" /\ Sets(FALSE, FALSE)
           \/ At("release") /\ host'.pc = "start" /\ Sets(FALSE, TRUE)
           \/ At("start") /\ host'.pc = "poll" /\ Sets(TRUE, TRUE)
<1>0. host \in HostType
  BY DEF TopTypeOK, HostType
<1>1. CASE Moves /\ Keeps
  BY <1>0, <1>1, MoveCases
<1>2. CASE PushesText
  BY <1>0, <1>2, AdvanceFields DEF PushesText, At
<1>3. CASE PushesPacket
  BY <1>0, <1>3, AdvanceFields DEF PushesPacket, At
<1>4. CASE At("reset") /\ Sets(FALSE, FALSE) /\ Goto("release")
  BY <1>0, <1>4, GotoFields DEF HostPcs
<1>5. CASE At("release") /\ Sets(FALSE, TRUE) /\ Goto("start")
  BY <1>0, <1>5, GotoFields DEF HostPcs
<1>6. CASE At("start") /\ Sets(TRUE, TRUE) /\ Goto("poll")
  BY <1>0, <1>6, GotoFields DEF HostPcs
<1> QED BY <1>1, <1>2, <1>3, <1>4, <1>5, <1>6, HostCases

LEMMA UploadStep ==
    ASSUME TopTypeOK, UploadInv, HostStep
    PROVE  UploadInv'
  BY StepCases DEF UploadInv, Keeps, Sets, At

(* A core that is not stopped or reset stays halted, and one that is ends  *)
(* the edge unhalted.                                                      *)
LEMMA HaltedEdge ==
    ASSUME TypeOK, Edge
    PROVE  /\ core.halted /\ ctl.run /\ ctl.rst_n /\ ctl'.rst_n => core'.halted
           /\ ~ctl.run => ~core'.halted
<1>1. ctl.run /\ ctl.rst_n /\ ctl'.rst_n => core' = Trapped(BusStep)
  BY DEF Edge, merlin_core, Clocked
<1>2. ~ctl.run => \/ core' = CoreReset
                  \/ core' = [Quiet EXCEPT !.state = "IDLE", !.halted = FALSE]
  BY DEF Edge, merlin_core, Clocked
<1> QED BY <1>1, <1>2, RunningEdge, StoppedEdge

LEMMA PhaseStep ==
    ASSUME TopTypeOK, PhaseInv, TopNext
    PROVE  PhaseInv'
<1>1. HostStep /\ Edge
  BY DEF TopNext, HostStep
<1>2. /\ core.halted /\ ctl.run /\ ctl.rst_n /\ ctl'.rst_n => core'.halted
      /\ ~ctl.run => ~core'.halted
  BY <1>1, HaltedEdge DEF TopTypeOK
<1>3. /\ Starts => ~ended' /\ ~abandoned'
      /\ ~Starts => /\ ended' <=> ended \/ (core'.halted /\ ~core.halted)
                    /\ abandoned' <=> abandoned \/ GivesUp
  <2>1. /\ ended \in BOOLEAN /\ abandoned \in BOOLEAN
        /\ core'.halted \in BOOLEAN /\ core.halted \in BOOLEAN
    BY TopTypeStep DEF TopTypeOK, TypeOK, Core
  <2> QED BY <2>1 DEF TopNext
<1>4. cpu_resetn' /\ ~abandoned' => host'.pc = "poll"
  <2> SUFFICES ASSUME ctl'.run, ctl'.rst_n, ~core'.halted, ~abandoned',
                      host'.pc # "poll"
               PROVE  FALSE
    BY DEF cpu_resetn
  <2>1. ~Starts /\ ~abandoned /\ ~GivesUp
    BY <1>3 DEF Starts
  <2>2. ctl.run /\ ctl.rst_n
    BY <1>1, StepCases DEF Keeps, Sets
  <2>3. ~core.halted
    BY <1>2, <2>2
  <2>4. At("poll")
    BY <2>1, <2>2, <2>3 DEF PhaseInv, cpu_resetn
  <2>5. host'.pc = "exit"
    BY <2>1, <2>3, <2>4 DEF GivesUp
  <2> QED BY <1>1, <2>3, <2>4, <2>5, StepCases DEF At
<1>5. host'.pc \in {"release", "start"} => ~ctl'.run
  BY <1>1, StepCases DEF PhaseInv, At, Keeps, Sets
<1>6. host'.pc \in {"poll", "exit"} => ctl'.run /\ ctl'.rst_n
  BY <1>1, StepCases DEF PhaseInv, At, Keeps, Sets
<1>7. host'.pc = "poll" /\ core'.halted => ended'
  <2>1. CASE Starts
    BY <1>2, <2>1 DEF PhaseInv, Starts
  <2>2. CASE ~Starts /\ host'.pc = "poll"
    <3>1. At("poll")
      BY <1>1, <2>2, StepCases DEF At, Starts
    <3> QED BY <1>3, <2>2, <3>1 DEF PhaseInv
  <2> QED BY <2>1, <2>2
<1>8. host'.pc = "exit" => core'.halted /\ ended'
  <2> SUFFICES ASSUME host'.pc = "exit"
               PROVE  core'.halted /\ ended'
    OBVIOUS
  <2>1. At("exit") \/ (At("poll") /\ core.halted)
    BY <1>1, StepCases DEF At
  <2>2. core.halted /\ ended /\ ctl.run /\ ctl.rst_n /\ ~Starts
    BY <2>1 DEF PhaseInv, Starts
  <2> QED BY <1>2, <1>3, <1>6, <2>2
<1> QED BY <1>4, <1>5, <1>6, <1>7, <1>8 DEF PhaseInv, At

LEMMA SettledStep ==
    ASSUME TopTypeOK, ShakeInv, PhaseInv, SettledInv, TopNext
    PROVE  SettledInv'
<1> SUFFICES ASSUME ~abandoned', host'.pc # "poll"
             PROVE  cpu' = None /\ core'.dmem_we = None
  BY DEF SettledInv, At
<1>1. HostStep /\ Edge
  BY DEF TopNext, HostStep
<1>2. ~abandoned /\ ~GivesUp
  BY DEF TopNext, Starts
<1>3. CASE At("poll")
  <2>1. core.halted
    BY <1>1, <1>2, <1>3, StepCases DEF GivesUp, At
  <2>2. cpu' = None
    BY <1>1, <2>1 DEF Edge, PicoRV32, cpu_resetn
  <2>3. ~Accepts
    BY <2>1 DEF ShakeInv, Accepts
  <2>4. core'.dmem_we = None
    <3>1. core' = Trapped(BusStep) => core'.dmem_we = None
      BY <2>3, RunningEdge DEF Stores, Fetches, Drives, Latches, Rests, TopTypeOK
    <3> QED BY <1>1, <3>1, EdgeCases, StoppedEdge DEF Edge, Rests, TopTypeOK
  <2> QED BY <2>2, <2>4
<1>4. CASE ~At("poll")
  <2>1. ~cpu_resetn
    BY <1>2, <1>4 DEF PhaseInv
  <2>2. cpu' = None
    BY <1>1, <2>1 DEF Edge, PicoRV32
  <2>3. ~Accepts
    BY <1>2, <1>4 DEF SettledInv, Accepts
  <2>4. core'.dmem_we = None
    <3>1. core' = Trapped(BusStep) => core'.dmem_we = None
      BY <2>3, RunningEdge DEF Stores, Fetches, Drives, Latches, Rests, TopTypeOK
    <3> QED BY <1>1, <3>1, EdgeCases, StoppedEdge DEF Edge, Rests, TopTypeOK
  <2> QED BY <2>2, <2>4
<1> QED BY <1>3, <1>4

LEMMA TopInvInit ==
    ASSUME TopInit
    PROVE  TopInv
<1>1. TypeOK /\ ShakeInv
  BY BInvInit DEF TopInit, BInv
<1>2. host \in HostType /\ host.pc = "imem_wsel" /\ host.i = 0
  BY MainFields DEF TopInit
<1>3. TopTypeOK
  <2>1. wsel \in [imem : 0 .. WSel - 1, dmem : 0 .. WSel - 1]
    BY TopAssumption DEF TopInit
  <2>2. host.i <= Limit
    BY <1>2 DEF Limit
  <2> QED BY <1>1, <1>2, <2>1, <2>2 DEF TopInit, TopTypeOK, HostType, Limit
<1>4. ctl.imem = None /\ ctl.dmem = None /\ ~ctl.run /\ cpu = None
  BY DEF TopInit, BusInit
<1>5. core.dmem_we = None
  BY DEF TopInit, BusInit, CoreReset
<1> QED BY <1>1, <1>2, <1>3, <1>4, <1>5
        DEF TopInv, UploadInv, PhaseInv, SettledInv, At, cpu_resetn

LEMMA TopInvNext ==
    ASSUME TopInv, [TopNext]_topVars
    PROVE  TopInv'
<1>1. CASE TopNext
  <2>1. HostStep /\ Edge
    BY <1>1 DEF TopNext, HostStep
  <2> QED BY <1>1, <2>1, TopTypeStep, ShakeStep, UploadStep, PhaseStep,
             SettledStep DEF TopInv, TopTypeOK
<1>2. CASE UNCHANGED topVars
  BY <1>2 DEF topVars, busVars, TopInv, TopTypeOK, TypeOK, ShakeInv, UploadInv,
              PhaseInv, SettledInv, At, cpu_resetn
<1> QED BY <1>1, <1>2

(* The EXIT that run_and_wait returns is of the program it started, for    *)
(* any program, packets and memories: halted, when the tool has seen it    *)
(* set, is never what a run before the start left behind.                  *)
THEOREM TopResultOfRun == TopSpec => []ResultOfRun
<1>1. TopInv => ResultOfRun
  BY DEF TopInv, PhaseInv, ResultOfRun
<1>2. TopInv /\ [TopNext]_topVars => TopInv'
  BY TopInvNext
<1> QED BY <1>1, <1>2, TopInvInit, PTL DEF TopSpec

(* Unless a run was given up, the tool drives the write ports only while   *)
(* the CPU is held in reset: what merlin_dmem.v relies on, and what the    *)
(* theorems about the bus suppose of the host.                             *)
THEOREM TopHostWritesInReset == TopSpec => []HostWritesInReset
<1>1. TopInv => HostWritesInReset
  BY DEF TopInv, PhaseInv, UploadInv, HostWritesInReset, HostWrites, At
<1>2. TopInv /\ [TopNext]_topVars => TopInv'
  BY TopInvNext
<1> QED BY <1>1, <1>2, TopInvInit, PTL DEF TopSpec

-----------------------------------------------------------------------------
(* What the memories hold when the program is started.                     *)

(* The words fit in a memory and in the index registers.  The tool does    *)
(* not check this of the file it is given.                                 *)
Fits(words) == /\ 0 .. Len(words) - 1 \subseteq Words
               /\ Len(words) <= WSel /\ Len(words) <= WAddr

LEMMA SmallMod ==
    ASSUME NEW n \in Nat \ {0}, NEW k \in 0 .. n - 1
    PROVE  k % n = k
  OBVIOUS

(* A word pushed to the port of the next index extends what is loaded.     *)
LEMMA PushLoads ==
    ASSUME NEW words \in Seq(Word), Fits(words),
           NEW mem \in [Words -> Word], NEW i \in 0 .. Len(words) - 1,
           Loaded(mem, words, i),
           NEW p, p = Port(i, words[i + 1])
    PROVE  /\ p # None
           /\ Loaded([mem EXCEPT ![p.word] = p.data], words, i + 1)
<1>1. i % WAddr = i
  <2>1. i \in 0 .. WAddr - 1
    BY TopAssumption DEF Fits
  <2> QED BY <2>1, SmallMod, TopAssumption
<1>2. i \in Words /\ words[i + 1] \in Word
  BY DEF Fits
<1>3. p = [word |-> i, data |-> words[i + 1]]
  BY <1>1, <1>2 DEF Port
<1>4. p \in Write
  BY <1>2, <1>3 DEF Write
<1>5. p # None
  BY <1>4, BusAssumption
<1>6. ASSUME NEW k \in 1 .. i + 1
      PROVE  [mem EXCEPT ![p.word] = p.data][k - 1] = words[k]
  <2>1. p.word = i /\ p.data = words[i + 1] /\ k - 1 \in Words
    BY <1>3 DEF Fits
  <2>2. CASE k = i + 1
    BY <2>1, <2>2
  <2>3. CASE k \in 1 .. i
    BY <2>1, <2>3 DEF Loaded
  <2> QED BY <2>2, <2>3
<1> QED BY <1>5, <1>6 DEF Loaded

(* The memories at an edge, from the point of view of the host.            *)
LEMMA HostEdge ==
    ASSUME Edge
    PROVE  /\ imem' = NextImem
           /\ core.dmem_we = None => dmem' = NextDmem
  BY DEF Edge, merlin_imem, merlin_dmem, NextImem, NextDmem

LEMMA TextStep ==
    ASSUME Fits(Text), TopInv, TextInv, TopNext
    PROVE  TextInv'
<1>1. HostStep /\ Edge /\ TopTypeOK /\ TypeOK
  BY DEF TopNext, HostStep, TopInv, TopTypeOK
<1>2. imem' = NextImem /\ (ctl.imem = None => imem' = imem)
  BY <1>1, HostEdge DEF NextImem
<1>3. /\ host \in HostType /\ Text \in Seq(Word) /\ Len(Text) \in Nat
      /\ wsel \in [imem : 0 .. WSel - 1, dmem : 0 .. WSel - 1]
  BY <1>1, Lengths, TopAssumption DEF TopTypeOK, HostType
<1>4. CASE PushesText
  <2>1. /\ host'.pc = "upload_text" /\ host'.i = host.i + 1
        /\ host.i \in 0 .. Len(Text) - 1
    BY <1>3, <1>4, AdvanceFields DEF PushesText, At, HostType
  <2>2. wsel.imem = host.i /\ Loaded(imem', Text, host.i)
    BY <1>2, <1>4 DEF TextInv, PushesText
  <2>3. ctl'.imem = Port(host.i, Text[host.i + 1])
    BY <1>4, <2>2 DEF PushesText
  <2>4. imem' \in [Words -> Word]
    BY TopTypeStep DEF TopInv, TopTypeOK, TypeOK
  <2>5. /\ ctl'.imem # None
        /\ Loaded([imem' EXCEPT ![ctl'.imem.word] = ctl'.imem.data],
                  Text, host.i + 1)
    BY <1>3, <2>1, <2>2, <2>3, <2>4, PushLoads
  <2>6. Loaded(NextImem', Text, host'.i)
    BY <2>1, <2>5 DEF NextImem
  <2>7. host'.i < Len(Text) => wsel'.imem = host'.i
    <3> SUFFICES ASSUME host.i + 1 < Len(Text)
                 PROVE  wsel'.imem = host.i + 1
      BY <2>1
    <3>1. host.i + 1 \in 0 .. WSel - 1
      <4>1. WSel \in Nat /\ Len(Text) <= WSel /\ host.i \in Nat
        BY <1>3, TopAssumption DEF Fits, HostType
      <4> QED BY <1>3, <4>1
    <3>2. (host.i + 1) % WSel = host.i + 1
      BY <3>1, SmallMod, TopAssumption
    <3> QED BY <1>3, <1>4, <2>2, <3>2 DEF PushesText
  <2> QED BY <2>1, <2>6, <2>7 DEF TextInv, At
<1>5. CASE ~PushesText
  <2>1. ctl'.imem = None
    BY <1>1, <1>5, HostCases DEF Keeps, Sets, PushesPacket
  <2>2. NextImem' = imem'
    BY <2>1 DEF NextImem
  <2>3. CASE host'.pc = "imem_wsel"
    BY <2>3 DEF TextInv, At
  <2>4. CASE host'.pc = "upload_text"
    <3>1. \/ /\ At("imem_wsel") /\ host'.i = 0
             /\ wsel' = [wsel EXCEPT !.imem = 0 % WSel]
          \/ At("upload_text") /\ host' = host /\ wsel' = wsel
      <4>1. Moves
        BY <1>1, <1>3, <1>5, <2>4, HostCases, GotoFields, AdvanceFields
           DEF HostPcs, PushesPacket, At
      <4>2. \/ At("imem_wsel") /\ IMEM_WSEL(0) /\ Goto("upload_text")
            \/ Idle
        BY <1>3, <2>4, <4>1, GotoFields, NextRunFields, MainFields
           DEF Moves, HostPcs, Killed
      <4>3. CASE At("imem_wsel") /\ IMEM_WSEL(0) /\ Goto("upload_text")
        BY <1>3, <4>3, GotoFields DEF HostPcs, IMEM_WSEL
      <4>4. CASE Idle
        BY <2>4, <4>4 DEF Idle, NoWrite, At
      <4> QED BY <4>2, <4>3, <4>4
    <3>2. CASE /\ At("imem_wsel") /\ host'.i = 0
               /\ wsel' = [wsel EXCEPT !.imem = 0 % WSel]
      <4>1. wsel'.imem = 0
        <5>1. 0 % WSel = 0
          BY SmallMod, TopAssumption
        <5> QED BY <1>3, <3>2, <5>1
      <4>2. Loaded(NextImem', Text, host'.i)
        BY <3>2 DEF Loaded
      <4> QED BY <2>4, <3>2, <4>1, <4>2 DEF TextInv, At
    <3>3. CASE At("upload_text") /\ host' = host /\ wsel' = wsel
      BY <1>2, <2>2, <2>4, <3>3 DEF TextInv, At
    <3> QED BY <3>1, <3>2, <3>3
  <2>5. CASE host'.pc \notin {"imem_wsel", "upload_text"}
    <3>1. CASE At("upload_text")
      <4>1. host.i = Len(Text)
        BY <1>1, <1>3, <1>5, <2>5, <3>1, HostCases, MainFields
           DEF Moves, At, Killed, Idle, PushesPacket
      <4> QED BY <1>2, <2>5, <3>1, <4>1 DEF TextInv, At
    <3>2. CASE ~At("upload_text")
      <4>1. imem' = imem
        BY <1>2, <3>2 DEF TopInv, UploadInv
      <4>2. ~At("imem_wsel")
        BY <1>1, <2>5, StepCases DEF At
      <4> QED BY <2>5, <3>2, <4>1, <4>2 DEF TextInv, At
    <3> QED BY <3>1, <3>2
  <2> QED BY <2>3, <2>4, <2>5
<1> QED BY <1>4, <1>5

LEMMA PacketStep ==
    ASSUME \A r \in DOMAIN Ctxs : Fits(Ctxs[r]),
           TopInv, PacketInv, TopNext
    PROVE  PacketInv'
<1> SUFFICES ASSUME ~abandoned'
             PROVE  PacketInv'
  BY DEF PacketInv
<1>1. HostStep /\ Edge /\ TopTypeOK /\ TypeOK
  BY DEF TopNext, HostStep, TopInv, TopTypeOK
<1>2. /\ host \in HostType
      /\ wsel \in [imem : 0 .. WSel - 1, dmem : 0 .. WSel - 1]
      /\ \A r \in DOMAIN Ctxs : Ctxs[r] \in Seq(Word) /\ Len(Ctxs[r]) \in Nat
  BY <1>1, Lengths DEF TopTypeOK, HostType
<1>3. ~At("poll") /\ ~At("start") =>
          /\ ~abandoned /\ dmem' = NextDmem
          /\ ctl.dmem = None => dmem' = dmem
  <2>1. ~At("poll") /\ ~At("start") => ~abandoned
    BY DEF TopNext, Starts
  <2>2. ~At("poll") /\ ~At("start") => core.dmem_we = None
    BY <2>1 DEF TopInv, SettledInv
  <2> QED BY <1>1, <2>1, <2>2, HostEdge DEF NextDmem
<1>4. CASE PushesPacket
  <2> DEFINE words == Ctxs[host.run]
  <2>1. /\ host'.pc = "upload_ctx" /\ host'.i = host.i + 1
        /\ host'.run = host.run
        /\ host.i \in 0 .. Len(words) - 1
    BY <1>2, <1>4, AdvanceFields DEF PushesPacket, At, HostType
  <2>2. ~abandoned /\ dmem' = NextDmem
    BY <1>3, <1>4 DEF PushesPacket, At
  <2>3. wsel.dmem = host.i /\ Loaded(dmem', words, host.i)
    BY <1>4, <2>2 DEF PacketInv, PushesPacket
  <2>4. ctl'.dmem = Port(host.i, words[host.i + 1])
    BY <1>4, <2>3 DEF PushesPacket
  <2>5. dmem' \in [Words -> Word]
    BY TopTypeStep DEF TopInv, TopTypeOK, TypeOK
  <2>6. words \in Seq(Word) /\ Len(words) \in Nat /\ Fits(words)
    BY <1>2 DEF HostType
  <2> HIDE DEF words
  <2>7. /\ ctl'.dmem # None
        /\ Loaded([dmem' EXCEPT ![ctl'.dmem.word] = ctl'.dmem.data],
                  words, host.i + 1)
    BY <2>1, <2>3, <2>4, <2>5, <2>6, PushLoads
  <2>8. Loaded(NextDmem', words, host'.i)
    BY <2>1, <2>7 DEF NextDmem
  <2>9. host'.i < Len(words) => wsel'.dmem = host'.i
    <3> SUFFICES ASSUME host.i + 1 < Len(words)
                 PROVE  wsel'.dmem = host.i + 1
      BY <2>1
    <3>1. host.i + 1 \in 0 .. WSel - 1
      <4>1. WSel \in Nat /\ Len(words) <= WSel /\ host.i \in Nat
        BY <1>2, <2>6, TopAssumption DEF Fits, HostType
      <4> QED BY <2>6, <4>1
    <3>2. (host.i + 1) % WSel = host.i + 1
      BY <3>1, SmallMod, TopAssumption
    <3> QED BY <1>2, <1>4, <2>3, <3>2 DEF PushesPacket
  <2> QED BY <2>1, <2>8, <2>9 DEF PacketInv, At, words
<1>5. CASE ~PushesPacket
  <2>1. ctl'.dmem = None
    BY <1>1, <1>5, HostCases DEF Keeps, Sets, PushesText
  <2>2. NextDmem' = dmem'
    BY <2>1 DEF NextDmem
  <2>3. CASE host'.pc = "upload_ctx"
    <3>1. \/ /\ At("dmem_wsel") /\ host'.i = 0
             /\ wsel' = [wsel EXCEPT !.dmem = 0 % WSel]
          \/ At("upload_ctx") /\ host' = host /\ wsel' = wsel
      <4>1. Moves
        BY <1>1, <1>2, <1>5, <2>3, HostCases, GotoFields, AdvanceFields
           DEF HostPcs, PushesText, At
      <4>2. \/ At("dmem_wsel") /\ DMEM_WSEL(0) /\ Goto("upload_ctx")
            \/ Idle
        BY <1>2, <2>3, <4>1, GotoFields, NextRunFields, MainFields
           DEF Moves, HostPcs, Killed
      <4>3. CASE At("dmem_wsel") /\ DMEM_WSEL(0) /\ Goto("upload_ctx")
        BY <1>2, <4>3, GotoFields DEF HostPcs, DMEM_WSEL
      <4>4. CASE Idle
        BY <2>3, <4>4 DEF Idle, NoWrite, At
      <4> QED BY <4>2, <4>3, <4>4
    <3>2. CASE /\ At("dmem_wsel") /\ host'.i = 0
               /\ wsel' = [wsel EXCEPT !.dmem = 0 % WSel]
      <4>1. wsel'.dmem = 0
        <5>1. 0 % WSel = 0
          BY SmallMod, TopAssumption
        <5> QED BY <1>2, <3>2, <5>1
      <4>2. Loaded(NextDmem', Ctxs[host'.run], host'.i)
        BY <3>2 DEF Loaded
      <4> QED BY <2>3, <3>2, <4>1, <4>2 DEF PacketInv, At
    <3>3. CASE At("upload_ctx") /\ host' = host /\ wsel' = wsel
      <4>1. ~abandoned /\ dmem' = NextDmem
        BY <1>3, <3>3 DEF At
      <4> QED BY <2>2, <2>3, <3>3, <4>1 DEF PacketInv, At
    <3> QED BY <3>1, <3>2, <3>3
  <2>4. CASE host'.pc \in {"reset", "release", "start"}
    <3>1. /\ host'.run = host.run
          /\ \/ At("upload_ctx") /\ host.i = Len(Ctxs[host.run])
             \/ host.pc \in {"reset", "release", "start"}
      <4>1. CASE Moves
        <5>1. \/ /\ At("upload_ctx") /\ host.i = Len(Ctxs[host.run])
                 /\ Goto("reset")
              \/ Idle
          BY <1>2, <2>4, <4>1, GotoFields, NextRunFields, MainFields
             DEF Moves, HostPcs, Killed
        <5>2. CASE /\ At("upload_ctx") /\ host.i = Len(Ctxs[host.run])
                   /\ Goto("reset")
          BY <1>2, <5>2, GotoFields DEF HostPcs
        <5>3. CASE Idle
          BY <2>4, <5>3 DEF Idle
        <5> QED BY <5>1, <5>2, <5>3
      <4>2. CASE PushesText
        BY <1>2, <2>4, <4>2, AdvanceFields DEF PushesText, At
      <4>3. CASE At("reset") /\ Goto("release")
        BY <1>2, <4>3, GotoFields DEF HostPcs, At
      <4>4. CASE At("release") /\ Goto("start")
        BY <1>2, <4>4, GotoFields DEF HostPcs, At
      <4>5. CASE At("start") /\ Goto("poll")
        BY <1>2, <2>4, <4>5, GotoFields DEF HostPcs
      <4> QED BY <1>1, <1>5, <4>1, <4>2, <4>3, <4>4, <4>5, HostCases
    <3>2. ~abandoned /\ dmem' = NextDmem /\ (ctl.dmem = None => dmem' = dmem)
      <4>1. ~Starts
        BY <2>4 DEF Starts
      <4>2. ~abandoned /\ ~At("poll")
        BY <3>1, <4>1 DEF TopNext, At
      <4>3. core.dmem_we = None
        BY <4>2 DEF TopInv, SettledInv
      <4> QED BY <1>1, <4>2, <4>3, HostEdge DEF NextDmem
    <3>3. CASE At("upload_ctx") /\ host.i = Len(Ctxs[host.run])
      BY <2>4, <3>1, <3>2, <3>3 DEF PacketInv, At
    <3>4. CASE host.pc \in {"reset", "release", "start"}
      <4>1. ctl.dmem = None
        BY <3>4 DEF TopInv, UploadInv, At
      <4> QED BY <2>4, <3>1, <3>2, <3>4, <4>1 DEF PacketInv, At
    <3> QED BY <3>1, <3>3, <3>4
  <2>5. CASE host'.pc \notin {"upload_ctx", "reset", "release", "start"}
    BY <2>5 DEF PacketInv, At
  <2> QED BY <2>3, <2>4, <2>5
<1> QED BY <1>4, <1>5

(* When run_and_wait starts the program, the instruction memory holds the  *)
(* text the tool was given and, unless a run was given up, the data memory *)
(* the packet the run is for, for any program and packets that fit in the  *)
(* memories: neither a tool killed in the middle of an upload nor a store  *)
(* that the core made as it halted leaves another word there.              *)
THEOREM TopMemoriesLoaded ==
    ASSUME Fits(Text), \A r \in DOMAIN Ctxs : Fits(Ctxs[r])
    PROVE  TopSpec => MemoriesLoaded
<1> DEFINE Inv == TopInv /\ TextInv /\ PacketInv
           Full == Starts => /\ Holds(imem, Text)
                             /\ ~abandoned => Holds(dmem, Ctxs[host.run])
<1>1. TopInit => Inv
  <2> SUFFICES ASSUME TopInit
               PROVE  Inv
    OBVIOUS
  <2>1. host.pc = "imem_wsel"
    BY MainFields DEF TopInit
  <2> QED BY <2>1, TopInvInit DEF TextInv, PacketInv, At
<1>2. Inv /\ [TopNext]_topVars => Inv'
  <2> SUFFICES ASSUME Inv, [TopNext]_topVars
               PROVE  Inv'
    OBVIOUS
  <2>1. TopInv'
    BY TopInvNext
  <2>2. CASE TopNext
    BY <2>1, <2>2, TextStep, PacketStep
  <2>3. CASE UNCHANGED topVars
    BY <2>1, <2>3 DEF topVars, busVars, TextInv, PacketInv, At, NextImem,
                      NextDmem
  <2> QED BY <2>2, <2>3
<1>3. Inv /\ [TopNext]_topVars => [Full]_topVars
  <2> SUFFICES ASSUME Inv, Starts
               PROVE  /\ Holds(imem, Text)
                      /\ ~abandoned => Holds(dmem, Ctxs[host.run])
    BY DEF Full
  <2>1. host.pc = "start"
    BY DEF Starts, At
  <2> QED BY <2>1 DEF TextInv, PacketInv, Loaded, Holds
<1> HIDE DEF Inv
<1> QED BY <1>1, <1>2, <1>3, PTL DEF TopSpec, MemoriesLoaded

-----------------------------------------------------------------------------
(* The handshake of axi_ctrl with the master of the bus.                   *)

(* The slave is ready for an access exactly while it has no response up,   *)
(* and it counts one access for the response it has up.                    *)
AxiInv == /\ OneResponse
          /\ slave.waiting_for_bready <=> slave.bvalid
          /\ slave.arready <=> ~slave.rvalid

LEMMA RegisterTyped ==
    ASSUME AxiTypeOK
    PROVE  Register \in Values \cup {DEADC0DE}
  BY DEF Register, AxiTypeOK

LEMMA AxiInvInit ==
    ASSUME AxiInit
    PROVE  AxiInv
<1>1. AxiTypeOK
  BY AxiAssumption DEF AxiInit, AxiTypeOK, Signals
<1> QED BY <1>1 DEF AxiInit, AxiInv, OneResponse, One

(* The registers of the slave after an edge.                               *)
LEMMA SlaveFields ==
    ASSUME AxiInv, AxiNext
    PROVE  /\ slave' \in [bvalid : BOOLEAN, waiting_for_bready : BOOLEAN,
                          arready : BOOLEAN, rvalid : BOOLEAN,
                          rdata : Values \cup {DEADC0DE}]
           /\ slave'.bvalid <=> (slave.bvalid \/ write_fire) /\ ~Answers
           /\ slave'.waiting_for_bready <=> slave'.bvalid
           /\ slave'.rvalid <=> (slave.rvalid \/ ar_fire) /\ ~Returns
           /\ slave'.arready <=> ~slave'.rvalid
           /\ ~ar_fire => slave'.rdata = slave.rdata
<1>0. /\ slave.bvalid \in BOOLEAN /\ slave.waiting_for_bready \in BOOLEAN
      /\ slave.arready \in BOOLEAN /\ slave.rvalid \in BOOLEAN
      /\ slave.rdata \in Values \cup {DEADC0DE}
      /\ master.awvalid \in BOOLEAN /\ master.wvalid \in BOOLEAN
      /\ master.bready \in BOOLEAN /\ master.rready \in BOOLEAN
      /\ master.arvalid \in BOOLEAN
  BY DEF AxiInv, OneResponse, AxiTypeOK, Signals
<1>1. Register \in Values \cup {DEADC0DE}
  BY RegisterTyped DEF AxiInv, OneResponse
<1>2. /\ slave.waiting_for_bready <=> slave.bvalid
      /\ slave.arready <=> ~slave.rvalid
  BY DEF AxiInv
<1>3. slave' = [bvalid |-> WriteChannel.bvalid,
                waiting_for_bready |-> WriteChannel.waiting_for_bready,
                arready |-> ReadChannel.arready,
                rvalid |-> ReadChannel.rvalid,
                rdata |-> ReadChannel.rdata]
  BY DEF AxiNext, axi_ctrl
<1>4. /\ WriteChannel.bvalid = ((slave.bvalid \/ write_fire) /\ ~Answers)
      /\ WriteChannel.waiting_for_bready =
             ((slave.waiting_for_bready \/ write_fire) /\ ~Answers)
      /\ ReadChannel.arready = ((slave.arready /\ ~ar_fire) \/ Returns)
      /\ ReadChannel.rvalid = ((slave.rvalid \/ ar_fire) /\ ~Returns)
      /\ ReadChannel.rdata = IF ar_fire THEN Register ELSE slave.rdata
  BY DEF WriteChannel, ReadChannel
<1>5. /\ slave'.bvalid = WriteChannel.bvalid
      /\ slave'.waiting_for_bready = WriteChannel.waiting_for_bready
      /\ slave'.arready = ReadChannel.arready
      /\ slave'.rvalid = ReadChannel.rvalid
      /\ slave'.rdata = ReadChannel.rdata
  BY <1>3
<1>6. /\ WriteChannel.bvalid \in BOOLEAN
      /\ WriteChannel.waiting_for_bready \in BOOLEAN
      /\ ReadChannel.arready \in BOOLEAN /\ ReadChannel.rvalid \in BOOLEAN
      /\ ReadChannel.rdata \in Values \cup {DEADC0DE}
  BY <1>0, <1>1, <1>4
<1>7. slave' \in [bvalid : BOOLEAN, waiting_for_bready : BOOLEAN,
                  arready : BOOLEAN, rvalid : BOOLEAN,
                  rdata : Values \cup {DEADC0DE}]
  BY <1>3, <1>6
<1>8. slave'.bvalid <=> (slave.bvalid \/ write_fire) /\ ~Answers
  BY <1>4, <1>5
<1>9. slave'.waiting_for_bready <=> slave'.bvalid
  BY <1>2, <1>4, <1>5
<1>10. slave'.rvalid <=> (slave.rvalid \/ ar_fire) /\ ~Returns
  BY <1>4, <1>5
<1>11. slave'.arready <=> ~slave'.rvalid
  BY <1>2, <1>4, <1>5 DEF ar_fire, Returns
<1>12. ~ar_fire => slave'.rdata = slave.rdata
  BY <1>4, <1>5
<1> QED BY <1>7, <1>8, <1>9, <1>10, <1>11, <1>12

LEMMA AxiInvNext ==
    ASSUME AxiInv, [AxiNext]_axiVars
    PROVE  AxiInv'
<1>1. CASE AxiNext
  <2>1. slave' \in [bvalid : BOOLEAN, waiting_for_bready : BOOLEAN,
                    arready : BOOLEAN, rvalid : BOOLEAN,
                    rdata : Values \cup {DEADC0DE}]
    BY <1>1, SlaveFields
  <2>2. /\ slave'.waiting_for_bready <=> slave'.bvalid
        /\ slave'.arready <=> ~slave'.rvalid
    BY <1>1, SlaveFields
  <2>3. /\ count.writes = One(slave.bvalid) /\ count.reads = One(slave.rvalid)
        /\ slave.waiting_for_bready <=> slave.bvalid
        /\ slave.arready <=> ~slave.rvalid
    BY DEF AxiInv, OneResponse
  <2>4. count' = [writes |-> count.writes + One(write_fire) - One(Answers),
                  reads  |-> count.reads + One(ar_fire) - One(Returns)]
    BY <1>1 DEF AxiNext
  <2>5. count'.writes = One(slave'.bvalid)
    <3>1. slave'.bvalid <=> (slave.bvalid \/ write_fire) /\ ~Answers
      BY <1>1, SlaveFields
    <3>2. write_fire => ~slave.bvalid
      BY <2>3 DEF write_fire
    <3>3. Answers => slave.bvalid
      BY DEF Answers
    <3> QED BY <2>3, <2>4, <3>1, <3>2, <3>3 DEF One
  <2>6. count'.reads = One(slave'.rvalid)
    <3>1. slave'.rvalid <=> (slave.rvalid \/ ar_fire) /\ ~Returns
      BY <1>1, SlaveFields
    <3>2. ar_fire => ~slave.rvalid
      BY <2>3 DEF ar_fire
    <3>3. Returns => slave.rvalid
      BY DEF Returns
    <3> QED BY <2>3, <2>4, <3>1, <3>2, <3>3 DEF One
  <2>7. count' \in [writes : Int, reads : Int]
    BY <2>3, <2>4 DEF One
  <2>8. master' \in Signals /\ status' \in Values
    BY <1>1 DEF AxiNext, Master
  <2> QED BY <2>1, <2>2, <2>5, <2>6, <2>7, <2>8
          DEF AxiInv, OneResponse, AxiTypeOK
<1>2. CASE UNCHANGED axiVars
  BY <1>2 DEF axiVars, AxiInv, OneResponse, AxiTypeOK
<1> QED BY <1>1, <1>2

(* Against any master that keeps the rules of the bus: axi_ctrl answers    *)
(* every access it takes exactly once and in turn, and a response that the *)
(* master has not taken stays up unchanged, the data of a read included,   *)
(* whatever the core does to the register meanwhile.                       *)
THEOREM AxiAnswersOnce == AxiSpec => OneStableResponse
<1> DEFINE Stable == /\ slave.bvalid /\ ~master.bready => slave'.bvalid
                     /\ slave.rvalid /\ ~master.rready =>
                            slave'.rvalid /\ slave'.rdata = slave.rdata
<1>1. AxiInv /\ [AxiNext]_axiVars => AxiInv'
  BY AxiInvNext
<1>2. AxiInv /\ [AxiNext]_axiVars => [OneResponse' /\ Stable]_axiVars
  <2> SUFFICES ASSUME AxiInv, AxiNext
               PROVE  OneResponse' /\ Stable
    OBVIOUS
  <2>1. OneResponse'
    BY AxiInvNext DEF AxiInv
  <2>2. slave.bvalid /\ ~master.bready => slave'.bvalid
    BY SlaveFields DEF Answers
  <2>3. slave.rvalid /\ ~master.rready =>
            slave'.rvalid /\ slave'.rdata = slave.rdata
    <3>1. slave.rvalid => ~ar_fire
      BY DEF AxiInv, ar_fire
    <3> QED BY <3>1, SlaveFields DEF Returns
  <2> QED BY <2>1, <2>2, <2>3
<1> QED BY <1>1, <1>2, AxiInvInit, PTL DEF AxiSpec, OneStableResponse
=============================================================================
