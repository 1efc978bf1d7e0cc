------------------------------ MODULE FabricBus ------------------------------
(***************************************************************************)
(* The synthesisable core of platforms/icicle-fabric: the bus adapter of   *)
(* rtl/merlin_core_picorv32.v between the PicoRV32 and the two memories    *)
(* (rtl/merlin_imem.v, merlin_dmem.v), as merlin_top.v wires them.  A step *)
(* is a rising edge of the clock: all registers change together, from the  *)
(* values they had before the edge.                                        *)
(*                                                                         *)
(* The outputs of axi_ctrl (run, soft reset, the two host write ports) are *)
(* inputs here.  A word is a function from byte lanes to bytes.  Addresses *)
(* are word indices inside a memory; the top nibble of the address is the  *)
(* space of a request.                                                     *)
(***************************************************************************)
EXTENDS Integers, FiniteSets

CONSTANTS
    Words,        \* word indices of each memory
    Lanes, Bytes, \* byte lanes of a word, and what a byte may be
    Issued,       \* the requests the program may make
    Uploads,      \* the writes to the memories the host may make
    DEADBEEF,     \* the sentinel, a word no program produces
    None          \* no request, no write

VARIABLES
    ctl,          \* axi_ctrl's registers: run, core_rst_n, write ports
    imem, dmem,   \* the memories
    imem_rdata, dmem_rdata,   \* their output registers
    core,         \* the registers of the adapter
    cpu,          \* the request PicoRV32 holds on its bus, or None
    trap          \* cpu_trap

busVars == <<ctl, imem, dmem, imem_rdata, dmem_rdata, core, cpu, trap>>

Word  == [Lanes -> Bytes]
Write == [word : Words, data : Word]
Ctl   == [run : BOOLEAN, rst_n : BOOLEAN,
          imem : Write \cup {None}, dmem : Write \cup {None}]

(* wstrb = {} is a read.  "none" is an address in no region.               *)
Request == [space : {"imem", "dmem", "halt", "none"}, word : Words,
            wstrb : SUBSET Lanes, data : Word]

Strobed == [wstrb : SUBSET Lanes, data : Word]

Core == [state : {"IDLE", "READ_DRIVE", "READ_LATCH", "DONE"},
         ready : BOOLEAN, rdata : Word \cup {DEADBEEF},
         imem_addr : Words, dmem_addr : Words,
         dmem_we : Strobed \cup {None},
         last : {"imem", "dmem", "none"},
         halted : BOOLEAN, exit_value : Word \cup {DEADBEEF}]

ASSUME BusAssumption ==
    /\ 0 \in Words /\ Bytes # {}
    /\ None \notin Request /\ None \notin Write /\ None \notin Strobed
    /\ Issued \subseteq Request
    /\ Uploads \subseteq [mem : {"imem", "dmem"}, write : Write]

TypeOK ==
    /\ ctl \in Ctl
    /\ imem \in [Words -> Word] /\ dmem \in [Words -> Word]
    /\ imem_rdata \in Word /\ dmem_rdata \in Word
    /\ core \in Core
    /\ cpu \in Request \cup {None}
    /\ trap \in BOOLEAN

ZeroWord == [l \in Lanes |-> CHOOSE b \in Bytes : TRUE]

CoreReset == [state |-> "IDLE", ready |-> FALSE, rdata |-> ZeroWord,
              imem_addr |-> 0, dmem_addr |-> 0, dmem_we |-> None,
              last |-> "none", halted |-> FALSE, exit_value |-> ZeroWord]

(* After the external reset.                                               *)
BusInit ==
    /\ ctl = [run |-> FALSE, rst_n |-> TRUE, imem |-> None, dmem |-> None]
    /\ imem = [w \in Words |-> ZeroWord] /\ dmem = [w \in Words |-> ZeroWord]
    /\ imem_rdata = ZeroWord /\ dmem_rdata = ZeroWord
    /\ core = CoreReset
    /\ cpu = None
    /\ trap = FALSE
-----------------------------------------------------------------------------
(* PicoRV32, seen from its bus: it holds a request until it is ready, then *)
(* has none for a cycle at least.  It may trap at any time (a misaligned   *)
(* store is on the bus when it does), and then makes no new request.       *)

(* Mutant: the CPU of a halted core goes on.                               *)
cpu_resetn_NotHalted == ctl.rst_n /\ ctl.run

cpu_resetn == ctl.rst_n /\ ctl.run /\ ~core.halted

PicoRV32 ==
    \/ /\ ~cpu_resetn
       /\ cpu' = None /\ trap' = FALSE
    \/ /\ cpu_resetn
       /\ trap' \in {trap, TRUE}
       /\ \/ cpu # None /\ ~core.ready /\ cpu' = cpu
          \/ cpu # None /\ core.ready /\ cpu' = None
          \/ cpu = None /\ trap /\ cpu' = None
          \/ cpu = None /\ ~trap /\ cpu' \in Issued \cup {None}
-----------------------------------------------------------------------------
(* The memories: a registered read of the old contents, and on the data    *)
(* memory the host's write before the core's.                              *)

Merge(old, w) == [l \in Lanes |-> IF l \in w.wstrb THEN w.data[l] ELSE old[l]]

merlin_imem ==
    /\ imem' = IF ctl.imem = None THEN imem
               ELSE [imem EXCEPT ![ctl.imem.word] = ctl.imem.data]
    /\ imem_rdata' = imem[core.imem_addr]

(* Mutant: the byte strobes are ignored.                                   *)
merlin_dmem_WholeWord ==
    /\ dmem' = IF ctl.dmem # None
               THEN [dmem EXCEPT ![ctl.dmem.word] = ctl.dmem.data]
               ELSE IF core.dmem_we # None
               THEN [dmem EXCEPT ![core.dmem_addr] = core.dmem_we.data]
               ELSE dmem
    /\ dmem_rdata' = dmem[core.dmem_addr]

merlin_dmem ==
    /\ dmem' = IF ctl.dmem # None
               THEN [dmem EXCEPT ![ctl.dmem.word] = ctl.dmem.data]
               ELSE IF core.dmem_we # None
               THEN [dmem EXCEPT ![core.dmem_addr] = Merge(@, core.dmem_we)]
               ELSE dmem
    /\ dmem_rdata' = dmem[core.dmem_addr]

-----------------------------------------------------------------------------
(* The adapter.  Quiet is the default of each cycle.                       *)

Quiet == [core EXCEPT !.ready = FALSE, !.dmem_we = None]

Accepts == core.state = "IDLE" /\ cpu # None /\ ~core.ready

AcceptWrite ==
    LET acked == [Quiet EXCEPT !.ready = TRUE, !.state = "DONE"]
    IN  CASE cpu.space = "dmem" ->
                [acked EXCEPT !.dmem_addr = cpu.word,
                              !.dmem_we = [wstrb |-> cpu.wstrb,
                                           data |-> cpu.data]]
          [] cpu.space = "halt" ->
                [acked EXCEPT !.halted = TRUE, !.exit_value = cpu.data]
          [] OTHER -> acked

AcceptRead ==
    [Quiet EXCEPT
        !.state = "READ_DRIVE",
        !.last = IF cpu.space \in {"imem", "dmem"} THEN cpu.space ELSE "none",
        !.imem_addr = IF cpu.space = "imem" THEN cpu.word ELSE @,
        !.dmem_addr = IF cpu.space = "dmem" THEN cpu.word ELSE @]

(* Mutant: a read outside the memories latches nothing.                    *)
ReadLatch_Undriven ==
    [Quiet EXCEPT
        !.rdata = CASE core.last = "imem" -> imem_rdata
                    [] core.last = "dmem" -> dmem_rdata
                    [] OTHER -> None,
        !.ready = TRUE,
        !.state = "DONE"]

ReadLatch ==
    [Quiet EXCEPT
        !.rdata = CASE core.last = "imem" -> imem_rdata
                    [] core.last = "dmem" -> dmem_rdata
                    [] OTHER -> DEADBEEF,
        !.ready = TRUE,
        !.state = "DONE"]

(* Mutant: the read is latched a cycle early.                              *)
BusStep_NoWait ==
    CASE Accepts /\ cpu.wstrb # {} -> AcceptWrite
      [] Accepts /\ cpu.wstrb = {} -> AcceptRead
      [] core.state = "READ_DRIVE" -> ReadLatch
      [] core.state = "DONE" -> [Quiet EXCEPT !.state = "IDLE"]
      [] OTHER -> Quiet

(* Mutant: the state machine does not leave DONE.                          *)
BusStep_Stuck ==
    CASE Accepts /\ cpu.wstrb # {} -> AcceptWrite
      [] Accepts /\ cpu.wstrb = {} -> AcceptRead
      [] core.state = "READ_DRIVE" -> [Quiet EXCEPT !.state = "READ_LATCH"]
      [] core.state = "READ_LATCH" -> ReadLatch
      [] OTHER -> Quiet

BusStep ==
    CASE Accepts /\ cpu.wstrb # {} -> AcceptWrite
      [] Accepts /\ cpu.wstrb = {} -> AcceptRead
      [] core.state = "READ_DRIVE" -> [Quiet EXCEPT !.state = "READ_LATCH"]
      [] core.state = "READ_LATCH" -> ReadLatch
      [] core.state = "DONE" -> [Quiet EXCEPT !.state = "IDLE"]
      [] OTHER -> Quiet

(* Mutant: the trap of a core that has halted is taken too.                *)
Trapped_Again(c) == IF trap
                    THEN [c EXCEPT !.halted = TRUE, !.exit_value = DEADBEEF]
                    ELSE c

(* A trap halts the core with a sentinel, unless it is halted already.     *)
Trapped(c) == IF trap /\ ~core.halted
              THEN [c EXCEPT !.halted = TRUE, !.exit_value = DEADBEEF]
              ELSE c

(* What the registers become at an edge that leaves rst_n alone.           *)
Clocked ==
    IF ~ctl.rst_n THEN CoreReset
    ELSE IF ~ctl.run THEN [Quiet EXCEPT !.state = "IDLE", !.halted = FALSE]
    ELSE Trapped(BusStep)

(* The reset is asynchronous: when the edge drops rst_n the registers are  *)
(* cleared at once.                                                        *)
merlin_core == core' = IF ~ctl'.rst_n THEN CoreReset ELSE Clocked

(* The edge of the clock for everything behind axi_ctrl.                   *)
Edge == PicoRV32 /\ merlin_imem /\ merlin_dmem /\ merlin_core
-----------------------------------------------------------------------------
(* The host side left open: axi_ctrl takes at most one register write per  *)
(* edge, which sets run and reset or pulses one write port.  The host      *)
(* writes a memory only while the CPU is held in reset; FabricTop has the  *)
(* host that decides whether this is so.                                   *)
Unpulsed == [ctl EXCEPT !.imem = None, !.dmem = None]

Inputs ==
    \/ \E r, n \in BOOLEAN : ctl' = [Unpulsed EXCEPT !.run = r, !.rst_n = n]
    \/ \E u \in Uploads :
           \/ u.mem = "imem" /\ ctl' = [Unpulsed EXCEPT !.imem = u.write]
           \/ u.mem = "dmem" /\ ctl' = [Unpulsed EXCEPT !.dmem = u.write]

HostWrites == ctl.imem # None \/ ctl.dmem # None

Clock ==
    /\ Inputs
    /\ Edge
    /\ HostWrites' => ~cpu_resetn'

Spec == BusInit /\ [][Clock]_busVars
-----------------------------------------------------------------------------
(* Properties.                                                             *)

Reads(space)  == cpu # None /\ cpu.wstrb = {} /\ cpu.space = space
Writes(space) == cpu # None /\ cpu.wstrb # {} /\ cpu.space = space

(* A read is answered with the word it asked for: the adapter samples the  *)
(* output register of the right memory in the cycle in which it holds the  *)
(* right word, resets and restarts in the middle of a read included.       *)
ReadsCurrent ==
    /\ TypeOK
    /\ cpu_resetn /\ core.ready =>
           /\ Reads("imem") => core.rdata = imem[cpu.word]
           /\ Reads("dmem") => core.rdata = dmem[cpu.word]

(* The data memory is what the bus says: an acknowledged write of the CPU  *)
(* has taken place, with its byte strobes, and apart from the host's       *)
(* writes nothing else changes the memory.                                 *)
DmemFollowsBus == [][
    /\ cpu_resetn /\ core.ready /\ Writes("dmem") =>
           dmem' = [dmem EXCEPT ![cpu.word] = Merge(@, cpu)]
    /\ dmem' # dmem => ctl.dmem # None \/ (core.ready /\ Writes("dmem"))]_busVars

(* The exit value the host reads is the one of the first halt of the run.  *)
ExitHeld == [][core.halted /\ core'.halted =>
    core'.exit_value = core.exit_value]_busVars

(* A request is answered, unless the CPU is put in reset.                  *)
RequestAnswered == cpu # None ~> (core.ready \/ ~cpu_resetn)
=============================================================================
