# A TLA+ verification of MERLIN-V

MERLIN-V runs small verified RISC-V programs inside a Linux kernel module, in a
Zephyr firmware, or on a soft core in an FPGA, and comes with tools that verify,
sign, attest, confine and transact on them.  This directory models the parts of
it that keep state or decide something, checks them with TLC on small instances,
and proves the central results for all instances with TLAPS.

## The system and what models it

| Part | Source | Modules |
|---|---|---|
| Program objects in the kernel: reference count, id registry, file, deferred free, ioctl commands | `kernel/merlin/core.c`, `syscall.c` | `ProgLifecycle`, `ProgInvariant`, `ProgLifecycleProofs`, `MCPrograms` |
| The load pipeline and its unwinding, with the two kernel JIT backends | `kernel/merlin/loader.c`, `jit/` | `ProgLoad`, `MCPrograms` |
| Map store and batch transactions | `tools/merlin-txn` | `TxnStore`, `TxnAtomic`, `TxnStoreProofs`, `MCTxnStore` |
| Program slots of the Zephyr runtime | `zephyr/merlin/src/runtime.c`, `loader.c` | `ZephyrRuntime`, `NodeProofs`, `MCPrograms` |
| User-space verifier: decoder, tracked numbers, control-flow graph, worklist; the tool around it | `tools/merlin-verifier` | `Insn`, `Decode`, `Words`, `Tnum`, `AdmissionProofs`, `Cfg`, `Verify`, `VerifySystem`, `MCVerify` |
| The kernel's port of the same | `kernel/merlin/decode.c`, `include/merlin_tnum.h`, `cfg.c`, `verifier.c` | `KDecode`, `KTnum`, `KCfg`, `KVerify` |
| Zephyr's verifier and decoder, helper registry | `zephyr/merlin/src/verifier.c`, `decode.c`, `dispatch.c`, `helpers_sample.c` | `ZVerify`, `ZDispatch` |
| Translators to x86_64, kernel helper table | `tools/merlin-jit-x86_64`, `kernel/merlin/jit/arch/x86_64.c`, `kernel/merlin/dispatch.c` | `Jit`, `KJit` |
| What the verified programs run on | external | `Hart`, `Values`, `X86` |
| Namespaces | `tools/merlin-ns` | `Namespace`, `AdmissionProofs`, `MCControlPlane` |
| Signing and the object tool | `tools/merlin-sign`, `tools/merlin-objtool` | `ObjectFile`, `Sign`, `SignProofs`, `MCControlPlane` |
| Attestation | `tools/merlin-attest` | `Attest`, `NodeProofs`, `MCControlPlane` |
| Fabric: PicoRV32 adapter and memories | `platforms/icicle-fabric/rtl/merlin_core_picorv32.v`, `merlin_imem.v`, `merlin_dmem.v` | `FabricBus`, `FabricProofs`, `MCFabricBus` |
| Fabric: registers and the host tool on top of the core | `rtl/axi_ctrl.v`, `rtl/merlin_top.v`, `host/merlin-fabric-load.c` | `FabricTop`, `FabricProofs`, `MCFabricTop` |
| Fabric: AXI-Lite handshake | `rtl/axi_ctrl.v` | `FabricAxi`, `FabricProofs`, `MCFabricTop` |

`LoopInduction` has the lemmas about loops that several of the proofs use.

`ProgLoad` and `ProgLifecycle` meet: a load is one command of `ProgLifecycle`,
which shows the other tasks only a few of its steps, and `ProgLoad` has the
property `ImplementsLifecycle`, the refinement that says those steps are all
there is to see.  `TxnStore` implements `TxnAtomic` in the same way.  `FabricTop`
extends `FabricBus`: it replaces the host that `FabricBus` leaves open, and assumes
to write only in reset, by the tool of the repository, and asks whether the tool
keeps that assumption.  `VerifySystem` puts the three verifiers, the two
translators, the two helper tables and a hart over the same programs.
`MCPrograms`, `MCControlPlane` and `MCFabricTop` put models that share no variable into one run:
one moves while the others are in their initial state, so every behaviour of each
is there and no product of their states is.  `MCPrograms` has `ProgLifecycle` twice:
`Fair` is a smaller copy, with fairness and with descriptors that may run out.

### ProgLifecycle

A program object is used for a single allocation, so that touching it after
`kfree` shows as touching an object whose `mem` is `"freed"`.  `refs` is
`prog->refs` with the saturation of `refcount_t`; `idr` is `merlin_prog_idr`,
`id` is `prog->id`; `fdt`, `frefs`, `fstate` are the descriptor table and the
program's file; `work` is `prog->work_free`.  Each task has a program counter and
the pointer it works on.  A section under `merlin_idr_lock` is one step.  Between
two shared accesses any other task, `close(2)`, `dup(2)`, the release callback or
the workqueue may run.  An in-kernel user of the exported
`merlin_prog_get_by_id` is a task of `KernelTasks`.  The file layer and
`refcount_t` are outside the repository and modelled from their use.

### ProgLoad

One call of `merlin_prog_load`: which allocations are live, the return code, the
registry entry.  What the ELF contains is reduced to the outcome of each test.
The steps follow the code line by line, the `goto` labels included.  A return code
is the name of the errno, `"0"`, or `"1"`, which some emitters of the x86_64 backend
return when their buffer cannot grow.

### TxnStore and TxnAtomic

A map is an array of slots with a count, as in `store.c`; every function of the
API is one step, because the prototype is single-threaded.  `TxnAtomic` is what
a client sees: maps are partial functions with a capacity, and a commit is one step
that applies the operations up to the first that cannot be applied.

### ZephyrRuntime

Sections under `prog_mutex` are steps; everything the code does outside it
(install, uninstall, the checks of run and unload) is split at each access to a
slot.  `known` is the set of handles a thread may use.  `Sharing` says whether a
thread may look up programs that other threads loaded.

### The verifiers

An instruction word is a record of its six fields, which `Word` and the immediates
of `Decode` put together again where the code does; a text is a function from
instruction numbers.  `Words` has integers of `W` bits, signed and unsigned, and
words as sets of bits; `Tnum` has the tracked numbers and the intervals of `tnum.h`
with the same overflow tests.  `Cfg` builds leaders, blocks, edges, the order of
the blocks, dominators and back edges by the loops of the code.  `Verify` has the
register state, the join, one operator per case of `step_insn`, and, as actions,
set-up (which may fail for lack of memory), one visit of a block per step, and the
gate over the back edges at the end.  `KDecode`, `KTnum`, `KCfg`, `KVerify` are
written from the kernel's files in the same way, not derived from the others: that
the two agree is a property (`PortsAgree`), with the exceptions listed below.
`ZVerify` is a single pass and so a function of the text.

Constants that are large in the code are parameters: the width of a word, the
number of blocks, the step cap, the width at which a pointer window counts as wide.
The registers are those the programs use.

`VerifySystem` has the walk of `merlin-verifier` over the sections of an object, with
its counters and exit status.  Each program section goes through the user-space
verifier, then as `loader.c` passes it (with text offset 0) through the kernel's, and
through Zephyr's.  What any of them accepts is run by `Hart`, one instruction per step.
A value is a number or a pointer with an offset (`Values`), so that "outside the frame"
has a meaning; a register that was not written, or that a call has clobbered, is `undef`
and may hold anything.  Every branch goes either way.  A load, and an operation that the
analyses do not follow, yields any number of `Outcomes`.  A helper returns a pointer
marked with its id in `a0`, the helper for callbacks a number, and the one that resolves
kfuncs a slot; when `a7` is no known number, the id is any of `Outcomes`.  A jump
through a register goes to the instruction after the one that linked it, so that a
program may call a part of itself and return; through a kfunc slot it calls the kfunc,
which returns to `ra`; anything else leaves the text, as does the return to the caller
of the program.  `resumed` remembers that a jump through a register has come back into
the text.  The image that `Jit` makes of the text runs beside it on `X86`, whose
instructions are those the emitters emit, under their names: pushes and pops, the frame
of 32 registers, moves through rax and rcx, calls.

The model was compared with the code itself: the C files of the three verifiers were
compiled and run on 9600 random texts of the kinds of `MCVerify` and their
verdicts were those of the model.

### Sign and ObjectFile

An object is its sections in header order; a digest is the sequence of words that
was hashed, a signature a key and a digest.  `ObjectFile` has the functions of
`sig.c` and of the object tool that read or make an object, `Sign` the commands
that run on files: hashing the input, reading it again, emptying the output and
writing it are four steps, and between any two of them other commands and the
compiler run, or the command is killed or fails.  One writer per file at a time is
assumed.

### Attest

The three files of the host (`priv`, `pub`, `seq`), each absent, empty or holding
something; one command at a time, one step per file operation, which may be killed
at each and whose writes may be lost, since the code looks at the result of neither
`fclose` nor `merlin_mak_seq_write`.  `lost` is a history variable: an update of the
counter did not reach the file.  The controller copies the public key once, sends
nonces, and verifies any quote that was ever written, in any order.

### Namespace

A file holds nothing, a configuration, or a truncated one.  `lineage` is a history
variable: the configurations a file was derived from.

### The fabric modules

A step is a rising edge of the clock, and every register takes its new value from
the old values of the others, as nonblocking assignments do; the soft reset acts
at once, because it is asynchronous.  In `FabricBus`, `core` holds the registers of
the bus adapter, `imem_rdata` and `dmem_rdata` the output registers of the memories
(a read is of the contents before the edge), `ctl` what `axi_ctrl` drives.  Of the
PicoRV32 only the memory port is modelled: it holds a request until it is ready,
pauses for a cycle, and may trap at any time.  Which requests it makes is open, so
the properties are of every program.  Requests lie inside the memories; what a read
beyond their end returns is undefined in the code.

`FabricTop` has the tool's accesses one per edge with any number of idle edges
between them.  A word is uploaded as a whole: the packing of four bytes, and the
up to three bytes at the end of a text that `upload_text` does not send, are left
out.  A run may time out and the tool may be killed at any access; `abandoned`
remembers that a program was left running.
`FabricAxi` justifies "one access, one effect" with the handshake itself, for any
master that keeps a valid signal up until it is taken.

## Runs

| Run | Checks | Result |
|---|---|---|
| `programs` | kernel objects: `TypeOK`, `NoUseAfterFree`, `RefsExact`, `RegistryExact`, `NoResurrection`, `FairReclaimed`; kernel load: `NoLeakNoDoubleFree`, `VerifiedThenPublished`, `ImplementsLifecycle`; Zephyr: `TextOutlivesRun`, `HandleStable`, `TextOwned` | hold; on Zephyr when threads keep to their own programs |
| `prog_fd_failure` | `RefConsumedOnce` | violated: the reference of a load is put twice when no descriptor can be had |
| `load_result` | `FdMeansLoaded` | violated: a load that runs out of memory in the x86_64 translator returns 1, which reads as a descriptor |
| `txn_store` | `MapsConsistent`, `ImplementsAtomic` | hold |
| `txn_partial` | `AtomicOrNone` | violated: a failed commit leaves its first operations |
| `zephyr_shared` | `TextOutlivesRun` | violated when they do not: the run path takes no mutex |
| `verifier` | the tool: `ExitStatus`; the analysis: `FixtureVerdicts`, `DominatorsRight`, `FixpointReached`, `AcceptedLoopsGated`, `DomainSound`; what is accepted: `AbstractCovers`, `StackInFrame`, `CallsAllowed`, `ZephyrSound`; what is translated: `JitAgrees`; the kernel's ports: `PortsAgree` | hold, with the exceptions stated in the properties |
| `verifier_loops` | `LoopsBounded` | violated: the kernel's verifier accepts a loop through the first instruction, and a loop with two entry blocks, without a bound |
| `helper_ids` | `HelperIdConstant` | violated: `a7` need be written on one path to an `ecall` only |
| `control_plane` | namespaces: `NarrowOnly`; signing: `SignedVerifies`, `SigningKeeps`; attestation: `QuotesVerify`, `NumbersRise` | hold; `NumbersRise` as long as the updates of the counter reach its file |
| `fabric_bus` | `ReadsCurrent`, `DmemFollowsBus`, `ExitHeld` | hold for any program and any host that writes the memories only in reset |
| `fabric_top` | `ResultOfRun`, `HostWritesInReset`, `MemoriesLoaded`, `RequestAnswered`; the handshake: `OneStableResponse`, `AccessCompletes` | hold; `HostWritesInReset` and the packet half of `MemoriesLoaded` unless the run before was given up |

The type invariant of each model is a conjunct of one of its properties
(`NoLeakNoDoubleFree`, `TextOwned`, `MapsConsistent`, `FixpointReached`, `NarrowOnly`,
`SignedVerifies`, `ReadsCurrent`, `ResultOfRun`, `OneStableResponse`); that of
`ProgLifecycle` is checked by itself.  All but those of `ProgLoad` and of the verifiers are
also proved.

`AbstractCovers` is the centre of `verifier`: the state that the analysis computed for a
block covers every state in which the hart enters it, on every path. `FixpointReached`
says that this does not depend on the order of visits, `DominatorsRight` and
`AcceptedLoopsGated` compare the dominator sweeps and the loop gate with the definitions
of dominance and of a loop over all sets of blocks.  For both verifiers the loops are
those of the text, all direct edges included, and not of the graph that the verifier
made of it.

What is said of a running program has two exceptions, each written in the property and
each met by programs of the run.  *Unwritten registers*: in `rval_join` a register that
one path has not written takes the other path's state, so `AbstractCovers`,
`StackInFrame` and `CallsAllowed` speak of registers that the program has written on the
path it took.  *Returns into the text*: the graphs have no edge for a jump through a
register, and the code after a linking `jal` is analysed as if the jump had not been
made, so these properties, the first half of `ZephyrSound` and `JitAgrees` speak of a
program until `resumed`.  `HelperIdConstant` states the documented property without
either, and the run `helper_ids` refutes it.

**Bounds.**  For kernel objects `programs` has three programs over two ids, so that ids
run out and are reused, three descriptors of which one is foreign, two user tasks and
one in-kernel task: enough for a lookup, a close and a free of the same program to
overlap while an id changes hands.  The copy under fairness has two tasks, programs and
descriptors, the kernel load is a single call and exhaustive, and the Zephyr part has
more threads than slots, and `MaxLoads` below `IdMod`, so that slots are reused and ids
are not: the wrap of the 32-bit id is out of scope. `txn_store` has more keys than
slots, so maps overflow, and one map that may be destroyed under an open transaction.
`verifier` has the fixtures of `bad-progs/run.sh` and every sequence of three to five
words out of families made to meet each other: branches forward and backward (loops in
loops, loops with two entries, loops of one block), stack pointer arithmetic with
accesses at both ends of the frame, a frame and a register carried round a bounded loop,
calls of a part of the text, assignments that a branch skips, calls with constant and
joined arguments, arithmetic through every translated operation, and one word of every
opcode with every minor opcode; an execution has at most ten instructions; words of 14
bits hold every address and constant of these programs and still wrap; six blocks and a
step cap of 40 are both exceeded by some of them.  `control_plane` has for namespaces
one id beyond the end of the bitset, quotas up to 2 with sums modulo 4, and chains of
two derivations; two files, two signers and two commands at once, objects with several
text sections and with sections out of the canonical order; two key pairs, so that one
can be thrown away half-written, two nonces and three quotes.  `fabric_bus` has two
words of two byte lanes, which tell a right address and strobe from a wrong one; stores
write ones and the host clears.  `fabric_top` has one lane, a text and two packets of
two words, and any number of invocations.

**Deadlock** is checked except where the system stops by itself: in
`programs` the load returns and the Zephyr threads end with their bound, and
`control_plane` ends with its bounds.

**Symmetry** is used over programs (with text buffers), descriptors and user tasks
(`programs`), keys, values and transactions (`txn_store`, `txn_partial`), and paths,
files, signers and commands (`control_plane`): the models tell their members apart by
identity only.  The liveness property of `programs` is about `Fair` alone, which moves
only while everything else is in its initial state, has model values of its own, and
none of them is permuted: on the behaviours it speaks of, the symmetry is the identity.

**Fairness.**  `programs`, for `Fair`: weak fairness of each task inside a command
(a command has no loop and a program that the verifier accepted returns), and of
the release callback and the work item of each program (the file layer and the
workqueue run what was queued).  Nothing obliges user space to issue commands or
close descriptors.  There is no in-kernel user in this copy: one that looks the
program up again and again may keep it alive.  `fabric_top`: the clock goes on,
stated for the edges at which the tool makes no access and the CPU does not
trap (`QuietEdge`), so that neither has to help; `MCFabricTop` writes the condition
under which such an edge changes something out, which TLC evaluates faster than
`ENABLED`.  For the handshake: the clock goes on, and the master
does not refuse a response forever, which the bus requires of it.

## What modelling met

The six runs that end in a violation are in `PROJECT.json` with the lines they
contradict.  Other disagreements and peculiarities are recorded here without a run.

* `merlin-fabric-load` uploads before its soft reset, the other way round than
  `rtl/README.md` line 48 has it, which is why two properties of `fabric_top` except
  runs after one that was given up.  The branch `!run` of `merlin_core_picorv32.v`
  clears `halted` (line 176) under a comment that says it does not (line 171).
* `merlin-ns create --inherit` stores a flag that nothing reads, while
  `namespace.h` line 86 says the child inherits the parent's permission sets.
* Decoders: the kernel's `imm_i` is not sign-extended; the decoders differ on
  fences with a minor opcode of 2 or more, atomics, the upper bits of `funct7`
  and the W forms.  `PortsAgree` is about words they read alike.
* Graphs: with text offset 0, which is what the kernel's loader passes, edges to
  instruction 0 are dropped (`verifier_loops`; the other properties take the kernel's
  verdict on texts that have none); misaligned targets drop edges in both;
  `MERLIN_CFG_MAX_EDGES` cannot be reached.
* Transfer functions: the default case overwrites the stack pointer without rejecting;
  what a callee does is not carried through `jal`, nor is the return through `ra`
  tracked; a register that is not written is the bottom of the domain, so that a
  helper id, a callback, a base of an access or a target may be anything on the path
  that skips its assignment; the immediate of a `jalr` is not looked at; the index of
  a callback is in the unsigned range [0, 0] whatever the signed one says, which
  `AbstractCovers` exempts.  Ascending chains of intervals end at the step cap, with a
  rejection.
* Zephyr's pass allows a jump to itself, looks at no `jalr` and is not sensitive to
  flow, so `ZephyrSound` excepts such jumps, what follows a return into the text and,
  for helper ids, texts with jumps; it lets `addi` write x0.
* Translators: `mulw` is decoded as `mul` and multiplies 64 bits; every `jalr` becomes
  the epilogue, the call of a kfunc that the verifier let through included; the
  kernel's translator emits nothing for branches, `jal`, loads and stores, and zero
  for operations it does not translate.  `JitAgrees` is about the programs for which
  the translation claims to be one.
* The static array `rpo_of` of the kernel's `cfg_compute_dominators` is shared by
  loads that run at the same time.
* Attestation: an update of `mak.seq` that does not reach the file restarts or
  repeats the numbers, while `attestation.h` line 22 calls them monotonically
  increasing; a kill between emptying and writing `mak.pub.pem` leaves a host that
  never generates another pair and cannot quote; two first commands at once may mix
  their pairs (`mak.h` line 42 leaves that to the caller).
* Signing in place empties the file before it writes it; the header it writes is
  always little-endian.  The comment at `merlin-objtool.c` line 611 gives the signed
  sections in another order than both tools hash them in.

## What is proved

The theorems hold for every value of the constants that satisfies the named
assumption of the module.  `PROJECT.json` lists them.  Most of them are of the form
`Spec => []P` for a property `P` of a run; the inductive invariant that each
rests on is given below.

**Loops and words: induction.** What a loop of the code computes is a recursive function in
the model.  The provers cannot use an induction rule with a formula as its
parameter, so `LoopInduction` states induction with a set: `UpTo` (a set that
holds 0 and, with each number below a bound, the next, holds all up to the bound),
`LeastElement` (what a linear search finds), and `LoopRuns` (a loop over
`0 .. N` has a run: the recursive function exists and satisfies its equation).  They come from
the well-foundedness of the natural numbers.

**Program objects.** `ProgInvariant` and `ProgLifecycleProofs`, for every set of tasks,
programs, descriptors and ids, from `LifecycleAssumption` and `~FdFailure`:

* `TypeCorrect`, `RefCountCorrect`, `MemorySafe`, `RegistryCorrect`: `Spec`
  implies that `TypeOK`, `RefsExact`, `NoUseAfterFree`, `RegistryExact` always hold;
* `NeverRevived`: `Spec` implies `NoResurrection`.

None of these is inductive alone.  `IInv` adds what the code relies on silently:
the file's own reference count is the number of descriptor slots plus the tasks
between `fget` and `fput`; a task between them implies an open file; a program
whose free is under way has no owner; an object that is being built is known to
its builder only.  The counting is by cardinality of the sets of owners; the
lemmas `HoldersChange`, `FileTasksChange` and `FdsChange` say how a step moves
them, and one lemma per action does the rest.  `ProgInvariant` has `IInv`, these
lemmas and the steps of the loader; `ProgLifecycleProofs` the other steps and the
theorems.  `~FdFailure` is needed: with it
false the double put breaks `RefsExact`, which is what `prog_fd_failure` shows.

**Map transactions.** `TxnStoreProofs`, for any number of maps, slots, keys, values,
transactions and staged operations, from `StoreAssumption` (the mark of an unused slot is not
an entry, and a map has at least one slot):

* `MapsStayConsistent`: `Spec` implies that `MapsConsistent` always holds;
* `StoreImplementsAtomic`: `Spec` implies `ImplementsAtomic`, the refinement of `TxnAtomic`.

For one map, `Represents` relates an array of slots to the function it stands for, and
the lemmas about `map_insert`, `map_update`, `map_delete` and the other operations
(`MapOpCorrect`) say that each returns the code and makes the array that the abstract
operation calls for (`Correct`): an update needs a free slot only for a new key, and the
count, from which the code decides that a map is full, is the number of used slots.  The
commit loop is then an induction over the operations applied so far, and every action of
the store maps to a step of `TxnAtomic` or to none.

**Tracked numbers and intervals.** `AdmissionProofs`, for words of any width, from
`WidthAssumption`:

* `ArithmeticSound`: `tnum_add` and `tnum_sub` contain the sum and the difference of any two
  words that their operands contain;
* `ScalarAddSound`: `scalar_add` contains the machine sum of any two words that its
  operands contain, in the signed range, the unsigned range and the known bits;
* `JoinSound`, `BitwiseSound`: joins, bitwise operations and shifts lose nothing;
* `OperationsKeepForm`: a bit is never both known and unknown, which the others assume of
  their operands.

The ranges are by cases on which of the four overflow tests fire.  The carries are an
induction over the bits.  `Low(A, i)` is the number that the bits of `A` below `i` make;
`SumBit` and `DiffBit` say when bit `i` of a sum or a difference is set, from `Low` of
the operands, and `SumLow` and `DiffLow` what `Low` of the result is.  In a word of a
tracked number `Low` lies between that of the known ones and that of all bits that may
be set (`LowIn`), and a bit outside the mask that `tnum_add` computes has the same carry
into it at both ends (`SameCarry`; `SameBorrow` for `tnum_sub`).  `KernelDomainSame`
carries `scalar_add` and `scalar_join` over to the kernel's copy.

**Namespaces.** `AdmissionProofs`, for any files, ids, quotas, word size and
chains of any length:

* `ChainsNarrow`: `Spec` implies that `NarrowOnly` always holds.

The invariant `NInv` replaces the quantification over programs by an order on
configurations, `Narrower`, in which 0 is above every other quota; the order is
transitive, a composition that is not refused is below both its parts, and
`merlin_ns_check` is monotone in it, also where the sum of usage and request wraps.

**Signing.** `SignProofs`, for any files, keys, commands and objects with any number of
sections in any order, from `SignAssumption` (what the compiler writes has no signature
section):

* `SignedStaysVerified`, `SigningKeepsTag`: `SignSpec` implies that `SignedVerifies`
  always holds, and `SigningKeeps`.

The first half is about one object: by induction over its sections, what
`merlin_sig_embed` copies is every section but an old signature and the name table, so
each section that is looked up is found with the contents it had, and the signed region
of the output is that of the input.  The second half is about commands beside each
other.  `SignInv` adds to the property what a command in the middle knows: its signature
is of its input as long as nobody has written that since, then of the copy in its
memory; the file it is writing is empty; and no two commands write one file.

**Attestation.** `NodeProofs`, for any set of keys and nonces and any number of
quotes, from `AttestAssumption`:

* `PairsMatch`, `QuotesStayValid`, `QuoteNumbersRise`: `MakSpec` implies that
  `KeysMatch` (the first conjunct of `QuotesVerify`) and `QuotesVerify` always hold, and
  `NumbersRise`.

The inductive invariant `MakInv` adds `PairInv` (what the files hold at each point
of the key generation, and that an unused key is nowhere) and `NumberInv` (all numbers
released or accepted are at most `Bound`, which is the number on file, or
the one before the number of the quote being made).

**The Zephyr slots.** `NodeProofs`, for any number of threads, slots and
text buffers, from `RuntimeAssumption`, `~Sharing` (no thread looks up a program that another
one loaded) and `MaxLoads < IdMod` (the ids do not wrap):

* `RunsKeepTheirText`, `HandlesStayValid`, `TextNeverLeaks`: `RuntimeSpec` implies that
  `TextOutlivesRun`, `HandleStable` and `TextOwned` always hold.

`prog_mutex` protects the search for a slot and its release only.  The inductive
invariant `RInv` says why that is enough.  `OwnInv`: a slot that is being installed or
uninstalled belongs to one thread, and a slot in a handle to the one thread that has it.
`PhaseInv`: what the slot holds at each point of an install and an uninstall.
`TextInv`: no two slots share a text, and a live buffer is in some slot.  `HandleInv`:
the slot of a handle has the handle's id and a live text.  `IdInv` and `CountInv`: ids
given out are `1 .. Given`, and `Given` and any `n` loads on their way to an id make at
most the number of loads, so that the next id is new.  Both extra assumptions are
needed: `zephyr_shared` has the counterexample with `Sharing`, and after a wrap a
thread's lookup of its own id may find the program of another.

**The fabric.** `FabricProofs`, for memories and words of any size, any
program, any packets and any uploads.

* The bus, from `BusAssumption`.  `BusReadsCurrent`, `BusDmemFollows`, `BusExitHeld`:
  `Spec` implies that `ReadsCurrent` always holds, `DmemFollowsBus` and `ExitHeld`.
* The host tool on the same core, from `TopAssumption`.  `TopResultOfRun`,
  `TopHostWritesInReset`: `TopSpec` implies that `ResultOfRun` and `HostWritesInReset`
  always hold.  `TopMemoriesLoaded`: `TopSpec` implies `MemoriesLoaded` for texts and
  packets that fit the memories; the tool does not look at the size of its files,
  and a larger upload runs over the end.
* The handshake, from `AxiAssumption`.  `AxiAnswersOnce`: `AxiSpec` implies
  `OneStableResponse`.

The registers of the adapter are first reduced to six kinds of edge (`Stores`,
`Fetches`, `Drives`, `Latches`, `Rests` after an answer or while idle, and `Rests` in
reset).  The invariant `BInv` then has the handshake with the CPU (`ShakeInv`: the
adapter leaves `IDLE` only for a request that the CPU goes on holding, unless the core
halts under it, and a halted core accepts nothing), the pipeline of a read (`ReadInv`)
and the write port (`WriteInv`).  That the host writes only in reset (`PortInv`) is a
condition of `Clock`; `HostWritesInReset` is about the host that keeps it.  `TopInv`
says for each point of the tool what it has written so far, that the core is at rest in
every phase that uploads unless a run was given up, and that `halted` was clear when the
core was started.  `TextInv` and `PacketInv` are the loop invariants of the two uploads:
with the write under way counted in, the memory holds the first `host.i` words.
`AxiInv` counts the accesses taken and not answered.

**Only model-checked.**  Liveness (`ReclaimedWithoutFile`, as `FairReclaimed`,
`RequestAnswered`, `AccessCompletes`), which is out of the prover's reach.  The
properties of `ProgLoad`, one call over a fixed set of outcomes: the states of its
instance are all the states there are.  The properties of the verifiers and translators
other than the scalar domain: they compare recursive analyses of a text with the runs of
a hart, and their modules use recursive operators, which the prover does not accept.

Each inductive invariant was also checked by TLC on the instance of the module's run,
`CountInv` with the cardinality of the set of pending threads in the place of its
distinct threads.

## What is not modelled

* `tools/merlin-watcher` and `tools/merlin-telemetry`: sequential readers of messages and
  process-local counters; every step is one assignment and nothing else sees it.
* The printing commands of the object tool, signing and attestation tools; the board
  samples; the course labs, which are teaching material.
* `kernel/merlin/maps.c`, which passes map creation on to `bpf(2)`; what helpers compute.
* The simulation core `rtl/merlin_core.v`, and of the PicoRV32 everything but its
  memory port.
* Instruction bytes of the translators, cryptography, the layout of ELF files.
* Removal of the kernel module while a work item is queued, conflicts between
  transactions (the code counts versions and compares none), the wrap of
  Zephyr's 32-bit ids, texts longer than the fabric's instruction memory: the code
  makes no promise about them.
