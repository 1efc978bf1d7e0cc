------------------------------ MODULE ProgLoad ------------------------------
(***************************************************************************)
(* One call of merlin_prog_load (kernel/merlin/loader.c): the pipeline     *)
(* from the user's attributes to a registered program, with the backends   *)
(* of kernel/merlin/jit, every early return and every unwinding label.     *)
(*                                                                         *)
(* What the ELF and the attributes contain is reduced to the outcome of    *)
(* the test the code makes on it; what the call allocates, frees and       *)
(* publishes is kept step by step.                                         *)
(***************************************************************************)
EXTENDS Integers, FiniteSets

CONSTANT Jits       \* what merlin_select_jit returns, one per kernel build

ASSUME LoadAssumption == Jits \subseteq {"passthrough", "x86_64", "NULL"}

VARIABLES
    step,       \* next step, or the unwinding label
    heap,       \* what became of each allocation of the call
    rc,         \* the return code, "0" until a step fails; but for "1", the
                \* name of the error number whose negative it is
    logWanted,  \* attr.log_buf and attr.log_size are set
    verified,   \* merlin_verify_text accepted the text
    jit,        \* the backend this build selects
    idrEntry,   \* the program is in merlin_prog_idr
    progId      \* prog->id has been stored

loadVars == <<step, heap, rc, logWanted, verified, jit, idrEntry, progId>>

Allocations == {"blob", "log", "prog", "bytecode", "kbuf", "exec", "img"}

(* What merlin_prog_free_work releases when the last reference is gone.    *)
FreeWorkFrees == {"exec", "img", "bytecode", "prog"}

TranslatePcs == {"pt_img", "pt_exec", "x86_kbuf", "x86_emit", "x86_exec",
                 "x86_img"}

(* The return codes that are negative error numbers.                       *)
Errnos == {"EFAULT", "EINVAL", "E2BIG", "ENOMEM", "EACCES", "ENODEV", "EPERM",
           "ENOSYS", "ENOSPC"}

LoadTypeOK ==
    /\ step \in {"idle", "attr", "vmalloc", "copy_blob", "elf", "log",
                 "verify", "select", "kzalloc", "bytecode", "alloc_id",
                 "set_id", "copy_log", "out_free_jit", "out_free_bytecode",
                 "out_free_prog", "out_free_log", "out", "done"}
                \cup TranslatePcs
    /\ heap \in [Allocations -> {"none", "live", "freed", "double"}]
    /\ rc \in Errnos \cup {"0", "1"}
    /\ logWanted \in BOOLEAN
    /\ verified \in BOOLEAN
    /\ jit \in Jits
    /\ idrEntry \in BOOLEAN
    /\ progId \in BOOLEAN

LoadInit ==
    /\ step = "idle"
    /\ heap = [a \in Allocations |-> "none"]
    /\ rc = "0"
    /\ logWanted \in BOOLEAN
    /\ verified = FALSE
    /\ jit \in Jits
    /\ idrEntry = FALSE
    /\ progId = FALSE

-----------------------------------------------------------------------------
Jump(from, to) == step = from /\ step' = to

(* A step that fails with one of some error codes goes to a label.         *)
Fail(from, codes, label) ==
    /\ Jump(from, label)
    /\ rc' \in codes

(* kfree, vfree and kvfree ignore NULL; freeing twice corrupts the heap.   *)
Freed(h, as) == [a \in Allocations |->
    IF a \notin as THEN h[a]
    ELSE CASE h[a] = "none" -> "none"
           [] h[a] = "live" -> "freed"
           [] OTHER -> "double"]

Alloc(a) == heap' = [heap EXCEPT ![a] = "live"]
Free(as) == heap' = Freed(heap, as)

Rest == <<logWanted, verified, jit, idrEntry, progId>>

(* The ioctl passes merlin_check_cap and reaches merlin_cmd_prog_load.     *)
CmdProgLoad ==
    /\ Jump("idle", "attr")
    /\ UNCHANGED <<heap, rc, Rest>>

(* merlin_prog_load: attributes, size checks, blob.                        *)
CopyAttr ==
    /\ \/ Jump("attr", "vmalloc") /\ UNCHANGED rc
       \/ Fail("attr", {"EFAULT", "EINVAL", "E2BIG"}, "done")
    /\ UNCHANGED <<heap, Rest>>

AllocBlob ==
    /\ \/ Jump("vmalloc", "copy_blob") /\ Alloc("blob") /\ UNCHANGED rc
       \/ Fail("vmalloc", {"ENOMEM"}, "done") /\ UNCHANGED heap
    /\ UNCHANGED Rest

CopyBlob ==
    /\ \/ Jump("copy_blob", "elf") /\ UNCHANGED rc
       \/ Fail("copy_blob", {"EFAULT"}, "out")
    /\ UNCHANGED <<heap, Rest>>

(* parse_and_load: header, section names, first .text.merlin.* section.    *)
ParseElf ==
    /\ \/ Jump("elf", "log") /\ UNCHANGED rc
       \/ Fail("elf", {"EINVAL", "E2BIG"}, "out")
    /\ UNCHANGED <<heap, Rest>>

AllocLog ==
    /\ \/ ~logWanted /\ Jump("log", "verify") /\ UNCHANGED <<heap, rc>>
       \/ logWanted /\ Jump("log", "verify") /\ Alloc("log") /\ UNCHANGED rc
       \/ logWanted /\ Fail("log", {"ENOMEM"}, "out") /\ UNCHANGED heap
    /\ UNCHANGED Rest

(* Mutant: the verifier's verdict is ignored.                              *)
Verify_Ignored ==
    /\ Jump("verify", "select")
    /\ verified' \in BOOLEAN
    /\ UNCHANGED <<heap, rc, logWanted, jit, idrEntry, progId>>

Verify ==
    /\ \/ Jump("verify", "select") /\ verified' = TRUE /\ UNCHANGED rc
       \/ Fail("verify", {"EACCES"}, "out_free_log") /\ UNCHANGED verified
    /\ UNCHANGED <<heap, logWanted, jit, idrEntry, progId>>

SelectJit ==
    /\ \/ jit # "NULL" /\ Jump("select", "kzalloc") /\ UNCHANGED rc
       \/ jit = "NULL" /\ Fail("select", {"ENODEV"}, "out_free_log")
    /\ UNCHANGED <<heap, Rest>>

AllocProg ==
    /\ \/ Jump("kzalloc", "bytecode") /\ Alloc("prog") /\ UNCHANGED rc
       \/ Fail("kzalloc", {"ENOMEM"}, "out_free_log") /\ UNCHANGED heap
    /\ UNCHANGED Rest

(* kmemdup, then the metadata and the first reference.                     *)
CopyBytecode ==
    /\ \/ /\ Jump("bytecode", IF jit = "x86_64" THEN "x86_kbuf" ELSE "pt_img")
          /\ Alloc("bytecode")
          /\ UNCHANGED rc
       \/ Fail("bytecode", {"ENOMEM"}, "out_free_prog") /\ UNCHANGED heap
    /\ UNCHANGED Rest
-----------------------------------------------------------------------------
(* jit->translate.  The pass-through backend (RISC-V host) allocates the   *)
(* descriptor and then the executable copy.                                *)
PassthroughImg ==
    /\ \/ Jump("pt_img", "pt_exec") /\ Alloc("img") /\ UNCHANGED rc
       \/ /\ Fail("pt_img", {"EINVAL", "ENOMEM"}, "out_free_bytecode")
          /\ UNCHANGED heap
    /\ UNCHANGED Rest

PassthroughExec ==
    /\ \/ Jump("pt_exec", "alloc_id") /\ Alloc("exec") /\ UNCHANGED rc
       \/ Fail("pt_exec", {"ENOMEM"}, "out_free_bytecode") /\ Free({"img"})
    /\ UNCHANGED Rest

(* The x86-64 backend emits into a growing buffer, copies it to executable *)
(* memory, drops the buffer and allocates the descriptor last.             *)
X86Kbuf ==
    /\ \/ Jump("x86_kbuf", "x86_emit") /\ Alloc("kbuf") /\ UNCHANGED rc
       \/ /\ Fail("x86_kbuf", {"EINVAL", "ENOMEM"}, "out_free_bytecode")
          /\ UNCHANGED heap
    /\ UNCHANGED Rest

(* Mutant: an emitter that fails leaves the buffer behind.                 *)
X86Emit_KeepsKbuf ==
    /\ \/ Jump("x86_emit", "x86_exec") /\ UNCHANGED <<heap, rc>>
       \/ /\ Fail("x86_emit", {"ENOMEM", "EINVAL", "EPERM", "ENOSYS", "1"},
                  "out_free_bytecode")
          /\ UNCHANGED heap
    /\ UNCHANGED Rest

(* When the buffer cannot grow, EMIT returns -ENOMEM, but an emitter of    *)
(* several bytes returns the || of its EMITs, which is 1.  translate_one   *)
(* makes -1 (-EPERM) of it in the middle of an instruction and returns it  *)
(* as it is at the end of one; x86_translate passes either on.  -EINVAL    *)
(* and -ENOSYS: words that do not decode or that are not translated.       *)
X86Emit ==
    /\ \/ Jump("x86_emit", "x86_exec") /\ UNCHANGED <<heap, rc>>
       \/ /\ Fail("x86_emit", {"ENOMEM", "EINVAL", "EPERM", "ENOSYS", "1"},
                  "out_free_bytecode")
          /\ Free({"kbuf"})
    /\ UNCHANGED Rest

X86Exec ==
    /\ \/ /\ Jump("x86_exec", "x86_img")
          /\ heap' = Freed([heap EXCEPT !["exec"] = "live"], {"kbuf"})
          /\ UNCHANGED rc
       \/ Fail("x86_exec", {"ENOMEM"}, "out_free_bytecode") /\ Free({"kbuf"})
    /\ UNCHANGED Rest

(* Mutant: the executable memory is not given back with the descriptor.    *)
X86Img_KeepsExec ==
    /\ \/ Jump("x86_img", "alloc_id") /\ Alloc("img") /\ UNCHANGED rc
       \/ Fail("x86_img", {"ENOMEM"}, "out_free_bytecode") /\ UNCHANGED heap
    /\ UNCHANGED Rest

X86Img ==
    /\ \/ Jump("x86_img", "alloc_id") /\ Alloc("img") /\ UNCHANGED rc
       \/ Fail("x86_img", {"ENOMEM"}, "out_free_bytecode") /\ Free({"exec"})
    /\ UNCHANGED Rest

-----------------------------------------------------------------------------
(* merlin_prog_alloc_id publishes the program and then stores its id.      *)
LoadAllocId ==
    /\ \/ Jump("alloc_id", "set_id") /\ idrEntry' = TRUE /\ UNCHANGED rc
       \/ /\ Fail("alloc_id", {"ENOMEM", "ENOSPC"}, "out_free_jit")
          /\ UNCHANGED idrEntry
    /\ UNCHANGED <<heap, logWanted, verified, jit, progId>>

LoadSetId ==
    /\ Jump("set_id", "copy_log")
    /\ progId' = TRUE
    /\ UNCHANGED <<heap, rc, logWanted, verified, jit, idrEntry>>

(* Mutant: -EFAULT on the log unwinds a program that is registered.        *)
CopyLog_Unwinds ==
    /\ \/ Jump("copy_log", "out") /\ Free({"log"}) /\ UNCHANGED rc
       \/ Fail("copy_log", {"EFAULT"}, "out_free_jit") /\ UNCHANGED heap
    /\ UNCHANGED Rest

(* A log that cannot be copied out does not undo the load.                 *)
CopyLog ==
    /\ Jump("copy_log", "out")
    /\ Free({"log"})
    /\ UNCHANGED <<rc, Rest>>

(* The unwinding labels, each falling through to the next.                 *)
OutFreeJit ==
    /\ Jump("out_free_jit", "out_free_bytecode")
    /\ Free({"exec", "img"})
    /\ UNCHANGED <<rc, Rest>>

OutFreeBytecode ==
    /\ Jump("out_free_bytecode", "out_free_prog")
    /\ Free({"bytecode"})
    /\ UNCHANGED <<rc, Rest>>

OutFreeProg ==
    /\ Jump("out_free_prog", "out_free_log")
    /\ Free({"prog"})
    /\ UNCHANGED <<rc, Rest>>

OutFreeLog ==
    /\ Jump("out_free_log", "out")
    /\ Free({"log"})
    /\ UNCHANGED <<rc, Rest>>

(* merlin_prog_load frees the blob on every way out.                       *)
Out ==
    /\ Jump("out", "done")
    /\ Free({"blob"})
    /\ UNCHANGED <<rc, Rest>>

LoadNext ==
    \/ CmdProgLoad
    \/ CopyAttr \/ AllocBlob \/ CopyBlob \/ ParseElf \/ AllocLog \/ Verify
    \/ SelectJit \/ AllocProg \/ CopyBytecode
    \/ PassthroughImg \/ PassthroughExec
    \/ X86Kbuf \/ X86Emit \/ X86Exec \/ X86Img
    \/ LoadAllocId \/ LoadSetId \/ CopyLog
    \/ OutFreeJit \/ OutFreeBytecode \/ OutFreeProg \/ OutFreeLog \/ Out

LoadSpec == LoadInit /\ [][LoadNext]_loadVars

-----------------------------------------------------------------------------
Live == {a \in Allocations : heap[a] = "live"}

(* Whatever step fails, the unwinding gives back each allocation of the    *)
(* call once: a failed load leaves nothing, a successful one leaves what   *)
(* merlin_prog_free_work will free and no more, and no free is repeated.   *)
NoLeakNoDoubleFree ==
    /\ LoadTypeOK
    /\ \A a \in Allocations : heap[a] # "double"
    /\ step = "done" => Live = IF rc = "0" THEN FreeWorkFrees ELSE {}

(* 03-kernel-interfaces.md: "Submit an ELF blob; receive a prog fd."       *)
(* merlin_cmd_prog_load returns what merlin_prog_load returns unless it is *)
(* 0, so a result that is no negative error number, which user space takes *)
(* for a descriptor, is one of a load that has published its program.      *)
FdMeansLoaded == step = "done" /\ rc \notin Errnos => idrEntry

(* text_data points into the blob: as long as a later step reads it        *)
(* (verifier, kmemdup, translator) the blob has not been given back, and   *)
(* no backend sees text that the verifier has not accepted.  A program is  *)
(* published in the registry only as a whole, verified, with its image,    *)
(* its bytecode and its object alive; and once it is published the call    *)
(* can no longer fail and unwind it.                                       *)
VerifiedThenPublished ==
    /\ step \in {"log", "verify", "select", "kzalloc", "bytecode"}
              \cup TranslatePcs => heap["blob"] = "live"
    /\ step \in TranslatePcs => verified
    /\ idrEntry => /\ verified
                   /\ FreeWorkFrees \subseteq Live
                   /\ rc = "0"
-----------------------------------------------------------------------------
(* What ProgLifecycle takes a load to be: until the image exists there is  *)
(* nothing to see, and from then on there is one object with one           *)
(* reference, which is registered and gets its id or is freed again.       *)

Built == heap["img"] # "none" /\ heap["exec"] # "none"

AbsPc ==
    CASE step = "idle" -> "idle"
      [] ~Built -> IF step = "done" THEN "idle" ELSE "load"
      [] Built /\ progId -> "new_fd"
      [] Built /\ idrEntry /\ ~progId -> "set_id"
      [] OTHER -> IF heap["prog"] = "live" THEN "alloc_id" ELSE "idle"

Only(x) == [p \in {"prog"} |-> x]

Lifecycle == INSTANCE ProgLifecycle WITH
    Tasks <- {"task"}, KernelTasks <- {}, Progs <- {"prog"}, Fds <- {"fd"},
    ForeignFds <- {}, MaxId <- 1, FdFailure <- FALSE, NoProg <- "NULL",
    Foreign <- "foreign",
    mem <- Only(IF ~Built THEN "unused"
                ELSE IF heap["prog"] = "live" THEN "live" ELSE "freed"),
    refs <- Only(IF Built THEN 1 ELSE 0),
    id <- Only(IF progId THEN 1 ELSE 0),
    idr <- <<IF idrEntry THEN "prog" ELSE "NULL">>,
    fdt <- [fd \in {"fd"} |-> "NULL"],
    frefs <- Only(0),
    fstate <- Only("none"),
    work <- Only("idle"),
    pc <- [t \in {"task"} |-> AbsPc],
    prog <- [t \in {"task"} |->
                IF AbsPc \in {"idle", "load"} THEN "NULL" ELSE "prog"]

(* The load pipeline, step by step, implements the two or three steps that *)
(* ProgLifecycle lets the other tasks see of it.                           *)
ImplementsLifecycle == Lifecycle!Spec
=============================================================================
