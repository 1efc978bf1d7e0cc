---------------------------- MODULE VerifySystem ----------------------------
(***************************************************************************)
(* The three verifiers over the same programs, the hart that runs what     *)
(* they accept, and the host that runs what the translators make of it.    *)
(*                                                                         *)
(* merlin-verifier (tools/merlin-verifier/merlin-verifier.c) walks the     *)
(* sections of an object and runs the user-space verifier on each program  *)
(* section; the kernel verifier then gets the same text as loader.c gives  *)
(* it (offset 0), and the Zephyr verifier too.  An accepted text is run,   *)
(* and its image (merlin-jit) along with it, instruction by instruction.   *)
(* The verifiers share no state, so they are taken one after the other.    *)
(***************************************************************************)
EXTENDS Verify

CONSTANTS Objects,         \* the object files
          Outcomes, Fuel   \* of the hart

VARIABLES object,          \* sequence of [name, text, rem]
          sec,             \* sections walked
          progs, rejects,  \* counters of main
          exit,            \* exit status, or None
          stage,           \* tool, user, kernel, run
          kprog, kphase, kG, kq, kentry, kloop_ok, ksteps, krejected,
          zok,             \* the Zephyr verdict
          pc, reg, fuel, event, resumed,
          image, host      \* the translated program, the x86_64 that runs it

K == INSTANCE KVerify WITH prog <- kprog, phase <- kphase, G <- kG, q <- kq,
         entry <- kentry, loop_ok <- kloop_ok, steps <- ksteps,
         rejected <- krejected
Z == INSTANCE ZVerify
H == INSTANCE Hart
J == INSTANCE Jit
KJ == INSTANCE KJit
ZD == INSTANCE ZDispatch

toolVars   == <<object, sec, progs, rejects, exit>>
kernelVars == <<kprog, kphase, kG, kq, kentry, kloop_ok, ksteps, krejected>>
runVars == <<pc, reg, fuel, event, resumed, image, host>>
vars == <<toolVars, stage, prog, verifyVars, kernelVars, zok, runVars>>

NoProg == [text |-> <<>>]

Init == /\ object \in Objects
        /\ sec = 0 /\ progs = 0 /\ rejects = 0 /\ exit = None
        /\ stage = "tool"
        /\ prog = NoProg /\ Idle
        /\ kprog = NoProg /\ K!Idle
        /\ zok = FALSE
        /\ pc = H!Halt /\ fuel = 0 /\ event = H!Quiet /\ resumed = FALSE
        /\ reg = H!EntryRegs(FALSE, 0)
        /\ image = J!NoImage /\ host = J!Entered(H!undef)

-----------------------------------------------------------------------------
(* main and verify_one.  SECTION_OFFSET is sh_offset: an ELF section never *)
(* starts at byte 0, where the file header is.                             *)

SECTION_OFFSET == 64

(* -h prints the usage.                                                    *)
usage == /\ stage = "tool" /\ exit = None /\ sec = 0
         /\ stage' = "help" /\ exit' = 0
         /\ UNCHANGED <<object, sec, progs, rejects, prog, verifyVars,
                        kernelVars, zok, runVars>>

(* Wrong usage, another program type, an unreadable file, a foreign byte   *)
(* order.                                                                  *)
Refuse == /\ stage = "tool" /\ exit = None /\ sec = 0
          /\ exit' = 2
          /\ UNCHANGED <<object, sec, progs, rejects, stage, prog, verifyVars,
                         kernelVars, zok, runVars>>

SkipSection ==
    /\ stage = "tool" /\ exit = None /\ sec < Len(object)
    /\ object[sec + 1].name = "other"
    /\ sec' = sec + 1
    /\ UNCHANGED <<object, progs, rejects, exit, stage, prog, verifyVars,
                   kernelVars, zok, runVars>>

verify_one ==
    LET s == object[sec + 1]
        mvdp == merlin_verifier_cfg_init_for_mvdp
    IN  /\ stage = "tool" /\ exit = None /\ sec < Len(object)
        /\ s.name # "other"
        /\ sec' = sec + 1
        /\ progs' = progs + 1
        /\ IF s.text = <<>>
           THEN /\ rejects' = rejects + 1
                /\ UNCHANGED <<stage, prog, verifyVars>>
           ELSE /\ stage' = "user"
                /\ prog' = [text |-> s.text, rem |-> s.rem,
                            offset |-> SECTION_OFFSET,
                            cfg |-> [mvdp EXCEPT !.is_callback_body =
                                                     (s.name = "cb")]]
                /\ Enter("start")
                /\ UNCHANGED rejects
        /\ UNCHANGED <<object, exit, kernelVars, zok, runVars>>

(* Mutant: rejects are not looked at.                                      *)
Exit_Zero == /\ stage = "tool" /\ exit = None /\ sec = Len(object)
             /\ exit' = IF progs = 0 THEN 2 ELSE 0
             /\ UNCHANGED <<object, sec, progs, rejects, stage, prog,
                            verifyVars, kernelVars, zok, runVars>>

Exit == /\ stage = "tool" /\ exit = None /\ sec = Len(object)
        /\ exit' = CASE progs = 0   -> 2
                     [] progs > 0 /\ rejects > 0 -> 1
                     [] OTHER -> 0
        /\ UNCHANGED <<object, sec, progs, rejects, stage, prog, verifyVars,
                       kernelVars, zok, runVars>>

-----------------------------------------------------------------------------
UserVerify == /\ stage = "user"
              /\ merlin_verify_text
              /\ UNCHANGED <<toolVars, stage, kernelVars, zok,
                             runVars>>

(* The kernel gets the text with the tool's configuration or with its own, *)
(* which has no callback bodies.                                           *)
KernelCfgs == {prog.cfg} \union
              {c \in {K!merlin_verifier_cfg_for_prog("MVDP", FALSE),
                      K!merlin_verifier_cfg_for_prog("TRACE", TRUE)} :
                  ~ prog.cfg.is_callback_body}

KernelLoad ==
    /\ stage = "user" /\ phase \in {"OK", "REJECT"}
    /\ stage' = "kernel"
    /\ \E cfg \in KernelCfgs :
          kprog' = [prog EXCEPT !.offset = 0, !.cfg = cfg]
    /\ K!Enter("start")
    /\ zok' = Z!merlin_verify_text(prog.text, prog.rem,
                                   Z!merlin_verifier_cfg_for_prog)
    /\ UNCHANGED <<toolVars, prog, verifyVars, runVars>>

KernelVerify == /\ stage = "kernel"
                /\ K!merlin_verify_text
                /\ UNCHANGED <<toolVars, stage, prog, verifyVars, zok,
                               runVars>>

Accepted == phase = "OK" \/ kphase = "OK" \/ zok

Launch ==
    /\ stage = "kernel" /\ kphase \in Results
    /\ stage' = "run"
    /\ IF Accepted
       THEN /\ pc' = 0 /\ fuel' = Fuel
            /\ \E i \in {n \in Outcomes : n >= 0} :
                  reg' = H!EntryRegs(prog.cfg.is_callback_body, i)
            /\ image' = J!merlin_jit_translate(prog.text, prog.rem)
            /\ host' = J!Entered(reg'[10])
       ELSE UNCHANGED <<pc, reg, fuel, image, host>>
    /\ UNCHANGED <<toolVars, prog, verifyVars, kernelVars, zok, event, resumed>>

Run == /\ stage = "run"
       /\ H!Execute(prog.text, Cardinality(DOMAIN prog.text))
       /\ host' = IF pc \in DOMAIN image.code
                  THEN J!Exec(host, image.code[pc], reg'[10]) ELSE host
       /\ UNCHANGED <<toolVars, stage, prog, verifyVars, kernelVars, zok, image>>

(* verify_one returns; main counts the section.                            *)
SectionDone ==
    /\ \/ stage = "run" /\ (pc = H!Halt \/ fuel = 0)
       \/ stage = "user" /\ phase = "NOMEM"
    /\ stage' = "tool"
    /\ rejects' = IF phase = "OK" THEN rejects ELSE rejects + 1
    /\ prog' = NoProg /\ Enter("-")
    /\ kprog' = NoProg /\ K!Enter("-")
    /\ zok' = FALSE
    /\ pc' = H!Halt /\ fuel' = 0 /\ event' = H!Quiet /\ resumed' = FALSE
    /\ reg' = H!EntryRegs(FALSE, 0)
    /\ image' = J!NoImage /\ host' = J!Entered(H!undef)
    /\ UNCHANGED <<object, sec, progs, exit>>

Ended == exit # None /\ UNCHANGED vars

Next == \/ usage \/ Refuse \/ SkipSection \/ verify_one \/ Exit
        \/ UserVerify \/ KernelLoad \/ KernelVerify
        \/ Launch \/ Run \/ SectionDone \/ Ended

Spec == Init /\ [][Next]_vars
-----------------------------------------------------------------------------
(* Properties.                                                             *)

Stages == {"tool", "help", "user", "kernel", "run"}

(* Counters stay within their bounds, and the worklists hold no block      *)
(* twice, so neither outgrows the blocks of the graph, and the kernel's    *)
(* ws_push drops nothing.                                                  *)
TypeOK ==
    /\ sec \in 0 .. Len(object)
    /\ rejects \in 0 .. progs /\ progs \in 0 .. sec
    /\ exit \in {None, 0, 1, 2} /\ stage \in Stages
    /\ phase \in Results \union {"-", "start", "loop"}
    /\ kphase \in Results \union {"-", "start", "loop"}
    /\ steps \in 0 .. STEP_CAP /\ ksteps \in 0 .. STEP_CAP
    /\ loop_ok \subseteq DOMAIN entry /\ kloop_ok \subseteq DOMAIN kentry
    /\ rejected \in BOOLEAN /\ krejected \in BOOLEAN /\ zok \in BOOLEAN
    /\ pc \in DOMAIN prog.text \union {H!Halt} /\ fuel \in 0 .. Fuel
    /\ DOMAIN reg = Regs
    /\ IsInjective(q) /\ IsInjective(kq)
    /\ Range(q) \subseteq DOMAIN entry /\ Range(kq) \subseteq DOMAIN kentry
    /\ Cardinality(DOMAIN entry) <= MAX_BLOCKS

(* The blocks a path from the entry reaches without the blocks of A.       *)
ReachAvoiding(succ, A) ==
    LET N == (DOMAIN succ) \ A
        closed(S) == \A e \in Edges(succ) :
                        e[1] \in S /\ e[2] \in N => e[2] \in S
    IN  {b \in N : \A S \in SUBSET N :
                      (0 \in N => 0 \in S) /\ closed(S) => b \in S}

(* The dominator tree that the sweeps of cfg_compute_dominators settle on  *)
(* is the dominance relation: d dominates b exactly when no path from the  *)
(* entry reaches b without d.  So a back edge is what the comment of       *)
(* cfg_find_back_edges says it is, in both verifiers.                      *)
DominatorsOf(g) ==
    \A b, d \in ReachAvoiding(g.succ, {}) :
        cfg_dominates(g.idom, d, b) <=> b \notin ReachAvoiding(g.succ, {d})
DominatorsRight == /\ phase = "loop" /\ steps = 0 => DominatorsOf(G)
                   /\ kphase = "loop" /\ ksteps = 0 => DominatorsOf(kG)

(* When the worklist runs empty the states are a fixpoint: every block     *)
(* that can be reached has been given a state, and nothing a block passes  *)
(* on would change a successor's.  The order of visits does not matter,    *)
(* and no visit is lost to a full worklist (TypeOK).                       *)
FixpointReached ==
    /\ TypeOK
    /\ phase = "loop" /\ q = <<>> =>
          /\ \A b \in ReachAvoiding(G.succ, {}) : entry[b] # Bottom
          /\ \A e \in Edges(G.succ) : entry[e[1]] # Bottom =>
                ~ vstate_join(entry[e[2]], BlockOut(e[1]).x).changed
    /\ kphase = "loop" /\ kq = <<>> =>
          /\ \A b \in ReachAvoiding(kG.succ, {}) : kentry[b] # Bottom
          /\ \A e \in Edges(kG.succ) : kentry[e[1]] # Bottom =>
                ~ K!vstate_join(kentry[e[2]], K!BlockOut(e[1]).x).changed

(* Sets of blocks that can go round: a path leads from any of them to any  *)
(* other inside the set.                                                   *)
Connected(succ, S) ==
    \A T \in (SUBSET S) \ {{}, S} :
        \E e \in Edges(succ) : e[1] \in T /\ e[2] \in S \ T
Loops(succ) ==
    {S \in SUBSET ReachAvoiding(succ, {}) :
        /\ Connected(succ, S)
        /\ \E e \in Edges(succ) : e[1] \in S /\ e[2] \in S}

(* The headers of a loop: the blocks in it that every path to it passes    *)
(* first.  There is at most one.                                           *)
Headers(succ, S) ==
    {h \in S : S \intersect ReachAvoiding(succ, {h}) = {}}

(* The loops of a text are those of G, which has an edge for every         *)
(* transfer that is not through a register; kG has none to instruction 0.  *)
GatedLoops(loops, ok) == \A S \in loops : Headers(G.succ, S) \subseteq ok

DecodedAlike == \A i \in DOMAIN prog.text :
                    merlin_decode(prog.text[i]) = K!merlin_decode(prog.text[i])
KernelTakes == stage = "kernel" /\ kphase = "OK" /\ G.ok /\ DecodedAlike

(* A loop of the text that has a header is accepted only if the header is  *)
(* where some block with a bound goes on: merlin_verify_text refuses a     *)
(* back edge to any other block.  The kernel does so for the loops that do *)
(* not contain the first instruction (see LoopsBounded).                   *)
AcceptedLoopsGated ==
    /\ stage = "user" /\ phase = "OK" => GatedLoops(Loops(G.succ), loop_ok)
    /\ KernelTakes =>
          GatedLoops({S \in Loops(G.succ) : 0 \notin S}, kloop_ok)

(* 06-verifier.md: "For a program to be accepted: ... The CFG is           *)
(* reducible. ... All loops are bounded ... or use the project-supplied    *)
(* `merlin_loop()` helper."  So every loop of a text that a verifier       *)
(* accepts has a header, and the header follows a bound, wherever the loop *)
(* is in the text.                                                         *)
LoopsBounded ==
    LET bounded(ok) == /\ \A S \in Loops(G.succ) : Headers(G.succ, S) # {}
                       /\ GatedLoops(Loops(G.succ), ok)
    IN  /\ stage = "user" /\ phase = "OK" => bounded(loop_ok)
        /\ KernelTakes => bounded(kloop_ok)

-----------------------------------------------------------------------------
(* What an accepted program does when it runs.  The kernel's verdict is    *)
(* about the text its own decoder and graph see, so for it the text is one *)
(* that they see as the user-space ones do.                                *)
(*                                                                         *)
(* Two things that the analyses leave out are left out here, by name.  A   *)
(* register that the program has not written (Unwritten) is the bottom of  *)
(* the domain: where it meets a written one the state is that of the       *)
(* written one.  And where a jump through a register comes back into the   *)
(* text (resumed) the graph has no edge: the code after a linking jal is   *)
(* analysed as if the jump had not been made.  HelperIdConstant excepts    *)
(* neither.                                                                *)

SeenAlike == /\ DecodedAlike
             /\ \A b \in DOMAIN G.succ : 0 \notin {G.succ[b][1], G.succ[b][2]}

UserAccepts   == stage = "run" /\ phase = "OK"
KernelAccepts == stage = "run" /\ kphase = "OK" /\ G.ok /\ SeenAlike
AcceptingCfgs == (IF UserAccepts THEN {prog.cfg} ELSE {})
                     \union (IF KernelAccepts THEN {kprog.cfg} ELSE {})

Unwritten(v) == v.k = "undef" \/ v = H!val("ra", -1)

WidePtr(a) == a.off_max - a.off_min >= 2 * Wide

Covers(a, v, callback) ==
    \/ Unwritten(v)
    \/ a.kind = "SCALAR" /\ a.s = scalar_top
    \/ /\ a.kind = "SCALAR" /\ v.k = "num"
       /\ a.s.smin <= v.n /\ v.n <= a.s.smax
       /\ callback \/ (a.s.umin <= u64(v.n) /\ u64(v.n) <= a.s.umax)
       /\ Bits(u64(v.n)) \ a.s.tn.mask = a.s.tn.value
    \/ /\ <<a.kind, v.k>> \in {<<"PTR_STACK", "stack">>, <<"PTR_CTX", "ctx">>}
       /\ a.off_min <= v.n /\ v.n <= a.off_max
    \/ a.kind \in {"PTR_STACK", "PTR_CTX"} /\ WidePtr(a) /\ v.k = "junk"
    \/ a.kind = "PTR_HELPER_RET" /\ v \in {H!val("ret", a.helper_id), H!junk}
    \/ a.kind = "PTR_KFUNC_SLOT" /\ v = H!val("kfunc", a.helper_id)

(* Until the program comes back through a register, the abstract state of  *)
(* a block covers every state the program enters the block in, as far as   *)
(* it has written the registers: ranges and known bits contain the number, *)
(* pointer windows the offset.  This is what the worklist, the joins,      *)
(* scalar_add and the transfer functions together are for.                 *)
AbstractCovers ==
    ~ resumed =>
        /\ UserAccepts /\ pc \in DOMAIN entry =>
              \A r \in Regs :
                  Covers(entry[pc][r], reg[r], prog.cfg.is_callback_body)
        /\ KernelAccepts /\ pc \in DOMAIN kentry =>
              \A r \in Regs :
                  Covers(kentry[pc][r], reg[r], kprog.cfg.is_callback_body)

(* Until it comes back through a register, an accepted program accesses    *)
(* nothing through a register that holds a number, a kfunc slot or a       *)
(* return address, and the stack only within its frame of max_stack_bytes, *)
(* whatever path it takes.  (An access through a register that it has not  *)
(* written on its path is not excluded by the verifiers.)                  *)
StackInFrame ==
    ~ resumed /\ event.t = "access" /\ ~ Unwritten(event.base) =>
        \A cfg \in AcceptingCfgs :
            /\ event.at.k \notin {"num", "kfunc", "ra"}
            /\ event.at.k = "stack" => /\ event.at.n >= - cfg.max_stack_bytes
                                       /\ event.at.n + event.w <= 0

(* Whatever helper a verifier's own configuration lets a program call, the *)
(* dispatcher of that system has: in the kernel but for the three markers  *)
(* that the verifier itself acts on, in Zephyr for texts without jumps.    *)
Jumpless == \A i \in DOMAIN prog.text : ~ Direct(merlin_decode(prog.text[i]))
HelpersRegistered ==
    /\ KernelAccepts /\ kprog.cfg # prog.cfg =>
          \/ event.id \in {LOOP_BOUND, KFUNC_RESOLVE, LOOP_CB}
          \/ KJ!merlin_dispatch_helper(event.id) # "EINVAL"
    /\ zok /\ Jumpless =>
          ZD!merlin_dispatch_helper(ZD!merlin_helpers_init, event.id) # "unknown"

(* Until an accepted program comes back through a register, every helper,  *)
(* kfunc and callback it reaches is in the allowlists and known to the     *)
(* dispatcher, and every indirect jump is through ra or to a resolved      *)
(* kfunc.  (Where a7, a1 or the target has not been written on the path    *)
(* taken, the verifiers have judged another path: see HelperIdConstant.)   *)
CallsAllowed ==
    /\ event.t = "call" /\ ~ resumed /\ ~ Unwritten(event.a7) =>
          /\ HelpersRegistered
          /\ \A cfg \in AcceptingCfgs :
                /\ event.a7.k = "num" /\ event.id \in cfg.helper_allow
                /\ event.id = KFUNC_RESOLVE =>
                      event.a0.k = "num" /\ event.a0.n \in cfg.kfunc_allow
                /\ event.id = LOOP_CB /\ ~ Unwritten(event.a1) =>
                      event.a1.k = "num" /\ event.a1.n \in cfg.callback_allow
    /\ event.t = "jump" /\ ~ event.after /\ ~ Unwritten(event.to) =>
          \A cfg \in AcceptingCfgs :
              \/ event.rs1 = 1
              \/ event.to.k = "kfunc" /\ event.to.n \in cfg.kfunc_allow

(* 06-verifier.md: "At every `ecall`, `a7` is a compile-time constant in   *)
(* the program-type's helper set", and zephyr/merlin/src/verifier.c claims *)
(* the same of its own.  Whichever verifier accepts a program, at every    *)
(* ecall it reaches a7 holds a number, one of that verifier's allowlist.   *)
HelperIdConstant ==
    event.t = "call" =>
        /\ \A cfg \in AcceptingCfgs :
              event.a7.k = "num" /\ event.id \in cfg.helper_allow
        /\ zok => /\ event.a7.k = "num"
                  /\ event.id \in Z!merlin_verifier_cfg_for_prog.helper_allow

(* The kernel's verifier and translator are ports of the user-space ones.  *)
(* A text the two decoders read alike and whose graph has no edge to the   *)
(* first instruction gets the same verdict for the same configuration, and *)
(* what the user-space translator translates the kernel's translates in    *)
(* the same way if its decoder reads it in the same way.                   *)
PortsAgree ==
    /\ stage = "run" /\ (pc = H!Halt \/ fuel = 0)
       /\ kphase # "NOMEM" /\ kprog.cfg = prog.cfg /\ (G.ok => SeenAlike)
       => kphase = phase
    /\ stage = "run" /\ pc = H!Halt /\ image.ok
       /\ (\A i \in DOMAIN image.code : merlin_decode(prog.text[i])
                                          = K!merlin_decode(prog.text[i]))
       => KJ!x86_translate(prog.text, prog.rem) = image

(* Zephyr refuses a jump back, but looks at no jalr: until it comes back   *)
(* through a register, a program that Zephyr accepts and that has no jump  *)
(* to itself has executed no more instructions than it has passed.  And in *)
(* a text without jumps every ecall it reaches has a helper of Zephyr's    *)
(* allowlist in a7: there the order of its single pass is that of the      *)
(* execution (of texts with jumps, see HelperIdConstant).                  *)
ZephyrSound ==
    stage = "run" /\ zok =>
        /\ pc # H!Halt /\ ~ resumed
           /\ (\A i \in DOMAIN prog.text : LET in == merlin_decode(prog.text[i])
                                           IN  Direct(in) => in.imm # 0)
           => Fuel - fuel <= pc
        /\ event.t = "call" /\ Jumpless =>
              /\ event.a7.k = "num"
              /\ event.id \in Z!merlin_verifier_cfg_for_prog.helper_allow

-----------------------------------------------------------------------------
(* The translated program.  (Callback bodies are entered differently, and  *)
(* mulw, which decode.c makes a mul, is not translated as such.)           *)

Translated == /\ stage = "run" /\ image.ok /\ ~ prog.cfg.is_callback_body
              /\ \A i \in DOMAIN prog.text : prog.text[i].op # 59

(* What the image can know: it has no stack of the program's and returns   *)
(* by its own frame, and it starts with zeros where the hart has anything. *)
Shared(v) == v.k \in {"num", "ctx", "ret", "kfunc"}

(* As long as the program runs, the translation has reached where it is,   *)
(* and regs[] holds what its registers hold, x0 included.  The image       *)
(* returns at the first jalr, with the caller's stack pointer and rbx;     *)
(* jit.c takes that for the return of the program, and where it is one the *)
(* image returns with the program's a0.  (It may also be a call of a kfunc *)
(* that the verifier has let through, which the image does not make.)      *)
JitAgrees ==
    LET left == event.t = "jump" /\ event.to # H!val("ra", -1)
    IN  Translated /\ ~ resumed =>
            /\ pc # H!Halt => pc \in DOMAIN image.code
            /\ fuel < Fuel /\ ~ left =>
                  \A r \in Regs : Shared(reg[r]) => host.regs[r] = reg[r]
            /\ event.t = "jump" => host.returned
            /\ host.returned => /\ pc = H!Halt
                                /\ host.rsp = 0 /\ host.rbx = J!Caller
                                /\ Shared(reg[10]) /\ ~ left => host.rax = reg[10]

-----------------------------------------------------------------------------
(* The exit status of merlin-verifier: 0 only if the object has a program  *)
(* section and every one of them was verified and accepted.                *)
Walked == SelectSeq(object, LAMBDA s : s.name # "other")
ExitStatus ==
    exit = 0 /\ stage # "help" =>
                /\ Walked # <<>> /\ progs = Len(Walked) /\ rejects = 0
                /\ \A i \in DOMAIN Walked : Walked[i].text # <<>>

(* Known bits: the result of each operation on two tracked numbers         *)
(* contains the result on any two numbers they contain, carries and        *)
(* borrows included, and the kernel's operations are the same.  (Numbers   *)
(* with ones at both ends of the word; checked once, on the empty object.) *)
Ends == SUBSET {0, 1, W - 1}
WellFormed == {t \in [value : Ends, mask : Ends] : t.value \intersect t.mask = {}}
In(x, t) == x \ t.mask = t.value
DomainSound ==
    object = <<>> /\ exit = None =>
        \A a, b \in WellFormed :
            /\ tnum_join(a, b) = K!tnum_join(a, b)
            /\ tnum_add(a, b) = K!tnum_add(a, b)
            /\ \A x, y \in Ends : In(x, a) /\ In(y, b) =>
                  /\ In(x, tnum_join(a, b)) /\ In(y, tnum_join(a, b))
                  /\ In(Add(x, y), tnum_add(a, b))
                  /\ In(Sub(x, y), tnum_sub(a, b))
                  /\ In(x \intersect y, tnum_and(a, b))
                  /\ In(x \union y, tnum_or(a, b))
                  /\ In(Xor(x, y), tnum_xor(a, b))
                  /\ \A k \in {0, 1, W - 1, W} :
                        /\ k < W => In(shl(x, k), tnum_lshift(a, k))
                        /\ In(shr(x, k), tnum_rshift(a, k))
=============================================================================
