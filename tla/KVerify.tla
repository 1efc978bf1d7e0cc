------------------------------ MODULE KVerify -------------------------------
(***************************************************************************)
(* The kernel verifier, kernel/merlin/verifier.c.  The constants, the      *)
(* shape of values and states and the variables are as in module Verify.   *)
(***************************************************************************)
EXTENDS KCfg, KTnum

CONSTANTS Regs, Wide, STEP_CAP

LOOP_BOUND    == 322   \* MERLIN_HELPER_LOOP_BOUND    0x142
KFUNC_RESOLVE == 323   \* MERLIN_HELPER_KFUNC_RESOLVE 0x143
LOOP_CB       == 324   \* MERLIN_HELPER_LOOP_CB       0x144

-----------------------------------------------------------------------------
(* Abstract values: struct merlin_rval with the fields its kind uses.      *)

rv_uninit == [kind |-> "UNINIT"]

rv_scalar(s) == [kind |-> "SCALAR", s |-> s]

rv_const(v) == rv_scalar(scalar_const(s64(v)))

rv_scalar_top == rv_scalar(scalar_top)

rv_ptr(k, lo, hi) == [kind |-> k, off_min |-> lo, off_max |-> hi]

rv_id(k, id) == [kind |-> k, helper_id |-> id]

vstate_init_entry(cfg) ==
    LET index == scalar(0, Half - 1, 0, 0, tnum_top)
    IN  [r \in Regs |->
            CASE r = 0  -> rv_const(0)
              [] r = 2  -> rv_ptr("PTR_STACK", 0, 0)
              [] r = 10 -> IF cfg.is_callback_body THEN rv_scalar(index)
                           ELSE rv_ptr("PTR_CTX", 0, 0)
              [] r = 11 /\ cfg.is_callback_body -> rv_ptr("PTR_CTX", 0, 0)
              [] OTHER -> rv_uninit]

rval_join(a, b) ==
    CASE a.kind = "UNINIT" -> b
      [] a.kind # "UNINIT" /\ b.kind = "UNINIT" -> a
      [] a.kind = "SCALAR" /\ b.kind = "SCALAR" ->
             rv_scalar(scalar_join(a.s, b.s))
      [] a.kind = b.kind /\ a.kind \in {"PTR_HELPER_RET", "PTR_KFUNC_SLOT"} ->
             IF a.helper_id = b.helper_id THEN a ELSE rv_scalar_top
      [] a.kind = b.kind /\ a.kind \in {"PTR_CTX", "PTR_STACK"} ->
             rv_ptr(a.kind, lesser(a.off_min, b.off_min),
                    greater(a.off_max, b.off_max))
      [] OTHER -> rv_scalar_top

rval_equal(a, b) ==
    /\ a.kind = b.kind
    /\ CASE a.kind = "UNINIT" -> TRUE
         [] a.kind = "SCALAR" -> scalar_equal(a.s, b.s)
         [] a.kind \in {"PTR_HELPER_RET", "PTR_KFUNC_SLOT"} ->
                a.helper_id = b.helper_id
         [] OTHER -> a.off_min = b.off_min /\ a.off_max = b.off_max

(* The bottom state (valid = false) is the empty function.                 *)
Bottom == <<>>

vstate_join(dst, src) ==
    IF dst = Bottom THEN [state |-> src, changed |-> TRUE]
    ELSE LET new == [r \in Regs |-> rval_join(dst[r], src[r])]
             diff == {r \in Regs : ~ rval_equal(new[r], dst[r])}
         IN  [state |-> [r \in Regs |-> IF r \in diff THEN new[r] ELSE dst[r]],
              changed |-> diff # {}]

-----------------------------------------------------------------------------
helper_allowed(cfg, id) == id <= 4095 /\ id \in cfg.helper_allow

kfunc_allowed(cfg, id) == id <= 4095 /\ id \in cfg.kfunc_allow

callback_allowed(cfg, id) == id <= 4095 /\ id \in cfg.callback_allow

(* Only the three network program types have a helper, kfuncs and a        *)
(* callback of their own.                                                  *)
merlin_verifier_cfg_for_prog(prog_type, sleepable) ==
    LET net == prog_type \in {"XDP_V", "TC_V", "MVDP"}
    IN  [max_stack_bytes |-> IF sleepable THEN 8192 ELSE 512,
         is_callback_body |-> FALSE, step_cap |-> STEP_CAP,
         helper_allow |-> {LOOP_BOUND, KFUNC_RESOLVE, LOOP_CB}
                              \union (IF net THEN {1} ELSE {}),
         kfunc_allow |-> IF net THEN 1 .. 3 ELSE {},
         callback_allow |-> IF net THEN {1} ELSE {}]

-----------------------------------------------------------------------------
(* The transfer function.                                                  *)

ptr_kind(v) == v.kind \in {"PTR_CTX", "PTR_STACK", "PTR_HELPER_RET"}

ld_width(k) == CASE k \in {0, 4} -> 1 [] k \in {1, 5} -> 2
                 [] k \in {2, 6} -> 4 [] k = 3 -> 8

st_width(k) == CASE k = 0 -> 1 [] k = 1 -> 2 [] k = 2 -> 4 [] k = 3 -> 8

Reject(st) == [st EXCEPT !.rejected = TRUE]

Put(st, r, v) == IF r = 0 THEN st ELSE [st EXCEPT !.x[r] = v]

(* A write to rd by anything but addi sp, sp, K.                           *)
WriteNotSp(st, rd, v) ==
    IF rd = 2 THEN Put(Reject(st), 2, rv_scalar_top) ELSE Put(st, rd, v)

Clobbered == 5 .. 7 \union 11 .. 17 \union 28 .. 31

(* a0 := v, and the other caller-saved registers become UNINIT.            *)
CallReturn(st, v) ==
    [st EXCEPT !.x = [r \in Regs |-> IF r \in Clobbered THEN rv_uninit
                                     ELSE IF r = 10 THEN v ELSE @[r]]]

IsConst(v) == v.kind = "SCALAR" /\ scalar_is_const(v.s)
Value(v)   == Num(v.s.tn.value)

KfuncResolve(st, cfg) ==
    LET a0 == st.x[10]
    IN  IF IsConst(a0) /\ kfunc_allowed(cfg, Value(a0))
        THEN CallReturn(st, rv_id("PTR_KFUNC_SLOT", Value(a0)))
        ELSE CallReturn(Reject(st), rv_scalar_top)

LoopCb(st, cfg) ==
    LET a0 == st.x[10]
        a1 == st.x[11]
        ok == /\ IsConst(a0) /\ a0.s.smin >= 1
              /\ IsConst(a1) /\ callback_allowed(cfg, Value(a1))
    IN  CallReturn(IF ok THEN [st EXCEPT !.bound = Value(a0) # 0]
                   ELSE Reject(st), rv_scalar_top)

LoopBound(st) ==
    [st EXCEPT !.bound = IsConst(st.x[10]) => Value(st.x[10]) # 0]

StepEcall(st, cfg) ==
    LET a7 == st.x[17]
    IN  IF ~ IsConst(a7) \/ ~ helper_allowed(cfg, Value(a7))
        THEN Put(Reject(st), 10, rv_scalar_top)
        ELSE CASE Value(a7) = KFUNC_RESOLVE -> KfuncResolve(st, cfg)
               [] Value(a7) = LOOP_CB       -> LoopCb(st, cfg)
               [] Value(a7) = LOOP_BOUND    ->
                      CallReturn(LoopBound(st), rv_id("PTR_HELPER_RET", LOOP_BOUND))
               [] OTHER -> CallReturn(st, rv_id("PTR_HELPER_RET", Value(a7)))

(* An access of width w at imm(v): not through a pointer, or through a     *)
(* stack pointer whose window may leave the frame.                         *)
BadAccess(v, imm, w, cfg) ==
    \/ ~ ptr_kind(v)
    \/ /\ v.kind = "PTR_STACK"
       /\ \/ v.off_min + imm < - cfg.max_stack_bytes
          \/ v.off_max + imm + w > 0

StepLoad(in, st, cfg) ==
    WriteNotSp(IF BadAccess(st.x[in.rs1], in.imm, ld_width(in.kind), cfg)
               THEN Reject(st) ELSE st,
               in.rd, rv_scalar_top)

StepStore(in, st, cfg) ==
    IF BadAccess(st.x[in.rs1], in.imm, st_width(in.kind), cfg)
    THEN Reject(st) ELSE st

StepAddi(in, st, cfg) ==
    LET src == st.x[in.rs1]
        r   == rv_ptr(src.kind, src.off_min + in.imm, src.off_max + in.imm)
        spOut == /\ in.rd = 2 /\ src.kind = "PTR_STACK"
                 /\ r.off_min < - cfg.max_stack_bytes \/ r.off_max > 0
    IN  CASE in.rs1 = 0 -> WriteNotSp(st, in.rd, rv_const(in.imm))
          [] in.rs1 # 0 /\ in.rd = 2 /\ in.rs1 # 2 ->
                 WriteNotSp(st, 2, rv_scalar_top)
          [] in.rs1 # 0 /\ (in.rd = 2 => in.rs1 = 2) ->
                 CASE src.kind = "SCALAR" ->
                          WriteNotSp(st, in.rd,
                              rv_scalar(scalar_add(src.s,
                                                   scalar_const(s64(in.imm)))))
                   [] src.kind \in {"PTR_CTX", "PTR_STACK"} ->
                          Put(IF spOut THEN Reject(st) ELSE st, in.rd, r)
                   [] OTHER -> WriteNotSp(st, in.rd, rv_scalar_top)

StepAluImm(in, st, cfg) ==
    IF in.alu_op = "ADD" THEN StepAddi(in, st, cfg)
    ELSE WriteNotSp(st, in.rd, rv_scalar_top)

StepUpper(in, st) ==
    WriteNotSp(st, in.rd, IF in.cls = "LUI" THEN rv_const(in.imm)
                          ELSE rv_scalar_top)

(* A register operation on one pointer keeps its kind, at a wide offset.   *)
StepAluReg(in, st) ==
    LET v1 == st.x[in.rs1]
        v2 == st.x[in.rs2]
        p  == IF ptr_kind(v1) THEN v1 ELSE v2
        result == CASE ~ ptr_kind(p) -> rv_scalar_top
                    [] p.kind = "PTR_HELPER_RET" -> p
                    [] OTHER -> rv_ptr(p.kind, -Wide, Wide)
    IN  WriteNotSp(IF ptr_kind(v1) /\ ptr_kind(v2) THEN Reject(st) ELSE st,
                   in.rd, result)

StepTransfer(in, st, cfg) ==
    LET tgt == st.x[in.rs1]
        known == \/ in.rs1 = 1
                 \/ tgt.kind = "PTR_KFUNC_SLOT"
                        /\ kfunc_allowed(cfg, tgt.helper_id)
    IN  CASE in.cls = "JAL"    -> WriteNotSp(st, in.rd, rv_scalar_top)
          [] in.cls = "JALR"   -> IF known THEN st ELSE Reject(st)
          [] in.cls = "BRANCH" -> st

step_insn(in, st, cfg) ==
    CASE ~ merlin_insn_permitted_default(in) -> Reject(st)
      [] in.cls = "ECALL"   -> StepEcall(st, cfg)
      [] in.cls = "LOAD"    -> StepLoad(in, st, cfg)
      [] in.cls = "STORE"   -> StepStore(in, st, cfg)
      [] in.cls = "ALU_IMM" -> StepAluImm(in, st, cfg)
      [] in.cls \in {"LUI", "AUIPC"} -> StepUpper(in, st)
      [] in.cls = "ALU_REG" -> StepAluReg(in, st)
      [] in.cls \in {"BRANCH", "JAL", "JALR"} ->
             StepTransfer(in, st, cfg)
      [] OTHER -> Put(st, in.rd, rv_scalar_top)

-----------------------------------------------------------------------------
(* merlin_verify_text.                                                     *)

VARIABLES prog, phase, G, q, entry, loop_ok, steps, rejected

verifyVars == <<phase, G, q, entry, loop_ok, steps, rejected>>

Fresh == [G |-> [ok |-> FALSE], q |-> <<>>, entry |-> <<>>, loop_ok |-> {},
          steps |-> 0, rejected |-> FALSE]

Idle == /\ phase = "-"
        /\ G = Fresh.G /\ q = Fresh.q /\ entry = Fresh.entry
        /\ loop_ok = Fresh.loop_ok /\ steps = Fresh.steps
        /\ rejected = Fresh.rejected

(* A call begins (p = start), or its result has been used (p = -).         *)
Enter(p) == /\ phase' = p
            /\ G' = Fresh.G /\ q' = Fresh.q /\ entry' = Fresh.entry
            /\ loop_ok' = Fresh.loop_ok /\ steps' = Fresh.steps
            /\ rejected' = Fresh.rejected

(* The kernel's worklist is allocated for cap = nblocks items; a push past *)
(* the end is dropped.                                                     *)
ws_push(s, b, cap) ==
    IF Contains(s, b) \/ Len(s) >= cap THEN s ELSE Append(s, b)

ws_pop(s) == [top |-> Last(s), rest |-> Front(s)]

Setup ==
    LET g == merlin_cfg_build(prog.text, prog.offset)
    IN  /\ phase = "start"
        /\ IF prog.rem # 0 \/ ~ g.ok
           THEN /\ phase' = "REJECT"
                /\ UNCHANGED <<G, q, entry>>
           ELSE /\ phase' = "loop"
                /\ G' = g
                /\ q' = ws_push(<<>>, 0, Cardinality(DOMAIN g.succ))
                /\ entry' = [b \in DOMAIN g.succ |->
                                IF b = 0 THEN vstate_init_entry(prog.cfg)
                                ELSE Bottom]
        /\ UNCHANGED <<prog, loop_ok, steps, rejected>>

(* One of the allocations fails, here or in merlin_cfg_build: REJECT.      *)
NoMemory ==
    /\ phase = "start"
    /\ prog.rem = 0
    /\ phase' = "NOMEM"
    /\ UNCHANGED <<prog, G, q, entry, loop_ok, steps, rejected>>

(* An undecodable word is rejected in the loop and is not a step.          *)
Decodable(i) == merlin_decode(prog.text[i]).cls # "INVALID"

BlockOut(b) ==
    LET last == BlockEnd(prog.text, DOMAIN G.succ, b)
        apply(st, i) == IF Decodable(i)
                        THEN step_insn(merlin_decode(prog.text[i]), st, prog.cfg)
                        ELSE Reject(st)
    IN  FoldLeft(apply, [x |-> entry[b], rejected |-> FALSE, bound |-> FALSE],
                 [k \in 1 .. last - b + 1 |-> b + k - 1])

Flow(acc, n, x) ==
    IF n = None THEN acc
    ELSE LET j == vstate_join(acc.entry[n], x)
         IN  [entry |-> [acc.entry EXCEPT ![n] = j.state],
              q |-> IF j.changed
                    THEN ws_push(acc.q, n, Cardinality(DOMAIN G.succ))
                    ELSE acc.q]

Visit ==
    LET b   == ws_pop(q).top
        n   == Cardinality({i \in b .. BlockEnd(prog.text, DOMAIN G.succ, b) :
                                Decodable(i)})
        out == BlockOut(b)
        s   == G.succ[b]
        joined == Flow(Flow([entry |-> entry, q |-> ws_pop(q).rest],
                            s[1], out.x), s[2], out.x)
    IN  /\ phase = "loop" /\ q # <<>>
        /\ IF steps + n > prog.cfg.step_cap
           THEN /\ phase' = "REJECT"
                /\ rejected' = TRUE
                /\ UNCHANGED <<q, entry, loop_ok, steps>>
           ELSE /\ steps' = steps + n
                /\ rejected' = (rejected \/ out.rejected)
                /\ loop_ok' = IF out.bound /\ s[1] # None
                              THEN loop_ok \union {s[1]} ELSE loop_ok
                /\ entry' = joined.entry
                /\ q' = joined.q
                /\ UNCHANGED phase
        /\ UNCHANGED <<prog, G>>

Gate ==
    /\ phase = "loop" /\ q = <<>>
    /\ phase' = IF rejected \/ \E e \in G.back : e[2] \notin loop_ok
                THEN "REJECT" ELSE "OK"
    /\ UNCHANGED <<prog, G, q, entry, loop_ok, steps, rejected>>

merlin_verify_text == Setup \/ NoMemory \/ Visit \/ Gate
=============================================================================
