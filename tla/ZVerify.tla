------------------------------ MODULE ZVerify -------------------------------
(***************************************************************************)
(* The decoder and the verifier of the Zephyr build,                       *)
(* zephyr/merlin/src/decode.c and verifier.c: one pass over the text in    *)
(* address order, without a control-flow graph.  merlin_decode returns -1  *)
(* exactly when the class is INVALID.                                      *)
(***************************************************************************)
EXTENDS Insn, Words, FiniteSets, SequencesExt

CONSTANT Regs

imm_i_(w) == sext(w.f7 * 32 + w.rs2, 12)

imm_s_(w) == sext(w.f7 * 32 + w.rd, 12)

imm_b_(w) == sext((w.f7 \div 64) * 2^12 + (w.rd % 2) * 2^11
                      + (w.f7 % 64) * 32 + (w.rd \div 2) * 2, 13)

imm_u_(w) == sext(w.f7 * 2^13 + w.rs2 * 2^8 + w.rs1 * 8 + w.f3, 20) * 2^12

imm_j_(w) == sext((w.f7 \div 64) * 2^20 + (w.rs1 * 8 + w.f3) * 2^12
                      + (w.rs2 % 2) * 2^11
                      + (w.f7 % 64) * 32 + (w.rs2 \div 2) * 2, 21)

imm_shamt_(w) == w.rs2

DecodeOpImm(w) ==
    CASE w.f3 = 1 -> insn(w, "SHIFT_IMM", imm_shamt_(w), "SLL", "-")
      [] w.f3 = 5 -> insn(w, "SHIFT_IMM", imm_shamt_(w),
                          IF bit30(w) THEN "SRA" ELSE "SRL", "-")
      [] OTHER    -> insn(w, "ALU_IMM", imm_i_(w), AluOps[w.f3 + 1], "-")

DecodeOp(w) ==
    CASE w.f7 = 1 -> insn(w, IF w.f3 < 4 THEN "MUL" ELSE "DIV", 0,
                          MulOps[w.f3 + 1], "-")
      [] w.f7 = 32 /\ w.f3 = 0 -> insn(w, "ALU_REG", 0, "SUB", "-")
      [] w.f7 = 32 /\ w.f3 = 5 -> insn(w, "ALU_REG", 0, "SRA", "-")
      [] w.f7 = 0 -> insn(w, "ALU_REG", 0, AluOps[w.f3 + 1], "-")
      [] OTHER -> Invalid(w)

DecodeSystem(w) ==
    LET bare == w.f3 = 0 /\ w.rd = 0 /\ w.rs1 = 0 /\ w.f7 = 0
        cls  == CASE bare /\ w.rs2 = 0 -> "ECALL"
                  [] bare /\ w.rs2 = 1 -> "EBREAK"
                  [] w.f3 = 0 /\ w.rd = 0 /\ w.rs1 = 0
                         /\ ~ (bare /\ w.rs2 \in {0, 1}) -> "PRIV"
                  [] OTHER -> "CSR"
    IN  insn(w, cls, 0, "-", "-")

merlin_decode(w) ==
    CASE w.op % 4 # 3 \/ w.op = 47 -> insn(w, "UNSUPPORTED", 0, "-", "-")
      [] w.op = 55  -> insn(w, "LUI", imm_u_(w), "-", "-")
      [] w.op = 23  -> insn(w, "AUIPC", imm_u_(w), "-", "-")
      [] w.op = 111 -> insn(w, "JAL", imm_j_(w), "-", "-")
      [] w.op = 103 -> IF w.f3 = 0 THEN insn(w, "JALR", imm_i_(w), "-", "-")
                       ELSE Invalid(w)
      [] w.op = 99  -> insn(w, "BRANCH", imm_b_(w), "-", "-")
      [] w.op = 3   -> insn(w, "LOAD", imm_i_(w), "-", "-")
      [] w.op = 35  -> insn(w, "STORE", imm_s_(w), "-", "-")
      [] w.op = 19  -> DecodeOpImm(w)
      [] w.op = 51  -> DecodeOp(w)
      [] w.op = 15  -> insn(w, IF w.f3 = 1 THEN "FENCE_I" ELSE "FENCE",
                            0, "-", "-")
      [] w.op = 115 -> DecodeSystem(w)
      [] w.op \in {7, 39, 67, 71, 75, 79, 83} ->
             insn(w, "FLOAT", 0, "-", "-")
      [] OTHER -> Invalid(w)

merlin_insn_permitted_rtos(in) ==
    in.cls \in {"LUI", "AUIPC", "JAL", "JALR", "BRANCH", "LOAD", "STORE",
                "ALU_IMM", "SHIFT_IMM", "ALU_REG", "FENCE", "ECALL",
                "MUL", "DIV"}

-----------------------------------------------------------------------------
RV(kind, val) == [kind |-> kind, val |-> val % (2 * Half)]
RV_UNK == RV("UNKNOWN", 0)

vstate_init_entry ==
    [r \in Regs |-> CASE r = 0  -> RV("CONST", 0)
                      [] r = 10 -> RV("PTR_CTX", 0)
                      [] r = 2  -> RV("PTR_STACK", 0)
                      [] OTHER  -> RV_UNK]

(* Mutant: only the bound on ids is tested.                                *)
helper_allowed_AnyId(cfg, id) == id <= cfg.max_helper_id

helper_allowed(cfg, id) == /\ id <= cfg.max_helper_id
                           /\ id \in cfg.helper_allow

merlin_verifier_cfg_for_prog ==
    [max_helper_id |-> 511, allow_back_edges |-> FALSE, helper_allow |-> 1 .. 6]

Reject(s) == [s EXCEPT !.rejected = TRUE]
Put(s, r, v) == [s EXCEPT !.x = [k \in Regs |-> IF k = r THEN v ELSE @[k]]]
PutRd(s, rd, v) == IF rd = 0 THEN s ELSE Put(s, rd, v)

StepEcall(s, cfg) ==
    LET a7 == s.x[17]
        ok == a7.kind = "CONST" /\ helper_allowed(cfg, a7.val)
        clobber == 5 .. 7 \union 11 .. 17 \union 28 .. 31
        called == IF ok THEN Put(s, 10, RV("PTR_HELPER_RET", a7.val))
                  ELSE Reject(s)
    IN  [called EXCEPT !.x = [r \in Regs |-> IF r \in clobber THEN RV_UNK
                                             ELSE @[r]]]

StepAccess(in, s) ==
    LET checked == IF s.x[in.rs1].kind \in {"UNKNOWN", "CONST"}
                   THEN Reject(s) ELSE s
    IN  IF in.cls = "LOAD" THEN PutRd(checked, in.rd, RV_UNK) ELSE checked

(* The first three cases write x[rd] even when rd is 0.                    *)
StepAddi(in, s) ==
    LET src == s.x[in.rs1]
    IN  CASE in.rs1 = 0 -> Put(s, in.rd, RV("CONST", in.imm))
          [] in.rs1 # 0 /\ src.kind \in {"CONST", "PTR_CTX", "PTR_STACK"} ->
                 Put(s, in.rd, RV(src.kind, src.val + in.imm))
          [] OTHER -> PutRd(s, in.rd, RV_UNK)

(* Mutant: jumps may go back.                                              *)
BackEdge_Branch(in, cfg) == /\ in.cls = "BRANCH"
                            /\ in.imm < 0
                            /\ ~ cfg.allow_back_edges

BackEdge(in, cfg) == /\ in.cls \in {"JAL", "BRANCH"}
                     /\ in.imm < 0
                     /\ ~ cfg.allow_back_edges

Step(w, s, cfg) ==
    LET in == merlin_decode(w)
        t  == IF BackEdge(in, cfg) THEN Reject(s) ELSE s
    IN  CASE in.cls = "INVALID" \/ ~ merlin_insn_permitted_rtos(in) -> Reject(s)
          [] in.cls = "ECALL" -> StepEcall(t, cfg)
          [] in.cls \in {"LOAD", "STORE"} -> StepAccess(in, t)
          [] in.cls = "ALU_IMM" /\ in.alu_op = "ADD" -> StepAddi(in, t)
          [] in.cls = "LUI" -> PutRd(t, in.rd, RV("CONST", in.imm))
          [] OTHER -> PutRd(t, in.rd, RV_UNK)

(* TRUE when the code returns 0.  rem is the bytes after the last word.    *)
merlin_verify_text(text, rem, cfg) ==
    LET start == [x |-> vstate_init_entry, rejected |-> FALSE]
        words == [k \in 1 .. Cardinality(DOMAIN text) |-> text[k - 1]]
    IN  /\ rem = 0
        /\ words # <<>>
        /\ ~ FoldLeft(LAMBDA s, w : Step(w, s, cfg), start, words).rejected
=============================================================================
