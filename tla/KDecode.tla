------------------------------ MODULE KDecode ------------------------------
(***************************************************************************)
(* The instruction decoder of the kernel verifier, kernel/merlin/decode.c. *)
(* merlin_decode returns -1 exactly when the class is INVALID.             *)
(***************************************************************************)
EXTENDS Insn

(* (s64)(s32)(insn >> 20): the shift is unsigned, so bit 31 of the word    *)
(* does not become the sign.                                               *)
imm_i(w) == w.f7 * 32 + w.rs2

imm_s(w) == sext(w.f7 * 32 + w.rd, 12)

imm_b(w) == sext((w.f7 \div 64) * 2^12 + (w.rd % 2) * 2^11
                     + (w.f7 % 64) * 32 + (w.rd \div 2) * 2, 13)

imm_u(w) == sext(w.f7 * 2^13 + w.rs2 * 2^8 + w.rs1 * 8 + w.f3, 20) * 2^12

imm_j(w) == sext((w.f7 \div 64) * 2^20 + (w.rs1 * 8 + w.f3) * 2^12
                     + (w.rs2 % 2) * 2^11
                     + (w.f7 % 64) * 32 + (w.rs2 \div 2) * 2, 21)

imm_shamt(w, rv64) == IF rv64 THEN (w.f7 % 2) * 32 + w.rs2 ELSE w.rs2

DecodeControl(w) ==
    CASE w.op = 55  -> insn(w, "LUI", imm_u(w), "-", "-")
      [] w.op = 23  -> insn(w, "AUIPC", imm_u(w), "-", "-")
      [] w.op = 111 -> insn(w, "JAL", imm_j(w), "-", "-")
      [] w.op = 103 /\ w.f3 = 0 -> insn(w, "JALR", imm_i(w), "-", "-")
      [] w.op = 99 /\ w.f3 \notin {2, 3} ->
             insn(w, "BRANCH", imm_b(w), "-", "-")
      [] OTHER -> Invalid(w)

DecodeMemory(w) ==
    CASE w.op = 3 /\ w.f3 <= 6  -> insn(w, "LOAD", imm_i(w), "-", w.f3)
      [] w.op = 35 /\ w.f3 <= 3 -> insn(w, "STORE", imm_s(w), "-", w.f3)
      [] OTHER -> Invalid(w)

DecodeAluImm(w) ==
    CASE w.f3 = 1 -> insn(w, "SHIFT_IMM", imm_shamt(w, TRUE), "SLL", "-")
      [] w.f3 = 5 -> insn(w, "SHIFT_IMM", imm_shamt(w, TRUE),
                          IF bit30(w) THEN "SRA" ELSE "SRL", "-")
      [] OTHER    -> insn(w, "ALU_IMM", imm_i(w), AluOps[w.f3 + 1], "-")

DecodeAluReg(w) ==
    CASE w.f7 = 1 -> insn(w, IF w.f3 < 4 THEN "MUL" ELSE "DIV", 0,
                          MulOps[w.f3 + 1], "-")
      [] w.f7 = 32 /\ w.f3 = 0 -> insn(w, "ALU_REG", 0, "SUB", "-")
      [] w.f7 = 32 /\ w.f3 = 5 -> insn(w, "ALU_REG", 0, "SRA", "-")
      [] w.f7 = 0 -> insn(w, "ALU_REG", 0, AluOps[w.f3 + 1], "-")
      [] OTHER -> Invalid(w)

DecodeAluImmW(w) ==
    CASE w.f3 = 0 -> insn(w, "ALU_IMM_W", imm_i(w), "ADD", "-")
      [] w.f3 = 1 -> insn(w, "ALU_IMM_W", imm_shamt(w, FALSE), "SLL", "-")
      [] w.f3 = 5 -> insn(w, "ALU_IMM_W", imm_shamt(w, FALSE),
                          IF bit30(w) THEN "SRA" ELSE "SRL", "-")
      [] OTHER -> Invalid(w)

(* The zeros of w_ops are ALU_ADD; a W-form multiply leaves alu_op at 0,   *)
(* which is ALU_ADD too.                                                   *)
DecodeAluRegW(w) ==
    CASE w.f7 = 1 -> insn(w, IF w.f3 < 4 THEN "MUL" ELSE "DIV", 0, "ADD", "-")
      [] w.f7 = 32 /\ w.f3 = 0 -> insn(w, "ALU_REG_W", 0, "SUB", "-")
      [] w.f7 = 32 /\ w.f3 = 5 -> insn(w, "ALU_REG_W", 0, "SRA", "-")
      [] w.f7 = 0 -> insn(w, "ALU_REG_W", 0,
                          IF w.f3 \in {1, 5} THEN AluOps[w.f3 + 1] ELSE "ADD",
                          "-")
      [] OTHER -> Invalid(w)

DecodeSystem(w) ==
    LET bare == w.f3 = 0 /\ w.rd = 0 /\ w.rs1 = 0
        cls  == CASE w.op = 15 -> IF w.f3 = 1 THEN "FENCE_I" ELSE "FENCE"
                  [] w.op = 115 /\ bare ->
                         CASE imm_i(w) = 0 -> "ECALL"
                           [] imm_i(w) = 1 -> "EBREAK"
                           [] OTHER -> "PRIV"
                  [] w.op = 115 /\ ~bare -> "CSR"
    IN  insn(w, cls, 0, "-", "-")

merlin_decode(w) ==
    CASE w.op % 4 # 3 \/ w.op = 47 -> insn(w, "UNSUPPORTED", 0, "-", "-")
      [] w.op \in {55, 23, 111, 103, 99} -> DecodeControl(w)
      [] w.op \in {3, 35} -> DecodeMemory(w)
      [] w.op = 19 -> DecodeAluImm(w)
      [] w.op = 51 -> DecodeAluReg(w)
      [] w.op = 27 -> DecodeAluImmW(w)
      [] w.op = 59 -> DecodeAluRegW(w)
      [] w.op \in {15, 115} -> DecodeSystem(w)
      [] w.op \in {7, 39, 67, 71, 75, 79, 83} ->
             insn(w, "FLOAT", 0, "-", "-")
      [] OTHER -> Invalid(w)

(* Mutant: fence.i is permitted.                                           *)
merlin_insn_permitted_FenceI(in) ==
    in.cls \notin {"EBREAK", "CSR", "PRIV", "FLOAT", "INVALID", "UNSUPPORTED"}

merlin_insn_permitted_default(in) ==
    in.cls \in {"LUI", "AUIPC", "JAL", "JALR", "BRANCH", "LOAD", "STORE",
                "ALU_IMM", "SHIFT_IMM", "ALU_REG", "FENCE", "ECALL",
                "ALU_IMM_W", "ALU_REG_W", "MUL", "DIV"}
=============================================================================
