------------------------------- MODULE Decode -------------------------------
(***************************************************************************)
(* The instruction decoder of the user-space verifier,                     *)
(* tools/merlin-verifier/decode.c.                                         *)
(***************************************************************************)
EXTENDS Insn

imm_I(w) == sext(w.f7 * 32 + w.rs2, 12)

imm_S(w) == sext(w.f7 * 32 + w.rd, 12)

imm_B(w) == sext((w.f7 \div 64) * 2^12 + (w.rd % 2) * 2^11
                     + (w.f7 % 64) * 32 + (w.rd \div 2) * 2, 13)

imm_U(w) == sext(w.f7 * 2^13 + w.rs2 * 2^8 + w.rs1 * 8 + w.f3, 20) * 2^12

imm_J(w) == sext((w.f7 \div 64) * 2^20 + (w.rs1 * 8 + w.f3) * 2^12
                     + (w.rs2 % 2) * 2^11
                     + (w.f7 % 64) * 32 + (w.rs2 \div 2) * 2, 21)

DecodeControl(w) ==
    CASE w.op = 55  -> insn(w, "LUI", imm_U(w), "-", "-")
      [] w.op = 23  -> insn(w, "AUIPC", imm_U(w), "-", "-")
      [] w.op = 111 -> insn(w, "JAL", imm_J(w), "-", "-")
      [] w.op = 103 -> IF w.f3 # 0 THEN Invalid(w)
                       ELSE insn(w, "JALR", imm_I(w), "-", "-")
      [] w.op = 99  -> IF w.f3 \in {2, 3} THEN Invalid(w)
                       ELSE insn(w, "BRANCH", imm_B(w), "-", "-")

DecodeMemory(w) ==
    CASE w.op = 3  -> IF w.f3 > 6 THEN Invalid(w)
                      ELSE insn(w, "LOAD", imm_I(w), "-", w.f3)
      [] w.op = 35 -> IF w.f3 > 3 THEN Invalid(w)
                      ELSE insn(w, "STORE", imm_S(w), "-", w.f3)

DecodeAluImm(w) ==
    CASE w.f3 = 1 -> insn(w, "SHIFT_IMM", (w.f7 % 2) * 32 + w.rs2, "SLL", "-")
      [] w.f3 = 5 -> insn(w, "SHIFT_IMM", (w.f7 % 2) * 32 + w.rs2,
                          IF bit30(w) THEN "SRA" ELSE "SRL", "-")
      [] OTHER    -> insn(w, "ALU_IMM", imm_I(w), AluOps[w.f3 + 1], "-")

(* funct7 = 0x20 selects SUB and SRA; every other funct7 but 1 is taken    *)
(* for 0.                                                                  *)
RegOp(w) ==
    CASE w.f7 = 32 /\ w.f3 = 0 -> "SUB"
      [] w.f7 = 32 /\ w.f3 = 5 -> "SRA"
      [] OTHER -> AluOps[w.f3 + 1]

DecodeAluReg(w) ==
    IF w.f7 = 1
    THEN insn(w, IF w.f3 < 4 THEN "MUL" ELSE "DIV", 0, MulOps[w.f3 + 1], "-")
    ELSE insn(w, "ALU_REG", 0, RegOp(w), "-")

DecodeAluImmW(w) ==
    CASE w.f3 = 0 -> insn(w, "ALU_IMM_W", imm_I(w), "ADD", "-")
      [] w.f3 = 1 -> insn(w, "ALU_IMM_W", w.rs2, "SLL", "-")
      [] w.f3 = 5 -> insn(w, "ALU_IMM_W", w.rs2,
                          IF bit30(w) THEN "SRA" ELSE "SRL", "-")
      [] OTHER -> Invalid(w)

DecodeAluRegW(w) ==
    CASE w.f7 = 1 /\ w.f3 = 0 -> insn(w, "MUL", 0, "MUL", "-")
      [] w.f7 = 1 /\ w.f3 >= 4 -> insn(w, "DIV", 0, MulOps[w.f3 + 1], "-")
      [] w.f7 # 1 /\ w.f3 \in {0, 1, 5} ->
             insn(w, "ALU_REG_W", 0, RegOp(w), "-")
      [] OTHER -> Invalid(w)

(* FENCE, and SYSTEM: only the exact words of ecall and ebreak.            *)
DecodeSystem(w) ==
    CASE w.op = 15 -> IF w.f3 > 1 THEN Invalid(w)
                      ELSE insn(w, IF w.f3 = 0 THEN "FENCE" ELSE "FENCE_I",
                                0, "-", "-")
      [] w.op = 115 ->
             LET plain == w.rd = 0 /\ w.rs1 = 0 /\ w.f7 = 0
                 cls   == CASE w.f3 # 0 -> "CSR"
                            [] w.f3 = 0 /\ plain /\ w.rs2 = 0 -> "ECALL"
                            [] w.f3 = 0 /\ plain /\ w.rs2 = 1 -> "EBREAK"
                            [] OTHER -> "PRIV"
             IN  insn(w, cls, 0, "-", "-")

merlin_decode(w) ==
    CASE w.op % 4 # 3 -> insn(w, "UNSUPPORTED", 0, "-", "-")
      [] w.op \in {55, 23, 111, 103, 99} -> DecodeControl(w)
      [] w.op \in {3, 35} -> DecodeMemory(w)
      [] w.op = 19 -> DecodeAluImm(w)
      [] w.op = 51 -> DecodeAluReg(w)
      [] w.op = 27 -> DecodeAluImmW(w)
      [] w.op = 59 -> DecodeAluRegW(w)
      [] w.op \in {15, 115} -> DecodeSystem(w)
      [] w.op \in {7, 39, 67, 71, 75, 79, 83} ->
             insn(w, "FLOAT", 0, "-", "-")
      [] OTHER -> Invalid(w)

(* Mutant: ebreak is permitted.                                            *)
merlin_insn_permitted_Ebreak(in) ==
    in.cls \notin {"CSR", "PRIV", "FENCE_I", "FLOAT", "INVALID",
                   "UNSUPPORTED"}

merlin_insn_permitted_default(in) ==
    in.cls \notin {"EBREAK", "CSR", "PRIV", "FENCE_I", "FLOAT", "INVALID",
                   "UNSUPPORTED"}
=============================================================================
