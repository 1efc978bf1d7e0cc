-------------------------------- MODULE KJit --------------------------------
(***************************************************************************)
(* The kernel's translator, kernel/merlin/jit/arch/x86_64.c, and the       *)
(* helpers its trampoline reaches, kernel/merlin/dispatch.c.               *)
(***************************************************************************)
EXTENDS KDecode, X86, FiniteSets

emit_push_rbx == ins("push rbx", 0)
emit_pop_rbx  == ins("pop rbx", 0)
emit_ret      == ins("ret", 0)
emit_sub_rsp_imm32(n) == ins("sub rsp", n)
emit_add_rsp_imm32(n) == ins("add rsp", n)
emit_mov_rbx_rsp == ins("mov rbx rsp", 0)
emit_store_rax(r) == ins("mov mem rax", r)
emit_load_rax(r)  == ins("mov rax mem", r)
emit_load_rcx(r)  == ins("mov rcx mem", r)
emit_store_rdi(r) == ins("mov mem rdi", r)
emit_xor_rax_rax  == ins("xor rax rax", 0)
emit_mov_rax_imm64(n) == ins("mov rax imm", n)
emit_add_rax_imm32(n) == ins("add rax imm", n)
emit_add_rax_rcx  == ins("ADD", 0)
emit_sub_rax_rcx  == ins("SUB", 0)
emit_or_rax_rcx   == ins("OR", 0)
emit_and_rax_rcx  == ins("AND", 0)
emit_xor_rax_rcx  == ins("XOR", 0)
emit_imul_rax_rcx == ins("MUL", 0)
emit_shl_rax_imm8(k) == ins("SLL", k)
emit_shr_rax_imm8(k) == ins("SRL", k)
emit_sar_rax_imm8(k) == ins("SRA", k)
emit_mov_rdi_rbx == ins("mov rdi rbx", 0)
emit_call_rax    == ins("call rax", 0)

-----------------------------------------------------------------------------
REGS_BYTES == 256

ENOSYS == ins("fail", 0)

emit_load_rs_pair(rs1, rs2) == emit_load_rax(rs1) \o emit_load_rcx(rs2)

emit_store_rd(rd) == IF rd = 0 THEN <<>> ELSE emit_store_rax(rd)

emit_prologue ==
    emit_push_rbx \o emit_sub_rsp_imm32(REGS_BYTES) \o emit_mov_rbx_rsp
        \o emit_xor_rax_rax
        \o FoldSet(LAMBDA r, c : c \o emit_store_rax(r), <<>>, Regs)
        \o emit_store_rdi(10)

emit_epilogue == emit_load_rax(10) \o emit_add_rsp_imm32(REGS_BYTES)
                     \o emit_pop_rbx \o emit_ret

(* An operation that is not translated puts 0 into rd.                     *)
AluReg(in) ==
    CASE in.alu_op = "ADD" -> emit_add_rax_rcx
      [] in.alu_op = "SUB" -> emit_sub_rax_rcx
      [] in.alu_op = "OR"  -> emit_or_rax_rcx
      [] in.alu_op = "AND" -> emit_and_rax_rcx
      [] in.alu_op = "XOR" -> emit_xor_rax_rcx
      [] OTHER -> emit_xor_rax_rax

ShiftImm(in) ==
    CASE in.alu_op = "SLL" -> emit_shl_rax_imm8(in.imm)
      [] in.alu_op = "SRL" -> emit_shr_rax_imm8(in.imm)
      [] in.alu_op = "SRA" -> emit_sar_rax_imm8(in.imm)

(* Mutant: the operands are not loaded before a multiplication.            *)
Mul_NoLoad(in) ==
    IF in.alu_op # "MUL" THEN emit_xor_rax_rax ELSE emit_imul_rax_rcx

Mul(in) ==
    IF in.alu_op # "MUL" THEN emit_xor_rax_rax
    ELSE emit_load_rs_pair(in.rs1, in.rs2) \o emit_imul_rax_rcx

(* Branches, jal, loads and stores are left out of the image.              *)
translate_one(in) ==
    LET store == emit_store_rd(in.rd)
    IN  CASE in.cls = "LUI" -> emit_mov_rax_imm64(in.imm) \o store
          [] in.cls = "ALU_IMM" ->
                 emit_load_rax(in.rs1)
                     \o (IF in.alu_op = "ADD" THEN emit_add_rax_imm32(in.imm)
                         ELSE emit_xor_rax_rax)
                     \o store
          [] in.cls = "ALU_REG" ->
                 emit_load_rs_pair(in.rs1, in.rs2) \o AluReg(in) \o store
          [] in.cls = "MUL" -> Mul(in) \o store
          [] in.cls = "SHIFT_IMM" ->
                 emit_load_rax(in.rs1) \o ShiftImm(in) \o store
          [] in.cls = "ECALL" -> emit_mov_rdi_rbx
                                     \o ins("mov rax trampoline", 0)
                                     \o emit_call_rax
          [] in.cls = "JALR" -> emit_epilogue
          [] in.cls \in {"FENCE", "BRANCH", "JAL", "LOAD", "STORE"} -> <<>>
          [] OTHER -> ENOSYS

NoImage == [ok |-> FALSE, code |-> <<>>]

x86_translate(text, rem) ==
    LET n == Cardinality(DOMAIN text)
        jalrs == {i \in 0 .. n - 1 : merlin_decode(text[i]).cls = "JALR"}
        last == IF jalrs = {} THEN n - 1
                ELSE CHOOSE i \in jalrs : \A j \in jalrs : i <= j
        part == [i \in 0 .. last |-> translate_one(merlin_decode(text[i]))]
    IN  IF n = 0 \/ rem # 0 \/ \E i \in 0 .. last : part[i] = ENOSYS
        THEN NoImage
        ELSE [ok |-> TRUE,
              code |-> [i \in 0 .. last |->
                            (IF i = 0 THEN emit_prologue ELSE <<>>)
                                \o part[i]
                                \o (IF i = last /\ jalrs = {}
                                    THEN emit_epilogue ELSE <<>>)]]

-----------------------------------------------------------------------------
(* merlin_dispatch_helper: the built-in that an id reaches, EINVAL if none *)
(* does.                                                                   *)
builtin_helpers == [id \in 0 .. 6 |->
    CASE id = 0 -> "NULL"
      [] id = 1 -> "trace_printk"
      [] id = 2 -> "map_lookup_elem"
      [] id = 3 -> "map_update_elem"
      [] id = 4 -> "map_delete_elem"
      [] id = 5 -> "ktime_get_ns"
      [] id = 6 -> "get_prandom_u32"]

(* Mutant: the id is taken for an index from 1.                            *)
merlin_dispatch_helper_FromOne(id) ==
    IF id - 1 \in DOMAIN builtin_helpers /\ builtin_helpers[id - 1] # "NULL"
    THEN builtin_helpers[id - 1] ELSE "EINVAL"

merlin_dispatch_helper(id) ==
    IF id \in DOMAIN builtin_helpers /\ builtin_helpers[id] # "NULL"
    THEN builtin_helpers[id] ELSE "EINVAL"
=============================================================================
