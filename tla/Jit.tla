-------------------------------- MODULE Jit ---------------------------------
(***************************************************************************)
(* The user-space translator, tools/merlin-jit-x86_64: emit.c and jit.c.   *)
(* An emitter appends one instruction to the buffer; here it is that       *)
(* instruction, and appending is concatenation.  (The bytes and the growth *)
(* of the buffer are left out; without memory there is no image.)          *)
(***************************************************************************)
EXTENDS Decode, X86, FiniteSets

emit_push_r64  == ins("push rbx", 0)
emit_pop_r64   == ins("pop rbx", 0)
emit_sub_rsp_imm32(n) == ins("sub rsp", n)
emit_add_rsp_imm32(n) == ins("add rsp", n)
emit_mov_rbx_rsp == ins("mov rbx rsp", 0)
emit_mov_mem_disp_from_rdi(r) == ins("mov mem rdi", r)
emit_mov_rax_from_mem_disp(r) == ins("mov rax mem", r)
emit_mov_mem_disp_from_rax(r) == ins("mov mem rax", r)
emit_mov_rcx_from_mem_disp(r) == ins("mov rcx mem", r)
emit_mov_rdi_rbx == ins("mov rdi rbx", 0)
emit_mov_rax_imm64(n) == ins("mov rax imm", n)
emit_xor_rax_rax == ins("xor rax rax", 0)
emit_add_rax_rcx == ins("ADD", 0)
emit_sub_rax_rcx == ins("SUB", 0)
emit_or_rax_rcx  == ins("OR", 0)
emit_and_rax_rcx == ins("AND", 0)
emit_xor_rax_rcx == ins("XOR", 0)
emit_imul_rax_rcx == ins("MUL", 0)
emit_add_rax_imm32(n) == ins("add rax imm", n)
emit_shl_rax_imm8(k) == ins("SLL", k)
emit_shr_rax_imm8(k) == ins("SRL", k)
emit_sar_rax_imm8(k) == ins("SRA", k)
emit_call_rax == ins("call rax", 0)
emit_ret == ins("ret", 0)

-----------------------------------------------------------------------------
REGS_BYTES == 256

JFAIL == ins("fail", 0)

(* Of regs[] only the slots of Regs are kept.                              *)
emit_prologue ==
    emit_push_r64 \o emit_sub_rsp_imm32(REGS_BYTES) \o emit_mov_rbx_rsp
        \o emit_xor_rax_rax
        \o FoldSet(LAMBDA r, c : c \o emit_mov_mem_disp_from_rax(r), <<>>, Regs)
        \o emit_mov_mem_disp_from_rdi(10)

(* Mutant: the frame is not given back.                                    *)
emit_epilogue_NoAdd ==
    emit_mov_rax_from_mem_disp(10) \o emit_pop_r64 \o emit_ret

emit_epilogue ==
    emit_mov_rax_from_mem_disp(10) \o emit_add_rsp_imm32(REGS_BYTES)
        \o emit_pop_r64 \o emit_ret

emit_load_rs_pair(rs1, rs2) == emit_mov_rax_from_mem_disp(rs1)
                                   \o emit_mov_rcx_from_mem_disp(rs2)

(* Mutant: x0 is stored like any register.                                 *)
emit_store_rax_to_rd_X0(rd) == emit_mov_mem_disp_from_rax(rd)

emit_store_rax_to_rd(rd) ==
    IF rd = 0 THEN <<>> ELSE emit_mov_mem_disp_from_rax(rd)

emit_helper_call == emit_mov_rdi_rbx \o ins("mov rax trampoline", 0)
                        \o emit_call_rax

AluReg(in) ==
    CASE in.alu_op = "ADD" -> emit_add_rax_rcx
      [] in.alu_op = "SUB" -> emit_sub_rax_rcx
      [] in.alu_op = "OR"  -> emit_or_rax_rcx
      [] in.alu_op = "AND" -> emit_and_rax_rcx
      [] in.alu_op = "XOR" -> emit_xor_rax_rcx
      [] OTHER -> JFAIL

ShiftImm(in) ==
    CASE in.alu_op = "SLL" -> emit_shl_rax_imm8(in.imm)
      [] in.alu_op = "SRL" -> emit_shr_rax_imm8(in.imm)
      [] in.alu_op = "SRA" -> emit_sar_rax_imm8(in.imm)

translate_one(in) ==
    LET load  == emit_mov_rax_from_mem_disp(in.rs1)
        pair  == emit_load_rs_pair(in.rs1, in.rs2)
        store == emit_store_rax_to_rd(in.rd)
    IN  CASE in.cls = "ALU_IMM" ->
                 IF in.alu_op # "ADD" THEN JFAIL
                 ELSE load \o emit_add_rax_imm32(in.imm) \o store
          [] in.cls = "LUI" -> emit_mov_rax_imm64(in.imm) \o store
          [] in.cls = "ALU_REG" ->
                 IF AluReg(in) = JFAIL THEN JFAIL
                 ELSE pair \o AluReg(in) \o store
          [] in.cls = "MUL" ->
                 IF in.alu_op # "MUL" THEN JFAIL
                 ELSE pair \o emit_imul_rax_rcx \o store
          [] in.cls = "SHIFT_IMM" -> load \o ShiftImm(in) \o store
          [] in.cls = "ECALL" -> emit_helper_call
          [] in.cls = "JALR" -> emit_epilogue
          [] in.cls = "FENCE" -> <<>>
          [] OTHER -> JFAIL

(* The image of a text of words 0 .. n - 1 and rem bytes: ok, and for each *)
(* word that was translated what the image does in its place.  The first   *)
(* jalr ends the translation.                                              *)
NoImage == [ok |-> FALSE, code |-> <<>>]

merlin_jit_translate(text, rem) ==
    LET n == Cardinality(DOMAIN text)
        jalrs == {i \in 0 .. n - 1 : merlin_decode(text[i]).cls = "JALR"}
        last == IF jalrs = {} THEN n - 1
                ELSE CHOOSE i \in jalrs : \A j \in jalrs : i <= j
        part == [i \in 0 .. last |-> translate_one(merlin_decode(text[i]))]
    IN  IF n = 0 \/ rem # 0 \/ \E i \in 0 .. last : part[i] = JFAIL
        THEN NoImage
        ELSE [ok |-> TRUE,
              code |-> [i \in 0 .. last |->
                            (IF i = 0 THEN emit_prologue ELSE <<>>)
                                \o part[i]
                                \o (IF i = last /\ jalrs = {}
                                    THEN emit_epilogue ELSE <<>>)]]
=============================================================================
