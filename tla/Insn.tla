-------------------------------- MODULE Insn --------------------------------
(***************************************************************************)
(* What the three instruction decoders share: the word they read and the   *)
(* decoded instruction they fill in (struct merlin_insn).                  *)
(*                                                                         *)
(* A 32-bit word is a record of its R-type fields: op = bits 6..0,         *)
(* rd = 11..7, f3 = 14..12, rs1 = 19..15, rs2 = 24..20, f7 = 31..25.       *)
(* Every immediate is computed from those fields.                          *)
(***************************************************************************)
EXTENDS Integers, Sequences

Word == [op : 0 .. 127, rd : 0 .. 31, f3 : 0 .. 7,
         rs1 : 0 .. 31, rs2 : 0 .. 31, f7 : 0 .. 127]

sext(v, width) == IF v >= 2^(width - 1) THEN v - 2^width ELSE v

(* alu_op is the operation of the ALU classes, kind is ld_kind or st_kind; *)
(* "-" where the class sets none.                                          *)
insn(w, cls, imm, alu_op, kind) ==
    [cls |-> cls, rd |-> w.rd, rs1 |-> w.rs1, rs2 |-> w.rs2,
     imm |-> imm, alu_op |-> alu_op, kind |-> kind]

Invalid(w) == insn(w, "INVALID", 0, "-", "-")

bit30(w) == (w.f7 \div 32) % 2 = 1

AluOps == <<"ADD", "SLL", "SLT", "SLTU", "XOR", "SRL", "OR", "AND">>

MulOps == <<"MUL", "MULH", "MULHSU", "MULHU", "DIV", "DIVU", "REM", "REMU">>
=============================================================================
