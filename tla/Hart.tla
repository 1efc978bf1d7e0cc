-------------------------------- MODULE Hart --------------------------------
(***************************************************************************)
(* The hart that runs a program (external: the RISC-V unprivileged ISA and *)
(* the calling convention the verifier assumes).  It is what the           *)
(* verifiers' verdicts are about.                                          *)
(*                                                                         *)
(* Branches go either way; a load, and an operation that neither the       *)
(* domain nor the translators follow, yield any number of Outcomes.  A     *)
(* register that was never written, or that a call has clobbered, is       *)
(* undef: it holds anything.  A jump through a register goes to the        *)
(* instruction after the jump that linked it, calls a kfunc, which comes   *)
(* back to ra, or leaves the text; the hart stops when it leaves the text, *)
(* by a return to the caller of the program or otherwise.                  *)
(***************************************************************************)
EXTENDS Decode, Values

CONSTANTS Regs, Outcomes,
          Fuel      \* bound: instructions of one execution

VARIABLES pc,     \* instruction number, or Halt
          reg,
          fuel,
          event,  \* what the last instruction did, as the properties see it
          resumed \* it has come back into the text through a register, by a
                  \* return or from a kfunc: no edge of the graphs goes there

hartVars == <<pc, reg, fuel, event, resumed>>

Halt == -1

Quiet == [t |-> "-"]

(* The state a program is entered in; index is a callback's iteration.     *)
EntryRegs(callback, index) ==
    [r \in Regs |-> CASE r = 0  -> val("num", 0)
                      [] r = 1  -> val("ra", -1)
                      [] r = 2  -> val("stack", 0)
                      [] r = 10 -> IF callback THEN val("num", index)
                                   ELSE val("ctx", 0)
                      [] r = 11 /\ callback -> val("ctx", 0)
                      [] OTHER -> undef]

Any == {val("num", n) : n \in Outcomes}

(* The values rd may get.  mulw is a 32-bit multiplication.                *)
Results(w, in) ==
    LET a == reg[in.rs1]
        b == reg[in.rs2]
        known == in.alu_op \in {"ADD", "SUB", "AND", "OR", "XOR"}
    IN  CASE in.cls = "LUI"   -> {val("num", s64(in.imm))}
          [] in.cls = "AUIPC" -> {junk}
          [] in.cls = "JAL"   -> {val("ra", pc + 1)}
          [] in.cls = "ALU_IMM" /\ in.alu_op = "ADD" -> {Plus(a, in.imm)}
          [] in.cls = "ALU_REG" /\ known -> {AluOf(in.alu_op, a, b)}
          [] in.cls = "MUL" /\ in.alu_op = "MUL" /\ w.op = 51 ->
                 {AluOf("MUL", a, b)}
          [] in.cls = "SHIFT_IMM" -> {ShiftOf(in.alu_op, a, in.imm)}
          [] OTHER -> Any

Targets(in, n) ==
    LET to(byte) == IF byte % 4 = 0 /\ byte \div 4 \in 0 .. n - 1
                    THEN byte \div 4 ELSE Halt
        fall == to(4 * pc + 4)
    IN  CASE in.cls = "BRANCH" -> {fall, to(4 * pc + in.imm)}
          [] in.cls = "JAL"    -> {to(4 * pc + in.imm)}
          [] OTHER -> {fall}

(* The registers after a call that returns v.                              *)
AfterCall(x, v) ==
    LET clobber == 5 .. 7 \union 11 .. 17 \union 28 .. 31
    IN  [r \in Regs |-> IF r \in clobber THEN undef
                        ELSE IF r = 10 THEN v ELSE x[r]]

(* A helper call, by the ids the verifiers know.  When a7 is not a number  *)
(* the program knows, the id is whatever the register holds.               *)
Ecall(n) ==
    LET ids == IF reg[17].k = "num" THEN {u64(reg[17].n)}
               ELSE {u64(k) : k \in Outcomes}
        results(id) == CASE id = 323 -> IF reg[10].k = "num"
                                        THEN {val("kfunc", u64(reg[10].n))}
                                        ELSE {junk}
                         [] id = 324 -> Any
                         [] OTHER -> {val("ret", id)}
    IN  /\ pc' \in Targets([cls |-> "ECALL"], n)
        /\ \E id \in ids : \E v \in results(id) :
              /\ event' = [t |-> "call", id |-> id, a7 |-> reg[17],
                           a0 |-> reg[10], a1 |-> reg[11]]
              /\ reg' = AfterCall(reg, v)
        /\ UNCHANGED resumed

(* jalr: rd gets the return address, and the hart goes where rs1 says; a   *)
(* kfunc returns to ra.                                                    *)
Jalr(in, n) ==
    LET v == Plus(reg[in.rs1], in.imm)
        linked == IF in.rd = 0 THEN reg
                  ELSE [reg EXCEPT ![in.rd] = val("ra", pc + 1)]
        back == IF v.k = "kfunc" THEN linked[1] ELSE v
    IN  /\ pc' = IF back.k = "ra" /\ back.n \in 0 .. n - 1 THEN back.n ELSE Halt
        /\ resumed' = (resumed \/ pc' # Halt)
        /\ event' = [t |-> "jump", rs1 |-> in.rs1, to |-> v, after |-> resumed]
        /\ IF v.k = "kfunc" THEN \E a0 \in Any : reg' = AfterCall(linked, a0)
           ELSE reg' = linked

EventOf(in) ==
    IF in.cls \in {"LOAD", "STORE"}
    THEN [t |-> "access", base |-> reg[in.rs1], w |-> 2^(in.kind % 4),
          at |-> Plus(reg[in.rs1], in.imm)]
    ELSE Quiet

WritesRd(in) == in.cls \notin {"STORE", "BRANCH", "FENCE"} /\ in.rd # 0

(* One instruction of a text of n words.                                   *)
Execute(text, n) ==
    LET in == merlin_decode(text[pc])
    IN  /\ pc # Halt /\ fuel > 0
        /\ fuel' = fuel - 1
        /\ CASE in.cls = "ECALL" -> Ecall(n)
             [] in.cls = "JALR"  -> Jalr(in, n)
             [] OTHER ->
                    /\ pc' \in Targets(in, n)
                    /\ event' = EventOf(in)
                    /\ IF WritesRd(in)
                       THEN \E v \in Results(text[pc], in) :
                                reg' = [reg EXCEPT ![in.rd] = v]
                       ELSE UNCHANGED reg
                    /\ UNCHANGED resumed
=============================================================================
