------------------------------ MODULE MCVerify ------------------------------
(* Object files for VerifySystem: the fixtures of                          *)
(* tools/merlin-verifier/bad-progs/run.sh, and families of short programs. *)
EXTENDS VerifySystem

R(op, rd, f3, rs1, rs2, f7) ==
    [op |-> op, rd |-> rd, f3 |-> f3, rs1 |-> rs1, rs2 |-> rs2, f7 |-> f7]

(* Assembler.                                                              *)
I(op, f3, rd, rs1, imm) ==
    LET u == imm % 2^12 IN R(op, rd, f3, rs1, u % 32, u \div 32)
addi(rd, rs1, imm) == I(19, 0, rd, rs1, imm)
li(rd, imm) == addi(rd, 0, imm)
lw(rd, off, rs1) == I(3, 2, rd, rs1, off)
sw(rs2, off, rs1) ==
    LET u == off % 2^12 IN R(35, u % 32, 2, rs1, rs2, u \div 32)
branch(f3, rs1, rs2, off) ==
    LET u == off % 2^13
    IN  R(99, 2 * ((u \div 2) % 16) + ((u \div 2^11) % 2), f3, rs1, rs2,
          64 * (u \div 2^12) + ((u \div 32) % 64))
beq(rs1, rs2, off) == branch(0, rs1, rs2, off)
bne(rs1, rs2, off) == branch(1, rs1, rs2, off)
jal(rd, off) ==
    LET u  == off % 2^21
        hi == (u \div 2^12) % 256
    IN  R(111, rd, hi % 8, hi \div 8,
          2 * ((u \div 2) % 16) + ((u \div 2^11) % 2),
          64 * (u \div 2^20) + ((u \div 32) % 64))
jalr(rd, rs1) == I(103, 0, rd, rs1, 0)
add(rd, rs1, rs2) == R(51, rd, 0, rs1, rs2, 0)
lui(rd, k) == R(55, rd, k % 8, (k \div 8) % 32, (k \div 256) % 32, 0)
ecall == R(115, 0, 0, 0, 0, 0)
ret == jalr(0, 1)
nop == addi(0, 0, 0)

Text(seq) == [i \in 0 .. Len(seq) - 1 |-> seq[i + 1]]

(* run.sh: name of the fixture, words, accepted.                           *)
Fixture(ok, section, seq) == [ok |-> ok, section |-> section, seq |-> seq]
Fixtures ==
    { Fixture(TRUE, "prog", <<li(17, 513), ecall, ret>>),
      Fixture(TRUE, "prog", <<li(10, 1), ret>>),
      Fixture(TRUE, "prog", <<li(17, 272), ecall, li(17, 513), ecall, ret>>),
      Fixture(FALSE, "prog", <<R(115, 0, 0, 0, 1, 0), ret>>),
      Fixture(FALSE, "prog", <<R(115, 0, 1, 0, 0, 24), ret>>),
      Fixture(FALSE, "prog", <<ecall, ret>>),
      Fixture(FALSE, "prog", <<li(17, 769), ecall, ret>>),
      Fixture(FALSE, "prog", <<lw(6, 0, 5), ret>>),
      Fixture(FALSE, "prog", <<nop, beq(0, 0, -4)>>),
      Fixture(FALSE, "prog", <<add(17, 5, 5), ecall>>),
      Fixture(TRUE, "prog", <<li(17, 322), li(10, 10), ecall,
                              addi(10, 10, -1), bne(10, 0, -4), ret>>),
      Fixture(FALSE, "prog", <<addi(10, 10, -1), bne(10, 0, -4), ret>>),
      Fixture(TRUE, "prog", <<li(17, 272), ecall, li(10, 1), beq(0, 0, 8),
                              li(10, 5), ret>>),
      Fixture(FALSE, "prog", <<add(8, 2, 10), ret>>),
      Fixture(TRUE, "prog", <<addi(2, 2, -16), sw(10, 8, 2), lw(11, 8, 2),
                              addi(2, 2, 16), ret>>),
      Fixture(FALSE, "prog", <<addi(2, 2, -16), sw(10, 16, 2), ret>>),
      Fixture(FALSE, "prog", <<addi(2, 2, -1024), ret>>),
      Fixture(FALSE, "prog", <<add(2, 1, 1), ret>>),
      Fixture(TRUE, "prog", <<li(10, 1), li(17, 323), ecall, jalr(0, 10)>>),
      Fixture(FALSE, "prog", <<li(10, 564), li(17, 323), ecall, jalr(0, 10)>>),
      Fixture(FALSE, "prog", <<li(5, 100), jalr(0, 5)>>),
      Fixture(FALSE, "prog", <<jalr(0, 10)>>),
      Fixture(TRUE, "prog", <<li(10, 5), li(11, 1), li(17, 324), ecall, ret>>),
      Fixture(FALSE, "prog", <<li(10, 5), li(11, 256), li(17, 324), ecall, ret>>),
      Fixture(TRUE, "cb", <<addi(10, 10, 1), ret>>),
      Fixture(FALSE, "cb", <<lw(6, 0, 10), ret>>) }

Section(name, seq) == [name |-> name, text |-> Text(seq), rem |-> 0]
FixtureSections == {Section(f.section, f.seq) : f \in Fixtures}


(* Families of programs: every sequence of a few words of a kind, after a  *)
(* prologue.  A word out of each decoder's classes, too.                   *)
Flows == {addi(8, 8, 1), beq(5, 0, 8), beq(5, 0, -4), beq(5, 0, -8),
          jal(0, 8), jal(0, -4), jal(1, 8), ret}
Branches == {beq(5, 0, 8), beq(5, 0, 12), beq(5, 0, -4), beq(5, 0, -8)}
Stacks == {addi(2, 2, -16), addi(2, 2, 16), addi(8, 2, -8), addi(2, 2, -496),
           sw(0, 8, 2), sw(0, -2, 2), lw(6, -4, 8), beq(5, 0, 8),
           add(8, 8, 5), sw(5, -8, 2)}
Calls == {li(17, 323), li(17, 324), li(17, 513), li(17, 3), li(10, 2),
          li(10, 9), li(11, 1), ecall, beq(5, 0, 8), jalr(0, 10)}
Others == {R(op, 0, f3, 1, 0, f7) :
              op \in {1, 7, 15, 19, 23, 27, 47, 51, 55, 59, 115},
              f3 \in 0 .. 7, f7 \in {0, 1, 2, 32}}
Sums == {R(51, 10, f3, 10, 5, f7) : f3 \in {0, 4, 6, 7}, f7 \in {0, 1, 32}}
            \union {I(19, f3, 10, 10, k) : f3 \in {1, 5}, k \in {2, 1026}}
            \union {addi(0, 5, 1), addi(5, 0, 2), lui(10, 2), add(5, 10, 10),
                    R(59, 10, 0, 10, 5, 1), R(15, 0, 0, 0, 0, 0)}
Words(S, n) == IF n = 3 THEN {<<a, b, c>> : a, b, c \in S}
               ELSE {<<a, b, c, d>> : a, b, c, d \in S}

Carried == {addi(8, 2, -8), addi(8, 2, -4), li(8, 1), addi(6, 8, 4),
            addi(2, 2, -16), lw(6, -4, 8), sw(6, -4, 8), li(17, 272), ecall,
            beq(5, 0, 8)}
Callees == {addi(2, 2, -512), addi(2, 2, 16), addi(8, 2, -8), sw(0, -16, 2),
            lw(6, -4, 8), li(17, 513), ecall}
Skipped == {addi(8, 2, -8), lw(6, -4, 8), li(17, 513), ecall, li(11, 1),
            jalr(0, 10), nop}
Bound   == <<li(10, 3), li(17, 322), ecall>>
Resolve == <<li(17, 323), li(10, 2)>>
Repeat  == <<li(17, 324), li(10, 2), li(11, 1)>>

Texts == {w \o <<ret>> : w \in Words(Flows \ {jal(0, -4), jal(0, 8)}, 4)}
            \union {<<a, b, ret>> : a, b \in Flows}
            \union {<<a, b, c, d, e, ret>> : a, b, c, d, e \in Branches}
            \union {<<a, a, a, a, a, a, ret>> : a \in Branches}
            \union {Bound \o w \o <<ret>> : w \in Words(Flows, 3)}
            \union {<<addi(8, 2, -16)>> \o Bound \o <<a, b, beq(5, 0, -8), ret>> :
                        a, b \in Carried}
            \union {w \o <<ret>> : w \in Words(Stacks, 3)}
            \union {<<jal(1, 12), a, ret, b, ret>> : a, b \in Callees}
            \union {p \o <<beq(5, 0, 8), jal(0, 8), a, b, ret>> :
                        p \in {<<>>, <<li(17, 324), li(10, 2)>>, Resolve},
                        a, b \in Skipped}
            \union {Resolve \o <<ecall, jalr(1, 10), a, ret>> : a \in Skipped}
            \union {p \o w \o <<ret>> : p \in {Resolve, Repeat},
                                         w \in Words(Calls, 3)}
            \union {<<w, ret>> : w \in Others}
            \union {<<li(10, -7), li(5, 5), a, b, ret>> : a, b \in Sums}
            \union {<<li(17, 1), ecall, a>> : a \in Sums}

Empty == [name |-> "prog", text |-> <<>>, rem |-> 0]
Odd   == [Section("prog", <<ret>>) EXCEPT !.rem = 2]
Data  == [Section("other", <<nop>>) EXCEPT !.rem = 3]
Few   == {Empty, Odd, Data, Section("prog", <<ret>>),
          Section("prog", <<ecall, ret>>), Section("cb", <<addi(10, 10, 1), ret>>)}

MCObjects == {<<s>> : s \in FixtureSections}
                \union {<<Section("prog", t)>> : t \in Texts}
                \union {<<>>} \union {<<s>> : s \in Few}
                \union {<<s, t>> : s, t \in Few}

(* For the runs that show where the code and its documents disagree.       *)
LoopObjects ==
    {<<Section("prog", <<beq(5, 0, 8), nop, beq(5, 0, -4), beq(5, 0, -12),
                         ret>>)>>}
SkippedObjects ==
    {<<Section("prog", <<beq(5, 0, 8), jal(0, 8), a, b, ret>>)>> :
        a, b \in Skipped}

-----------------------------------------------------------------------------
(* The user-space verifier gives every fixture of run.sh the verdict that  *)
(* run.sh expects of it.                                                   *)
FixtureVerdicts ==
    stage = "user" /\ phase \in {"OK", "REJECT"} /\ prog.rem = 0 =>
        \A f \in Fixtures :
            /\ prog.text = Text(f.seq)
            /\ prog.cfg.is_callback_body = (f.section = "cb")
            => (phase = "OK") = f.ok
=============================================================================
