------------------------------- MODULE Values -------------------------------
(***************************************************************************)
(* The values of a program's registers (external: what the machine does    *)
(* with words and addresses).  A value is [k, n]: a number, a stack,       *)
(* context or helper-returned pointer, a kfunc slot, a return address      *)
(* (n = -1: the caller of the program), junk (a word computed from a       *)
(* pointer) or undef (never written).                                      *)
(***************************************************************************)
EXTENDS Words

val(k, n) == [k |-> k, n |-> n]
undef == val("undef", 0)
junk  == val("junk", 0)

Plus(v, d) ==
    CASE v.k = "num" -> val("num", sadd(v.n, s64(d)))
      [] v.k \in {"stack", "ctx"} -> val(v.k, v.n + d)
      [] v.k = "undef" \/ d = 0 -> v
      [] OTHER -> junk

(* Operations of two registers; any other operand than a number spoils all *)
(* but a sum.                                                              *)
AluOf(op, a, b) ==
    LET x == Bits(u64(a.n))
        y == Bits(u64(b.n))
    IN  CASE b.k = "num" /\ op = "ADD" -> Plus(a, b.n)
          [] b.k = "num" /\ op = "SUB" -> Plus(a, -b.n)
          [] a.k = "num" /\ b.k # "num" /\ op = "ADD" -> Plus(b, a.n)
          [] ~ (a.k = "num" /\ b.k = "num") /\ op # "ADD" -> junk
          [] op = "MUL" -> val("num", s64(a.n * b.n))
          [] op = "AND" -> val("num", s64(Num(x \intersect y)))
          [] op = "OR"  -> val("num", s64(Num(x \union y)))
          [] op = "XOR" -> val("num", s64(Num(Xor(x, y))))
          [] OTHER -> junk

(* Shifts by k, of which a word of W bits has W.                           *)
ShiftOf(op, a, k) ==
    CASE a.k # "num" -> IF k = 0 THEN a ELSE junk
      [] op = "SRA" -> val("num", a.n \div 2^(lesser(k, W - 1)))
      [] k >= W -> val("num", 0)
      [] op = "SLL" -> val("num", s64(a.n * 2^k))
      [] op = "SRL" -> val("num", s64(u64(a.n) \div 2^k))
=============================================================================
