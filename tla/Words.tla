------------------------------- MODULE Words --------------------------------
(***************************************************************************)
(* Machine words of W bits, as the C of both verifiers computes with them. *)
(*                                                                         *)
(* A word used bitwise is the set of the positions of its ones, so &, |, ^ *)
(* and ~ are set operations; a word used in arithmetic is its number.      *)
(***************************************************************************)
EXTENDS Integers

CONSTANTS W,     \* bits of a register
          Half   \* 2^(W-1): the signed range is -Half .. Half - 1

(* 1 << i *)
Weight[i \in 0 .. W] == IF i = 0 THEN 1 ELSE 2 * Weight[i - 1]

ASSUME WidthAssumption == /\ W \in Nat \ {0}
                          /\ Half \in Nat \ {0}
                          /\ Half = Weight[W - 1]

AllBits == 0 .. W - 1
SInt    == -Half .. Half - 1
UInt    == 0 .. 2 * Half - 1

(* Between the two readings of a word.                                     *)
Num(S) == LET sum[i \in 0 .. W] ==
                  IF i = 0 THEN 0
                  ELSE sum[i - 1] + (IF i - 1 \in S THEN Weight[i - 1] ELSE 0)
          IN  sum[W]
Bits(n) == {i \in AllBits : (n \div Weight[i]) % 2 = 1}

Xor(S, T) == (S \ T) \union (T \ S)
Add(S, T) == Bits((Num(S) + Num(T)) % (2 * Half))
Sub(S, T) == Bits((Num(S) - Num(T)) % (2 * Half))

(* Two's complement addition and the cast to and from uint64_t.            *)
sadd(x, y) == CASE x + y >= Half -> x + y - 2 * Half
                [] x + y < -Half -> x + y + 2 * Half
                [] OTHER -> x + y
uadd(x, y) == IF x + y >= 2 * Half THEN x + y - 2 * Half ELSE x + y
u64(v) == IF v < 0 THEN v + 2 * Half ELSE v
s64(v) == LET u == v % (2 * Half) IN IF u >= Half THEN u - 2 * Half ELSE u

lesser(x, y)  == IF x < y THEN x ELSE y
greater(x, y) == IF x > y THEN x ELSE y

=============================================================================
