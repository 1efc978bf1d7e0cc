------------------------- MODULE AdmissionProofs ----------------------------
(***************************************************************************)
(* The theorems about the parts that decide whether a program is let in:   *)
(* the scalar domain of the verifier and namespaces.                       *)
(*                                                                         *)
(* The scalar domain is sound for words of every width: an operation on    *)
(* abstract values contains the operation on any words they contain.  For  *)
(* tnum_add and tnum_sub that is an induction over the bits of a word: the *)
(* number that the bits below one make (Low) decides the carry into it.    *)
(*                                                                         *)
(* Namespaces, for any number of files, ids and quotas and chains of any   *)
(* length: a namespace admits no program that one it was derived from      *)
(* refuses.                                                                *)
(***************************************************************************)
EXTENDS Tnum, Namespace, LoopInduction, TLAPS

-----------------------------------------------------------------------------
(* The scalar domain.                                                      *)

(* The word with the ones x is among those that t allows.                  *)
In(x, t) == x \ t.mask = t.value

(* The word whose signed reading is x is in both ranges of s.              *)
InRange(x, s) == /\ s.smin <= x /\ x <= s.smax
                 /\ s.umin <= u64(x) /\ u64(x) <= s.umax

(* That word is in s: in its ranges and among those its known bits allow.  *)
Contains(s, x) == InRange(x, s) /\ In(Bits(u64(x)), s.tn)

Formed(t) == t.value \intersect t.mask = {}

-----------------------------------------------------------------------------
(* The signed and the unsigned addition of scalar_add are one addition of  *)
(* words: the cast to uint64_t commutes with it.                           *)
LEMMA CastOfSum ==
    ASSUME NEW x \in SInt, NEW y \in SInt
    PROVE  /\ u64(x) \in UInt
           /\ sadd(x, y) \in SInt
           /\ u64(sadd(x, y)) = uadd(u64(x), u64(y))
<1>1. Half \in Nat /\ Half > 0
  BY WidthAssumption
<1> QED
  BY <1>1 DEF SInt, UInt, u64, sadd, uadd

(* If neither the least nor the greatest operands overflow, no operands in *)
(* between do, and the sum lies between the two sums.                      *)
LEMMA SignedSum ==
    ASSUME NEW lo1 \in SInt, NEW hi1 \in SInt, NEW lo2 \in SInt,
           NEW hi2 \in SInt, NEW x \in SInt, NEW y \in SInt,
           lo1 <= x, x <= hi1, lo2 <= y, y <= hi2,
           ~ SignedOverflow(lo1, lo2), ~ SignedOverflow(hi1, hi2)
    PROVE  sadd(lo1, lo2) <= sadd(x, y) /\ sadd(x, y) <= sadd(hi1, hi2)
<1>1. Half \in Nat /\ Half > 0
  BY WidthAssumption
<1>2. lo1 + lo2 >= -Half
  BY <1>1 DEF SInt, SignedOverflow, sadd
<1>3. hi1 + hi2 < Half
  BY <1>1 DEF SInt, SignedOverflow, sadd
<1>4. lo1 + lo2 <= x + y /\ x + y <= hi1 + hi2
  BY <1>1 DEF SInt
<1> QED
  BY <1>1, <1>2, <1>3, <1>4 DEF SInt, sadd

(* The same of unsigned words, whose overflow test is a sum below its      *)
(* first operand.                                                          *)
LEMMA UnsignedSum ==
    ASSUME NEW lo1 \in UInt, NEW hi1 \in UInt, NEW lo2 \in UInt,
           NEW hi2 \in UInt, NEW x \in UInt, NEW y \in UInt,
           lo1 <= x, x <= hi1, lo2 <= y, y <= hi2,
           ~ (uadd(lo1, lo2) < lo1), ~ (uadd(hi1, hi2) < hi1)
    PROVE  uadd(lo1, lo2) <= uadd(x, y) /\ uadd(x, y) <= uadd(hi1, hi2)
<1>1. Half \in Nat /\ Half > 0
  BY WidthAssumption
<1>2. hi1 + hi2 < 2 * Half
  BY <1>1 DEF UInt, uadd
<1> QED
  BY <1>1, <1>2 DEF UInt, uadd

(* The overflow tests of scalar_add keep every sum of two words in the     *)
(* ranges of a and b, wrapped as the machine wraps it, in the signed and   *)
(* the unsigned range of scalar_add(a, b).                                 *)
LEMMA AddRanges ==
    ASSUME NEW a \in Scalars, NEW b \in Scalars, NEW x \in SInt, NEW y \in SInt,
           InRange(x, a), InRange(y, b)
    PROVE  InRange(sadd(x, y), scalar_add(a, b))
<1> DEFINE s == scalar_add(a, b)
<1>1. /\ a.smin \in SInt /\ a.smax \in SInt /\ a.umin \in UInt /\ a.umax \in UInt
      /\ b.smin \in SInt /\ b.smax \in SInt /\ b.umin \in UInt /\ b.umax \in UInt
  BY DEF Scalars
<1>2. /\ a.smin <= x /\ x <= a.smax /\ a.umin <= u64(x) /\ u64(x) <= a.umax
      /\ b.smin <= y /\ y <= b.smax /\ b.umin <= u64(y) /\ u64(y) <= b.umax
  BY DEF InRange
<1>3. /\ u64(x) \in UInt /\ u64(y) \in UInt
      /\ sadd(x, y) \in SInt /\ u64(sadd(x, y)) \in UInt
      /\ u64(sadd(x, y)) = uadd(u64(x), u64(y))
  BY CastOfSum
<1>4. Half \in Nat /\ Half > 0
  BY WidthAssumption
<1>5. s.smin <= sadd(x, y) /\ sadd(x, y) <= s.smax
  <2>1. CASE SignedOverflow(a.smin, b.smin) \/ SignedOverflow(a.smax, b.smax)
    BY <2>1, <1>3, <1>4 DEF scalar_add, scalar, SInt
  <2>2. CASE ~ SignedOverflow(a.smin, b.smin) /\ ~ SignedOverflow(a.smax, b.smax)
    <3>1. /\ sadd(a.smin, b.smin) <= sadd(x, y)
          /\ sadd(x, y) <= sadd(a.smax, b.smax)
      BY <2>2, <1>1, <1>2, SignedSum
    <3>2. s.smin = sadd(a.smin, b.smin) /\ s.smax = sadd(a.smax, b.smax)
      BY <2>2 DEF scalar_add, scalar
    <3> QED
      BY <3>1, <3>2
  <2> QED
    BY <2>1, <2>2
<1>6. s.umin <= u64(sadd(x, y)) /\ u64(sadd(x, y)) <= s.umax
  <2> DEFINE over == \/ uadd(a.umin, b.umin) < a.umin
                     \/ uadd(a.umax, b.umax) < a.umax
  <2>1. CASE over
    BY <2>1, <1>3, <1>4 DEF scalar_add, scalar, UInt
  <2>2. CASE ~ over
    <3>1. /\ uadd(a.umin, b.umin) <= uadd(u64(x), u64(y))
          /\ uadd(u64(x), u64(y)) <= uadd(a.umax, b.umax)
      BY <2>2, <1>1, <1>2, <1>3, UnsignedSum
    <3>2. s.umin = uadd(a.umin, b.umin) /\ s.umax = uadd(a.umax, b.umax)
      BY <2>2 DEF scalar_add, scalar
    <3> QED
      BY <3>1, <3>2, <1>3
  <2> QED
    BY <2>1, <2>2
<1> QED
  BY <1>5, <1>6 DEF InRange

-----------------------------------------------------------------------------
(* Words as numbers.                                                       *)

(* The weights of the bits are the powers of two.                          *)
LEMMA Weights ==
    /\ \A i \in 0 .. W : Weight[i] \in Nat /\ Weight[i] > 0
    /\ Weight[0] = 1
    /\ \A i \in AllBits : Weight[i + 1] = 2 * Weight[i]
    /\ Weight[W] = 2 * Half
<1> DEFINE S == Nat \ {0}
           F(d) == [i \in 0 .. W |-> IF i = 0 THEN 1 ELSE 2 * d[i - 1]]
           G == [n \in 1 .. W |-> [x \in S |-> 2 * x]]
           D == CHOOSE d : d = F(d)
<1>1. W \in Nat /\ 1 \in S /\ G \in [1 .. W -> [S -> S]]
  BY WidthAssumption
<1>2. \A n \in 1 .. W, x \in S : G[n][x] = 2 * x
  OBVIOUS
<1>3. Weight = D
  BY DEF Weight
<1> HIDE DEF G, S
<1>4. PICK f : IsRun(f, S, 1, W, G)
  BY <1>1, LoopRuns
<1>5. \A n \in 1 .. W : n - 1 \in 0 .. W /\ n \in 0 .. W
  BY <1>1
<1>6. /\ f \in [0 .. W -> S] /\ f[0] = 1
      /\ \A n \in 1 .. W : f[n] = 2 * f[n - 1]
  BY <1>2, <1>4, <1>5 DEF IsRun
<1>7. \A n \in 0 .. W : n = 0 \/ n \in 1 .. W
  BY <1>1
<1>8. f = F(f)
  <2>1. \A n \in 0 .. W : f[n] = F(f)[n]
    BY <1>6, <1>7
  <2> QED BY <1>6, <2>1
<1>9. D = F(D)
  BY <1>8
<1> HIDE DEF D
<1>10. 0 \in 0 .. W
  BY <1>1
<1>11. D[0] = 1 /\ \A n \in 1 .. W : D[n] = 2 * D[n - 1]
  <2>1. D[0] = F(D)[0] /\ \A n \in 1 .. W : D[n] = F(D)[n]
    BY <1>9
  <2>2. F(D)[0] = 1
    BY <1>10
  <2>3. \A n \in 1 .. W : F(D)[n] = 2 * D[n - 1]
    BY <1>5
  <2> QED BY <2>1, <2>2, <2>3
<1>12. 0 .. W \subseteq {n \in 0 .. W : D[n] \in S}
  <2> DEFINE P == {n \in 0 .. W : D[n] \in S}
  <2>1. 0 \in P
    BY <1>1, <1>10, <1>11
  <2>2. ASSUME NEW n \in 0 .. W, n # 0, n - 1 \in P
        PROVE  n \in P
    <3>1. n \in 1 .. W /\ D[n - 1] \in S
      BY <1>7, <2>2
    <3> QED BY <1>11, <3>1 DEF S
  <2> HIDE DEF P
  <2>3. 0 .. W \subseteq P
    BY <1>1, <2>1, <2>2, UpTo
  <2> QED BY <2>3 DEF P
<1>13. \A i \in AllBits : i + 1 \in 1 .. W /\ (i + 1) - 1 = i
  BY <1>1 DEF AllBits
<1>14. \A i \in AllBits : Weight[i + 1] = 2 * Weight[i]
  BY <1>3, <1>11, <1>13
<1>15. Weight[W] = 2 * Half
  <2>1. W - 1 \in AllBits /\ (W - 1) + 1 = W
    BY WidthAssumption DEF AllBits
  <2> QED BY <1>14, <2>1, WidthAssumption
<1> QED BY <1>3, <1>11, <1>12, <1>14, <1>15 DEF S

(* The number that the bits below i make.                                  *)
Digit(A, i) == IF i \in A THEN Weight[i] ELSE 0
Low(A, i) == (CHOOSE sum : sum = [n \in 0 .. W |->
    IF n = 0 THEN 0
    ELSE sum[n - 1] + (IF n - 1 \in A THEN Weight[n - 1] ELSE 0)])[i]

(* It is computed from the bottom up, and all of it is Num.                *)
LEMMA LowFacts ==
    ASSUME NEW A
    PROVE  /\ Num(A) = Low(A, W)
           /\ Low(A, 0) = 0
           /\ \A i \in 0 .. W : Low(A, i) \in Nat
           /\ \A i \in AllBits : Low(A, i + 1) = Low(A, i) + Digit(A, i)
<1> DEFINE F(d) == [n \in 0 .. W |->
                      IF n = 0 THEN 0
                      ELSE d[n - 1] + (IF n - 1 \in A THEN Weight[n - 1] ELSE 0)]
           G == [n \in 1 .. W |-> [x \in Nat |-> x + Digit(A, n - 1)]]
           D == CHOOSE d : d = F(d)
<1>1. W \in Nat /\ \A n \in 1 .. W : n - 1 \in 0 .. W /\ n \in 0 .. W
  BY WidthAssumption
<1>2. \A n \in 1 .. W : Digit(A, n - 1) \in Nat
  BY <1>1, Weights DEF Digit
<1>3. Num(A) = D[W] /\ \A i : Low(A, i) = D[i]
  BY DEF Num, Low
<1>4. G \in [1 .. W -> [Nat -> Nat]]
  BY <1>2
<1>5. \A n \in 1 .. W, x \in Nat : G[n][x] = x + Digit(A, n - 1)
  OBVIOUS
<1> HIDE DEF G
<1>6. PICK f : IsRun(f, Nat, 0, W, G)
  BY <1>1, <1>4, LoopRuns
<1>7. /\ f \in [0 .. W -> Nat] /\ f[0] = 0
      /\ \A n \in 1 .. W : f[n] = f[n - 1] + Digit(A, n - 1)
  BY <1>1, <1>5, <1>6 DEF IsRun
<1>8. \A n \in 0 .. W : n = 0 \/ n \in 1 .. W
  BY <1>1
<1>9. f = F(f)
  <2>1. \A n \in 0 .. W : f[n] = F(f)[n]
    BY <1>7, <1>8 DEF Digit
  <2> QED BY <1>7, <2>1
<1>10. D = F(D)
  BY <1>9
<1> HIDE DEF D
<1>11. 0 \in 0 .. W
  BY <1>1
<1>12. D[0] = 0 /\ \A n \in 1 .. W : D[n] = D[n - 1] + Digit(A, n - 1)
  <2>1. D[0] = F(D)[0] /\ \A n \in 1 .. W : D[n] = F(D)[n]
    BY <1>10
  <2>2. F(D)[0] = 0
    BY <1>11
  <2>3. \A n \in 1 .. W : F(D)[n] = D[n - 1] + Digit(A, n - 1)
    BY <1>1 DEF Digit
  <2> QED BY <2>1, <2>2, <2>3
<1>13. 0 .. W \subseteq {n \in 0 .. W : D[n] \in Nat}
  <2> DEFINE P == {n \in 0 .. W : D[n] \in Nat}
  <2>1. 0 \in P
    BY <1>11, <1>12
  <2>2. ASSUME NEW n \in 0 .. W, n # 0, n - 1 \in P
        PROVE  n \in P
    <3>1. n \in 1 .. W /\ D[n - 1] \in Nat
      BY <1>8, <2>2
    <3> QED BY <1>2, <1>12, <3>1
  <2> HIDE DEF P
  <2>3. 0 .. W \subseteq P
    BY <1>1, <2>1, <2>2, UpTo
  <2> QED BY <2>3 DEF P
<1>14. \A i \in AllBits : i + 1 \in 1 .. W /\ (i + 1) - 1 = i
  BY <1>1 DEF AllBits
<1>15. \A i \in AllBits : D[i + 1] = D[i] + Digit(A, i)
  BY <1>12, <1>14
<1> QED BY <1>3, <1>12, <1>13, <1>15

(* A bit is below the width, and its weight a positive number.             *)
LEMMA BitRange ==
    ASSUME NEW i \in AllBits
    PROVE  i \in 0 .. W /\ i + 1 \in 0 .. W /\ i \in Nat /\ Weight[i] \in Nat \ {0}
<1>1. i \in 0 .. W /\ i + 1 \in 0 .. W /\ i \in Nat
  BY WidthAssumption DEF AllBits
<1> QED BY <1>1, Weights

(* Induction over the bits of a word.                                      *)
LEMMA BitInduction ==
    ASSUME NEW P, 0 \in P, \A i \in AllBits : i \in P => i + 1 \in P
    PROVE  0 .. W \subseteq P
<1>1. W \in Nat
  BY WidthAssumption
<1>2. ASSUME NEW n \in 0 .. W, n # 0, n - 1 \in P
      PROVE  n \in P
  <2>1. n - 1 \in AllBits /\ (n - 1) + 1 = n
    BY <1>1, <1>2 DEF AllBits
  <2>2. (n - 1) + 1 \in P
    BY <1>2, <2>1
  <2> QED BY <2>1, <2>2
<1> QED BY <1>1, <1>2, UpTo

(* What is below a bit is less than its weight.                            *)
LEMMA LowBound ==
    ASSUME NEW A, NEW k \in 0 .. W
    PROVE  Low(A, k) \in Nat /\ Low(A, k) < Weight[k]
<1> DEFINE P == {i \in 0 .. W : Low(A, i) < Weight[i]}
<1>1. 0 \in P
  BY LowFacts, Weights, WidthAssumption
<1>2. ASSUME NEW i \in AllBits, i \in P
      PROVE  i + 1 \in P
  <2>1. /\ i + 1 \in 0 .. W /\ Weight[i] \in Nat /\ Low(A, i) \in Nat
        /\ Weight[i + 1] = 2 * Weight[i] /\ Low(A, i) < Weight[i]
        /\ Low(A, i + 1) = Low(A, i) + Digit(A, i)
    BY <1>2, BitRange, Weights, LowFacts
  <2>2. Low(A, i + 1) < Weight[i + 1]
    BY <2>1 DEF Digit
  <2> QED BY <2>1, <2>2
<1> HIDE DEF P
<1>3. 0 .. W \subseteq P
  BY <1>1, <1>2, BitInduction
<1> QED BY <1>3, LowFacts DEF P

(* The numbers of disjoint sets of bits add up to that of their union.     *)
LEMMA LowUnion ==
    ASSUME NEW A, NEW B, A \intersect B = {}, NEW k \in 0 .. W
    PROVE  Low(A \union B, k) = Low(A, k) + Low(B, k)
<1> DEFINE P == {i \in 0 .. W : Low(A \union B, i) = Low(A, i) + Low(B, i)}
<1>1. 0 \in P
  BY LowFacts, WidthAssumption
<1>2. ASSUME NEW i \in AllBits, i \in P
      PROVE  i + 1 \in P
  <2>1. /\ i + 1 \in 0 .. W /\ Weight[i] \in Nat
        /\ Low(A, i) \in Nat /\ Low(B, i) \in Nat
        /\ Low(A \union B, i) = Low(A, i) + Low(B, i)
    BY <1>2, BitRange, LowFacts
  <2>2. /\ Low(A, i + 1) = Low(A, i) + Digit(A, i)
        /\ Low(B, i + 1) = Low(B, i) + Digit(B, i)
        /\ Low(A \union B, i + 1) = Low(A \union B, i) + Digit(A \union B, i)
    BY <1>2, LowFacts
  <2>3. Digit(A \union B, i) = Digit(A, i) + Digit(B, i)
    BY <2>1 DEF Digit
  <2>4. Digit(A, i) \in Nat /\ Digit(B, i) \in Nat
    BY <2>1 DEF Digit
  <2> QED BY <2>1, <2>2, <2>3, <2>4
<1> HIDE DEF P
<1>3. 0 .. W \subseteq P
  BY <1>1, <1>2, BitInduction
<1> QED BY <1>3 DEF P

(* The bits above i are a multiple of twice its weight ...                 *)
LEMMA WeightMultiple ==
    ASSUME NEW i \in AllBits, NEW k \in 0 .. W, k >= i + 1
    PROVE  \E q \in Nat : Weight[k] = 2 * Weight[i] * q
<1> DEFINE P == {n \in 0 .. W : n >= i + 1 =>
                                  \E q \in Nat : Weight[n] = 2 * Weight[i] * q}
<1>1. 0 \in P
  BY WidthAssumption, BitRange
<1>2. ASSUME NEW n \in AllBits, n \in P
      PROVE  n + 1 \in P
  <2>1. /\ n + 1 \in 0 .. W /\ n \in Nat /\ i \in Nat
        /\ Weight[i] \in Nat /\ Weight[n] \in Nat
        /\ Weight[n + 1] = 2 * Weight[n]
    BY BitRange, Weights
  <2>2. CASE n = i
    <3>1. Weight[n + 1] = 2 * Weight[i] * 1
      BY <2>1, <2>2
    <3> QED BY <2>1, <3>1
  <2>3. CASE n >= i + 1
    <3>1. PICK q \in Nat : Weight[n] = 2 * Weight[i] * q
      BY <1>2, <2>3
    <3>2. 2 * Weight[n] = 2 * Weight[i] * (2 * q)
      BY <2>1, <3>1
    <3>3. 2 * q \in Nat
      OBVIOUS
    <3> QED BY <2>1, <3>2, <3>3
  <2>4. CASE n < i
    BY <2>1, <2>4
  <2> QED BY <2>1, <2>2, <2>3, <2>4
<1> HIDE DEF P
<1>3. 0 .. W \subseteq P
  BY <1>1, <1>2, BitInduction
<1> QED BY <1>3 DEF P

(* ... so a word is what its bits up to i make, and such a multiple.       *)
LEMMA LowRest ==
    ASSUME NEW A, NEW i \in AllBits
    PROVE  \E q \in Nat : Num(A) = Low(A, i) + Digit(A, i) + 2 * Weight[i] * q
<1> DEFINE P == {n \in 0 .. W : n >= i + 1 => \E q \in Nat :
                     Low(A, n) = Low(A, i) + Digit(A, i) + 2 * Weight[i] * q}
<1>0. /\ i \in Nat /\ Weight[i] \in Nat /\ Low(A, i) \in Nat
      /\ Digit(A, i) \in Nat
  BY BitRange, LowFacts DEF Digit
<1>1. 0 \in P
  BY <1>0, WidthAssumption
<1>2. ASSUME NEW n \in AllBits, n \in P
      PROVE  n + 1 \in P
  <2>1. /\ n + 1 \in 0 .. W /\ n \in Nat /\ n \in 0 .. W
        /\ Low(A, n) \in Nat /\ Weight[n] \in Nat
        /\ Low(A, n + 1) = Low(A, n) + Digit(A, n)
    BY BitRange, LowFacts
  <2>2. CASE n = i
    <3>1. Low(A, n + 1) = Low(A, i) + Digit(A, i) + 2 * Weight[i] * 0
      BY <1>0, <2>1, <2>2
    <3> QED BY <2>1, <3>1
  <2>3. CASE n >= i + 1
    <3>1. PICK q \in Nat :
            Low(A, n) = Low(A, i) + Digit(A, i) + 2 * Weight[i] * q
      BY <1>2, <2>3
    <3>2. PICK r \in Nat : Weight[n] = 2 * Weight[i] * r
      BY <2>1, <2>3, WeightMultiple
    <3>3. PICK t \in Nat : Digit(A, n) = 2 * Weight[i] * t
      <4>1. CASE n \in A
        BY <3>2, <4>1 DEF Digit
      <4>2. CASE n \notin A
        <5>1. Digit(A, n) = 2 * Weight[i] * 0
          BY <1>0, <4>2 DEF Digit
        <5> QED BY <5>1
      <4> QED BY <4>1, <4>2
    <3>4. q + t \in Nat
      OBVIOUS
    <3>5. 2 * Weight[i] * q + 2 * Weight[i] * t = 2 * Weight[i] * (q + t)
      BY <1>0
    <3>6. Low(A, n + 1) = Low(A, i) + Digit(A, i) + 2 * Weight[i] * (q + t)
      BY <1>0, <2>1, <3>1, <3>3, <3>5
    <3> QED BY <2>1, <3>4, <3>6
  <2>4. CASE n < i
    BY <1>0, <2>1, <2>4
  <2> QED BY <1>0, <2>1, <2>2, <2>3, <2>4
<1> HIDE DEF P
<1>3. 0 .. W \subseteq P
  BY <1>1, <1>2, BitInduction
<1>4. W \in 0 .. W /\ W >= i + 1
  BY WidthAssumption DEF AllBits
<1>5. PICK q \in Nat : Low(A, W) = Low(A, i) + Digit(A, i) + 2 * Weight[i] * q
  BY <1>3, <1>4 DEF P
<1> QED BY <1>5, LowFacts

(* Division by a weight: the quotient is the number d with that remainder. *)
LEMMA Quotient ==
    ASSUME NEW p \in Nat \ {0}, NEW d \in Int, NEW r \in 0 .. p - 1
    PROVE  (p * d + r) \div p = d
  OBVIOUS

(* The bit of weight p of a number, cut to a word: it is that of the part  *)
(* below 4 * p that remains of the number without multiples of 2 * p.      *)
LEMMA BitOf ==
    ASSUME NEW i \in AllBits, NEW n \in Int, NEW r \in Int, NEW q \in Int,
           0 <= r, r < 4 * Weight[i], n = r + 2 * Weight[i] * q
    PROVE  i \in Bits(n % (2 * Half)) <=>
               \/ Weight[i] <= r /\ r < 2 * Weight[i]
               \/ 3 * Weight[i] <= r
<1> DEFINE p == Weight[i]
           M == 2 * Half
<1>1. p \in Nat \ {0} /\ M \in Nat \ {0}
  BY BitRange, WidthAssumption
<1>2. PICK m \in Nat : M = 2 * p * m
  <2>1. W \in 0 .. W /\ W >= i + 1
    BY WidthAssumption DEF AllBits
  <2> QED BY <2>1, WeightMultiple, Weights
<1> HIDE DEF p, M
<1>3. PICK k \in Int : n % M = n - M * k
  <2>1. n = M * (n \div M) + (n % M) /\ n \div M \in Int /\ n % M \in Int
    BY <1>1
  <2>2. M * (n \div M) \in Int
    BY <1>1, <2>1
  <2>3. n % M = n - M * (n \div M)
    BY <2>1, <2>2
  <2> QED BY <2>1, <2>3
<1> DEFINE u == q - m * k
<1>4. u \in Int /\ n % M = r + 2 * p * u
  <2>1. m * k \in Int /\ u \in Int
    OBVIOUS
  <2>2. 2 * p * u = 2 * p * q - 2 * p * (m * k)
    BY <1>1, <2>1
  <2>3. M * k = 2 * p * (m * k)
    BY <1>1, <1>2
  <2>4. n = r + 2 * p * q
    BY DEF p
  <2>5. 2 * p * q \in Int /\ 2 * p * (m * k) \in Int
    BY <1>1, <2>1
  <2> QED BY <1>3, <2>1, <2>2, <2>3, <2>4, <2>5
<1> HIDE DEF u
<1>5. \A j \in {0, 1, 2, 3} : j * p <= r /\ r < (j + 1) * p =>
          (n % M) \div p = 2 * u + j
  <2> SUFFICES ASSUME NEW j \in {0, 1, 2, 3}, j * p <= r, r < (j + 1) * p
               PROVE  (n % M) \div p = 2 * u + j
    OBVIOUS
  <2>1. j * p \in Int /\ r - j * p \in 0 .. p - 1
    BY <1>1
  <2>2. 2 * u + j \in Int
    BY <1>4
  <2>3. n % M = p * (2 * u + j) + (r - j * p)
    <3>1. p * (2 * u + j) = 2 * p * u + j * p
      BY <1>1, <1>4
    <3> QED BY <1>1, <1>4, <2>1, <3>1
  <2> QED BY <1>1, <2>1, <2>2, <2>3, Quotient
<1>6. \A j \in {0, 1, 2, 3} : (2 * u + j) % 2 = 1 <=> j \in {1, 3}
  BY <1>4
<1>7. \E j \in {0, 1, 2, 3} : j * p <= r /\ r < (j + 1) * p
  BY <1>1 DEF p
<1>8. i \in Bits(n % M) <=> ((n % M) \div p) % 2 = 1
  BY DEF Bits, p
<1>9. ((n % M) \div p) % 2 = 1 <=> (p <= r /\ r < 2 * p) \/ 3 * p <= r
  <2>1. PICK j \in {0, 1, 2, 3} : j * p <= r /\ r < (j + 1) * p
    BY <1>7
  <2>2. ((n % M) \div p) % 2 = 1 <=> j \in {1, 3}
    BY <1>5, <1>6, <2>1
  <2> QED BY <1>1, <2>1, <2>2
<1> QED BY <1>8, <1>9 DEF p, M

(* Addition, bit by bit: a one where an odd number of the two bits and the *)
(* carry are ones; and the sum of what is below a bit, without the carry.  *)
Carry(A, B, i) == Low(A, i) + Low(B, i) >= Weight[i]

LEMMA SumBit ==
    ASSUME NEW A, NEW B, NEW i \in AllBits
    PROVE  i \in Add(A, B) <=> ((i \in A <=> i \in B) <=> Carry(A, B, i))
<1> DEFINE p == Weight[i]
           r == Low(A, i) + Digit(A, i) + Low(B, i) + Digit(B, i)
<1>1. /\ p \in Nat \ {0} /\ Low(A, i) \in Nat /\ Low(B, i) \in Nat
      /\ Low(A, i) < p /\ Low(B, i) < p
  BY BitRange, LowBound
<1>2. /\ Digit(A, i) = IF i \in A THEN p ELSE 0
      /\ Digit(B, i) = IF i \in B THEN p ELSE 0
  BY DEF Digit
<1>3. PICK x \in Nat : Num(A) = Low(A, i) + Digit(A, i) + 2 * p * x
  BY LowRest
<1>4. PICK y \in Nat : Num(B) = Low(B, i) + Digit(B, i) + 2 * p * y
  BY LowRest
<1> HIDE DEF p
<1>5. r \in Int /\ 0 <= r /\ r < 4 * p
  BY <1>1, <1>2
<1>6. Num(A) + Num(B) \in Int /\ Num(A) + Num(B) = r + 2 * p * (x + y)
  <2>1. 2 * p * (x + y) = 2 * p * x + 2 * p * y
    BY <1>1
  <2>2. 2 * p * x \in Int /\ 2 * p * y \in Int
    BY <1>1
  <2>3. Digit(A, i) \in Int /\ Digit(B, i) \in Int
    BY <1>1, <1>2
  <2> QED BY <1>1, <1>3, <1>4, <2>1, <2>2, <2>3
<1> HIDE DEF r
<1>7. x + y \in Int
  OBVIOUS
<1>8. i \in Add(A, B) <=> (p <= r /\ r < 2 * p) \/ 3 * p <= r
  BY <1>5, <1>6, <1>7, BitOf DEF Add, p
<1>9. (p <= r /\ r < 2 * p) \/ 3 * p <= r
          <=> ((i \in A <=> i \in B) <=> Low(A, i) + Low(B, i) >= p)
  <2>1. CASE i \in A /\ i \in B
    BY <1>1, <1>2, <2>1 DEF r
  <2>2. CASE i \in A /\ i \notin B
    BY <1>1, <1>2, <2>2 DEF r
  <2>3. CASE i \notin A /\ i \in B
    BY <1>1, <1>2, <2>3 DEF r
  <2>4. CASE i \notin A /\ i \notin B
    BY <1>1, <1>2, <2>4 DEF r
  <2> QED BY <2>1, <2>2, <2>3, <2>4
<1> QED BY <1>8, <1>9 DEF Carry, p

(* What the sum has below a bit: the two lows, less the weight on a carry. *)
LEMMA SumLow ==
    ASSUME NEW A, NEW B, NEW k \in 0 .. W
    PROVE  Low(Add(A, B), k) = Low(A, k) + Low(B, k)
                                 - (IF Carry(A, B, k) THEN Weight[k] ELSE 0)
<1> DEFINE C == Add(A, B)
           P == {i \in 0 .. W : Low(C, i) = Low(A, i) + Low(B, i)
                                    - (IF Carry(A, B, i) THEN Weight[i] ELSE 0)}
<1>1. 0 \in P
  <2>1. 0 \in 0 .. W /\ Weight[0] = 1
    BY Weights, WidthAssumption
  <2>2. Low(C, 0) = 0 /\ Low(A, 0) = 0 /\ Low(B, 0) = 0
    BY LowFacts
  <2> QED BY <2>1, <2>2 DEF Carry
<1>2. ASSUME NEW i \in AllBits, i \in P
      PROVE  i + 1 \in P
  <2> DEFINE p == Weight[i]
  <2>1. /\ i + 1 \in 0 .. W /\ p \in Nat \ {0} /\ Weight[i + 1] = 2 * p
        /\ Low(A, i) \in Nat /\ Low(B, i) \in Nat
        /\ Low(A, i) < p /\ Low(B, i) < p
    BY BitRange, Weights, LowBound
  <2>2. /\ Low(A, i + 1) = Low(A, i) + Digit(A, i)
        /\ Low(B, i + 1) = Low(B, i) + Digit(B, i)
        /\ Low(C, i + 1) = Low(C, i) + Digit(C, i)
    BY LowFacts
  <2>3. Low(C, i) = Low(A, i) + Low(B, i) - (IF Carry(A, B, i) THEN p ELSE 0)
    BY <1>2
  <2>4. /\ Digit(A, i) = IF i \in A THEN p ELSE 0
        /\ Digit(B, i) = IF i \in B THEN p ELSE 0
        /\ Digit(C, i) = IF i \in C THEN p ELSE 0
    BY DEF Digit
  <2>5. i \in C <=> ((i \in A <=> i \in B) <=> Carry(A, B, i))
    BY SumBit
  <2>6. Carry(A, B, i) <=> Low(A, i) + Low(B, i) >= p
    BY DEF Carry
  <2>7. Carry(A, B, i + 1) <=> Low(A, i + 1) + Low(B, i + 1) >= 2 * p
    BY <2>1 DEF Carry
  <2> HIDE DEF p, C
  <2>8. Low(C, i + 1) = Low(A, i + 1) + Low(B, i + 1)
                          - (IF Carry(A, B, i + 1) THEN 2 * p ELSE 0)
    <3>1. CASE i \in A /\ i \in B
      BY <2>1, <2>2, <2>3, <2>4, <2>5, <2>6, <2>7, <3>1
    <3>2. CASE i \in A /\ i \notin B
      BY <2>1, <2>2, <2>3, <2>4, <2>5, <2>6, <2>7, <3>2
    <3>3. CASE i \notin A /\ i \in B
      BY <2>1, <2>2, <2>3, <2>4, <2>5, <2>6, <2>7, <3>3
    <3>4. CASE i \notin A /\ i \notin B
      BY <2>1, <2>2, <2>3, <2>4, <2>5, <2>6, <2>7, <3>4
    <3> QED BY <3>1, <3>2, <3>3, <3>4
  <2> QED BY <2>1, <2>8
<1> HIDE DEF P
<1>3. 0 .. W \subseteq P
  BY <1>1, <1>2, BitInduction
<1> QED BY <1>3 DEF P

(* Subtraction likewise, with a borrow.                                    *)
Borrow(A, B, i) == Low(A, i) < Low(B, i)

LEMMA DiffBit ==
    ASSUME NEW A, NEW B, NEW i \in AllBits
    PROVE  i \in Sub(A, B) <=> ((i \in A <=> i \in B) <=> Borrow(A, B, i))
<1> DEFINE p == Weight[i]
           r == Low(A, i) + Digit(A, i) - Low(B, i) - Digit(B, i) + 2 * p
<1>1. /\ p \in Nat \ {0} /\ Low(A, i) \in Nat /\ Low(B, i) \in Nat
      /\ Low(A, i) < p /\ Low(B, i) < p
  BY BitRange, LowBound
<1>2. /\ Digit(A, i) = IF i \in A THEN p ELSE 0
      /\ Digit(B, i) = IF i \in B THEN p ELSE 0
  BY DEF Digit
<1>3. PICK x \in Nat : Num(A) = Low(A, i) + Digit(A, i) + 2 * p * x
  BY LowRest
<1>4. PICK y \in Nat : Num(B) = Low(B, i) + Digit(B, i) + 2 * p * y
  BY LowRest
<1> HIDE DEF p
<1>5. r \in Int /\ 0 <= r /\ r < 4 * p
  BY <1>1, <1>2
<1>6. Num(A) - Num(B) \in Int /\ Num(A) - Num(B) = r + 2 * p * (x - y - 1)
  <2>1. 2 * p * (x - y - 1) = 2 * p * x - 2 * p * y - 2 * p
    BY <1>1
  <2>2. 2 * p * x \in Int /\ 2 * p * y \in Int
    BY <1>1
  <2>3. Digit(A, i) \in Int /\ Digit(B, i) \in Int
    BY <1>1, <1>2
  <2> QED BY <1>1, <1>3, <1>4, <2>1, <2>2, <2>3
<1> HIDE DEF r
<1>7. x - y - 1 \in Int
  OBVIOUS
<1>8. i \in Sub(A, B) <=> (p <= r /\ r < 2 * p) \/ 3 * p <= r
  BY <1>5, <1>6, <1>7, BitOf DEF Sub, p
<1>9. (p <= r /\ r < 2 * p) \/ 3 * p <= r
          <=> ((i \in A <=> i \in B) <=> Low(A, i) < Low(B, i))
  <2>1. CASE i \in A /\ i \in B
    BY <1>1, <1>2, <2>1 DEF r
  <2>2. CASE i \in A /\ i \notin B
    BY <1>1, <1>2, <2>2 DEF r
  <2>3. CASE i \notin A /\ i \in B
    BY <1>1, <1>2, <2>3 DEF r
  <2>4. CASE i \notin A /\ i \notin B
    BY <1>1, <1>2, <2>4 DEF r
  <2> QED BY <2>1, <2>2, <2>3, <2>4
<1> QED BY <1>8, <1>9 DEF Borrow

(* What the difference has below a bit: the weight is added on a borrow.   *)
LEMMA DiffLow ==
    ASSUME NEW A, NEW B, NEW k \in 0 .. W
    PROVE  Low(Sub(A, B), k) = Low(A, k) - Low(B, k)
                                 + (IF Borrow(A, B, k) THEN Weight[k] ELSE 0)
<1> DEFINE C == Sub(A, B)
           P == {i \in 0 .. W : Low(C, i) = Low(A, i) - Low(B, i)
                                    + (IF Borrow(A, B, i) THEN Weight[i] ELSE 0)}
<1>1. 0 \in P
  <2>1. 0 \in 0 .. W
    BY WidthAssumption
  <2>2. Low(C, 0) = 0 /\ Low(A, 0) = 0 /\ Low(B, 0) = 0
    BY LowFacts
  <2> QED BY <2>1, <2>2 DEF Borrow
<1>2. ASSUME NEW i \in AllBits, i \in P
      PROVE  i + 1 \in P
  <2> DEFINE p == Weight[i]
  <2>1. /\ i + 1 \in 0 .. W /\ p \in Nat \ {0} /\ Weight[i + 1] = 2 * p
        /\ Low(A, i) \in Nat /\ Low(B, i) \in Nat
        /\ Low(A, i) < p /\ Low(B, i) < p
    BY BitRange, Weights, LowBound
  <2>2. /\ Low(A, i + 1) = Low(A, i) + Digit(A, i)
        /\ Low(B, i + 1) = Low(B, i) + Digit(B, i)
        /\ Low(C, i + 1) = Low(C, i) + Digit(C, i)
    BY LowFacts
  <2>3. Low(C, i) = Low(A, i) - Low(B, i) + (IF Borrow(A, B, i) THEN p ELSE 0)
    BY <1>2
  <2>4. /\ Digit(A, i) = IF i \in A THEN p ELSE 0
        /\ Digit(B, i) = IF i \in B THEN p ELSE 0
        /\ Digit(C, i) = IF i \in C THEN p ELSE 0
    BY DEF Digit
  <2>5. i \in C <=> ((i \in A <=> i \in B) <=> Borrow(A, B, i))
    BY DiffBit
  <2>6. Borrow(A, B, i) <=> Low(A, i) < Low(B, i)
    BY DEF Borrow
  <2>7. Borrow(A, B, i + 1) <=> Low(A, i + 1) < Low(B, i + 1)
    BY DEF Borrow
  <2> HIDE DEF p, C
  <2>8. Low(C, i + 1) = Low(A, i + 1) - Low(B, i + 1)
                          + (IF Borrow(A, B, i + 1) THEN 2 * p ELSE 0)
    <3>1. CASE i \in A /\ i \in B
      BY <2>1, <2>2, <2>3, <2>4, <2>5, <2>6, <2>7, <3>1
    <3>2. CASE i \in A /\ i \notin B
      BY <2>1, <2>2, <2>3, <2>4, <2>5, <2>6, <2>7, <3>2
    <3>3. CASE i \notin A /\ i \in B
      BY <2>1, <2>2, <2>3, <2>4, <2>5, <2>6, <2>7, <3>3
    <3>4. CASE i \notin A /\ i \notin B
      BY <2>1, <2>2, <2>3, <2>4, <2>5, <2>6, <2>7, <3>4
    <3> QED BY <3>1, <3>2, <3>3, <3>4
  <2> QED BY <2>1, <2>8
<1> HIDE DEF P
<1>3. 0 .. W \subseteq P
  BY <1>1, <1>2, BitInduction
<1> QED BY <1>3 DEF P

-----------------------------------------------------------------------------
(* Sums and differences of tracked numbers.                                *)

(* What is below a bit of a word in t lies between what the known ones     *)
(* make and that with all unknown bits set, and all that is below the bit. *)
LEMMA LowIn ==
    ASSUME NEW t \in Tnums, Formed(t),
           NEW x \in SUBSET AllBits, In(x, t), NEW i \in AllBits
    PROVE  /\ Low(x, i) \in Nat /\ Low(t.value, i) \in Nat
           /\ Low(t.mask, i) \in Nat
           /\ Low(t.value, i) <= Low(x, i)
           /\ Low(x, i) <= Low(t.value, i) + Low(t.mask, i)
           /\ Low(t.value, i) + Low(t.mask, i) < Weight[i]
<1> DEFINE u == x \intersect t.mask
           w == t.mask \ x
<1>1. /\ x = t.value \union u /\ t.value \intersect u = {}
      /\ t.mask = u \union w /\ u \intersect w = {}
  BY DEF In, Formed
<1> HIDE DEF u, w
<1>2. i \in 0 .. W
  BY BitRange
<1>3. /\ Low(x, i) \in Nat /\ Low(t.value, i) \in Nat /\ Low(t.mask, i) \in Nat
      /\ Low(u, i) \in Nat /\ Low(w, i) \in Nat
  BY <1>2, LowBound
<1>4. Low(x, i) = Low(t.value, i) + Low(u, i)
  BY <1>1, <1>2, LowUnion
<1>5. Low(t.mask, i) = Low(u, i) + Low(w, i)
  BY <1>1, <1>2, LowUnion
<1>6. Low(t.value \union t.mask, i) = Low(t.value, i) + Low(t.mask, i)
  BY <1>2, LowUnion DEF Formed
<1>7. Low(t.value \union t.mask, i) < Weight[i]
  BY <1>2, LowBound
<1> QED BY <1>3, <1>4, <1>5, <1>6, <1>7

(* Where tnum_add calls the bit of the sum known, no choice of the unknown *)
(* bits changes the carry into it.                                         *)
LEMMA SameCarry ==
    ASSUME NEW a \in Tnums, Formed(a),
           NEW b \in Tnums, Formed(b),
           NEW x \in SUBSET AllBits, In(x, a), NEW y \in SUBSET AllBits, In(y, b),
           NEW i \in AllBits, i \notin tnum_add(a, b).mask
    PROVE  Carry(x, y, i) <=> Carry(a.value, b.value, i)
<1> DEFINE sm == Add(a.mask, b.mask)
           sv == Add(a.value, b.value)
<1>1. /\ i \notin a.mask /\ i \notin b.mask
      /\ i \in Add(sv, sm) <=> i \in sv
  BY DEF tnum_add, tnum, Xor
<1>2. i \in sm <=> Carry(a.mask, b.mask, i)
  <2>1. i \in sm <=> ((i \in a.mask <=> i \in b.mask)
                       <=> Carry(a.mask, b.mask, i))
    BY SumBit
  <2> HIDE DEF sm, sv
  <2> QED BY <1>1, <2>1, Zenon
<1>3. i \in Add(sv, sm) <=> ((i \in sv <=> i \in sm) <=> Carry(sv, sm, i))
  BY SumBit
<1>4. Carry(sv, sm, i) <=> Carry(a.mask, b.mask, i)
  BY <1>1, <1>2, <1>3
<1>5. i \in 0 .. W /\ Weight[i] \in Nat
  BY BitRange
<1>6. /\ ~ Carry(a.value, b.value, i) =>
             Low(sv, i) = Low(a.value, i) + Low(b.value, i) - 0
      /\ ~ Carry(a.mask, b.mask, i) =>
             Low(sm, i) = Low(a.mask, i) + Low(b.mask, i) - 0
      /\ Carry(a.mask, b.mask, i) =>
             Low(sm, i) = Low(a.mask, i) + Low(b.mask, i) - Weight[i]
  BY <1>5, SumLow
<1> HIDE DEF sm, sv
<1>7. /\ Low(x, i) \in Nat /\ Low(a.value, i) \in Nat /\ Low(a.mask, i) \in Nat
      /\ Low(a.value, i) <= Low(x, i)
      /\ Low(x, i) <= Low(a.value, i) + Low(a.mask, i)
      /\ Low(a.value, i) + Low(a.mask, i) < Weight[i]
  BY LowIn
<1>8. /\ Low(y, i) \in Nat /\ Low(b.value, i) \in Nat /\ Low(b.mask, i) \in Nat
      /\ Low(b.value, i) <= Low(y, i)
      /\ Low(y, i) <= Low(b.value, i) + Low(b.mask, i)
      /\ Low(b.value, i) + Low(b.mask, i) < Weight[i]
  BY LowIn
<1>9. CASE Carry(a.value, b.value, i)
  BY <1>5, <1>7, <1>8, <1>9 DEF Carry
<1>10. CASE ~ Carry(a.value, b.value, i)
  <2>0. Low(sv, i) = Low(a.value, i) + Low(b.value, i) - 0
    BY <1>6, <1>10
  <2>1. Low(sv, i) = Low(a.value, i) + Low(b.value, i)
    BY <1>7, <1>8, <2>0
  <2>2. ~ Carry(a.mask, b.mask, i)
    <3>1. SUFFICES ASSUME Carry(a.mask, b.mask, i)
                   PROVE  FALSE
      OBVIOUS
    <3>2. Low(sm, i) = Low(a.mask, i) + Low(b.mask, i) - Weight[i]
      BY <1>6, <3>1
    <3>3. Low(sv, i) + Low(sm, i) >= Weight[i]
      BY <1>4, <3>1 DEF Carry
    <3> QED BY <1>5, <1>7, <1>8, <2>1, <3>2, <3>3
  <2>3. Low(sm, i) = Low(a.mask, i) + Low(b.mask, i) - 0
    BY <1>6, <2>2
  <2>4. ~ (Low(sv, i) + Low(sm, i) >= Weight[i])
    BY <1>4, <2>2 DEF Carry
  <2>5. Low(x, i) + Low(y, i) < Weight[i]
    BY <1>5, <1>7, <1>8, <2>1, <2>3, <2>4
  <2> QED BY <1>5, <1>7, <1>8, <1>10, <2>5 DEF Carry
<1> QED BY <1>9, <1>10

(* Where tnum_sub calls the bit known, no choice changes the borrow.       *)
LEMMA SameBorrow ==
    ASSUME NEW a \in Tnums, Formed(a),
           NEW b \in Tnums, Formed(b),
           NEW x \in SUBSET AllBits, In(x, a), NEW y \in SUBSET AllBits, In(y, b),
           NEW i \in AllBits, i \notin tnum_sub(a, b).mask
    PROVE  Borrow(x, y, i) <=> Borrow(a.value, b.value, i)
<1> DEFINE dv == Sub(a.value, b.value)
<1>1. /\ i \notin a.mask /\ i \notin b.mask
      /\ i \in Add(dv, a.mask) <=> i \in Sub(dv, b.mask)
  BY DEF tnum_sub, tnum, Xor
<1>2. Carry(dv, a.mask, i) <=> Borrow(dv, b.mask, i)
  <2>1. i \in Add(dv, a.mask) <=> ((i \in dv <=> i \in a.mask)
                                   <=> Carry(dv, a.mask, i))
    BY SumBit
  <2>2. i \in Sub(dv, b.mask) <=> ((i \in dv <=> i \in b.mask)
                                   <=> Borrow(dv, b.mask, i))
    BY DiffBit
  <2> HIDE DEF dv
  <2> QED BY <1>1, <2>1, <2>2, Zenon
<1>3. i \in 0 .. W /\ Weight[i] \in Nat
  BY BitRange
<1>4. Low(dv, i) = Low(a.value, i) - Low(b.value, i)
                     + (IF Borrow(a.value, b.value, i) THEN Weight[i] ELSE 0)
  BY <1>3, DiffLow
<1> HIDE DEF dv
<1>5. /\ Low(x, i) \in Nat /\ Low(a.value, i) \in Nat /\ Low(a.mask, i) \in Nat
      /\ Low(a.value, i) <= Low(x, i)
      /\ Low(x, i) <= Low(a.value, i) + Low(a.mask, i)
      /\ Low(a.value, i) + Low(a.mask, i) < Weight[i]
  BY LowIn
<1>6. /\ Low(y, i) \in Nat /\ Low(b.value, i) \in Nat /\ Low(b.mask, i) \in Nat
      /\ Low(b.value, i) <= Low(y, i)
      /\ Low(y, i) <= Low(b.value, i) + Low(b.mask, i)
      /\ Low(b.value, i) + Low(b.mask, i) < Weight[i]
  BY LowIn
<1> QED BY <1>2, <1>3, <1>4, <1>5, <1>6 DEF Carry, Borrow

(* tnum_add and tnum_sub of tnum.h contain the wrapped sum and difference  *)
(* of any two words that their operands contain, for words of every width: *)
(* the chi of each has every bit that a carry or a borrow out of unknown   *)
(* bits may change.                                                        *)
THEOREM ArithmeticSound ==
    ASSUME NEW a \in Tnums, Formed(a),
           NEW b \in Tnums, Formed(b),
           NEW x \in SUBSET AllBits, In(x, a), NEW y \in SUBSET AllBits, In(y, b)
    PROVE  /\ In(Add(x, y), tnum_add(a, b))
           /\ In(Sub(x, y), tnum_sub(a, b))
<1>1. In(Add(x, y), tnum_add(a, b))
  <2> DEFINE t == tnum_add(a, b)
             sv == Add(a.value, b.value)
  <2>1. /\ t.value = sv \ t.mask /\ a.mask \subseteq t.mask
        /\ b.mask \subseteq t.mask
    BY DEF tnum_add, tnum
  <2>2. ASSUME NEW i \in AllBits, i \notin t.mask
        PROVE  i \in Add(x, y) <=> i \in sv
    <3>1. (i \in x <=> i \in a.value) /\ (i \in y <=> i \in b.value)
      BY <2>1, <2>2 DEF In
    <3>2. Carry(x, y, i) <=> Carry(a.value, b.value, i)
      BY <2>2, SameCarry
    <3>3. i \in Add(x, y) <=> ((i \in x <=> i \in y) <=> Carry(x, y, i))
      BY SumBit
    <3>4. i \in sv <=> ((i \in a.value <=> i \in b.value)
                         <=> Carry(a.value, b.value, i))
      BY SumBit
    <3> HIDE DEF t, sv
    <3> QED BY <3>1, <3>2, <3>3, <3>4, Zenon
  <2>3. Add(x, y) \subseteq AllBits /\ sv \subseteq AllBits
    BY DEF Add, Bits
  <2> HIDE DEF t, sv
  <2>4. Add(x, y) \ t.mask = t.value
    BY <2>1, <2>2, <2>3
  <2> QED BY <2>4 DEF In, t
<1>2. In(Sub(x, y), tnum_sub(a, b))
  <2> DEFINE t == tnum_sub(a, b)
             dv == Sub(a.value, b.value)
  <2>1. /\ t.value = dv \ t.mask /\ a.mask \subseteq t.mask
        /\ b.mask \subseteq t.mask
    BY DEF tnum_sub, tnum
  <2>2. ASSUME NEW i \in AllBits, i \notin t.mask
        PROVE  i \in Sub(x, y) <=> i \in dv
    <3>1. (i \in x <=> i \in a.value) /\ (i \in y <=> i \in b.value)
      BY <2>1, <2>2 DEF In
    <3>2. Borrow(x, y, i) <=> Borrow(a.value, b.value, i)
      BY <2>2, SameBorrow
    <3>3. i \in Sub(x, y) <=> ((i \in x <=> i \in y) <=> Borrow(x, y, i))
      BY DiffBit
    <3>4. i \in dv <=> ((i \in a.value <=> i \in b.value)
                         <=> Borrow(a.value, b.value, i))
      BY DiffBit
    <3> HIDE DEF t, dv
    <3> QED BY <3>1, <3>2, <3>3, <3>4, Zenon
  <2>3. Sub(x, y) \subseteq AllBits /\ dv \subseteq AllBits
    BY DEF Sub, Bits
  <2> HIDE DEF t, dv
  <2>4. Sub(x, y) \ t.mask = t.value
    BY <2>1, <2>2, <2>3
  <2> QED BY <2>4 DEF In, t
<1> QED BY <1>1, <1>2

(* A number that fits in a word is what its bits make.                     *)
LEMMA NumBits ==
    ASSUME NEW n \in UInt
    PROVE  Num(Bits(n)) = n
<1> DEFINE A == Bits(n)
           P == {i \in 0 .. W : Low(A, i) = n % Weight[i]}
<1>0. n \in Nat /\ n < 2 * Half /\ Half \in Nat
  BY WidthAssumption DEF UInt
<1>1. 0 \in P
  <2>1. 0 \in 0 .. W /\ Weight[0] = 1 /\ Low(A, 0) = 0
    BY Weights, LowFacts, WidthAssumption
  <2>2. n % 1 = 0
    BY <1>0
  <2> QED BY <2>1, <2>2
<1>2. ASSUME NEW i \in AllBits, i \in P
      PROVE  i + 1 \in P
  <2> DEFINE p == Weight[i]
             d == n \div p
             r == n % p
  <2>1. /\ i + 1 \in 0 .. W /\ p \in Nat \ {0} /\ Weight[i + 1] = 2 * p
        /\ Low(A, i + 1) = Low(A, i) + Digit(A, i) /\ Low(A, i) = r
    BY <1>2, BitRange, Weights, LowFacts
  <2>2. i \in A <=> d % 2 = 1
    BY DEF Bits
  <2>3. Digit(A, i) = IF i \in A THEN p ELSE 0
    BY DEF Digit
  <2> HIDE DEF p, A
  <2>4. d \in Int /\ r \in 0 .. p - 1 /\ n = p * d + r
    BY <1>0, <2>1
  <2> HIDE DEF d, r
  <2>5. d \div 2 \in Int /\ d % 2 \in {0, 1} /\ d = 2 * (d \div 2) + (d % 2)
    BY <2>4
  <2>6. PICK e \in Int, f \in {0, 1} : d = 2 * e + f /\ f = d % 2
    BY <2>5
  <2>7. p * d = 2 * p * e + p * f
    BY <2>1, <2>6
  <2>8. p * f = IF f = 1 THEN p ELSE 0
    BY <2>1
  <2>9. n = 2 * p * e + (p * f + r) /\ p * f + r \in 0 .. 2 * p - 1
    BY <2>1, <2>4, <2>6, <2>7, <2>8
  <2>10. n % (2 * p) = p * f + r
    <3>1. 2 * p \in Nat \ {0}
      BY <2>1
    <3>2. \A m \in Nat \ {0}, c \in Int : \A s \in 0 .. m - 1 :
            (m * c + s) % m = s
      OBVIOUS
    <3>3. (2 * p * e + (p * f + r)) % (2 * p) = p * f + r
      BY <2>9, <3>1, <3>2
    <3> QED BY <2>9, <3>3
  <2>11. Low(A, i + 1) = n % Weight[i + 1]
    BY <2>1, <2>2, <2>3, <2>4, <2>6, <2>8, <2>10
  <2> QED BY <2>1, <2>11
<1> HIDE DEF P, A
<1>3. 0 .. W \subseteq P
  BY <1>1, <1>2, BitInduction
<1>4. W \in 0 .. W
  BY WidthAssumption
<1>5. Low(A, W) = n % (2 * Half)
  BY <1>3, <1>4, Weights DEF P
<1>6. n % (2 * Half) = n
  BY <1>0
<1> QED BY <1>5, <1>6, LowFacts DEF A

(* So adding words bitwise is adding their numbers.                        *)
LEMMA AddBits ==
    ASSUME NEW u \in UInt, NEW v \in UInt
    PROVE  Add(Bits(u), Bits(v)) = Bits(uadd(u, v))
<1>1. /\ u \in Nat /\ v \in Nat /\ u < 2 * Half /\ v < 2 * Half
      /\ Half \in Nat /\ Half > 0
  BY WidthAssumption DEF UInt
<1>2. (u + v) % (2 * Half) = uadd(u, v)
  BY <1>1 DEF uadd
<1>3. Num(Bits(u)) = u /\ Num(Bits(v)) = v
  BY NumBits
<1> QED BY <1>2, <1>3 DEF Add

(* scalar_add of tnum.h never excludes a sum: for any two words that a and *)
(* b contain, in the signed range, the unsigned range and the known bits,  *)
(* scalar_add(a, b) contains their sum, wrapped as the machine wraps it.   *)
THEOREM ScalarAddSound ==
    ASSUME NEW a \in Scalars, Formed(a.tn), NEW b \in Scalars, Formed(b.tn),
           NEW x \in SInt, Contains(a, x), NEW y \in SInt, Contains(b, y)
    PROVE  Contains(scalar_add(a, b), sadd(x, y))
<1>1. InRange(sadd(x, y), scalar_add(a, b))
  BY AddRanges DEF Contains
<1>2. /\ u64(x) \in UInt /\ u64(y) \in UInt
      /\ u64(sadd(x, y)) = uadd(u64(x), u64(y))
  BY CastOfSum
<1>3. Add(Bits(u64(x)), Bits(u64(y))) = Bits(u64(sadd(x, y)))
  BY <1>2, AddBits
<1>4. /\ a.tn \in Tnums /\ b.tn \in Tnums
      /\ Bits(u64(x)) \subseteq AllBits /\ Bits(u64(y)) \subseteq AllBits
      /\ In(Bits(u64(x)), a.tn) /\ In(Bits(u64(y)), b.tn)
  BY DEF Scalars, Bits, Contains
<1>5. In(Add(Bits(u64(x)), Bits(u64(y))), tnum_add(a.tn, b.tn))
  BY <1>4, ArithmeticSound
<1>6. scalar_add(a, b).tn = tnum_add(a.tn, b.tn)
  BY DEF scalar_add, scalar
<1> QED
  BY <1>1, <1>3, <1>5, <1>6 DEF Contains

(* scalar_join and tnum_join lose no word: what either operand contains,   *)
(* the join contains, in the ranges and in the known bits.                 *)
THEOREM JoinSound ==
    ASSUME NEW a \in Scalars, NEW b \in Scalars, NEW x \in SInt,
           Contains(a, x) \/ Contains(b, x)
    PROVE  Contains(scalar_join(a, b), x)
<1> DEFINE w == Bits(u64(x))
<1>1. /\ a.smin \in SInt /\ a.smax \in SInt /\ a.umin \in UInt /\ a.umax \in UInt
      /\ b.smin \in SInt /\ b.smax \in SInt /\ b.umin \in UInt /\ b.umax \in UInt
  BY DEF Scalars
<1>2. Half \in Nat /\ Half > 0 /\ u64(x) \in UInt
  BY WidthAssumption DEF u64, UInt, SInt
<1>3. InRange(x, a) \/ InRange(x, b)
  BY DEF Contains
<1>4. InRange(x, scalar_join(a, b))
  BY <1>1, <1>2, <1>3
     DEF InRange, scalar_join, scalar, lesser, greater, SInt, UInt
<1>5. scalar_join(a, b).tn = tnum_join(a.tn, b.tn)
  BY DEF scalar_join, scalar
<1>6. In(w, a.tn) \/ In(w, b.tn)
  BY DEF Contains
<1>7. In(w, tnum_join(a.tn, b.tn))
  <2> HIDE DEF w
  <2> QED BY <1>6 DEF In, tnum_join, tnum, Xor
<1> QED
  BY <1>4, <1>5, <1>7 DEF Contains

(* The bitwise operations and the shifts of tnum.h contain the result on   *)
(* every pair of words that their operands contain.                        *)
THEOREM BitwiseSound ==
    ASSUME NEW a \in Tnums, NEW b \in Tnums,
           NEW x \in SUBSET AllBits, NEW y \in SUBSET AllBits, NEW k \in Nat,
           Formed(a), Formed(b),
           In(x, a), In(y, b)
    PROVE  /\ In(x \intersect y, tnum_and(a, b))
           /\ In(x \union y, tnum_or(a, b))
           /\ In(Xor(x, y), tnum_xor(a, b))
           /\ In(shl(x, k), tnum_lshift(a, k))
           /\ In(shr(x, k), tnum_rshift(a, k))
<1>1. In(x \intersect y, tnum_and(a, b))
  BY DEF In, tnum_and, tnum, Formed
<1>2. In(x \union y, tnum_or(a, b))
  BY DEF In, tnum_or, tnum, Formed
<1>3. In(Xor(x, y), tnum_xor(a, b))
  BY DEF In, tnum_xor, tnum, Xor, Formed
<1>4. CASE k < W
  <2>1. ~ (k >= W)
    BY <1>4, WidthAssumption
  <2>2. In(shl(x, k), tnum_lshift(a, k))
    BY <2>1 DEF In, tnum_lshift, tnum, shl
  <2>3. In(shr(x, k), tnum_rshift(a, k))
    BY <2>1 DEF In, tnum_rshift, tnum, shr
  <2> QED BY <1>1, <1>2, <1>3, <2>2, <2>3
<1>5. CASE k >= W
  <2>1. In(shl(x, k), tnum_lshift(a, k))
    BY <1>5 DEF In, tnum_lshift, tnum_top, tnum, shl
  <2>2. \A i \in AllBits : i + k \notin AllBits
    BY <1>5, WidthAssumption DEF AllBits
  <2>3. shr(x, k) = {}
    BY <2>2 DEF shr
  <2>4. In(shr(x, k), tnum_rshift(a, k))
    BY <1>5, <2>3 DEF In, tnum_rshift, tnum
  <2> QED BY <1>1, <1>2, <1>3, <2>1, <2>4
<1> QED
  BY <1>4, <1>5, WidthAssumption

(* No operation of tnum.h makes a bit both known and unknown: the form     *)
(* that the other results assume is kept, the additions included.          *)
THEOREM OperationsKeepForm ==
    ASSUME NEW a \in Tnums, NEW b \in Tnums, NEW k \in Nat,
           Formed(a), Formed(b)
    PROVE  \A t \in {tnum_join(a, b), tnum_add(a, b), tnum_sub(a, b),
                     tnum_and(a, b), tnum_or(a, b), tnum_xor(a, b),
                     tnum_lshift(a, k), tnum_rshift(a, k)} :
               Formed(t)
<1>1. Formed(tnum_join(a, b)) /\ Formed(tnum_xor(a, b))
  BY DEF Formed, tnum_join, tnum_xor, tnum
<1>2. Formed(tnum_add(a, b)) /\ Formed(tnum_sub(a, b))
  BY DEF Formed, tnum_add, tnum_sub, tnum
<1>3. Formed(tnum_and(a, b)) /\ Formed(tnum_or(a, b))
  BY DEF Formed, tnum_and, tnum_or, tnum
<1>4. Formed(tnum_lshift(a, k))
  BY DEF Formed, tnum_lshift, tnum_top, tnum, shl
<1>5. Formed(tnum_rshift(a, k))
  BY DEF Formed, tnum_rshift, tnum, shr
<1> QED
  BY <1>1, <1>2, <1>3, <1>4, <1>5

-----------------------------------------------------------------------------
(* Namespaces.                                                             *)

(* One configuration allows no more than another.  A quota of 0 is         *)
(* unlimited, so it is below no other.                                     *)
Narrower(cfg, anc) ==
    /\ \A k \in Kinds : cfg.permit[k] \subseteq anc.permit[k]
    /\ \A d \in Quotas : anc.quota[d] # 0 =>
           cfg.quota[d] # 0 /\ cfg.quota[d] <= anc.quota[d]

NInv ==
    /\ TypeOK
    /\ \A p \in Paths : IsConfig(p) =>
           \A anc \in lineage[p] : Narrower(files[p], anc)

-----------------------------------------------------------------------------
(* The order of configurations.                                            *)

LEMMA NarrowerTransitive ==
    ASSUME NEW a \in Config, NEW b \in Config, NEW c \in Config,
           Narrower(a, b), Narrower(b, c)
    PROVE  Narrower(a, c)
<1>1. \A d \in Quotas :
          a.quota[d] \in Int /\ b.quota[d] \in Int /\ c.quota[d] \in Int
  BY DEF Config
<1> QED BY <1>1 DEF Narrower

(* merlin_ns_check asks of a narrower configuration at least as much, the  *)
(* wrapped sums included: they do not depend on the configuration.         *)
LEMMA NarrowerAdmits ==
    ASSUME NEW a \in Config, NEW b \in Config, Narrower(a, b),
           NEW usage \in Usages, NEW prog \in Programs,
           Admits(a, usage, prog)
    PROVE  Admits(b, usage, prog)
<1>1. \A k \in Kinds, i \in Ids :
          merlin_ns_bit_get(a.permit[k], i) =>
              merlin_ns_bit_get(b.permit[k], i)
  BY DEF Narrower, merlin_ns_bit_get
<1>2. \A d \in Quotas :
          OverQuota(b, usage, prog, d) => OverQuota(a, usage, prog, d)
  <2> SUFFICES ASSUME NEW d \in Quotas, OverQuota(b, usage, prog, d)
               PROVE  OverQuota(a, usage, prog, d)
    OBVIOUS
  <2> DEFINE x == (usage[d] + Adds(prog, d)) % WordMod
  <2>1. usage[d] \in Nat
    BY NamespaceAssumption DEF Usages
  <2>2. Adds(prog, d) \in Nat
    BY NamespaceAssumption DEF Programs, Adds, Quotas
  <2>3. x \in Int
    BY <2>1, <2>2, NamespaceAssumption
  <2>4. b.quota[d] # 0 /\ x > b.quota[d]
    BY DEF OverQuota
  <2> HIDE DEF x
  <2>5. a.quota[d] \in Int /\ b.quota[d] \in Int
    BY DEF Config
  <2>6. a.quota[d] # 0 /\ x > a.quota[d]
    BY <2>3, <2>4, <2>5 DEF Narrower
  <2> QED BY <2>6 DEF OverQuota, x
<1>3. /\ merlin_ns_bit_get(a.permit["attach"], prog.attach)
      /\ \A i \in prog.helpers : merlin_ns_bit_get(a.permit["helper"], i)
      /\ \A i \in prog.kfuncs : merlin_ns_bit_get(a.permit["kfunc"], i)
      /\ \A d \in Quotas : ~OverQuota(a, usage, prog, d)
  BY DEF Admits, merlin_ns_check, Quotas
<1>4. /\ prog.attach \in Ids
      /\ prog.helpers \subseteq Ids /\ prog.kfuncs \subseteq Ids
  BY DEF Programs
<1>5. /\ merlin_ns_bit_get(b.permit["attach"], prog.attach)
      /\ \A i \in prog.helpers : merlin_ns_bit_get(b.permit["helper"], i)
      /\ \A i \in prog.kfuncs : merlin_ns_bit_get(b.permit["kfunc"], i)
      /\ \A d \in Quotas : ~OverQuota(b, usage, prog, d)
  BY <1>1, <1>2, <1>3, <1>4 DEF Kinds
<1> QED BY <1>5 DEF Admits, merlin_ns_check, Quotas

-----------------------------------------------------------------------------
(* What the commands write.                                                *)

LEMMA FromArgsTyped ==
    ASSUME NEW a \in Args
    PROVE  FromArgs(a) \in Config
<1>1. a.flags \in FlagSets /\ a.quota \in [Quotas -> 0 .. MaxQuota]
  BY DEF Args
<1>2. [k \in Kinds |-> {i \in a.permit[k] : i < Cap}]
          \in [Kinds -> SUBSET {i \in Ids : i < Cap}]
  BY DEF Args
<1> QED BY <1>1, <1>2 DEF FromArgs, Config

(* A composition that is not refused is narrower than both its parts.      *)
LEMMA ComposeNarrows ==
    ASSUME NEW child \in Config, NEW parent \in Config, ~Widens(child, parent),
           NEW id \in {0, 1}, NEW cfg,
           cfg = [merlin_ns_compose(child, parent) EXCEPT !.parent_ns_id = id]
    PROVE  cfg \in Config /\ Narrower(cfg, child) /\ Narrower(cfg, parent)
<1> DEFINE q == EffectiveQuota(child, parent)
<1>1. /\ child.quota \in [Quotas -> 0 .. MaxQuota]
      /\ parent.quota \in [Quotas -> 0 .. MaxQuota]
  BY DEF Config
<1>2. q \in [Quotas -> 0 .. MaxQuota]
  BY <1>1 DEF EffectiveQuota
<1>3. \A d \in Quotas :
          /\ child.quota[d] # 0 => q[d] # 0 /\ q[d] <= child.quota[d]
          /\ parent.quota[d] # 0 => q[d] # 0 /\ q[d] <= parent.quota[d]
  BY <1>1, NamespaceAssumption DEF EffectiveQuota, Widens
<1>4. cfg = [child EXCEPT !.quota = q, !.parent_ns_id = id]
  BY DEF merlin_ns_compose, Config
<1> HIDE DEF q
<1>5. cfg \in Config /\ cfg.quota = q /\ cfg.permit = child.permit
  BY <1>2, <1>4 DEF Config
<1>6. \A k \in Kinds : child.permit[k] \subseteq parent.permit[k]
  BY DEF Widens, bitset_subset
<1> QED BY <1>3, <1>5, <1>6 DEF Narrower

(* A file that is written whole is narrower than what it comes from; one   *)
(* that is torn comes from nothing.                                        *)
LEMMA SaveStep ==
    ASSUME NInv, writes < MaxWrites, NEW out \in Paths, NEW cfg \in Config,
           NEW ancestors \in SUBSET Config,
           \A anc \in ancestors : Narrower(cfg, anc),
           merlin_ns_save(out, cfg, ancestors)
    PROVE  NInv'
<1> USE DEF merlin_ns_save
<1>1. TypeOK'
  BY NamespaceAssumption DEF NInv, TypeOK
<1>2. \A p \in Paths : IsConfig(p)' =>
          \A anc \in lineage'[p] : Narrower(files'[p], anc)
  <2> SUFFICES ASSUME NEW p \in Paths, files'[p].state = "ok",
                      NEW anc \in lineage'[p]
               PROVE  Narrower(files'[p], anc)
    BY DEF IsConfig
  <2>1. CASE p # out
    <3>1. files'[p] = files[p] /\ lineage'[p] = lineage[p]
      BY <2>1 DEF NInv, TypeOK
    <3> QED BY <3>1 DEF NInv, IsConfig
  <2>2. CASE p = out
    <3>1. files'[p] = cfg /\ lineage'[p] = ancestors
      BY <2>2 DEF NInv, TypeOK, Torn
    <3> QED BY <3>1
  <2> QED BY <2>1, <2>2
<1> QED BY <1>1, <1>2 DEF NInv, IsConfig

(* What holds of a file that loads.                                        *)
LEMMA LoadedFile ==
    ASSUME NInv, NEW p \in Paths, IsConfig(p)
    PROVE  /\ files[p] \in Config /\ Ancestors(p) \in SUBSET Config
           /\ \A c \in Config : Narrower(c, files[p]) =>
                  \A anc \in Ancestors(p) : Narrower(c, anc)
<1>1. files[p] \in Config
  BY DEF NInv, TypeOK, IsConfig, NoFile, Torn
<1>2. lineage[p] \in SUBSET Config
  BY DEF NInv, TypeOK
<1>3. \A anc \in lineage[p] : Narrower(files[p], anc)
  BY DEF NInv
<1> QED BY <1>1, <1>2, <1>3, NarrowerTransitive DEF Ancestors

LEMMA CreateStep ==
    ASSUME NInv, writes < MaxWrites, NEW out \in Paths, NEW a \in Args,
           Create(out, a)
    PROVE  NInv'
  BY SaveStep, FromArgsTyped DEF Create

LEMMA CreateFromStep ==
    ASSUME NInv, writes < MaxWrites, NEW out \in Paths, NEW parent \in Paths,
           NEW a \in Args, CreateFrom(out, parent, a)
    PROVE  NInv'
<1> DEFINE id == IF files[parent].parent_ns_id # 0
                 THEN files[parent].parent_ns_id ELSE 1
           cfg == [merlin_ns_compose(FromArgs(a), files[parent])
                      EXCEPT !.parent_ns_id = id]
<1>1. /\ IsConfig(parent) /\ ~Widens(FromArgs(a), files[parent])
      /\ merlin_ns_save(out, cfg, Ancestors(parent))
  BY DEF CreateFrom
<1>2. FromArgs(a) \in Config /\ files[parent] \in Config
  BY <1>1, FromArgsTyped, LoadedFile
<1>3. id \in {0, 1}
  BY <1>2 DEF Config
<1> HIDE DEF id
<1>4. cfg \in Config /\ Narrower(cfg, files[parent])
  BY <1>1, <1>2, <1>3, ComposeNarrows
<1> HIDE DEF cfg
<1>5. \A anc \in Ancestors(parent) : Narrower(cfg, anc)
  BY <1>1, <1>4, LoadedFile
<1> QED BY <1>1, <1>4, <1>5, LoadedFile, SaveStep

LEMMA ComposeStep ==
    ASSUME NInv, writes < MaxWrites, NEW out \in Paths, NEW child \in Paths,
           NEW parent \in Paths, Compose(out, child, parent)
    PROVE  NInv'
<1> DEFINE cfg == merlin_ns_compose(files[child], files[parent])
           id == files[parent].parent_ns_id
<1>1. /\ IsConfig(child) /\ IsConfig(parent)
      /\ ~Widens(files[child], files[parent])
      /\ merlin_ns_save(out, cfg, Ancestors(child) \cup Ancestors(parent))
  BY DEF Compose
<1>2. files[child] \in Config /\ files[parent] \in Config
  BY <1>1, LoadedFile
<1>3. id \in {0, 1} /\ cfg = [cfg EXCEPT !.parent_ns_id = id]
  BY <1>2 DEF merlin_ns_compose, Config
<1>4. /\ cfg \in Config
      /\ Narrower(cfg, files[child]) /\ Narrower(cfg, files[parent])
  BY <1>1, <1>2, <1>3, ComposeNarrows
<1> HIDE DEF cfg
<1>5. \A anc \in Ancestors(child) \cup Ancestors(parent) : Narrower(cfg, anc)
  BY <1>1, <1>4, LoadedFile
<1>6. Ancestors(child) \cup Ancestors(parent) \in SUBSET Config
  BY <1>1, LoadedFile
<1> QED BY <1>1, <1>4, <1>5, <1>6, SaveStep

LEMMA NInvNext ==
    ASSUME NInv, [Next]_vars
    PROVE  NInv'
<1>1. CASE Next
  BY <1>1, CreateStep, CreateFromStep, ComposeStep DEF Next
<1>2. CASE UNCHANGED vars
  BY <1>2 DEF vars, NInv, TypeOK, IsConfig
<1> QED BY <1>1, <1>2

(* merlin_ns_compose and merlin-ns create --from can only narrow: for any  *)
(* files, ids, quotas and programs, and however long the chain, a program  *)
(* that a namespace admits is admitted by every configuration it was       *)
(* derived from, even if the file of that one was since overwritten.       *)
THEOREM ChainsNarrow == Spec => []NarrowOnly
<1>1. Init => NInv
  BY NamespaceAssumption DEF Init, NInv, TypeOK
<1>2. NInv /\ [Next]_vars => NInv'
  BY NInvNext
<1>3. NInv => NarrowOnly
  <2> SUFFICES ASSUME NInv, NEW p \in Paths, IsConfig(p),
                      NEW anc \in lineage[p], NEW usage \in Usages,
                      NEW prog \in Programs, Admits(files[p], usage, prog)
               PROVE  Admits(anc, usage, prog)
    BY DEF NInv, NarrowOnly
  <2>1. files[p] \in Config /\ anc \in Config /\ Narrower(files[p], anc)
    BY LoadedFile DEF NInv, TypeOK
  <2> QED BY <2>1, NarrowerAdmits
<1> QED BY <1>1, <1>2, <1>3, PTL DEF Spec

-----------------------------------------------------------------------------
(* The kernel's scalar domain.                                             *)

K == INSTANCE KTnum

(* merlin_tnum.h computes what tnum.h computes, so what is proved of the   *)
(* user-space domain holds of the kernel's.                                *)
LEMMA KernelDomainSame ==
    ASSUME NEW a, NEW b
    PROVE  /\ K!scalar_add(a, b) = scalar_add(a, b)
           /\ K!scalar_join(a, b) = scalar_join(a, b)
<1>1. /\ K!tnum_add(a.tn, b.tn) = tnum_add(a.tn, b.tn)
      /\ K!tnum_join(a.tn, b.tn) = tnum_join(a.tn, b.tn)
  BY DEF K!tnum_add, tnum_add, K!tnum_join, tnum_join, K!tnum, tnum,
         K!Xor, Xor, K!Add, Add, K!Bits, Bits, K!Num, Num, K!Weight, Weight,
         K!AllBits, AllBits
<1> QED
  BY <1>1 DEF K!scalar_add, scalar_add, K!scalar_join, scalar_join, K!scalar,
              scalar, K!SignedOverflow, SignedOverflow, K!sadd, sadd,
              K!uadd, uadd, K!lesser, lesser, K!greater, greater
=============================================================================
