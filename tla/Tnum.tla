-------------------------------- MODULE Tnum --------------------------------
(***************************************************************************)
(* The scalar domain of the user-space verifier,                           *)
(* tools/merlin-verifier/tnum.h: tracked numbers (which bits of a register *)
(* are known) and signed and unsigned ranges, for words of W bits (64 in   *)
(* the code).                                                              *)
(***************************************************************************)
EXTENDS Words

Tnums == [value : SUBSET AllBits, mask : SUBSET AllBits]

tnum(v, m) == [value |-> v, mask |-> m]

tnum_const(v) == tnum(Bits(v), {})

tnum_top == tnum({}, AllBits)

tnum_is_const(t) == t.mask = {}

tnum_equal(a, b) == a.value = b.value /\ a.mask = b.mask

tnum_join(a, b) ==
    LET mask == a.mask \union b.mask \union Xor(a.value, b.value)
    IN  tnum((a.value \intersect b.value) \ mask, mask)

tnum_add(a, b) ==
    LET sm  == Add(a.mask, b.mask)
        sv  == Add(a.value, b.value)
        chi == Xor(Add(sv, sm), sv)
        mu  == chi \union a.mask \union b.mask
    IN  tnum(sv \ mu, mu)

(* Mutant: borrows out of the unknown bits of b are lost.                  *)
tnum_sub_NoBorrow(a, b) ==
    LET dv == Sub(a.value, b.value)
        mu == Xor(Add(dv, a.mask), dv) \union a.mask \union b.mask
    IN  tnum(dv \ mu, mu)

tnum_sub(a, b) ==
    LET dv  == Sub(a.value, b.value)
        chi == Xor(Add(dv, a.mask), Sub(dv, b.mask))
        mu  == chi \union a.mask \union b.mask
    IN  tnum(dv \ mu, mu)

tnum_and(a, b) ==
    LET v == a.value \intersect b.value
    IN  tnum(v, ((a.value \union a.mask) \intersect (b.value \union b.mask)) \ v)

tnum_or(a, b) ==
    LET v == a.value \union b.value
    IN  tnum(v, (a.mask \union b.mask) \ v)

tnum_xor(a, b) ==
    LET mu == a.mask \union b.mask
    IN  tnum(Xor(a.value, b.value) \ mu, mu)

shl(S, k) == {i \in AllBits : i - k \in S}
shr(S, k) == {i \in AllBits : i + k \in S}

tnum_lshift(a, k) ==
    IF k >= W THEN tnum_top ELSE tnum(shl(a.value, k), shl(a.mask, k))

tnum_rshift(a, k) ==
    IF k >= W THEN tnum({}, {}) ELSE tnum(shr(a.value, k), shr(a.mask, k))

-----------------------------------------------------------------------------
Scalars == [smin : SInt, smax : SInt, umin : UInt, umax : UInt, tn : Tnums]

scalar(smin, smax, umin, umax, tn) ==
    [smin |-> smin, smax |-> smax, umin |-> umin, umax |-> umax, tn |-> tn]

scalar_const(v) == scalar(v, v, u64(v), u64(v), tnum_const(u64(v)))

scalar_top == scalar(-Half, Half - 1, 0, 2 * Half - 1, tnum_top)

scalar_is_const(s) == tnum_is_const(s.tn) /\ s.smin = s.smax

scalar_join(a, b) ==
    scalar(lesser(a.smin, b.smin), greater(a.smax, b.smax),
           lesser(a.umin, b.umin), greater(a.umax, b.umax),
           tnum_join(a.tn, b.tn))

(* The sign test of scalar_add: operands of one sign, a sum of the other.  *)
SignedOverflow(x, y) == (x < 0) = (y < 0) /\ (sadd(x, y) < 0) # (x < 0)

scalar_add(a, b) ==
    LET sover == SignedOverflow(a.smin, b.smin)
                     \/ SignedOverflow(a.smax, b.smax)
        uover == \/ uadd(a.umin, b.umin) < a.umin
                 \/ uadd(a.umax, b.umax) < a.umax
    IN  scalar(IF sover THEN -Half ELSE sadd(a.smin, b.smin),
               IF sover THEN Half - 1 ELSE sadd(a.smax, b.smax),
               IF uover THEN 0 ELSE uadd(a.umin, b.umin),
               IF uover THEN 2 * Half - 1 ELSE uadd(a.umax, b.umax),
               tnum_add(a.tn, b.tn))

scalar_equal(a, b) ==
    /\ a.smin = b.smin /\ a.smax = b.smax
    /\ a.umin = b.umin /\ a.umax = b.umax
    /\ tnum_equal(a.tn, b.tn)
=============================================================================
