------------------------------- MODULE KTnum --------------------------------
(***************************************************************************)
(* The scalar domain of the kernel verifier,                               *)
(* kernel/merlin/include/merlin_tnum.h.                                    *)
(***************************************************************************)
EXTENDS Words

Tnums == [value : SUBSET AllBits, mask : SUBSET AllBits]

tnum(v, m) == [value |-> v, mask |-> m]

tnum_const(v) == tnum(Bits(v), {})

tnum_top == tnum({}, AllBits)

tnum_is_const(t) == t.mask = {}

tnum_equal(a, b) == a.value = b.value /\ a.mask = b.mask

tnum_join(a, b) ==
    LET mu == a.mask \union b.mask \union Xor(a.value, b.value)
    IN  tnum((a.value \intersect b.value) \ mu, mu)

tnum_add(a, b) ==
    LET sm  == Add(a.mask, b.mask)
        sv  == Add(a.value, b.value)
        chi == Xor(Add(sv, sm), sv)
        mu  == chi \union a.mask \union b.mask
    IN  tnum(sv \ mu, mu)

-----------------------------------------------------------------------------
Scalars == [smin : SInt, smax : SInt, umin : UInt, umax : UInt, tn : Tnums]

scalar(smin, smax, umin, umax, tn) ==
    [smin |-> smin, smax |-> smax, umin |-> umin, umax |-> umax, tn |-> tn]

scalar_const(v) == scalar(v, v, u64(v), u64(v), tnum_const(u64(v)))

scalar_top == scalar(-Half, Half - 1, 0, 2 * Half - 1, tnum_top)

scalar_is_const(s) == tnum_is_const(s.tn) /\ s.smin = s.smax

scalar_join(a, b) ==
    scalar(lesser(a.smin, b.smin), greater(a.smax, b.smax),
           lesser(a.umin, b.umin), greater(a.umax, b.umax),
           tnum_join(a.tn, b.tn))

(* The sign test of scalar_add: operands of one sign, a sum of the other.  *)
SignedOverflow(x, y) == (x < 0) = (y < 0) /\ (sadd(x, y) < 0) # (x < 0)

scalar_add(a, b) ==
    LET sover == SignedOverflow(a.smin, b.smin)
                     \/ SignedOverflow(a.smax, b.smax)
        uover == \/ uadd(a.umin, b.umin) < a.umin
                 \/ uadd(a.umax, b.umax) < a.umax
    IN  scalar(IF sover THEN -Half ELSE sadd(a.smin, b.smin),
               IF sover THEN Half - 1 ELSE sadd(a.smax, b.smax),
               IF uover THEN 0 ELSE uadd(a.umin, b.umin),
               IF uover THEN 2 * Half - 1 ELSE uadd(a.umax, b.umax),
               tnum_add(a.tn, b.tn))

scalar_equal(a, b) ==
    /\ a.smin = b.smin /\ a.smax = b.smax
    /\ a.umin = b.umin /\ a.umax = b.umax
    /\ tnum_equal(a.tn, b.tn)
=============================================================================
