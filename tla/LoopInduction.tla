--------------------------- MODULE LoopInduction ---------------------------
(***************************************************************************)
(* Induction over the passes of a loop, for the proofs about linear        *)
(* searches and loops over arrays.  It is stated over a set of numbers and *)
(* comes from the well-foundedness of < on Nat.                            *)
(***************************************************************************)
EXTENDS WellFoundedInduction, TLAPS

(* A nonempty set of natural numbers has a least element: what a linear    *)
(* search finds first.                                                     *)
LEMMA LeastElement ==
    ASSUME NEW T \in SUBSET Nat, T # {}
    PROVE  \E x \in T : \A y \in T : x <= y
<1> DEFINE R == OpToRel(<, Nat)
<1>1. IsWellFoundedOn(R, Nat)
    BY NatLessThanWellFounded
<1>2. \A x, y \in Nat : <<x, y>> \in R <=> x < y
    BY DEF OpToRel
<1> HIDE DEF R
<1>3. PICK x \in T : \A y \in T : ~(<<y, x>> \in R)
    BY <1>1, WFMin
<1>4. \A y \in T : ~(y < x)
    BY <1>2, <1>3
<1>5. x \in Nat /\ \A y \in T : y \in Nat /\ x <= y
    BY <1>4
<1> QED  BY <1>5

(* Induction over the numbers up to a bound: a set that holds 0 and, with  *)
(* each number below the bound, the next one, holds them all.              *)
LEMMA UpTo ==
    ASSUME NEW N \in Nat, NEW P, 0 \in P,
           \A n \in 0 .. N : n # 0 /\ n - 1 \in P => n \in P
    PROVE  0 .. N \subseteq P
<1> SUFFICES ASSUME (0 .. N) \ P # {} PROVE FALSE
    OBVIOUS
<1> DEFINE T == (0 .. N) \ P
<1>0. T \in SUBSET Nat /\ T # {}
    OBVIOUS
<1> HIDE DEF T
<1>1. PICK x \in T : \A y \in T : x <= y
    BY <1>0, LeastElement
<1> USE DEF T
<1>2. x # 0 /\ x - 1 \in 0 .. N /\ x - 1 \notin (0 .. N) \ P
    BY <1>1
<1> QED  BY <1>1, <1>2

(* f gives the state after each pass of a loop over positions 1..N that    *)
(* starts in s0 and whose n-th pass is the function G[n] on the set S.     *)
IsRun(f, S, s0, N, G) ==
    /\ f \in [0 .. N -> S]
    /\ f[0] = s0
    /\ \A n \in 1 .. N : f[n] = G[n][f[n - 1]]

(* Every such loop has a run.                                              *)
LEMMA LoopRuns ==
    ASSUME NEW S, NEW s0 \in S, NEW N \in Nat, NEW G \in [1 .. N -> [S -> S]]
    PROVE  \E f : IsRun(f, S, s0, N, G)
<1> DEFINE Run(k, f) == /\ f[0] = s0
                        /\ \A n \in 1 .. k : f[n] = G[n][f[n - 1]]
           P == {k \in 0 .. N : \E f \in [0 .. k -> S] : Run(k, f)}
<1>1. 0 \in P
  <2> DEFINE g == [i \in 0 .. 0 |-> s0]
  <2>1. g \in [0 .. 0 -> S] /\ Run(0, g)
    OBVIOUS
  <2> HIDE DEF g
  <2>2. \E f \in [0 .. 0 -> S] : Run(0, f)
    BY <2>1
  <2>3. 0 \in 0 .. N
    OBVIOUS
  <2> HIDE DEF Run
  <2> QED  BY <2>2, <2>3
<1>2. ASSUME NEW k \in 0 .. N, k # 0, k - 1 \in P
      PROVE  k \in P
  <2>1. PICK f \in [0 .. k - 1 -> S] : Run(k - 1, f)
    BY <1>2
  <2>2. k \in 1 .. N /\ f[k - 1] \in S
    BY <1>2, <2>1
  <2>3. G[k][f[k - 1]] \in S
    BY <2>2
  <2> DEFINE g == [i \in 0 .. k |-> IF i = k THEN G[k][f[k - 1]] ELSE f[i]]
  <2>4. g \in [0 .. k -> S]
    BY <1>2, <2>1, <2>3
  <2>5. g[0] = s0
    BY <1>2, <2>1
  <2>6. \A n \in 1 .. k : g[n] = G[n][g[n - 1]]
    BY <1>2, <2>1
  <2> HIDE DEF g
  <2> QED  BY <2>4, <2>5, <2>6
<1> HIDE DEF P
<1>3. 0 .. N \subseteq P
    BY <1>1, <1>2, UpTo
<1>4. N \in P
    BY <1>3
<1> QED  BY <1>4 DEF P, IsRun
=============================================================================
