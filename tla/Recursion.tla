------------------------------- MODULE Recursion -------------------------------
(***************************************************************************)
(* Induction and recursion over natural numbers for proofs about data.      *)
(* Both are stated over sets instead of operators: a lemma about a          *)
(* recursive function names the set of the arguments it holds for, or the   *)
(* set its values stay in.                                                  *)
(***************************************************************************)
EXTENDS Integers, WellFoundedInduction, TLAPS

-----------------------------------------------------------------------------
(* A set of natural numbers has a least member, so a set that holds 0 and with *)
(* each number the next one holds all of them.                                 *)

Less == OpToRel(<, Nat)
LEMMA LeastNatural ==
    ASSUME NEW S \in SUBSET Nat, S # {}
    PROVE  \E n \in S : \A m \in S : n <= m
<1>1. IsWellFoundedOn(Less, Nat)
  BY NatLessThanWellFounded DEF Less
<1>2. \A x, y \in Nat : x < y => <<x, y>> \in Less
  BY DEF OpToRel, Less
<1>3. \E x \in S : \A y \in S : ~ (<<y, x>> \in Less)
  BY <1>1, WFMin
<1>4. PICK x \in S : \A y \in S : ~ (<<y, x>> \in Less)
  BY <1>3
<1>5. \A y \in S : ~(y < x)
  BY <1>2, <1>4
<1> QED
  BY <1>5

LEMMA Induction ==
    ASSUME NEW S, 0 \in S, \A n \in Nat : n \in S => n + 1 \in S
    PROVE  \A n \in Nat : n \in S
<1> SUFFICES ASSUME Nat \ S # {} PROVE FALSE
  OBVIOUS
<1>1. PICK n \in Nat \ S : \A m \in Nat \ S : n <= m
  BY LeastNatural
<1>2. n # 0 /\ n - 1 \in Nat /\ ~ n <= n - 1
  OBVIOUS
<1>3. n - 1 \in S
  BY <1>1, <1>2
<1> QED
  BY <1>2, <1>3

-----------------------------------------------------------------------------
(* A function that is defined on 0 .. L step by step exists; its values stay in *)
(* a set that no step leaves.                                                   *)

Unfolds(h, L, V, b, step) ==
    /\ h \in [0 .. L -> V]
    /\ h[0] = b
    /\ \A k \in 1 .. L : h[k] = step[<<k, h[k - 1]>>]

LEMMA Recursive ==
    ASSUME NEW L \in Nat, NEW V, NEW b \in V, NEW step \in [(1 .. L) \X V -> V]
    PROVE  \E h : Unfolds(h, L, V, b, step)
<1> DEFINE Follows(h, n) == h[0] = b /\ \A k \in 1 .. n : h[k] = step[<<k, h[k - 1]>>]
           S == {n \in Nat : n <= L => \E h \in [0 .. L -> V] : Follows(h, n)}
<1>1. 0 \in S
  <2>1. Follows([k \in 0 .. L |-> b], 0)
    OBVIOUS
  <2>2. [k \in 0 .. L |-> b] \in [0 .. L -> V]
    OBVIOUS
  <2> HIDE DEF Follows
  <2> QED
    BY <2>1, <2>2
<1>2. ASSUME NEW n \in Nat, n \in S PROVE n + 1 \in S
  <2> SUFFICES ASSUME n + 1 <= L PROVE \E h \in [0 .. L -> V] : Follows(h, n + 1)
    OBVIOUS
  <2>1. PICK h \in [0 .. L -> V] : Follows(h, n)
    BY <1>2
  <2> DEFINE v == step[<<n + 1, h[n]>>]
             g == [h EXCEPT ![n + 1] = v]
  <2>2. n \in 0 .. L /\ n + 1 \in 1 .. L /\ n + 1 \in 0 .. L /\ n # n + 1 /\ (n + 1) - 1 = n /\ 0 # n + 1
    OBVIOUS
  <2>3. v \in V
    BY <2>2
  <2>4. g \in [0 .. L -> V] /\ g[n + 1] = v /\ \A k \in 0 .. n : g[k] = h[k]
    BY <2>2, <2>3
  <2>5. ASSUME NEW k \in 1 .. n + 1 PROVE g[k] = step[<<k, g[k - 1]>>]
    <3>1. CASE k = n + 1
      <4>1. g[k - 1] = h[n] /\ g[k] = v
        BY <2>2, <2>4, <3>1
      <4> QED
        BY <3>1, <4>1
    <3>2. CASE k # n + 1
      <4>1. k \in 1 .. n /\ k \in 0 .. n /\ k - 1 \in 0 .. n
        BY <3>2
      <4>2. h[k] = step[<<k, h[k - 1]>>]
        BY <2>1, <4>1
      <4> HIDE DEF g
      <4> QED
        BY <2>4, <4>1, <4>2
    <3> QED
      BY <3>1, <3>2
  <2>6. g[0] = b
    BY <2>1, <2>4
  <2> HIDE DEF g
  <2>7. Follows(g, n + 1)
    BY <2>5, <2>6
  <2> HIDE DEF Follows
  <2> QED
    BY <2>4, <2>7
<1>3. L \in S
  <2> HIDE DEF S
  <2> QED
    BY <1>1, <1>2, Induction
<1> QED
  BY <1>3 DEF Unfolds

LEMMA StaysIn ==
    ASSUME NEW L \in Nat, NEW V, NEW h, h[0] \in V, \A k \in 1 .. L : h[k - 1] \in V => h[k] \in V
    PROVE  \A k \in 0 .. L : h[k] \in V
<1> DEFINE S == {n \in Nat : n <= L => h[n] \in V}
<1>1. 0 \in S
  OBVIOUS
<1>2. ASSUME NEW n \in Nat, n \in S PROVE n + 1 \in S
  <2>1. (n + 1) - 1 = n /\ (n + 1 <= L => n <= L /\ n + 1 \in 1 .. L)
    OBVIOUS
  <2> QED
    BY <1>2, <2>1
<1>3. \A n \in Nat : n \in S
  <2> HIDE DEF S
  <2> QED
    BY <1>1, <1>2, Induction
<1> QED
  BY <1>3
=============================================================================
