----------------------------- MODULE Iteration ------------------------------
(***************************************************************************)
(* Numbers and loops.  A loop is a function: what a value is after n       *)
(* turns.  The induction it needs is stated over sets, so that it can be   *)
(* cited for any property that a set can express.                          *)
(***************************************************************************)
EXTENDS Integers, FiniteSetsExt, WellFoundedInduction, TLAPS

\* A set of numbers has a least one.
LEMMA LeastOf ==
    ASSUME NEW T, T \subseteq Nat, T # {}
    PROVE  \E x \in T : \A y \in T : x <= y
  <1> DEFINE R == OpToRel(<, Nat)
  <1>1. IsWellFoundedOn(R, Nat)
    BY NatLessThanWellFounded
  <1>2. \E x \in T : \A y \in T : ~(<<y, x>> \in R)
    <2> HIDE DEF R
    <2> QED BY <1>1, WFMin
  <1>3. PICK x \in T : \A y \in T : ~(<<y, x>> \in R)
    BY <1>2
  <1>4. \A y \in T : ~(y < x)
    BY <1>3 DEF OpToRel
  <1> QED
    BY <1>4

\* Max is the greatest number of a set within bounds.
LEMMA MaxWithin ==
    ASSUME NEW a \in Int, NEW b \in Int, NEW S, S \subseteq a..b, S # {}
    PROVE  Max(S) \in S /\ \A y \in S : Max(S) >= y
  <1> DEFINE T == {b - x : x \in S}
  <1>0. \A x \in S : x \in Int /\ b - x \in Nat
    OBVIOUS
  <1>1. T \subseteq Nat /\ T # {}
    BY <1>0
  <1>2. PICK d \in T : \A y \in T : d <= y
    <2> HIDE DEF T
    <2> QED BY <1>1, LeastOf
  <1>3. PICK x \in S : d = b - x
    OBVIOUS
  <1>4. \A y \in S : x >= y
    <2> SUFFICES ASSUME NEW y \in S PROVE x >= y
      OBVIOUS
    <2>1. b - y \in T
      OBVIOUS
    <2>2. b - x <= b - y /\ x \in Int /\ y \in Int
      BY <1>0, <1>2, <1>3, <2>1
    <2> QED
      BY <2>2
  <1>5. \E z \in S : \A y \in S : z >= y
    BY <1>4
  <1> QED
    BY <1>5, Zenon DEF Max

\* A set of numbers with 0 and every successor has them all.
LEMMA SetInduction ==
    ASSUME NEW S, 0 \in S, \A n \in Nat : n \in S => n + 1 \in S
    PROVE  Nat \subseteq S
  <1> SUFFICES ASSUME ~(Nat \subseteq S) PROVE FALSE
    OBVIOUS
  <1> DEFINE T == Nat \ S
  <1>1. T \subseteq Nat /\ T # {}
    OBVIOUS
  <1>2. PICK x \in T : \A y \in T : x <= y
    <2> HIDE DEF T
    <2> QED BY <1>1, LeastOf
  <1>3. x # 0 /\ x - 1 \in Nat /\ (x - 1) + 1 = x
    OBVIOUS
  <1>4. x - 1 \notin T
    BY <1>2, <1>3
  <1> QED
    BY <1>3, <1>4

\* The same up to a bound.
LEMMA BoundedInduction ==
    ASSUME NEW N \in Nat, NEW S, 0 \in S, \A n \in 1..N : n - 1 \in S => n \in S
    PROVE  0..N \subseteq S
  <1> DEFINE T == {n \in Nat : n <= N => n \in S}
  <1>1. 0 \in T
    OBVIOUS
  <1>2. \A n \in Nat : n \in T => n + 1 \in T
    <2> SUFFICES ASSUME NEW n \in Nat, n \in T, n + 1 <= N PROVE n + 1 \in S
      OBVIOUS
    <2>1. n + 1 \in 1..N /\ (n + 1) - 1 = n /\ n \in S
      OBVIOUS
    <2> QED
      BY <2>1
  <1>3. Nat \subseteq T
    <2> HIDE DEF T
    <2> QED BY <1>1, <1>2, SetInduction
  <1> QED
    BY <1>3

\* g is the history of a loop: N turns of F from c, F given the value and the turn.
History(g, c, N, F) == g[0] = c /\ \A n \in 1..N : g[n] = F[<<g[n - 1], n>>]

\* A loop has a history.
LEMMA Iterates ==
    ASSUME NEW X, NEW c \in X, NEW N \in Nat, NEW F \in [X \X (1..N) -> X]
    PROVE  \E g \in [0..N -> X] : History(g, c, N, F)
  <1> DEFINE Upto(k, g) == g[0] = c /\ \A n \in 1..k : g[n] = F[<<g[n - 1], n>>]
             S == {k \in 0..N : \E g \in [0..k -> X] : Upto(k, g)}
  <1>1. 0 \in S
    <2> DEFINE g == [n \in 0..0 |-> c]
    <2>1. g \in [0..0 -> X] /\ Upto(0, g)
      OBVIOUS
    <2>2. 0 \in 0..N
      OBVIOUS
    <2> HIDE DEF g, Upto
    <2> QED
      BY <2>1, <2>2
  <1>2. ASSUME NEW n \in 1..N, n - 1 \in S PROVE n \in S
    <2>1. PICK g \in [0..(n - 1) -> X] : Upto(n - 1, g)
      BY <1>2
    <2>2. n - 1 \in 0..(n - 1) /\ n \in Nat /\ n - 1 \in Nat
      OBVIOUS
    <2> DEFINE x == F[<<g[n - 1], n>>]
               h == [k \in 0..n |-> IF k = n THEN x ELSE g[k]]
    <2>3. x \in X
      BY <2>2
    <2>4. \A k \in 0..n : k # n => k \in 0..(n - 1)
      BY <2>2
    <2> HIDE DEF x
    <2>5. h \in [0..n -> X]
      BY <2>3, <2>4
    <2>6. h[n] = x /\ \A k \in 0..(n - 1) : h[k] = g[k]
      BY <2>2
    <2> HIDE DEF h
    <2>7. Upto(n, h)
      <3>1. h[0] = c
        BY <2>1, <2>2, <2>6
      <3>2. ASSUME NEW k \in 1..n PROVE h[k] = F[<<h[k - 1], k>>]
        <4>1. k - 1 \in 0..(n - 1)
          BY <2>2
        <4>2. h[k - 1] = g[k - 1]
          BY <2>6, <4>1
        <4>3. CASE k = n
          BY <2>6, <4>2, <4>3 DEF x
        <4>4. CASE k # n
          <5>1. k \in 0..(n - 1) /\ k \in 1..(n - 1)
            BY <2>2, <4>4
          <5> QED
            BY <2>1, <2>6, <4>2, <5>1
        <4> QED
          BY <4>3, <4>4
      <3> QED
        BY <3>1, <3>2
    <2> QED
      BY <2>2, <2>5, <2>7
  <1>3. 0..N \subseteq S
    <2> HIDE DEF S
    <2> QED BY <1>1, <1>2, BoundedInduction
  <1>4. N \in S
    <2>1. N \in 0..N
      OBVIOUS
    <2> HIDE DEF S
    <2> QED BY <1>3, <2>1
  <1>5. \E g \in [0..N -> X] : Upto(N, g)
    <2> HIDE DEF Upto
    <2> QED BY <1>4
  <1> QED
    BY <1>5 DEF History
=============================================================================
