------------------------------ MODULE Recursions ------------------------------
(***************************************************************************)
(* Induction and recursion over the naturals, for the proofs.  The         *)
(* installed provers cannot use induction theorems with an operator        *)
(* parameter; a set that has 0 and the successor of each of its members    *)
(* takes the operator's place (Induction), and the existence of recursive  *)
(* functions follows from it.                                              *)
(***************************************************************************)
EXTENDS Integers, Sequences, WellFoundedInduction, TLAPS

LEMMA LeastElement ==
    ASSUME NEW S, S \subseteq Nat, S # {}
    PROVE  \E least \in S : \A i \in S : least <= i
<1>1. IsWellFoundedOn(OpToRel(<, Nat), Nat)
  BY NatLessThanWellFounded
<1>2. PICK least \in S : \A i \in S : ~ (<<i, least>> \in OpToRel(<, Nat))
  BY <1>1, WFMin, Zenon
<1>3. \A i \in S : least <= i
  <2>1. TAKE i \in S
  <2>2. i \in Nat /\ least \in Nat
    OBVIOUS
  <2>3. <<i, least>> \in OpToRel(<, Nat) <=> i < least
    BY <2>2 DEF OpToRel
  <2>4. ~ (i < least)
    BY <1>2, <2>3, Zenon
  <2> QED BY <2>2, <2>4
<1> QED BY <1>3

LEMMA Induction ==
    ASSUME NEW S, 0 \in S, \A i \in Nat : i \in S => i + 1 \in S
    PROVE  Nat \subseteq S
<1> SUFFICES ASSUME Nat \ S # {} PROVE FALSE
  OBVIOUS
<1>1. PICK least \in Nat \ S : \A i \in Nat \ S : least <= i
  BY LeastElement
<1>2. least - 1 \in Nat /\ least - 1 \in S
  BY <1>1
<1> QED BY <1>1, <1>2

LEMMA StrongInduction ==
    ASSUME NEW S, \A n \in Nat : (\A m \in 0 .. n - 1 : m \in S) => n \in S
    PROVE  Nat \subseteq S
<1> SUFFICES ASSUME Nat \ S # {} PROVE FALSE
  OBVIOUS
<1>1. PICK least \in Nat \ S : \A i \in Nat \ S : least <= i
  BY LeastElement
<1>2. \A m \in 0 .. least - 1 : m \in S
  BY <1>1
<1> QED BY <1>1, <1>2

\* The function f over D, which is Nat or 0 .. n, has the value a at 0 and comes to its
\* value at i from the one before by the function g[i].
Solves(f, D, a, g) == f[0] = a /\ \A i \in D \ {0} : f[i] = g[i][f[i - 1]]

\* A recursion over 0 .. n has a solution.
LEMMA Recursion ==
    ASSUME NEW T, NEW a \in T, NEW g \in [Nat -> [T -> T]]
    PROVE  \A n \in Nat : \E h \in [0 .. n -> T] : Solves(h, 0 .. n, a, g)
<1> DEFINE S == {n \in Nat : \E h \in [0 .. n -> T] : Solves(h, 0 .. n, a, g)}
<1>1. 0 \in S
  <2>1. [i \in 0 .. 0 |-> a] \in [0 .. 0 -> T] /\ Solves([i \in 0 .. 0 |-> a], 0 .. 0, a, g)
    BY DEF Solves
  <2> QED BY <2>1
<1>2. ASSUME NEW n \in Nat, n \in S PROVE n + 1 \in S
  <2>1. PICK h \in [0 .. n -> T] : Solves(h, 0 .. n, a, g)
    BY <1>2
  <2> DEFINE k == [i \in 0 .. n + 1 |-> IF i = n + 1 THEN g[n + 1][h[n]] ELSE h[i]]
  <2>2. g[n + 1][h[n]] \in T
    OBVIOUS
  <2>3. k \in [0 .. n + 1 -> T]
    BY <2>2
  <2>4. k[0] = a
    BY <2>1 DEF Solves
  <2>5. ASSUME NEW i \in (0 .. n + 1) \ {0} PROVE k[i] = g[i][k[i - 1]]
    <3>1. CASE i = n + 1
      BY <3>1
    <3>2. CASE i \in 1 .. n
      <4>1. k[i] = h[i] /\ k[i - 1] = h[i - 1]
        BY <3>2
      <4> QED BY <2>1, <3>2, <4>1 DEF Solves
    <3> QED BY <3>1, <3>2
  <2> HIDE DEF k
  <2>6. Solves(k, 0 .. n + 1, a, g)
    BY <2>4, <2>5 DEF Solves
  <2> QED BY <2>3, <2>6
<1> HIDE DEF S
<1>3. Nat \subseteq S
  BY <1>1, <1>2, Induction
<1> QED BY <1>3 DEF S

\* So does one over Nat.
LEMMA RecursionOverNat ==
    ASSUME NEW T, NEW a \in T, NEW g \in [Nat -> [T -> T]]
    PROVE  \E f \in [Nat -> T] : Solves(f, Nat, a, g)
<1> DEFINE H == [n \in Nat |-> CHOOSE h \in [0 .. n -> T] : Solves(h, 0 .. n, a, g)]
           f == [n \in Nat |-> H[n][n]]
<1>1. \A n \in Nat : H[n] \in [0 .. n -> T] /\ Solves(H[n], 0 .. n, a, g)
  <2>1. \A n \in Nat : \E h \in [0 .. n -> T] : Solves(h, 0 .. n, a, g)
    BY Recursion
  <2> QED BY <2>1
<1> HIDE DEF H
<1>2. f \in [Nat -> T]
  BY <1>1
<1>3. f[0] = a
  BY <1>1 DEF Solves
<1>4. ASSUME NEW n \in Nat \ {0} PROVE f[n] = g[n][f[n - 1]]
  <2>1. n - 1 \in Nat /\ n \in Nat
    OBVIOUS
  <2> DEFINE S == {i \in Nat : i <= n - 1 => H[n][i] = H[n - 1][i]}
  <2>2. 0 \in S
    BY <1>1, <2>1 DEF Solves
  <2>3. \A i \in Nat : i \in S => i + 1 \in S
    <3>1. \A i \in 1 .. n - 1 : H[n][i] = g[i][H[n][i - 1]]
      BY <1>1, <2>1 DEF Solves
    <3>2. \A i \in 1 .. n - 1 : H[n - 1][i] = g[i][H[n - 1][i - 1]]
      BY <1>1, <2>1 DEF Solves
    <3> QED BY <3>1, <3>2
  <2> HIDE DEF S
  <2>4. Nat \subseteq S
    BY <2>2, <2>3, Induction
  <2>5. H[n][n - 1] = H[n - 1][n - 1]
    BY <2>1, <2>4 DEF S
  <2>6. H[n][n] = g[n][H[n][n - 1]]
    BY <1>1, <2>1 DEF Solves
  <2> QED BY <2>1, <2>5, <2>6
<1> HIDE DEF f
<1> QED BY <1>2, <1>3, <1>4 DEF Solves
=============================================================================
