-------------------------- MODULE GuestBuffersProofs --------------------------
(***************************************************************************)
(* Proofs about GuestBuffers: that parsing inverts formatting, digit by    *)
(* digit and byte by byte; where strings and records are cut; and that     *)
(* every answer is what its call promises, whatever is in the store.       *)
(***************************************************************************)
EXTENDS GuestBuffers, SequenceTheorems, Recursions

-----------------------------------------------------------------------------
(* Powers and digits. *)

LEMMA PowerDef ==
    ASSUME NEW b \in Nat \ {0}
    PROVE  /\ Power(b, 0) = 1
           /\ \A n \in Nat : Power(b, n + 1) = b * Power(b, n) /\ Power(b, n) \in Nat \ {0}
<1> DEFINE power[i \in Nat] == IF i = 0 THEN 1 ELSE b * power[i - 1]
           g == [i \in Nat |-> [x \in Nat |-> b * x]]
<1>1. \A n : Power(b, n) = power[n]
  BY DEF Power
<1>2. power = [i \in Nat |-> IF i = 0 THEN 1 ELSE b * power[i - 1]]
  <2>1. PICK f \in [Nat -> Nat] : f[0] = 1 /\ \A i \in Nat \ {0} : f[i] = g[i][f[i - 1]]
    <3>1. g \in [Nat -> [Nat -> Nat]] /\ 1 \in Nat
      OBVIOUS
    <3> DEFINE T == Nat
               a == 1
    <3> HIDE DEF g, T, a
    <3>2. a \in T /\ g \in [Nat -> [T -> T]]
      BY <3>1 DEF a, T
    <3>3. \E f \in [Nat -> T] : Solves(f, Nat, a, g)
      BY <3>2, RecursionOverNat
    <3> QED BY <3>3 DEF a, T, Solves
  <2>2. f = [i \in Nat |-> IF i = 0 THEN 1 ELSE b * f[i - 1]]
    <3>1. ASSUME NEW i \in Nat PROVE f[i] = IF i = 0 THEN 1 ELSE b * f[i - 1]
      <4>1. CASE i = 0
        BY <2>1, <4>1
      <4>2. CASE i # 0
        <5>1. f[i - 1] \in Nat
          BY <4>2
        <5>2. g[i][f[i - 1]] = b * f[i - 1]
          BY <5>1
        <5>3. f[i] = g[i][f[i - 1]]
          BY <2>1, <4>2
        <5> QED BY <4>2, <5>2, <5>3
      <4> QED BY <4>1, <4>2
    <3> QED BY <3>1
  <2> QED BY <2>2
<1> HIDE DEF power
<1>3. power[0] = 1 /\ \A n \in Nat : power[n + 1] = b * power[n]
  BY <1>2
<1>4. Nat \subseteq {n \in Nat : power[n] \in Nat \ {0}}
  <2> DEFINE S == {n \in Nat : power[n] \in Nat \ {0}}
  <2>1. 0 \in S
    BY <1>3
  <2>2. \A i \in Nat : i \in S => i + 1 \in S
    BY <1>3
  <2> HIDE DEF S
  <2>3. Nat \subseteq S
    BY <2>1, <2>2, Induction
  <2> QED BY <2>3 DEF S
<1> QED BY <1>1, <1>3, <1>4

LEMMA Division ==
    ASSUME NEW n \in Int, NEW d \in Nat \ {0}
    PROVE  n \div d \in Int /\ n % d \in 0 .. d - 1 /\ n = d * (n \div d) + (n % d)
OBVIOUS

LEMMA DivisionUnique ==
    ASSUME NEW d \in Nat \ {0}, NEW q \in Int, NEW r \in 0 .. d - 1, NEW n \in Int, n = d * q + r
    PROVE  n \div d = q /\ n % d = r
<1> DEFINE p == n \div d
           s == n % d
<1>1. p \in Int /\ s \in 0 .. d - 1 /\ n = d * p + s
  OBVIOUS
<1> HIDE DEF p, s
<1>2. d * (p - q) = r - s
  BY <1>1
<1>3. p = q
  <2>1. CASE p > q
    <3>1. d * (p - q) >= d
      BY <1>1, <2>1
    <3> QED BY <1>1, <1>2, <3>1
  <2>2. CASE p < q
    <3>1. d * (q - p) >= d
      BY <1>1, <2>2
    <3>2. d * (q - p) = s - r
      BY <1>1, <1>2
    <3> QED BY <1>1, <3>2, <3>1
  <2> QED BY <1>1, <2>1, <2>2
<1>4. s = r
  BY <1>1, <1>3
<1> QED BY <1>3, <1>4 DEF p, s

LEMMA NestedDivision ==
    ASSUME NEW n \in Nat, NEW d \in Nat \ {0}, NEW b \in Nat \ {0}
    PROVE  b * d \in Nat \ {0} /\ n \div (b * d) = (n \div d) \div b
<1> DEFINE q == n \div d
           r == n % d
           t == q \div b
           u == q % b
<1>1. q \in Int /\ r \in 0 .. d - 1 /\ n = d * q + r
  BY Division
<1>2. t \in Int /\ u \in 0 .. b - 1 /\ q = b * t + u
  BY <1>1, Division
<1> HIDE DEF q, r, t, u
<1>3. b * d \in Nat \ {0}
  OBVIOUS
<1>4. n = (b * d) * t + (d * u + r)
  BY <1>1, <1>2
<1>5. d * u + r \in 0 .. b * d - 1
  <2>1. d * u \in Nat /\ d * u <= d * (b - 1)
    BY <1>2
  <2> QED BY <1>1, <2>1
<1>6. n \div (b * d) = t
  BY <1>2, <1>3, <1>4, <1>5, DivisionUnique
<1> QED BY <1>3, <1>6 DEF q, t

LEMMA FromDigitsDef ==
    ASSUME NEW b \in Nat, NEW s \in Seq(Nat)
    PROVE  \E v \in [0 .. Len(s) -> Nat] :
               /\ v[0] = 0
               /\ \A i \in 1 .. Len(s) : v[i] = b * v[i - 1] + s[i]
               /\ FromDigits(s, b) = v[Len(s)]
<1> DEFINE value[i \in 0 .. Len(s)] == IF i = 0 THEN 0 ELSE b * value[i - 1] + s[i]
           g == [i \in Nat |-> [x \in Nat |-> b * x + (IF i \in 1 .. Len(s) THEN s[i] ELSE 0)]]
<1>0. Len(s) \in Nat
  OBVIOUS
<1>1. FromDigits(s, b) = value[Len(s)]
  BY DEF FromDigits
<1> HIDE DEF value
<1>2. PICK f \in [0 .. Len(s) -> Nat] : Solves(f, 0 .. Len(s), 0, g)
  <2>1. ASSUME NEW i \in Nat PROVE [x \in Nat |-> b * x + (IF i \in 1 .. Len(s) THEN s[i] ELSE 0)] \in [Nat -> Nat]
    <3>1. (IF i \in 1 .. Len(s) THEN s[i] ELSE 0) \in Nat
      OBVIOUS
    <3> QED BY <3>1
  <2>2. g \in [Nat -> [Nat -> Nat]]
    BY <2>1
  <2> DEFINE T == Nat
             a == 0
  <2> HIDE DEF g, T, a
  <2>3. a \in T /\ g \in [Nat -> [T -> T]]
    BY <2>2 DEF a, T
  <2>4. \E f \in [0 .. Len(s) -> T] : Solves(f, 0 .. Len(s), a, g)
    BY <1>0, <2>3, Recursion
  <2> QED BY <2>4 DEF a, T
<1>3. ASSUME NEW i \in 1 .. Len(s) PROVE f[i] = b * f[i - 1] + s[i]
  <2>1. f[i - 1] \in Nat /\ i \in Nat
    OBVIOUS
  <2> HIDE DEF g
  <2>2. f[i] = g[i][f[i - 1]]
    BY <1>0, <1>2 DEF Solves
  <2> QED BY <2>1, <2>2 DEF g
<1>4. f[0] = 0
  BY <1>2 DEF Solves
<1> HIDE DEF g
<1>5. f = [i \in 0 .. Len(s) |-> IF i = 0 THEN 0 ELSE b * f[i - 1] + s[i]]
  <2>1. ASSUME NEW i \in 0 .. Len(s) PROVE f[i] = IF i = 0 THEN 0 ELSE b * f[i - 1] + s[i]
    BY <1>3, <1>4
  <2> QED BY <2>1
<1>6. value = [i \in 0 .. Len(s) |-> IF i = 0 THEN 0 ELSE b * value[i - 1] + s[i]]
  BY <1>5 DEF value
<1> HIDE DEF value
<1>7. ASSUME NEW i \in 0 .. Len(s) PROVE value[i] = f[i]
  <2> DEFINE S == {m \in Nat : m <= Len(s) => value[m] = f[m]}
  <2>1. 0 \in S
    BY <1>4, <1>6
  <2>2. ASSUME NEW m \in Nat, m \in S PROVE m + 1 \in S
    <3>1. CASE m + 1 <= Len(s)
      <4>1. m + 1 \in 1 .. Len(s) /\ m + 1 # 0 /\ (m + 1) - 1 = m /\ Len(s) \in Nat
        BY <3>1
      <4>2. value[m + 1] = b * value[m] + s[m + 1]
        BY <1>6, <4>1
      <4>3. f[m + 1] = b * f[m] + s[m + 1]
        BY <1>3, <4>1
      <4>4. value[m] = f[m]
        BY <2>2, <4>1
      <4>5. value[m + 1] = f[m + 1]
        BY <4>2, <4>3, <4>4
      <4> QED BY <4>1, <4>5
    <3> QED BY <3>1
  <2> HIDE DEF S
  <2>3. Nat \subseteq S
    BY <2>1, <2>2, Induction
  <2>4. i \in Nat /\ i <= Len(s) /\ i \in S
    BY <2>3
  <2>5. \A m \in S : m <= Len(s) => value[m] = f[m]
    BY Zenon DEF S
  <2> QED BY <2>4, <2>5, Zenon
<1>8. FromDigits(s, b) = f[Len(s)]
  BY <1>0, <1>1, <1>7
<1>9. f \in [0 .. Len(s) -> Nat]
  BY <1>2
<1> QED BY <1>3, <1>4, <1>8, <1>9, ZenonT(30)

LEMMA FromDigitsType ==
    ASSUME NEW b \in Nat, NEW s \in Seq(Nat)
    PROVE  FromDigits(s, b) \in Nat
<1>1. Len(s) \in 0 .. Len(s)
  OBVIOUS
<1> QED BY <1>1, FromDigitsDef

LEMMA InBaseType ==
    ASSUME NEW n \in Nat, NEW b \in Nat \ {0}, NEW w \in Nat
    PROVE  InBase(n, b, w) \in Seq(0 .. b - 1) /\ Len(InBase(n, b, w)) = w
<1>1. ASSUME NEW i \in 1 .. w PROVE (n \div Power(b, w - i)) % b \in 0 .. b - 1
  <2> DEFINE d == Power(b, w - i)
  <2>1. d \in Nat \ {0}
    BY PowerDef
  <2> HIDE DEF d
  <2>2. n \div d \in Int
    BY <2>1, Division
  <2> QED BY <2>2, Division DEF d
<1> QED BY <1>1 DEF InBase

\* The digits of a number make the number, if there are enough of them.
LEMMA DigitsInvert ==
    ASSUME NEW b \in Nat \ {0}, NEW w \in Nat, NEW n \in Nat, n < Power(b, w)
    PROVE  FromDigits(InBase(n, b, w), b) = n
<1> DEFINE s == InBase(n, b, w)
           q == [i \in 0 .. w |-> n \div Power(b, w - i)]
<1>1. s \in Seq(Nat) /\ Len(s) = w
  BY InBaseType
<1>2. q[0] = 0
  <2> DEFINE d == Power(b, w)
  <2>1. d \in Nat \ {0} /\ n < d /\ q[0] = n \div d
    BY PowerDef
  <2> HIDE DEF d, q
  <2> QED BY <2>1
<1>3. q[w] = n
  BY PowerDef
<1>4. ASSUME NEW i \in 1 .. w PROVE q[i] = b * q[i - 1] + s[i]
  <2> DEFINE d == Power(b, w - i)
  <2>1. w - i \in Nat /\ w - (i - 1) = (w - i) + 1
    OBVIOUS
  <2>2. d \in Nat \ {0} /\ Power(b, w - (i - 1)) = b * d
    BY <2>1, PowerDef
  <2>3. q[i] = n \div d /\ q[i - 1] = n \div (b * d)
    BY <2>2
  <2>4. s[i] = (n \div d) % b
    BY DEF InBase
  <2> HIDE DEF d, q, s
  <2>5. q[i - 1] = (n \div d) \div b
    BY <2>2, <2>3, NestedDivision
  <2>6. n \div d \in Int
    BY <2>2, Division
  <2>7. n \div d = b * ((n \div d) \div b) + ((n \div d) % b)
    BY <2>6, Division
  <2> QED BY <2>3, <2>4, <2>5, <2>7
<1> HIDE DEF q, s
<1>5. PICK v \in [0 .. Len(s) -> Nat] :
          /\ v[0] = 0
          /\ \A i \in 1 .. Len(s) : v[i] = b * v[i - 1] + s[i]
          /\ FromDigits(s, b) = v[Len(s)]
  BY <1>1, FromDigitsDef
<1> DEFINE S == {i \in Nat : i <= w => v[i] = q[i]}
<1>6. 0 \in S
  BY <1>2, <1>5
<1>7. ASSUME NEW i \in Nat, i \in S PROVE i + 1 \in S
  <2>1. CASE i + 1 <= w
    <3>1. i + 1 \in 1 .. w /\ (i + 1) - 1 = i
      BY <2>1
    <3>2. v[i + 1] = b * v[i] + s[i + 1]
      BY <1>1, <1>5, <3>1
    <3>3. q[i + 1] = b * q[i] + s[i + 1]
      BY <1>4, <3>1
    <3> QED BY <1>7, <3>1, <3>2, <3>3
  <2> QED BY <2>1
<1> HIDE DEF S
<1>8. Nat \subseteq S
  BY <1>6, <1>7, Induction
<1>9. v[w] = q[w]
  BY <1>8 DEF S
<1> QED BY <1>1, <1>3, <1>5, <1>9 DEF s

-----------------------------------------------------------------------------
(* Numbers as text. *)

LEMMA Shorter ==
    ASSUME NEW n \in Nat, NEW b \in Nat \ {0, 1}
    PROVE  /\ n \div b \in Nat /\ n % b \in 0 .. b - 1 /\ n = b * (n \div b) + (n % b)
           /\ n >= b => n \div b < n
<1> DEFINE q == n \div b
           r == n % b
<1>1. q \in Int /\ r \in 0 .. b - 1 /\ n = b * q + r
  BY Division
<1> HIDE DEF q, r
<1>2. q \in Nat
  <2>1. q < 0 => b * q <= -b
    BY <1>1
  <2> QED BY <1>1, <2>1
<1>3. n >= b => q < n
  <2>1. q > 0 => b * q >= 2 * q
    BY <1>2
  <2> QED BY <1>1, <1>2, <2>1
<1> QED BY <1>1, <1>2, <1>3 DEF q, r

\* Digits is the limit of functions F[i] that give the digits of the numbers below i.
LEMMA DigitsDef ==
    ASSUME BufferAssumption
    PROVE  \A n \in Nat :
               Digits[n] = IF n < Radix THEN <<Digit0 + n>>
                           ELSE Append(Digits[n \div Radix], Digit0 + (n % Radix))
<1>0. Radix \in Nat \ {0, 1} /\ Digit0 \in Nat
  BY DEF BufferAssumption
<1> DEFINE T == [Nat -> Seq(Nat)]
           a == [n \in Nat |-> <<>>]
           Next1(f) == [n \in Nat |-> IF n < Radix THEN <<Digit0 + n>>
                                      ELSE Append(f[n \div Radix], Digit0 + (n % Radix))]
           g == [i \in Nat |-> [f \in T |-> Next1(f)]]
<1>1. \A f \in T : Next1(f) \in T
  <2> SUFFICES ASSUME NEW f \in T, NEW n \in Nat
               PROVE  (IF n < Radix THEN <<Digit0 + n>>
                       ELSE Append(f[n \div Radix], Digit0 + (n % Radix))) \in Seq(Nat)
    OBVIOUS
  <2>1. n \div Radix \in Nat /\ n % Radix \in Nat
    BY <1>0, Shorter
  <2>2. f[n \div Radix] \in Seq(Nat)
    BY <2>1
  <2>3. Digit0 + n \in Nat /\ Digit0 + (n % Radix) \in Nat
    BY <1>0, <2>1
  <2> QED BY <2>2, <2>3
<1>2. a \in T
  OBVIOUS
<1>3. PICK F \in [Nat -> T] : Solves(F, Nat, a, g)
  <2>1. g \in [Nat -> [T -> T]]
    BY <1>1
  <2> HIDE DEF T, a, g
  <2> QED BY <1>2, <2>1, RecursionOverNat
<1>4. ASSUME NEW i \in Nat \ {0} PROVE F[i] = Next1(F[i - 1])
  <2>1. i \in Nat /\ F[i - 1] \in T
    OBVIOUS
  <2>2. g[i][F[i - 1]] = Next1(F[i - 1])
    <3> HIDE DEF T, Next1
    <3> QED BY <2>1
  <2>3. F[i] = g[i][F[i - 1]]
    <3> HIDE DEF T, g, a
    <3> QED BY <1>3 DEF Solves
  <2> QED BY <2>2, <2>3
<1> HIDE DEF a, g
<1>5. ASSUME NEW n \in Nat, NEW i \in Nat, i > n
      PROVE  F[i][n] = IF n < Radix THEN <<Digit0 + n>>
                       ELSE Append(F[i - 1][n \div Radix], Digit0 + (n % Radix))
  <2>1. F[i] = Next1(F[i - 1])
    <3> HIDE DEF Next1, T
    <3> QED BY <1>4, <1>5
  <2> QED BY <1>5, <2>1
<1> HIDE DEF T
<1>6. ASSUME NEW n \in Nat PROVE \A i, j \in Nat : i > n /\ j > n => F[i][n] = F[j][n]
  <2> DEFINE S == {m \in Nat : \A i, j \in Nat : i > m /\ j > m => F[i][m] = F[j][m]}
  <2>1. ASSUME NEW m \in Nat, \A k \in 0 .. m - 1 : k \in S PROVE m \in S
    <3> SUFFICES ASSUME NEW i \in Nat, NEW j \in Nat, i > m, j > m PROVE F[i][m] = F[j][m]
      OBVIOUS
    <3>1. CASE m < Radix
      BY <1>5, <3>1
    <3>2. CASE m >= Radix
      <4>1. m \div Radix \in Nat /\ m \div Radix < m
        BY <1>0, <3>2, Shorter
      <4>2. m \div Radix \in S
        BY <2>1, <4>1
      <4>3. F[i - 1][m \div Radix] = F[j - 1][m \div Radix]
        BY <4>1, <4>2
      <4>4. ~ (m < Radix)
        BY <1>0, <3>2
      <4>5. /\ F[i][m] = Append(F[i - 1][m \div Radix], Digit0 + (m % Radix))
            /\ F[j][m] = Append(F[j - 1][m \div Radix], Digit0 + (m % Radix))
        BY <1>5, <4>4
      <4> QED BY <4>3, <4>5
    <3> QED BY <1>0, <3>1, <3>2
  <2> HIDE DEF S
  <2>2. Nat \subseteq S
    BY <2>1, StrongInduction
  <2> QED BY <2>2 DEF S
<1> DEFINE f == [n \in Nat |-> F[n + 1][n]]
<1>7. f = [n \in Nat |-> IF n < Radix THEN <<Digit0 + n>>
                         ELSE Append(f[n \div Radix], Digit0 + (n % Radix))]
  <2>1. ASSUME NEW n \in Nat
        PROVE  f[n] = IF n < Radix THEN <<Digit0 + n>>
                      ELSE Append(f[n \div Radix], Digit0 + (n % Radix))
    <3>1. f[n] = F[n + 1][n] /\ n + 1 \in Nat /\ n + 1 > n /\ (n + 1) - 1 = n
      OBVIOUS
    <3>2. CASE n < Radix
      BY <1>5, <3>1, <3>2
    <3>3. CASE ~ (n < Radix)
      <4> DEFINE m == n \div Radix
      <4>1. m \in Nat /\ m < n
        BY <1>0, <3>3, Shorter
      <4>2. F[n + 1][n] = Append(F[n][m], Digit0 + (n % Radix))
        BY <1>5, <3>1, <3>3
      <4> HIDE DEF m
      <4>3. F[n][m] = f[m]
        BY <1>6, <4>1
      <4> QED BY <3>1, <3>3, <4>2, <4>3 DEF m
    <3> QED BY <3>2, <3>3
  <2> HIDE DEF f
  <2>2. DOMAIN f = Nat /\ f = [n \in Nat |-> f[n]]
    BY DEF f
  <2> QED BY <2>1, <2>2
<1> HIDE DEF f
<1> DEFINE Solution(h) == h = [n \in Nat |-> IF n < Radix THEN <<Digit0 + n>>
                                            ELSE Append(h[n \div Radix], Digit0 + (n % Radix))]
<1>8. Digits = CHOOSE h : Solution(h)
  BY DEF Digits
<1>9. Solution(f)
  BY <1>7
<1>10. Solution(Digits)
  <2> HIDE DEF Solution
  <2> QED BY <1>8, <1>9
<1> QED BY <1>10

LEMMA FromDigitsAppend ==
    ASSUME NEW b \in Nat, NEW s \in Seq(Nat), NEW d \in Nat
    PROVE  FromDigits(Append(s, d), b) = b * FromDigits(s, b) + d
<1> DEFINE t == Append(s, d)
           N == Len(s)
<1>1. t \in Seq(Nat) /\ N \in Nat /\ Len(t) = N + 1 /\ t[N + 1] = d /\ \A i \in 1 .. N : t[i] = s[i]
  OBVIOUS
<1> HIDE DEF t
<1>2. PICK v \in [0 .. N -> Nat] :
          v[0] = 0 /\ (\A i \in 1 .. N : v[i] = b * v[i - 1] + s[i]) /\ FromDigits(s, b) = v[N]
  BY FromDigitsDef
<1>3. PICK w \in [0 .. Len(t) -> Nat] :
          w[0] = 0 /\ (\A i \in 1 .. Len(t) : w[i] = b * w[i - 1] + t[i]) /\ FromDigits(t, b) = w[Len(t)]
  BY <1>1, FromDigitsDef
<1> HIDE DEF N
<1> DEFINE S == {i \in Nat : i <= N => v[i] = w[i]}
<1>4. 0 \in S
  BY <1>2, <1>3
<1>5. ASSUME NEW i \in Nat, i \in S PROVE i + 1 \in S
  <2>1. CASE i + 1 <= N
    <3>1. i + 1 \in 1 .. N /\ i + 1 \in 1 .. Len(t) /\ (i + 1) - 1 = i
      BY <1>1, <2>1
    <3>2. v[i + 1] = b * v[i] + s[i + 1] /\ w[i + 1] = b * w[i] + t[i + 1]
      BY <1>2, <1>3, <3>1
    <3> QED BY <1>1, <1>5, <2>1, <3>1, <3>2
  <2> QED BY <2>1
<1> HIDE DEF S
<1>6. Nat \subseteq S
  BY <1>4, <1>5, Induction
<1>7. v[N] = w[N]
  BY <1>1, <1>6 DEF S
<1>8. N + 1 \in 1 .. Len(t) /\ (N + 1) - 1 = N
  BY <1>1
<1>9. w[N + 1] = b * w[N] + t[N + 1]
  BY <1>3, <1>8
<1> QED BY <1>1, <1>2, <1>3, <1>7, <1>9 DEF t

DigitByte == Digit0 .. Digit0 + Radix - 1

\* The digits of n are digits, at least one, and make the number n.
LEMMA DigitsParse ==
    ASSUME BufferAssumption, NEW n \in Nat
    PROVE  /\ Digits[n] \in Seq(DigitByte) /\ Len(Digits[n]) >= 1
           /\ NumberOf(Digits[n]) = n
<1>0. Radix \in Nat \ {0, 1} /\ Digit0 \in Nat
  BY DEF BufferAssumption
<1> DEFINE Plain(s) == [i \in 1 .. Len(s) |-> s[i] - Digit0]
           S == {m \in Nat : /\ Digits[m] \in Seq(DigitByte) /\ Len(Digits[m]) >= 1
                             /\ NumberOf(Digits[m]) = m}
<1>1. ASSUME NEW m \in Nat, \A k \in 0 .. m - 1 : k \in S PROVE m \in S
  <2>1. CASE m < Radix
    <3>1. Digits[m] = <<Digit0 + m>>
      BY <2>1, DigitsDef
    <3>2. Digit0 + m \in DigitByte
      BY <1>0, <2>1 DEF DigitByte
    <3> DEFINE e == <<m>>
    <3>3. Plain(Digits[m]) = e
      BY <1>0, <3>1
    <3>4. e \in Seq(Nat) /\ Len(e) = 1 /\ e[1] = m
      OBVIOUS
    <3>5. NumberOf(Digits[m]) = FromDigits(e, Radix)
      BY <3>3 DEF NumberOf
    <3> HIDE DEF e
    <3>6. PICK v \in [0 .. Len(e) -> Nat] :
              /\ v[0] = 0
              /\ \A i \in 1 .. Len(e) : v[i] = Radix * v[i - 1] + e[i]
              /\ FromDigits(e, Radix) = v[Len(e)]
      BY <1>0, <3>4, FromDigitsDef
    <3>7. v[1] = Radix * v[0] + e[1]
      BY <3>4, <3>6
    <3>8. NumberOf(Digits[m]) = m
      BY <1>0, <3>4, <3>5, <3>6, <3>7
    <3>9. Digits[m] \in Seq(DigitByte) /\ Len(Digits[m]) >= 1
      BY <3>1, <3>2
    <3> QED BY <3>8, <3>9
  <2>2. CASE ~ (m < Radix)
    <3> DEFINE q == m \div Radix
               r == m % Radix
               s == Digits[q]
    <3>1. q \in Nat /\ q < m /\ r \in 0 .. Radix - 1 /\ m = Radix * q + r
      <4>1. m >= Radix
        BY <1>0, <2>2
      <4>2. q \in Nat /\ r \in 0 .. Radix - 1 /\ q < m
        BY <1>0, <4>1, Shorter
      <4>3. m = Radix * (m \div Radix) + (m % Radix)
        BY <1>0, Shorter
      <4> QED BY <4>2, <4>3
    <3>2. Digits[m] = Append(s, Digit0 + r)
      BY <2>2, DigitsDef
    <3> HIDE DEF q, r
    <3>3. s \in Seq(DigitByte) /\ Len(s) >= 1 /\ NumberOf(s) = q
      BY <1>1, <3>1
    <3> HIDE DEF s
    <3>4. Digit0 + r \in DigitByte /\ r \in Nat
      BY <1>0, <3>1 DEF DigitByte
    <3>5. Digits[m] \in Seq(DigitByte) /\ Len(Digits[m]) = Len(s) + 1
      BY <3>2, <3>3, <3>4
    <3>6. Plain(s) \in Seq(Nat)
      BY <1>0, <3>3 DEF DigitByte
    <3>7. Plain(Digits[m]) = Append(Plain(s), r)
      <4>1. Len(Plain(Digits[m])) = Len(s) + 1 /\ Len(Append(Plain(s), r)) = Len(s) + 1
        BY <3>5, <3>6, <3>4
      <4>2. Plain(Digits[m]) \in Seq(Int) /\ Append(Plain(s), r) \in Seq(Int)
        BY <1>0, <3>4, <3>5, <3>6 DEF DigitByte
      <4>3. ASSUME NEW i \in 1 .. Len(s) + 1 PROVE Plain(Digits[m])[i] = Append(Plain(s), r)[i]
        <5>1. CASE i = Len(s) + 1
          BY <1>0, <3>1, <3>2, <3>3, <3>5, <3>6, <5>1
        <5>2. CASE i \in 1 .. Len(s)
          BY <1>0, <3>2, <3>3, <3>5, <3>6, <5>2
        <5> QED BY <5>1, <5>2, <3>3
      <4> HIDE DEF Plain
      <4> QED BY <4>1, <4>2, <4>3, SeqEqual
    <3>8. NumberOf(Digits[m]) = FromDigits(Append(Plain(s), r), Radix) /\ NumberOf(s) = FromDigits(Plain(s), Radix)
      BY <3>7 DEF NumberOf
    <3> HIDE DEF Plain
    <3>9. FromDigits(Append(Plain(s), r), Radix) = Radix * FromDigits(Plain(s), Radix) + r
      BY <1>0, <3>4, <3>6, FromDigitsAppend
    <3> QED BY <3>1, <3>3, <3>5, <3>8, <3>9
  <2> QED BY <2>1, <2>2
<1> HIDE DEF S
<1>2. Nat \subseteq S
  BY <1>1, StrongInduction
<1> QED BY <1>2 DEF S

LEMMA BytesApart ==
    ASSUME BufferAssumption
    PROVE  /\ DigitByte \subseteq Byte \ {NUL}
           /\ Minus \in Byte \ {NUL} /\ Minus \notin DigitByte /\ Eq \in Byte \ {NUL}
           /\ NUL \in Byte
BY DEF BufferAssumption, DigitByte, Byte, NUL

\* Reading the text of an integer gives the integer.
LEMMA DecimalParses ==
    ASSUME BufferAssumption, NEW n \in Int
    PROVE  Decimal(n) \in String /\ Len(Decimal(n)) >= 1 /\ ParseInt(Decimal(n)) = n
<1>1. ASSUME NEW s \in Seq(DigitByte), Len(s) >= 1
      PROVE  s \in String /\ AllDigits(s) /\ s[1] # Minus
  <2>1. s \in String
    BY BytesApart, SeqMonotonic DEF String
  <2>2. Range(s) \subseteq DigitByte /\ s # <<>>
    BY <1>1 DEF Range
  <2>3. s[1] \in DigitByte
    BY <1>1
  <2> QED BY <2>1, <2>2, <2>3, BytesApart DEF AllDigits, DigitByte
<1>2. CASE n >= 0
  <2>1. Decimal(n) = Digits[n] /\ n \in Nat
    BY <1>2 DEF Decimal
  <2>2. Digits[n] \in Seq(DigitByte) /\ Len(Digits[n]) >= 1 /\ NumberOf(Digits[n]) = n
    BY <2>1, DigitsParse
  <2>3. AllDigits(Digits[n]) /\ Digits[n] \in String /\ Digits[n][1] # Minus
    BY <1>1, <2>2
  <2> DEFINE s == Digits[n]
  <2>4. ParseInt(s) = NumberOf(s)
    <3> HIDE DEF s
    <3>1. AllDigits(s) /\ s[1] # Minus => ParseInt(s) = NumberOf(s)
      BY DEF ParseInt
    <3> QED BY <2>3, <3>1 DEF s
  <2> QED BY <2>1, <2>2, <2>3, <2>4
<1>3. CASE n < 0
  <2> DEFINE s == Digits[-n]
             t == <<Minus>> \o s
  <2>1. Decimal(n) = t /\ -n \in Nat
    BY <1>3 DEF Decimal
  <2>2. s \in Seq(DigitByte) /\ Len(s) >= 1 /\ NumberOf(s) = -n
    BY <2>1, DigitsParse
  <2> HIDE DEF s
  <2>3. AllDigits(s) /\ s \in String
    BY <1>1, <2>2
  <2>4. <<Minus>> \in String
    BY BytesApart DEF String
  <2>5. t \in String /\ Len(t) = 1 + Len(s) /\ t[1] = Minus
    BY <2>3, <2>4 DEF String
  <2>6. Tail(t) = s
    <3>1. Tail(t) \in String /\ Len(Tail(t)) = Len(s)
      BY <2>2, <2>3, <2>5 DEF String
    <3>2. ASSUME NEW i \in 1 .. Len(s) PROVE Tail(t)[i] = s[i]
      BY <2>2, <2>3, <2>4, <2>5, <3>1 DEF String
    <3> HIDE DEF t
    <3> QED BY <2>3, <3>1, <3>2, SeqEqual DEF String
  <2>7. ~ AllDigits(t) /\ t # <<>>
    <3>1. Minus \in Range(t)
      BY <2>2, <2>5 DEF Range, String
    <3> HIDE DEF t
    <3> QED BY <2>2, <2>5, <3>1, BytesApart DEF AllDigits, DigitByte
  <2> HIDE DEF t
  <2>8. ParseInt(t) = - NumberOf(s)
    BY <2>3, <2>5, <2>6, <2>7 DEF ParseInt
  <2>9. Len(t) >= 1
    BY <2>2, <2>5
  <2> QED BY <2>1, <2>2, <2>5, <2>8, <2>9
<1> QED BY <1>2, <1>3

-----------------------------------------------------------------------------
(* Words of memory. *)

LEMMA PowerGrows ==
    ASSUME NEW b \in Nat \ {0}, NEW m \in Nat, NEW n \in Nat, m <= n
    PROVE  Power(b, m) \in Nat \ {0} /\ Power(b, n) \in Nat \ {0} /\ Power(b, m) <= Power(b, n)
<1> DEFINE S == {i \in Nat : Power(b, m) <= Power(b, m + i)}
<1>1. 0 \in S
  BY PowerDef
<1>2. ASSUME NEW i \in Nat, i \in S PROVE i + 1 \in S
  <2>1. m + i \in Nat /\ m + (i + 1) = (m + i) + 1
    OBVIOUS
  <2>2. Power(b, m + (i + 1)) = b * Power(b, m + i) /\ Power(b, m + i) \in Nat /\ Power(b, m) \in Nat
    BY <2>1, PowerDef
  <2>3. b * Power(b, m + i) >= Power(b, m + i)
    BY <2>2
  <2> QED BY <1>2, <2>2, <2>3
<1> HIDE DEF S
<1>3. Nat \subseteq S
  BY <1>1, <1>2, Induction
<1>4. n - m \in S /\ m + (n - m) = n
  BY <1>3
<1> QED BY <1>4, PowerDef DEF S

LEMMA ReversedTwice ==
    ASSUME NEW T, NEW s \in Seq(T)
    PROVE  /\ Reversed(s) \in Seq(T) /\ Len(Reversed(s)) = Len(s)
           /\ Reversed(Reversed(s)) = s
<1>1. ASSUME NEW u \in Seq(T) PROVE Reversed(u) \in Seq(T) /\ Len(Reversed(u)) = Len(u)
  BY DEF Reversed
<1>2. /\ Reversed(s) \in Seq(T) /\ Len(Reversed(s)) = Len(s)
      /\ Reversed(Reversed(s)) \in Seq(T) /\ Len(Reversed(Reversed(s))) = Len(s)
  <2>1. Reversed(s) \in Seq(T) /\ Len(Reversed(s)) = Len(s)
    BY <1>1
  <2> QED BY <1>1, <2>1
<1>3. ASSUME NEW i \in 1 .. Len(s) PROVE Reversed(Reversed(s))[i] = s[i]
  BY <1>2 DEF Reversed
<1> QED BY <1>1, <1>2, <1>3, SeqEqual

LEMMA BaseTyped ==
    ASSUME BufferAssumption
    PROVE  Base \in Nat \ {0} /\ IntBytes \in Nat \ {0} /\ Byte = 0 .. Base - 1 /\ Byte \subseteq Nat
BY DEF BufferAssumption, Byte

\* The bytes of a number make the number.
LEMMA BytesInvert ==
    ASSUME BufferAssumption, NEW n \in Nat, NEW w \in Nat
    PROVE  /\ Little(n, w) \in Seq(Byte) /\ Len(Little(n, w)) = w
           /\ n < Power(Base, w) => FromLittle(Little(n, w)) = n
<1> DEFINE s == InBase(n, Base, w)
<1>1. s \in Seq(Byte) /\ Len(s) = w
  BY BaseTyped, InBaseType
<1>2. n < Power(Base, w) => FromDigits(s, Base) = n
  BY BaseTyped, DigitsInvert
<1>3. Little(n, w) = Reversed(s)
  BY DEF Little
<1> HIDE DEF s
<1> QED BY <1>1, <1>2, <1>3, ReversedTwice DEF FromLittle

LEMMA FromLittleType ==
    ASSUME BufferAssumption, NEW s \in Seq(Byte)
    PROVE  FromLittle(s) \in Nat
<1>1. Reversed(s) \in Seq(Byte)
  BY ReversedTwice
<1>2. Reversed(s) \in Seq(Nat)
  BY <1>1, BaseTyped, SeqMonotonic
<1> QED BY <1>2, BaseTyped, FromDigitsType DEF FromLittle

LEMMA ArchTyped ==
    ASSUME BufferAssumption, arch \in Archs
    PROVE  arch.ptr \in Nat \ {0} /\ arch.big \in BOOLEAN /\ IntBytes <= arch.ptr
BY DEF BufferAssumption

\* The plugin reads every size of a little-endian guest as it is, and some number in
\* place of one of a big-endian guest.
LEMMA HostSizeExact ==
    ASSUME BufferAssumption, arch \in Archs, NEW size \in Size
    PROVE  HostSize(size) \in Nat /\ (~arch.big => HostSize(size) = size)
<1> DEFINE s == Little(size, arch.ptr)
<1>1. size \in Nat /\ size < Power(Base, arch.ptr) /\ arch.ptr \in Nat
  BY ArchTyped DEF BufferAssumption
<1>2. s \in Seq(Byte) /\ FromLittle(s) = size
  BY <1>1, BytesInvert
<1>3. HostSize(size) = FromLittle(Order(s))
  BY DEF HostSize
<1> HIDE DEF s
<1>4. Order(s) \in Seq(Byte)
  BY <1>2, ReversedTwice DEF Order
<1>5. ~arch.big => Order(s) = s
  BY DEF Order
<1> QED BY <1>2, <1>3, <1>4, <1>5, FromLittleType

\* The guest reads an integer that an int can hold as it is, if it is little-endian,
\* and the integer is not negative or pointers are as wide as an int.
LEMMA GuestIntExact ==
    ASSUME BufferAssumption, arch \in Archs, NEW n \in Int
    PROVE  /\ GuestInt(n) \in Int
           /\ /\ ~arch.big /\ (n >= 0 \/ arch.ptr = IntBytes)
              /\ n \in -(Power(Base, IntBytes) \div 2) .. (Power(Base, IntBytes) - 1) \div 2
              => GuestInt(n) = n
<1> DEFINE P == Power(Base, IntBytes)
           Q == Power(Base, arch.ptr)
           word == n % Q
           s == Little(word, IntBytes)
           t == Order(s)
<1>1. P \in Nat \ {0} /\ Q \in Nat \ {0} /\ P <= Q
  BY ArchTyped, BaseTyped, PowerGrows
<1>2. arch.ptr = IntBytes => P = Q
  OBVIOUS
<1>3. GuestInt(n) = IF word >= P THEN 0 ELSE Signed(FromLittle(t))
  BY DEF GuestInt
<1>4. \A m \in Int : Signed(m) = IF 2 * m >= P THEN m - P ELSE m
  BY DEF Signed
<1>5. word \in Nat /\ word < Q
  <2>1. word \in 0 .. Q - 1
    <3> HIDE DEF Q
    <3> QED BY <1>1, Division
  <2> HIDE DEF word, Q
  <2> QED BY <1>1, <2>1
<1> HIDE DEF word
<1>6. s \in Seq(Byte) /\ (word < P => FromLittle(s) = word)
  BY <1>5, BaseTyped, BytesInvert
<1> HIDE DEF s
<1>7. t \in Seq(Byte) /\ (~arch.big => t = s)
  BY <1>6, ReversedTwice DEF Order
<1> HIDE DEF P, Q, t
<1>8. FromLittle(t) \in Nat
  BY <1>7, FromLittleType
<1>9. GuestInt(n) \in Int
  BY <1>1, <1>3, <1>4, <1>8
<1>10. ASSUME ~arch.big, n >= 0 \/ arch.ptr = IntBytes, n \in -(P \div 2) .. (P - 1) \div 2
       PROVE  GuestInt(n) = n
  <2>1. -P <= 2 * n /\ 2 * n < P
    BY <1>1, <1>10
  <2>2. CASE n >= 0
    <3>1. word = n
      BY <1>1, <2>1, <2>2 DEF word
    <3> QED BY <1>1, <1>3, <1>4, <1>5, <1>6, <1>7, <1>10, <2>1, <2>2, <3>1
  <2>3. CASE n < 0
    <3>1. P = Q
      BY <1>2, <1>10, <2>3
    <3>2. word = n + P
      <4> DEFINE r == n + P
                 q == -1
      <4>1. r \in 0 .. Q - 1 /\ q \in Int /\ n = Q * q + r
        BY <1>1, <2>1, <2>3, <3>1
      <4> HIDE DEF q, r
      <4>2. n % Q = r
        BY <1>1, <4>1, DivisionUnique
      <4> QED BY <4>2 DEF word, r
    <3> QED BY <1>1, <1>3, <1>4, <1>5, <1>6, <1>7, <1>10, <2>1, <2>3, <3>2
  <2> QED BY <2>2, <2>3
<1> QED BY <1>9, <1>10 DEF P

-----------------------------------------------------------------------------
(* Strings in buffers. *)

LEMMA StrLenUnique ==
    ASSUME NEW s, NEW n \in 0 .. Len(s), Len(s) \in Nat,
           \A i \in 1 .. n : s[i] # NUL, n < Len(s) => s[n + 1] = NUL
    PROVE  StrLen(s) = n
<1> DEFINE Ends(m) == (\A i \in 1 .. m : s[i] # NUL) /\ (m < Len(s) => s[m + 1] = NUL)
<1>1. StrLen(s) = CHOOSE m \in 0 .. Len(s) : Ends(m)
  BY DEF StrLen
<1>2. Ends(n)
  OBVIOUS
<1>3. \A m \in 0 .. Len(s) : Ends(m) => m = n
  <2> SUFFICES ASSUME NEW m \in 0 .. Len(s), Ends(m), m # n PROVE FALSE
    OBVIOUS
  <2>1. CASE m < n
    <3>1. m + 1 \in 1 .. n /\ m < Len(s)
      BY <2>1
    <3> QED BY <3>1
  <2>2. CASE n < m
    <3>1. n + 1 \in 1 .. m /\ n < Len(s)
      BY <2>2
    <3> QED BY <3>1
  <2> QED BY <2>1, <2>2
<1> HIDE DEF Ends
<1>4. (CHOOSE m \in 0 .. Len(s) : Ends(m)) = n
  BY <1>2, <1>3
<1> QED BY <1>1, <1>4

\* What strncpy writes is the string, or as much of it as there is room for.
LEMMA StrncpyCuts ==
    ASSUME BufferAssumption, NEW s \in String, NEW size \in Nat
    PROVE  LET m == IF Len(s) <= size THEN Len(s) ELSE size
           IN  /\ Strncpy(s, size) \in Seq(Byte) /\ Len(Strncpy(s, size)) = size
               /\ CString(Strncpy(s, size)) = SubSeq(s, 1, m)
<1> DEFINE m == IF Len(s) <= size THEN Len(s) ELSE size
           c == Strncpy(s, size)
<1>1. s \in Seq(Byte \ {NUL}) /\ Len(s) \in Nat /\ m \in 0 .. size /\ m <= Len(s)
  BY DEF String
<1>2. c = [i \in 1 .. size |-> IF i <= Len(s) THEN s[i] ELSE NUL]
  BY DEF Strncpy
<1>3. \A i \in 1 .. size : (IF i <= Len(s) THEN s[i] ELSE NUL) \in Byte
  BY <1>1, BytesApart
<1>4. c \in Seq(Byte) /\ Len(c) = size
  BY <1>2, <1>3
<1>5. \A i \in 1 .. m : c[i] = s[i] /\ c[i] # NUL
  BY <1>1, <1>2
<1>6. m < Len(c) => c[m + 1] = NUL
  <2> SUFFICES ASSUME m < Len(c) PROVE c[m + 1] = NUL
    OBVIOUS
  <2>1. m = Len(s) /\ m + 1 \in 1 .. size /\ ~ (m + 1 <= Len(s))
    BY <1>1, <1>4
  <2> HIDE DEF m, c
  <2> QED BY <1>2, <2>1
<1> HIDE DEF c, m
<1>7. StrLen(c) = m
  <2>1. m \in 0 .. Len(c) /\ Len(c) \in Nat /\ \A i \in 1 .. m : c[i] # NUL
    BY <1>1, <1>4, <1>5
  <2> QED BY <1>6, <2>1, StrLenUnique
<1>8. CString(c) = SubSeq(s, 1, m)
  <2>1. CString(c) = SubSeq(c, 1, m)
    BY <1>7 DEF CString
  <2>2. SubSeq(c, 1, m) \in Seq(Byte) /\ Len(SubSeq(c, 1, m)) = m
    BY <1>1, <1>4
  <2>3. SubSeq(s, 1, m) \in Seq(Byte) /\ Len(SubSeq(s, 1, m)) = m
    BY <1>1
  <2>4. \A i \in 1 .. m : SubSeq(c, 1, m)[i] = SubSeq(s, 1, m)[i]
    BY <1>1, <1>4, <1>5
  <2>5. SubSeq(c, 1, m) = SubSeq(s, 1, m)
    BY <2>2, <2>3, <2>4, SeqEqual
  <2> QED BY <2>1, <2>5
<1> QED BY <1>4, <1>8 DEF m, c

\* What is cut is a prefix of the string and its NUL; it fits a buffer that is not empty,
\* and fills it if the string is not whole.
LEMMA CutDelivers ==
    ASSUME BufferAssumption, NEW v \in String, NEW size \in Nat
    PROVE  LET c == Cut(Append(v, NUL), size)
           IN  /\ c \in Seq(Byte) /\ (size > 0 => Len(c) <= size)
               /\ CString(c) \in String /\ Len(CString(c)) <= Len(v)
               /\ CString(c) = SubSeq(v, 1, Len(CString(c)))
               /\ NUL \in Range(c)
               /\ size > 0 => CString(c) = v \/ Len(CString(c)) = size - 1
<1> DEFINE b == Append(v, NUL)
           c == Cut(b, size)
           m == IF size > 0 /\ size <= Len(v) THEN size - 1 ELSE Len(v)
           p == SubSeq(v, 1, m)
<1>1. v \in Seq(Byte \ {NUL}) /\ v \in Seq(Byte) /\ Len(v) \in Nat /\ m \in 0 .. Len(v)
  BY DEF String
<1>2. b \in Seq(Byte) /\ Len(b) = Len(v) + 1 /\ b[Len(v) + 1] = NUL /\ \A i \in 1 .. Len(v) : b[i] = v[i]
  BY <1>1, BytesApart
<1>3. SubSeq(v, 1, Len(v)) = v
  BY <1>1, SubSeqFull
<1>4. \A n \in 0 .. Len(v) : SubSeq(b, 1, n) = SubSeq(v, 1, n)
  <2> SUFFICES ASSUME NEW n \in 0 .. Len(v) PROVE SubSeq(b, 1, n) = SubSeq(v, 1, n)
    OBVIOUS
  <2> HIDE DEF b
  <2>1. SubSeq(b, 1, n) \in Seq(Byte) /\ Len(SubSeq(b, 1, n)) = n
    BY <1>2
  <2>2. SubSeq(v, 1, n) \in Seq(Byte) /\ Len(SubSeq(v, 1, n)) = n
    BY <1>1
  <2>3. \A i \in 1 .. n : SubSeq(b, 1, n)[i] = SubSeq(v, 1, n)[i]
    BY <1>1, <1>2
  <2> QED BY <2>1, <2>2, <2>3, SeqEqual
<1>5. c = Append(p, NUL)
  <2>1. CASE Len(b) > size
    <3>1. c = Append(Slice(b, size - 1), NUL)
      BY <2>1 DEF Cut
    <3>2. CASE size = 0
      <4>1. Slice(b, size - 1) = SubSeq(b, 1, Len(b) - 1)
        BY <3>2 DEF Slice
      <4> QED BY <1>1, <1>2, <1>4, <3>1, <3>2, <4>1
    <3>3. CASE size > 0
      <4>1. Slice(b, size - 1) = SubSeq(b, 1, size - 1)
        BY <1>2, <2>1, <3>3 DEF Slice
      <4>2. size - 1 = m
        BY <1>1, <1>2, <2>1, <3>3
      <4> QED BY <1>1, <1>4, <3>1, <4>1, <4>2
    <3> QED BY <3>2, <3>3
  <2>2. CASE ~ (Len(b) > size)
    <3>1. c = b
      BY <2>2 DEF Cut
    <3>2. m = Len(v)
      BY <1>1, <1>2, <2>2
    <3> QED BY <1>3, <3>1, <3>2
  <2> QED BY <2>1, <2>2
<1>6. /\ p \in String /\ Len(p) = m
      /\ \A i \in 1 .. m : p[i] # NUL
      /\ m = Len(v) => p = v
  BY <1>1, <1>3 DEF String
<1>7. p \in Seq(Byte)
  BY <1>1
<1>8. /\ size > 0 => m + 1 <= size
      /\ m = Len(v) \/ (size > 0 /\ m = size - 1)
  BY <1>1
<1> HIDE DEF b, c, m
<1>9. /\ c \in Seq(Byte) /\ Len(c) = m + 1 /\ c[m + 1] = NUL
      /\ \A i \in 1 .. m : c[i] = p[i] /\ c[i] # NUL
  <2> HIDE DEF p
  <2> QED BY <1>5, <1>6, <1>7, BytesApart
<1>10. CString(c) = p
  <2>1. m \in 0 .. Len(c) /\ Len(c) \in Nat
    BY <1>1, <1>9
  <2>2. StrLen(c) = m
    BY <1>9, <2>1, StrLenUnique
  <2>3. CString(c) = SubSeq(c, 1, m)
    BY <2>2 DEF CString
  <2>4. SubSeq(c, 1, m) \in Seq(Byte) /\ Len(SubSeq(c, 1, m)) = m
    BY <1>1, <1>9
  <2>5. \A i \in 1 .. m : SubSeq(c, 1, m)[i] = p[i]
    BY <1>1, <1>9
  <2> HIDE DEF p
  <2>6. SubSeq(c, 1, m) = p
    BY <1>6, <1>7, <2>4, <2>5, SeqEqual
  <2> QED BY <2>3, <2>6
<1>11. NUL \in Range(c)
  <2>1. m + 1 \in DOMAIN c
    BY <1>1, <1>9
  <2> QED BY <1>9, <2>1 DEF Range
<1>12. p = SubSeq(v, 1, Len(p))
  BY <1>6
<1> HIDE DEF p
<1> QED BY <1>1, <1>6, <1>8, <1>9, <1>10, <1>11, <1>12 DEF b, c

LEMMA LargestOf ==
    ASSUME NEW n \in Nat, NEW S \in SUBSET (0 .. n), S # {}
    PROVE  Largest(S) \in S /\ \A j \in S : j <= Largest(S)
<1> DEFINE D == {n - i : i \in S}
<1>1. D \subseteq Nat /\ D # {}
  <2>1. \A i \in S : i \in 0 .. n
    OBVIOUS
  <2>2. PICK i \in S : TRUE
    OBVIOUS
  <2>3. n - i \in D
    OBVIOUS
  <2>4. D \subseteq Nat
    BY <2>1
  <2> QED BY <2>3, <2>4
<1>2. PICK least \in D : \A d \in D : least <= d
  <2> HIDE DEF D
  <2> QED BY <1>1, LeastElement
<1>3. PICK i \in S : least = n - i
  BY <1>2
<1>4. \A j \in S : j <= i
  <2>1. TAKE j \in S
  <2>2. n - j \in D
    OBVIOUS
  <2>3. least <= n - j
    BY <1>2, <2>2
  <2> HIDE DEF D
  <2> QED BY <1>3, <2>3
<1> QED BY <1>4 DEF Largest

LEMMA FramedCuts ==
    ASSUME BufferAssumption, NEW b \in Seq(Byte), NEW size \in Nat
    PROVE  \E e \in 0 .. Len(b) :
               /\ Framed(b, size) = SubSeq(b, 1, e)
               /\ Framed(b, size) \in Seq(Byte) /\ Len(Framed(b, size)) = e /\ e <= size
               /\ e = 0 \/ b[e] = NUL
               /\ \A i \in 1 .. Len(b) : b[i] = NUL /\ i <= size => i <= e
<1> DEFINE S == {0} \cup {i \in 1 .. Len(b) : b[i] = NUL /\ i <= size}
           e == Largest(S)
<1>1. Len(b) \in Nat /\ S \in SUBSET (0 .. Len(b)) /\ S # {}
  OBVIOUS
<1>2. e \in S /\ \A j \in S : j <= e
  <2> HIDE DEF S
  <2> QED BY <1>1, LargestOf
<1> HIDE DEF e
<1>3. e \in 0 .. Len(b) /\ e <= size /\ (e = 0 \/ b[e] = NUL)
  BY <1>2
<1>4. \A i \in 1 .. Len(b) : b[i] = NUL /\ i <= size => i <= e
  BY <1>2
<1>5. Framed(b, size) = Slice(b, e)
  BY DEF Framed, e
<1>6. Slice(b, e) = SubSeq(b, 1, e)
  BY <1>3 DEF Slice
<1>7. SubSeq(b, 1, e) \in Seq(Byte) /\ Len(SubSeq(b, 1, e)) = e
  BY <1>3
<1> QED BY <1>3, <1>4, <1>5, <1>6, <1>7

LEMMA PartShape ==
    ASSUME BufferAssumption, NEW e \in Pair
    PROVE  /\ Part(e) \in Seq(Byte)
           /\ \A j \in 1 .. Len(Part(e)) : Part(e)[j] = NUL <=> j = Len(Part(e))
<1>1. CASE e.val = <<>>
  <2>1. Part(e) = <<>>
    BY <1>1 DEF Part
  <2> QED BY <2>1
<1>2. CASE e.val # <<>>
  <2> DEFINE T == Byte \ {NUL}
             text == e.key \o <<Eq>> \o e.val
  <2>1. e.key \in Seq(T) /\ e.val \in Seq(T)
    BY DEF Pair, String, BufferAssumption
  <2>2. <<Eq>> \in Seq(T)
    BY BytesApart
  <2> HIDE DEF T
  <2>3. text \in Seq(T)
    BY <2>1, <2>2, ConcatProperties
  <2>4. Part(e) = text \o <<NUL>>
    BY <1>2 DEF Part, Record
  <2>5. text \in Seq(Byte) /\ <<NUL>> \in Seq(Byte)
    BY <2>3, BytesApart, SeqMonotonic DEF T
  <2> HIDE DEF text
  <2>6. Part(e) \in Seq(Byte) /\ Len(Part(e)) = Len(text) + 1 /\ Len(text) \in Nat
    BY <2>4, <2>5
  <2>7. \A j \in 1 .. Len(text) : Part(e)[j] # NUL
    BY <2>3, <2>4, <2>5 DEF T
  <2>8. Part(e)[Len(text) + 1] = NUL
    BY <2>4, <2>5
  <2> QED BY <2>6, <2>7, <2>8
<1> QED BY <1>1, <1>2

-----------------------------------------------------------------------------
(* All pairs in one buffer. *)

LEMMA BytesUpToDef ==
    ASSUME BufferAssumption, nvram \in Seq(Pair)
    PROVE  /\ BytesUpTo[0] = <<>>
           /\ \A i \in 1 .. Len(nvram) : BytesUpTo[i] = BytesUpTo[i - 1] \o Part(nvram[i])
           /\ \A i \in 0 .. Len(nvram) : BytesUpTo[i] \in Seq(Byte)
<1> DEFINE N == Len(nvram)
           T == Seq(Byte)
           a == <<>>
           R == [i \in Nat |-> IF i \in 1 .. N THEN Part(nvram[i]) ELSE <<>>]
           g == [i \in Nat |-> [x \in T |-> x \o R[i]]]
           Solution(h) == h = [i \in 0 .. N |-> IF i = 0 THEN <<>> ELSE h[i - 1] \o Part(nvram[i])]
<1>1. N \in Nat /\ a \in T
  OBVIOUS
<1>2. \A i \in Nat : R[i] \in Seq(Byte)
  BY PartShape
<1>3. g \in [Nat -> [T -> T]]
  <2> HIDE DEF R
  <2> QED BY <1>2
<1>4. PICK f \in [0 .. N -> T] : Solves(f, 0 .. N, a, g)
  <2> HIDE DEF N, T, a, g
  <2> QED BY <1>1, <1>3, Recursion
<1>5. f[0] = a
  BY <1>4 DEF Solves
<1>6. ASSUME NEW i \in 1 .. N PROVE f[i] = f[i - 1] \o Part(nvram[i])
  <2>1. f[i] = g[i][f[i - 1]]
    <3> HIDE DEF g, a, T, N
    <3> QED BY <1>1, <1>4 DEF Solves
  <2>2. f[i - 1] \in T /\ i \in Nat /\ R[i] = Part(nvram[i])
    BY <1>1
  <2>3. g[i][f[i - 1]] = f[i - 1] \o R[i]
    <3> HIDE DEF R, T
    <3> QED BY <2>2
  <2> QED BY <2>1, <2>2, <2>3
<1> HIDE DEF R, g
<1>7. Solution(f)
  <2>1. ASSUME NEW i \in 0 .. N PROVE f[i] = IF i = 0 THEN <<>> ELSE f[i - 1] \o Part(nvram[i])
    <3>1. CASE i = 0
      BY <1>5, <3>1
    <3>2. CASE i # 0
      <4>1. i \in 1 .. N
        BY <3>2
      <4>2. f[i] = f[i - 1] \o Part(nvram[i])
        BY <1>6, <4>1
      <4> QED BY <3>2, <4>2
    <3> QED BY <3>1, <3>2
  <2> HIDE DEF N, T
  <2> QED BY <2>1
<1>8. Solution(BytesUpTo)
  <2>1. BytesUpTo = CHOOSE h : Solution(h)
    BY DEF BytesUpTo
  <2> HIDE DEF Solution
  <2> QED BY <1>7, <2>1
<1> HIDE DEF N, T
<1>9. BytesUpTo[0] = <<>>
  BY <1>1, <1>8
<1>10. ASSUME NEW i \in 1 .. N PROVE BytesUpTo[i] = BytesUpTo[i - 1] \o Part(nvram[i])
  <2>1. i \in 0 .. N /\ i # 0
    BY <1>1
  <2> QED BY <1>8, <2>1
<1>11. Nat \subseteq {i \in Nat : i <= N => BytesUpTo[i] \in Seq(Byte)}
  <2> DEFINE S == {i \in Nat : i <= N => BytesUpTo[i] \in Seq(Byte)}
  <2>1. 0 \in S
    BY <1>9, EmptySeq
  <2>2. ASSUME NEW i \in Nat, i \in S PROVE i + 1 \in S
    <3> SUFFICES ASSUME i + 1 <= N PROVE BytesUpTo[i + 1] \in Seq(Byte)
      OBVIOUS
    <3>1. i + 1 \in 1 .. N /\ (i + 1) - 1 = i /\ BytesUpTo[i] \in Seq(Byte)
      BY <1>1, <2>2
    <3>2. BytesUpTo[i + 1] = BytesUpTo[i] \o Part(nvram[i + 1])
      BY <1>10, <3>1
    <3>3. Part(nvram[i + 1]) \in Seq(Byte)
      BY <3>1, PartShape DEF N
    <3> QED BY <3>1, <3>2, <3>3
  <2> HIDE DEF S
  <2>3. Nat \subseteq S
    BY <2>1, <2>2, Induction
  <2> QED BY <2>3 DEF S
<1>12. ASSUME NEW i \in 0 .. N PROVE BytesUpTo[i] \in Seq(Byte)
  BY <1>1, <1>11
<1> QED BY <1>9, <1>10, <1>12 DEF N

LEMMA EndOfDef ==
    ASSUME BufferAssumption, nvram \in Seq(Pair)
    PROVE  /\ EndOf[0] = 0
           /\ \A i \in 1 .. Len(nvram) : EndOf[i] = EndOf[i - 1] + Len(Part(nvram[i]))
           /\ \A i \in 0 .. Len(nvram) : EndOf[i] = Len(BytesUpTo[i]) /\ EndOf[i] \in Nat
<1> DEFINE N == Len(nvram)
           f == [i \in 0 .. N |-> Len(BytesUpTo[i])]
           Solution(h) == h = [i \in 0 .. N |-> IF i = 0 THEN 0 ELSE h[i - 1] + Len(Part(nvram[i]))]
<1>1. N \in Nat
  OBVIOUS
<1>2. ASSUME NEW i \in 0 .. N PROVE f[i] = IF i = 0 THEN 0 ELSE f[i - 1] + Len(Part(nvram[i]))
  <2>1. CASE i = 0
    BY <1>1, <2>1, BytesUpToDef
  <2>2. CASE i # 0
    <3>1. i \in 1 .. N /\ i - 1 \in 0 .. N
      BY <2>2
    <3>2. BytesUpTo[i] = BytesUpTo[i - 1] \o Part(nvram[i]) /\ BytesUpTo[i - 1] \in Seq(Byte)
      BY <3>1, BytesUpToDef
    <3>3. Part(nvram[i]) \in Seq(Byte)
      BY <3>1, PartShape
    <3>4. Len(BytesUpTo[i]) = Len(BytesUpTo[i - 1]) + Len(Part(nvram[i]))
      BY <3>2, <3>3
    <3> QED BY <2>2, <3>1, <3>4
  <2> QED BY <2>1, <2>2
<1>3. Solution(f)
  <2> DEFINE h == f
  <2>1. f = [i \in 0 .. N |-> f[i]]
    OBVIOUS
  <2> HIDE DEF f, N
  <2> QED BY <1>2, <2>1
<1>4. Solution(EndOf)
  <2>1. EndOf = CHOOSE h : Solution(h)
    BY DEF EndOf
  <2> HIDE DEF Solution
  <2> QED BY <1>3, <2>1
<1> HIDE DEF N, f
<1>5. EndOf[0] = 0 /\ f[0] = 0
  BY <1>1, <1>2, <1>4
<1>6. ASSUME NEW i \in 1 .. N
      PROVE  EndOf[i] = EndOf[i - 1] + Len(Part(nvram[i])) /\ f[i] = f[i - 1] + Len(Part(nvram[i]))
  <2>1. i \in 0 .. N /\ i # 0
    BY <1>1
  <2> QED BY <1>2, <1>4, <2>1
<1> DEFINE S == {i \in Nat : i <= N => EndOf[i] = f[i]}
<1>7. 0 \in S
  BY <1>5
<1>8. ASSUME NEW i \in Nat, i \in S PROVE i + 1 \in S
  <2> SUFFICES ASSUME i + 1 <= N PROVE EndOf[i + 1] = f[i + 1]
    OBVIOUS
  <2>1. i + 1 \in 1 .. N /\ (i + 1) - 1 = i /\ EndOf[i] = f[i]
    BY <1>1, <1>8
  <2> QED BY <1>6, <2>1
<1> HIDE DEF S
<1>9. Nat \subseteq S
  BY <1>7, <1>8, Induction
<1>10. ASSUME NEW i \in 0 .. N PROVE EndOf[i] = Len(BytesUpTo[i]) /\ EndOf[i] \in Nat
  <2>1. EndOf[i] = f[i]
    BY <1>1, <1>9 DEF S
  <2>2. BytesUpTo[i] \in Seq(Byte)
    BY BytesUpToDef DEF N
  <2> QED BY <2>1, <2>2 DEF f
<1> QED BY <1>5, <1>6, <1>10 DEF N

\* The bytes of all pairs begin with those of the first pairs.
LEMMA BytesUpToGrow ==
    ASSUME BufferAssumption, nvram \in Seq(Pair), NEW n \in 0 .. Len(nvram)
    PROVE  \A m \in n .. Len(nvram) :
               EndOf[n] <= EndOf[m] /\ \A x \in 1 .. EndOf[n] : BytesUpTo[m][x] = BytesUpTo[n][x]
<1> DEFINE N == Len(nvram)
           Kept(m) == EndOf[n] <= EndOf[m] /\ \A x \in 1 .. EndOf[n] : BytesUpTo[m][x] = BytesUpTo[n][x]
           S == {i \in Nat : n + i <= N => Kept(n + i)}
<1>1. N \in Nat /\ n \in Nat /\ EndOf[n] \in Nat
  BY EndOfDef
<1>2. 0 \in S
  BY <1>1
<1>3. ASSUME NEW i \in Nat, i \in S PROVE i + 1 \in S
  <2> DEFINE m == n + i
  <2> SUFFICES ASSUME m + 1 <= N PROVE Kept(m + 1)
    BY <1>1
  <2>1. m + 1 \in 1 .. N /\ (m + 1) - 1 = m /\ m \in 0 .. N /\ Kept(m)
    BY <1>1, <1>3
  <2> HIDE DEF m
  <2>2. BytesUpTo[m + 1] = BytesUpTo[m] \o Part(nvram[m + 1])
    BY <2>1, BytesUpToDef
  <2>3. BytesUpTo[m] \in Seq(Byte) /\ Len(BytesUpTo[m]) = EndOf[m] /\ EndOf[m] \in Nat
    BY <2>1, BytesUpToDef, EndOfDef
  <2>4. Part(nvram[m + 1]) \in Seq(Byte)
    BY <2>1, PartShape
  <2>5. EndOf[m + 1] = EndOf[m] + Len(Part(nvram[m + 1]))
    BY <2>1, EndOfDef
  <2>6. \A x \in 1 .. EndOf[m] : BytesUpTo[m + 1][x] = BytesUpTo[m][x]
    <3> DEFINE s == BytesUpTo[m]
               t == Part(nvram[m + 1])
    <3>1. s \in Seq(Byte) /\ t \in Seq(Byte) /\ Len(s) = EndOf[m] /\ BytesUpTo[m + 1] = s \o t
      BY <2>2, <2>3, <2>4
    <3> HIDE DEF s, t
    <3>2. \A x \in 1 .. Len(s) : (s \o t)[x] = s[x]
      BY <3>1
    <3> QED BY <3>1, <3>2 DEF s
  <2> QED BY <1>1, <2>1, <2>3, <2>4, <2>5, <2>6
<1> HIDE DEF S
<1>4. Nat \subseteq S
  BY <1>2, <1>3, Induction
<1>5. ASSUME NEW m \in n .. N PROVE Kept(m)
  <2>1. m - n \in S /\ n + (m - n) = m
    BY <1>1, <1>4
  <2> QED BY <1>1, <2>1 DEF S
<1> QED BY <1>5

LEMMA SecondPart ==
    ASSUME NEW s \in Seq(Byte), NEW t \in Seq(Byte), NEW j \in 1 .. Len(t)
    PROVE  (s \o t)[Len(s) + j] = t[j]
<1>1. Len(s) + j \in 1 .. Len(s) + Len(t) /\ ~ (Len(s) + j <= Len(s)) /\ (Len(s) + j) - Len(s) = j
  OBVIOUS
<1> QED BY <1>1, ConcatProperties

\* Where the records of the pairs stand in the bytes of all of them, and where a NUL does.
LEMMA ByteStrLayout ==
    ASSUME BufferAssumption, nvram \in Seq(Pair)
    PROVE  /\ ByteStr \in Seq(Byte) /\ Len(ByteStr) = EndOf[Len(nvram)]
           /\ \A i \in 1 .. Len(nvram) : \A j \in 1 .. Len(Part(nvram[i])) :
                  ByteStr[EndOf[i - 1] + j] = Part(nvram[i])[j]
           /\ \A i \in 0 .. Len(nvram) :
                  EndOf[i] <= Len(ByteStr) /\ (EndOf[i] = 0 \/ ByteStr[EndOf[i]] = NUL)
<1> DEFINE N == Len(nvram)
<1>1. N \in Nat
  OBVIOUS
<1>2. ByteStr = BytesUpTo[N] /\ ByteStr \in Seq(Byte) /\ Len(ByteStr) = EndOf[N]
  <2>1. N \in 0 .. Len(nvram)
    BY <1>1
  <2>2. ByteStr = BytesUpTo[N]
    BY DEF ByteStr
  <2> HIDE DEF N
  <2> QED BY <2>1, <2>2, BytesUpToDef, EndOfDef
<1>3. ASSUME NEW i \in 0 .. N
      PROVE  EndOf[i] <= Len(ByteStr) /\ \A x \in 1 .. EndOf[i] : ByteStr[x] = BytesUpTo[i][x]
  BY <1>1, <1>2, <1>3, BytesUpToGrow
<1>4. ASSUME NEW i \in 1 .. N, NEW j \in 1 .. Len(Part(nvram[i]))
      PROVE  ByteStr[EndOf[i - 1] + j] = Part(nvram[i])[j]
  <2> DEFINE s == BytesUpTo[i - 1]
             t == Part(nvram[i])
  <2>1. i - 1 \in 0 .. N /\ i \in 0 .. N
    OBVIOUS
  <2>2. BytesUpTo[i] = s \o t
    BY BytesUpToDef
  <2>3. s \in Seq(Byte) /\ Len(s) = EndOf[i - 1]
    BY <2>1, BytesUpToDef, EndOfDef
  <2>4. t \in Seq(Byte)
    BY PartShape
  <2>5. EndOf[i] = Len(s) + Len(t)
    BY <2>3, EndOfDef
  <2> HIDE DEF s, t
  <2>6. (s \o t)[Len(s) + j] = t[j]
    <3>1. j \in 1 .. Len(t)
      BY <1>4 DEF t
    <3> QED BY <2>3, <2>4, <3>1, SecondPart
  <2>7. Len(s) + j \in 1 .. EndOf[i]
    BY <1>4, <2>3, <2>4, <2>5 DEF t
  <2>8. ByteStr[Len(s) + j] = BytesUpTo[i][Len(s) + j]
    BY <1>3, <2>1, <2>7
  <2> QED BY <2>2, <2>3, <2>6, <2>8 DEF t
<1> DEFINE S == {i \in Nat : i <= N => EndOf[i] = 0 \/ ByteStr[EndOf[i]] = NUL}
<1>5. 0 \in S
  BY EndOfDef
<1>6. ASSUME NEW i \in Nat, i \in S PROVE i + 1 \in S
  <2> SUFFICES ASSUME i + 1 <= N PROVE EndOf[i + 1] = 0 \/ ByteStr[EndOf[i + 1]] = NUL
    OBVIOUS
  <2> DEFINE t == Part(nvram[i + 1])
  <2>1. i + 1 \in 1 .. N /\ (i + 1) - 1 = i /\ i \in 0 .. N
    BY <1>1
  <2>2. EndOf[i + 1] = EndOf[i] + Len(t) /\ EndOf[i] \in Nat
    BY <2>1, EndOfDef
  <2>3. t \in Seq(Byte) /\ \A j \in 1 .. Len(t) : t[j] = NUL <=> j = Len(t)
    BY <2>1, PartShape
  <2>4. \A j \in 1 .. Len(t) : ByteStr[EndOf[i] + j] = t[j]
    BY <1>4, <2>1
  <2> HIDE DEF t
  <2>5. CASE Len(t) = 0
    BY <1>1, <1>6, <2>1, <2>2, <2>5
  <2>6. CASE Len(t) > 0
    <3>1. Len(t) \in 1 .. Len(t)
      BY <2>3, <2>6
    <3> QED BY <2>2, <2>3, <2>4, <3>1
  <2> QED BY <2>3, <2>5, <2>6
<1> HIDE DEF S
<1>7. Nat \subseteq S
  BY <1>5, <1>6, Induction
<1>8. ASSUME NEW i \in 0 .. N PROVE EndOf[i] = 0 \/ ByteStr[EndOf[i]] = NUL
  <2>1. i \in S
    BY <1>1, <1>7
  <2> QED BY <1>1, <2>1 DEF S
<1> QED BY <1>1, <1>2, <1>3, <1>4, <1>8

\* What nvram_getall delivers into a buffer of the given size ends where the record of some
\* pair does, and the next record would not fit.
LEMMA WholeRecordsFit ==
    ASSUME BufferAssumption, nvram \in Seq(Pair), NEW size \in Nat
    PROVE  LET o == Framed(ByteStr, size)
           IN  \E n \in 0 .. Len(nvram) :
                   /\ Len(o) = EndOf[n]
                   /\ \A i \in 1 .. n : SubSeq(o, EndOf[i - 1] + 1, EndOf[i]) = Part(nvram[i])
                   /\ n < Len(nvram) => EndOf[n + 1] > size
<1> DEFINE N == Len(nvram)
           B == ByteStr
           o == Framed(B, size)
<1>1. N \in Nat /\ B \in Seq(Byte) /\ Len(B) = EndOf[N]
  BY ByteStrLayout
<1>2. EndOf[0] = 0 /\ \A i \in 0 .. N : EndOf[i] \in Nat
  BY EndOfDef
<1>3. PICK e \in 0 .. Len(B) :
          /\ o = SubSeq(B, 1, e) /\ Len(o) = e /\ e <= size /\ (e = 0 \/ B[e] = NUL)
          /\ \A i \in 1 .. Len(B) : B[i] = NUL /\ i <= size => i <= e
  <2> HIDE DEF B
  <2> QED BY <1>1, FramedCuts
<1> HIDE DEF o
<1> DEFINE S == {n \in 0 .. N : EndOf[n] <= size}
           n == Largest(S)
<1>4. n \in S /\ \A j \in S : j <= n
  <2>1. 0 \in S
    BY <1>1, <1>2
  <2>2. S \in SUBSET (0 .. N) /\ S # {}
    BY <2>1
  <2> HIDE DEF S, N
  <2> QED BY <1>1, <2>2, LargestOf
<1> HIDE DEF n
<1>5. n \in 0 .. N /\ EndOf[n] <= size /\ EndOf[n] \in Nat /\ (n < N => EndOf[n + 1] > size)
  <2>1. n \in 0 .. N /\ EndOf[n] <= size /\ EndOf[n] \in Nat
    BY <1>2, <1>4
  <2>2. ASSUME n < N, ~ (EndOf[n + 1] > size) PROVE FALSE
    <3>1. n + 1 \in 0 .. N /\ EndOf[n + 1] \in Nat
      BY <1>1, <1>2, <2>1, <2>2
    <3>2. n + 1 \in S
      BY <2>2, <3>1
    <3> QED BY <1>4, <2>1, <3>2
  <2> QED BY <2>1, <2>2
<1> HIDE DEF S
<1>6. e = EndOf[n]
  <2>1. EndOf[n] <= e
    <3>1. EndOf[n] <= Len(B) /\ (EndOf[n] = 0 \/ B[EndOf[n]] = NUL)
      BY <1>5, ByteStrLayout
    <3> HIDE DEF B
    <3>2. EndOf[n] = 0 \/ EndOf[n] \in 1 .. Len(B)
      BY <1>5, <3>1
    <3> QED BY <1>3, <1>5, <3>1, <3>2
  <2>2. ASSUME e > EndOf[n] PROVE FALSE
    <3> DEFINE t == Part(nvram[n + 1])
               j == e - EndOf[n]
    <3>1. n < N
      BY <1>1, <1>3, <1>5, <2>2
    <3>2. n + 1 \in 1 .. N /\ (n + 1) - 1 = n
      BY <1>1, <1>5, <3>1
    <3>3. EndOf[n + 1] = EndOf[n] + Len(t)
      BY <3>2, EndOfDef
    <3>4. t \in Seq(Byte) /\ \A i \in 1 .. Len(t) : t[i] = NUL <=> i = Len(t)
      BY <3>2, PartShape
    <3>5. \A i \in 1 .. Len(t) : B[EndOf[n] + i] = t[i]
      BY <3>2, ByteStrLayout
    <3> HIDE DEF t, B
    <3> DEFINE w == Len(t)
    <3>8. w \in Nat /\ EndOf[n + 1] = EndOf[n] + w /\ EndOf[n] + w > size
      BY <1>5, <3>1, <3>3, <3>4
    <3> HIDE DEF w
    <3>9. e \in Nat /\ e <= size
      BY <1>1, <1>3
    <3>6. j \in 1 .. Len(t) /\ j # Len(t) /\ EndOf[n] + j = e
      <4>1. j \in 1 .. w /\ j # w /\ EndOf[n] + j = e
        BY <1>1, <1>5, <2>2, <3>8, <3>9
      <4> QED BY <4>1 DEF w
    <3>7. B[e] = t[j]
      BY <3>5, <3>6
    <3>10. B[e] # NUL
      BY <3>4, <3>6, <3>7
    <3>11. e # 0
      BY <1>5, <2>2, <3>9
    <3> QED BY <1>3, <3>10, <3>11
  <2> QED BY <1>3, <1>5, <2>1, <2>2
<1>7. ASSUME NEW i \in 1 .. n PROVE SubSeq(o, EndOf[i - 1] + 1, EndOf[i]) = Part(nvram[i])
  <2> DEFINE t == Part(nvram[i])
             p == EndOf[i - 1]
             r == SubSeq(o, p + 1, EndOf[i])
  <2>1. i \in 1 .. N /\ i \in 0 .. N /\ i - 1 \in 0 .. N /\ n \in i .. N
    BY <1>1, <1>5
  <2>2. t \in Seq(Byte) /\ EndOf[i] = p + Len(t) /\ p \in Nat /\ EndOf[i] \in Nat
    <3>1. nvram[i] \in Pair
      BY <2>1
    <3>2. t \in Seq(Byte)
      BY <3>1, PartShape
    <3>3. \A k \in 1 .. Len(nvram) : EndOf[k] = EndOf[k - 1] + Len(Part(nvram[k]))
      BY EndOfDef
    <3>4. EndOf[i] = p + Len(t)
      BY <2>1, <3>3
    <3> QED BY <1>2, <2>1, <3>2, <3>4
  <2>3. EndOf[i] <= EndOf[n]
    BY <1>5, <2>1, BytesUpToGrow
  <2>4. \A j \in 1 .. Len(t) : B[p + j] = t[j]
    BY <2>1, ByteStrLayout
  <2> HIDE DEF t, p, B
  <2>5. o \in Seq(Byte) /\ Len(o) = e /\ \A x \in 1 .. e : o[x] = B[x]
    BY <1>1, <1>3
  <2>6. r \in Seq(Byte) /\ Len(r) = Len(t)
    BY <1>6, <2>2, <2>3, <2>5
  <2>7. ASSUME NEW j \in 1 .. Len(t) PROVE r[j] = t[j]
    <3>1. r[j] = o[p + j] /\ p + j \in 1 .. e
      BY <1>6, <2>2, <2>3, <2>5
    <3> QED BY <2>4, <2>5, <3>1
  <2> HIDE DEF r
  <2>8. r = t
    BY <2>2, <2>6, <2>7, SeqEqual
  <2> QED BY <2>8 DEF r, t, p
<1> QED BY <1>3, <1>5, <1>6, <1>7 DEF o

-----------------------------------------------------------------------------
(* The store.  Its operators take the store as an argument here, so that what is proved of *)
(* them holds before and after a step.                                                     *)

StoreOK(st) ==
    /\ st \in Seq(Pair)
    /\ \A i, j \in DOMAIN st : st[i].key = st[j].key => i = j
PresentIn(st, k) == \E i \in DOMAIN st : st[i].key = k
PlaceIn(st, k) == CHOOSE i \in DOMAIN st : st[i].key = k
ValueIn(st, k) == st[PlaceIn(st, k)].val

LEMMA InStore ==
    /\ \A k : Present(k) <=> PresentIn(nvram, k)
    /\ \A k : Value(k) = ValueIn(nvram, k)
BY DEF Present, Positions, PresentIn, Value, ValueIn, PlaceIn

LEMMA PlaceOf ==
    ASSUME NEW st, StoreOK(st)
    PROVE  /\ \A k : PresentIn(st, k) =>
                  /\ PlaceIn(st, k) \in 1 .. Len(st) /\ st[PlaceIn(st, k)].key = k
                  /\ ValueIn(st, k) \in String
           /\ \A i \in 1 .. Len(st) : PlaceIn(st, st[i].key) = i /\ PresentIn(st, st[i].key)
<1>1. st \in Seq(Pair) /\ DOMAIN st = 1 .. Len(st) /\ \A i \in 1 .. Len(st) : st[i] \in Pair
  BY DEF StoreOK
<1>2. ASSUME NEW k, PresentIn(st, k)
      PROVE  PlaceIn(st, k) \in 1 .. Len(st) /\ st[PlaceIn(st, k)].key = k
  BY <1>1, <1>2 DEF PresentIn, PlaceIn
<1>3. ASSUME NEW k, PresentIn(st, k) PROVE ValueIn(st, k) \in String
  <2>1. st[PlaceIn(st, k)] \in Pair
    BY <1>1, <1>2, <1>3
  <2> QED BY <2>1 DEF ValueIn, Pair
<1>4. ASSUME NEW i \in 1 .. Len(st) PROVE PlaceIn(st, st[i].key) = i /\ PresentIn(st, st[i].key)
  <2>1. PresentIn(st, st[i].key)
    BY <1>1 DEF PresentIn
  <2>2. PlaceIn(st, st[i].key) \in 1 .. Len(st) /\ st[PlaceIn(st, st[i].key)].key = st[i].key
    BY <1>2, <2>1
  <2> QED BY <1>1, <2>1, <2>2 DEF StoreOK
<1> QED BY <1>2, <1>3, <1>4

\* The store after a change of key k holds what it held of the other keys.
Keeps(st, k) ==
    /\ StoreOK(st)
    /\ \A k2 \in Key \ {k} :
           PresentIn(st, k2) => PresentIn(nvram, k2) /\ ValueIn(st, k2) = ValueIn(nvram, k2)

\* To show that, it is enough to name for each pair of the new store with another key
\* the place where it was.
LEMMA KeepsFrom ==
    ASSUME StoreOK(nvram), NEW st, StoreOK(st), NEW k,
           \A i \in 1 .. Len(st) : st[i].key # k => \E j \in 1 .. Len(nvram) : st[i] = nvram[j]
    PROVE  Keeps(st, k)
<1> SUFFICES ASSUME NEW k2 \in Key \ {k}, PresentIn(st, k2)
             PROVE  PresentIn(nvram, k2) /\ ValueIn(st, k2) = ValueIn(nvram, k2)
  BY DEF Keeps
<1> DEFINE i == PlaceIn(st, k2)
<1>1. i \in 1 .. Len(st) /\ st[i].key = k2
  BY PlaceOf
<1>2. PICK j \in 1 .. Len(nvram) : st[i] = nvram[j]
  BY <1>1
<1>3. nvram[j].key = k2 /\ PlaceIn(nvram, k2) = j /\ PresentIn(nvram, k2)
  BY <1>1, <1>2, PlaceOf
<1> QED BY <1>1, <1>2, <1>3 DEF ValueIn

LEMMA StoredKeeps ==
    ASSUME StoreOK(nvram), NEW k \in Key, NEW v \in String
    PROVE  Keeps(Stored(k, v), k)
<1> DEFINE st == Stored(k, v)
           new == [key |-> k, val |-> v]
<1>0. nvram \in Seq(Pair) /\ DOMAIN nvram = 1 .. Len(nvram) /\ Len(nvram) \in Nat /\ new \in Pair
  BY DEF StoreOK, Pair
<1>1. CASE Present(k)
  <2> DEFINE At(i) == IF nvram[i].key = k THEN [nvram[i] EXCEPT !.val = v] ELSE nvram[i]
  <2>1. st = [i \in 1 .. Len(nvram) |-> At(i)]
    BY <1>0, <1>1 DEF Stored
  <2>2. \A i \in 1 .. Len(nvram) : At(i) \in Pair /\ At(i).key = nvram[i].key
    <3>1. TAKE i \in 1 .. Len(nvram)
    <3>2. nvram[i] \in Pair
      BY <1>0
    <3> QED BY <3>2 DEF Pair
  <2>3. \A i \in 1 .. Len(nvram) : At(i).key # k => At(i) = nvram[i]
    BY <2>2
  <2> HIDE DEF At, st
  <2>4. st \in Seq(Pair) /\ Len(st) = Len(nvram) /\ \A i \in 1 .. Len(nvram) : st[i] = At(i)
    BY <1>0, <2>1, <2>2
  <2>5. StoreOK(st)
    <3>1. DOMAIN st = 1 .. Len(nvram)
      BY <2>1
    <3>2. ASSUME NEW i \in 1 .. Len(nvram), NEW j \in 1 .. Len(nvram), st[i].key = st[j].key
          PROVE  i = j
      <4>1. nvram[i].key = nvram[j].key
        BY <2>2, <2>4, <3>2
      <4> QED BY <1>0, <4>1 DEF StoreOK
    <3> QED BY <2>4, <3>1, <3>2 DEF StoreOK
  <2>6. \A i \in 1 .. Len(st) : st[i].key # k => \E j \in 1 .. Len(nvram) : st[i] = nvram[j]
    BY <2>3, <2>4
  <2>7. Keeps(st, k)
    BY <2>5, <2>6, KeepsFrom
  <2> QED BY <2>7 DEF st
<1>2. CASE ~ Present(k)
  <2>1. st = Append(nvram, new)
    BY <1>2 DEF Stored
  <2> HIDE DEF st, new
  <2>2. /\ st \in Seq(Pair) /\ Len(st) = Len(nvram) + 1 /\ DOMAIN st = 1 .. Len(nvram) + 1
        /\ st[Len(nvram) + 1] = new
        /\ \A i \in 1 .. Len(nvram) : st[i] = nvram[i]
    BY <1>0, <2>1
  <2>3. new.key = k
    BY DEF new
  <2>4. \A i \in 1 .. Len(nvram) : nvram[i].key # k
    BY <1>0, <1>2, InStore DEF PresentIn
  <2>5. StoreOK(st)
    <3>1. ASSUME NEW i \in 1 .. Len(nvram) + 1, NEW j \in 1 .. Len(nvram) + 1, st[i].key = st[j].key
          PROVE  i = j
      <4>1. CASE i \in 1 .. Len(nvram) /\ j \in 1 .. Len(nvram)
        BY <1>0, <2>2, <3>1, <4>1 DEF StoreOK
      <4>2. CASE i = Len(nvram) + 1 \/ j = Len(nvram) + 1
        BY <1>0, <2>2, <2>3, <2>4, <3>1, <4>2
      <4> QED BY <1>0, <4>1, <4>2
    <3> QED BY <2>2, <3>1 DEF StoreOK
  <2>6. \A i \in 1 .. Len(st) : st[i].key # k => \E j \in 1 .. Len(nvram) : st[i] = nvram[j]
    BY <1>0, <2>2, <2>3
  <2>7. Keeps(st, k)
    BY <2>5, <2>6, KeepsFrom
  <2> QED BY <2>7 DEF st
<1> QED BY <1>1, <1>2

LEMMA WithoutKeeps ==
    ASSUME StoreOK(nvram), NEW k \in Key
    PROVE  Keeps(Without(k), k)
<1>0. nvram \in Seq(Pair) /\ DOMAIN nvram = 1 .. Len(nvram) /\ Len(nvram) \in Nat
  BY DEF StoreOK
<1>1. CASE Present(k)
  <2> DEFINE p == PlaceIn(nvram, k)
             s == SubSeq(nvram, 1, p - 1)
             t == SubSeq(nvram, p + 1, Len(nvram))
             st == s \o t
             At(i) == IF i < p THEN i ELSE i + 1
  <2>1. Without(k) = st
    BY <1>1 DEF Without, PlaceIn
  <2>2. p \in 1 .. Len(nvram)
    BY <1>1, InStore, PlaceOf
  <2> HIDE DEF p
  <2>3. /\ s \in Seq(Pair) /\ Len(s) = p - 1 /\ \A i \in 1 .. p - 1 : s[i] = nvram[i]
        /\ t \in Seq(Pair) /\ Len(t) = Len(nvram) - p
        /\ \A i \in 1 .. Len(nvram) - p : t[i] = nvram[p + i]
    <3>1. s \in Seq(Pair) /\ Len(s) = p - 1 /\ \A i \in 1 .. p - 1 : s[i] = nvram[i]
      BY <1>0, <2>2
    <3>2. t \in Seq(Pair) /\ Len(t) = Len(nvram) - p
      <4>1. p + 1 \in Int /\ \A i \in p + 1 .. Len(nvram) : nvram[i] \in Pair
        BY <1>0, <2>2
      <4>2. /\ t \in Seq(Pair)
            /\ Len(t) = IF p + 1 <= Len(nvram) THEN Len(nvram) - (p + 1) + 1 ELSE 0
        BY <1>0, <4>1, SubSeqProperties
      <4> DEFINE N == Len(nvram)
      <4>3. N \in Nat /\ p \in 1 .. N
        BY <1>0, <2>2
      <4>4. Len(t) = IF p + 1 <= N THEN N - (p + 1) + 1 ELSE 0
        BY <4>2
      <4> HIDE DEF t, N
      <4>5. Len(t) = N - p
        BY <4>3, <4>4
      <4> QED BY <4>2, <4>5 DEF N
    <3>3. \A i \in 1 .. Len(nvram) - p : t[i] = nvram[p + i]
      BY <1>0, <2>2
    <3> QED BY <3>1, <3>2, <3>3
  <2> HIDE DEF s, t
  <2>4. st \in Seq(Pair) /\ Len(st) = Len(nvram) - 1 /\ DOMAIN st = 1 .. Len(nvram) - 1
    <3>1. st \in Seq(Pair) /\ Len(st) = Len(s) + Len(t)
      BY <2>3
    <3>2. Len(st) = Len(nvram) - 1
      BY <1>0, <2>2, <2>3, <3>1
    <3> HIDE DEF st
    <3> QED BY <3>1, <3>2
  <2>5. ASSUME NEW i \in 1 .. Len(nvram) - 1
        PROVE  At(i) \in 1 .. Len(nvram) /\ st[i] = nvram[At(i)]
    <3>1. CASE i < p
      <4>1. st[i] = s[i]
        BY <1>0, <2>2, <2>3, <3>1
      <4> QED BY <1>0, <2>2, <2>3, <3>1, <4>1
    <3>2. CASE ~ (i < p)
      <4>1. st[i] = t[i - (p - 1)] /\ i - (p - 1) \in 1 .. Len(nvram) - p
        BY <1>0, <2>2, <2>3, <3>2
      <4>2. p + (i - (p - 1)) = i + 1
        BY <2>2
      <4>3. t[i - (p - 1)] = nvram[i + 1]
        BY <2>3, <4>1, <4>2
      <4> QED BY <1>0, <2>2, <3>2, <4>1, <4>3
    <3> QED BY <3>1, <3>2
  <2> HIDE DEF st
  <2>6. StoreOK(st)
    <3>1. ASSUME NEW i \in 1 .. Len(nvram) - 1, NEW j \in 1 .. Len(nvram) - 1, st[i].key = st[j].key
          PROVE  i = j
      <4>1. At(i) = At(j)
        <5> HIDE DEF At
        <5> QED BY <1>0, <2>5, <3>1 DEF StoreOK
      <4> QED BY <2>2, <4>1
    <3> QED BY <2>4, <3>1 DEF StoreOK
  <2>7. \A i \in 1 .. Len(st) : st[i].key # k => \E j \in 1 .. Len(nvram) : st[i] = nvram[j]
    <3> HIDE DEF At
    <3> QED BY <2>4, <2>5
  <2>8. Keeps(st, k)
    BY <2>6, <2>7, KeepsFrom
  <2> QED BY <2>1, <2>8
<1>2. CASE ~ Present(k)
  <2>1. Without(k) = nvram
    BY <1>2 DEF Without
  <2>2. Keeps(nvram, k)
    BY KeepsFrom
  <2> QED BY <2>1, <2>2
<1> QED BY <1>1, <1>2

-----------------------------------------------------------------------------
(* The invariant. *)

IsPrefixOf(s, t) == s = SubSeq(t, 1, Len(s)) /\ Len(s) <= Len(t)

\* Only marked keys are cached, and what is cached of a key that is in the store begins its
\* value: while a key is cached, the process does not write it.
CachedOK ==
    \A k \in Key : cached[k] # None =>
        k \in Marked /\ (PresentIn(nvram, k) => IsPrefixOf(cached[k], ValueIn(nvram, k)))

Delivered == BufferSafe /\ TextDelivered /\ WholeRecords /\ IntDelivered

BufferInv == TypeOK /\ CachedOK /\ Delivered

LEMMA TypeOKStore == TypeOK => StoreOK(nvram)
BY DEF TypeOK, StoreOK

LEMMA ParseIntType ==
    ASSUME BufferAssumption, NEW s \in String
    PROVE  ParseInt(s) \in Int
<1>1. ASSUME NEW t \in String, AllDigits(t) PROVE NumberOf(t) \in Nat
  <2>1. t \in Seq(Byte \ {NUL}) /\ Digit0 \in Nat /\ Radix \in Nat
    BY DEF String, BufferAssumption
  <2>2. \A i \in 1 .. Len(t) : t[i] \in Digit0 .. Digit0 + Radix - 1
    BY <1>1, <2>1 DEF AllDigits, Range
  <2>3. \A i \in 1 .. Len(t) : t[i] - Digit0 \in Nat
    BY <2>1, <2>2
  <2>4. [i \in 1 .. Len(t) |-> t[i] - Digit0] \in Seq(Nat)
    BY <2>1, <2>3
  <2> QED BY <2>1, <2>4, FromDigitsType DEF NumberOf
<1>2. s # <<>> => Tail(s) \in String
  BY HeadTailProperties DEF String
<1>3. AllDigits(s) => NumberOf(s) \in Nat
  BY <1>1
<1>4. s # <<>> /\ AllDigits(Tail(s)) => -NumberOf(Tail(s)) \in Int
  BY <1>1, <1>2
<1> QED BY <1>3, <1>4 DEF ParseInt

\* A write by the program leaves what it has cached alone.
LEMMA WriteKeeps ==
    ASSUME BufferAssumption, TypeOK, CachedOK, StoreOK(nvram'),
           \A k \in Key : cached[k] # None /\ PresentIn(nvram', k) =>
               PresentIn(nvram, k) /\ ValueIn(nvram', k) = ValueIn(nvram, k),
           ints' \in [Key -> Num \cup {None}], NoAnswer, UNCHANGED <<arch, cached>>
    PROVE  TypeOK' /\ CachedOK' /\ Delivered'
<1>1. last' = [op |-> "write", key |-> <<>>, size |-> 0] /\ out' = <<>> /\ num' = None
  BY DEF NoAnswer, Answer
<1>2. TypeOK'
  <2>1. out' \in Seq(Byte)
    BY <1>1
  <2> QED BY <1>1, <2>1 DEF TypeOK, StoreOK
<1>3. CachedOK'
  BY DEF CachedOK
<1>4. Delivered'
  BY <1>1 DEF Delivered, BufferSafe, TextDelivered, WholeRecords, IntDelivered
<1> QED BY <1>2, <1>3, <1>4

LEMMA RefusedKeeps ==
    ASSUME BufferAssumption, TypeOK, CachedOK, NoAnswer, UNCHANGED <<arch, cached, nvram, ints>>
    PROVE  TypeOK' /\ CachedOK' /\ Delivered'
<1>1. StoreOK(nvram') /\ ints' \in [Key -> Num \cup {None}]
  BY TypeOKStore DEF TypeOK
<1> QED BY <1>1, WriteKeeps

LEMMA AcceptedKeeps ==
    ASSUME BufferAssumption, TypeOK, CachedOK, NEW k, Keeps(nvram', k), cached[k] = None,
           ints' \in [Key -> Num \cup {None}], NoAnswer, UNCHANGED <<arch, cached>>
    PROVE  TypeOK' /\ CachedOK' /\ Delivered'
<1>1. StoreOK(nvram')
  BY DEF Keeps
<1>2. \A k2 \in Key : cached[k2] # None /\ PresentIn(nvram', k2) =>
          PresentIn(nvram, k2) /\ ValueIn(nvram', k2) = ValueIn(nvram, k2)
  BY DEF Keeps
<1> QED BY <1>1, <1>2, WriteKeeps

LEMMA SetKeeps ==
    ASSUME BufferAssumption, TypeOK, CachedOK, NEW k \in Key, NEW v \in Text, Set(k, v)
    PROVE  TypeOK' /\ CachedOK' /\ Delivered'
<1>1. NoAnswer /\ UNCHANGED <<arch, cached>>
  BY DEF Set
<1>2. CASE cached[k] # None
  BY <1>1, <1>2, RefusedKeeps DEF Set
<1>3. CASE cached[k] = None
  <2>1. nvram' = Stored(k, v) /\ ints' = [ints EXCEPT ![k] = None]
    BY <1>3 DEF Set
  <2>2. v \in String
    BY DEF BufferAssumption
  <2>3. Keeps(nvram', k)
    BY <2>1, <2>2, StoredKeeps, TypeOKStore
  <2>4. ints' \in [Key -> Num \cup {None}]
    BY <2>1 DEF TypeOK
  <2> QED BY <1>1, <1>3, <2>3, <2>4, AcceptedKeeps
<1> QED BY <1>2, <1>3

LEMMA SetIntKeeps ==
    ASSUME BufferAssumption, TypeOK, CachedOK, NEW k \in Key, NEW n \in Num, SetInt(k, n)
    PROVE  TypeOK' /\ CachedOK' /\ Delivered'
<1>1. NoAnswer /\ UNCHANGED <<arch, cached>>
  BY DEF SetInt
<1>2. CASE cached[k] # None
  BY <1>1, <1>2, RefusedKeeps DEF SetInt
<1>3. CASE cached[k] = None
  <2> DEFINE bytes(rest) == SubSeq(Append(Decimal(n), NUL) \o rest, 1, arch.ptr)
  <2>1. PICK rest \in [1 .. arch.ptr - 2 -> Byte] :
            nvram' = Stored(k, Decimal(FromLittle(bytes(rest))))
    BY <1>3 DEF SetInt
  <2>2. ints' = [ints EXCEPT ![k] = n]
    BY <1>3 DEF SetInt
  <2>3. bytes(rest) \in Seq(Byte)
    <3> DEFINE s == Append(Decimal(n), NUL)
               t == s \o rest
    <3>1. n \in Int /\ arch.ptr \in Nat \ {0}
      BY ArchTyped DEF BufferAssumption, TypeOK
    <3>2. Decimal(n) \in Seq(Byte) /\ Len(Decimal(n)) >= 1
      BY <3>1, DecimalParses, SeqMonotonic DEF String
    <3>3. s \in Seq(Byte) /\ Len(s) >= 2
      BY <3>2, BytesApart
    <3>4. rest \in Seq(Byte) /\ Len(rest) \in Nat /\ Len(rest) >= arch.ptr - 2
      <4>1. CASE arch.ptr >= 2
        <5>1. arch.ptr - 2 \in Nat
          BY <3>1, <4>1
        <5> QED BY <5>1
      <4>2. CASE arch.ptr < 2
        <5>1. 1 .. arch.ptr - 2 = {} /\ 1 .. 0 = {}
          BY <3>1, <4>2
        <5>2. rest = <<>>
          <6>1. rest \in [1 .. 0 -> Byte]
            BY <5>1
          <6>2. rest \in Seq(Byte) /\ Len(rest) = 0
            BY <6>1
          <6> QED BY <6>2
        <5> QED BY <3>1, <4>2, <5>2
      <4> QED BY <3>1, <4>1, <4>2
    <3> HIDE DEF s
    <3>5. t \in Seq(Byte) /\ Len(t) = Len(s) + Len(rest)
      BY <3>3, <3>4
    <3> HIDE DEF t
    <3>6. \A i \in 1 .. arch.ptr : t[i] \in Byte
      <4>1. \A i \in 1 .. arch.ptr : i \in 1 .. Len(t)
        BY <3>1, <3>3, <3>4, <3>5
      <4> QED BY <3>5, <4>1
    <3>7. SubSeq(t, 1, arch.ptr) \in Seq(Byte)
      BY <3>1, <3>6, SubSeqProperties
    <3> QED BY <3>7 DEF s, t
  <2> HIDE DEF bytes
  <2>4. Decimal(FromLittle(bytes(rest))) \in String
    <3>1. FromLittle(bytes(rest)) \in Int
      BY <2>3, FromLittleType
    <3> QED BY <3>1, DecimalParses
  <2>5. Keeps(nvram', k)
    BY <2>1, <2>4, StoredKeeps, TypeOKStore
  <2>6. ints' \in [Key -> Num \cup {None}]
    BY <2>2 DEF TypeOK
  <2> QED BY <1>1, <1>3, <2>5, <2>6, AcceptedKeeps
<1> QED BY <1>2, <1>3

LEMMA UnsetKeeps ==
    ASSUME BufferAssumption, TypeOK, CachedOK, NEW k \in Key, Unset(k)
    PROVE  TypeOK' /\ CachedOK' /\ Delivered'
<1>1. NoAnswer /\ UNCHANGED <<arch, cached>>
  BY DEF Unset
<1>2. CASE cached[k] # None
  BY <1>1, <1>2, RefusedKeeps DEF Unset
<1>3. CASE cached[k] = None
  <2>1. nvram' = Without(k) /\ ints' = [ints EXCEPT ![k] = None]
    BY <1>3 DEF Unset
  <2>2. Keeps(nvram', k)
    BY <2>1, WithoutKeeps, TypeOKStore
  <2>3. ints' \in [Key -> Num \cup {None}]
    BY <2>1 DEF TypeOK
  <2> QED BY <1>1, <1>3, <2>2, <2>3, AcceptedKeeps
<1> QED BY <1>2, <1>3

\* Nothing is left of any key, so there is nothing for what is cached to agree with.
LEMMA ClearKeeps ==
    ASSUME BufferAssumption, TypeOK, CachedOK, Clear
    PROVE  TypeOK' /\ CachedOK' /\ Delivered'
<1>1. NoAnswer /\ UNCHANGED <<arch, cached>> /\ nvram' = <<>> /\ ints' = [k \in Key |-> None]
  BY DEF Clear
<1>2. StoreOK(nvram') /\ \A k : ~ PresentIn(nvram', k)
  BY <1>1 DEF StoreOK, PresentIn
<1>3. ints' \in [Key -> Num \cup {None}]
  BY <1>1
<1> QED BY <1>1, <1>2, <1>3, WriteKeeps

-----------------------------------------------------------------------------
(* Reads. *)

LEMMA PrefixOfString ==
    ASSUME BufferAssumption, NEW v \in String, NEW m \in 0 .. Len(v)
    PROVE  /\ SubSeq(v, 1, m) \in String /\ Len(SubSeq(v, 1, m)) = m
           /\ IsPrefixOf(SubSeq(v, 1, m), v)
           /\ \A u \in String : IsPrefixOf(v, u) => IsPrefixOf(SubSeq(v, 1, m), u)
<1> DEFINE p == SubSeq(v, 1, m)
<1>1. v \in Seq(Byte \ {NUL}) /\ Len(v) \in Nat
  BY DEF String
<1>2. p \in String /\ Len(p) = m /\ \A i \in 1 .. m : p[i] = v[i]
  BY <1>1 DEF String
<1>3. IsPrefixOf(p, v)
  BY <1>1, <1>2 DEF IsPrefixOf
<1>4. ASSUME NEW u \in String, IsPrefixOf(v, u) PROVE IsPrefixOf(p, u)
  <2>1. v = SubSeq(u, 1, Len(v)) /\ Len(v) <= Len(u) /\ Len(u) \in Nat /\ u \in Seq(Byte \ {NUL})
    BY <1>4 DEF IsPrefixOf, String
  <2>2. \A i \in 1 .. Len(v) : v[i] = u[i]
    BY <1>1, <2>1
  <2>3. SubSeq(u, 1, m) \in Seq(Byte \ {NUL}) /\ Len(SubSeq(u, 1, m)) = m
    BY <1>1, <2>1
  <2>4. \A i \in 1 .. m : SubSeq(u, 1, m)[i] = u[i]
    BY <1>1, <2>1
  <2> HIDE DEF p
  <2>5. p = SubSeq(u, 1, m)
    BY <1>1, <1>2, <2>2, <2>3, <2>4, SeqEqual DEF String
  <2> QED BY <1>1, <1>2, <2>1, <2>5 DEF IsPrefixOf
<1> QED BY <1>2, <1>3, <1>4

\* What a step has to show that leaves the store alone.
LEMMA ReadKeeps ==
    ASSUME BufferAssumption, TypeOK, CachedOK, UNCHANGED <<arch, nvram, ints>>,
           out' \in Seq(Byte), num' \in Int \cup {None},
           cached' \in [Key -> String \cup {None}],
           \A k \in Key : cached'[k] # cached[k] =>
               k \in Marked /\ (PresentIn(nvram, k) => IsPrefixOf(cached'[k], ValueIn(nvram, k)))
    PROVE  TypeOK' /\ CachedOK'
<1>1. TypeOK'
  BY DEF TypeOK
<1>2. CachedOK'
  BY DEF CachedOK
<1> QED BY <1>1, <1>2

LEMMA AnswerDelivers ==
    ASSUME BufferAssumption, NEW k \in Key, NEW size \in Size, NEW op \in {"get_buf", "missing"},
           NEW bytes \in Seq(Byte), UNCHANGED <<arch, nvram>>,
           Answer(op, k, size, bytes, None),
           ~arch.big /\ size > 0 => Len(bytes) <= size,
           op = "get_buf" /\ size > 0 /\ ~arch.big /\ PresentIn(nvram, k) =>
               /\ IsPrefixOf(CString(bytes), ValueIn(nvram, k))
               /\ k \notin Marked =>
                      /\ NUL \in Range(bytes)
                      /\ CString(bytes) = ValueIn(nvram, k) \/ Len(CString(bytes)) = size - 1
    PROVE  Delivered' /\ out' = bytes /\ num' = None
<1>1. last' = [op |-> op, key |-> k, size |-> size] /\ out' = bytes /\ num' = None
  BY DEF Answer
<1>2. BufferSafe'
  BY <1>1 DEF BufferSafe
<1>3. TextDelivered'
  <2>1. Present(k)' <=> PresentIn(nvram, k)
    BY DEF Present, Positions, PresentIn
  <2>2. Value(k)' = ValueIn(nvram, k)
    BY DEF Value, ValueIn, PlaceIn
  <2> SUFFICES ASSUME op = "get_buf", size > 0, ~arch.big, Present(k)'
               PROVE  /\ CString(bytes) = SubSeq(Value(k)', 1, Len(CString(bytes)))
                      /\ k \notin Marked =>
                           /\ NUL \in Range(bytes)
                           /\ CString(bytes) = Value(k)' \/ Len(CString(bytes)) = size - 1
    BY <1>1 DEF TextDelivered, Present, Positions, Value
  <2> QED BY <2>1, <2>2 DEF IsPrefixOf
<1>4. WholeRecords' /\ IntDelivered'
  BY <1>1 DEF WholeRecords, IntDelivered
<1> QED BY <1>1, <1>2, <1>3, <1>4 DEF Delivered

LEMMA GetBufKeeps ==
    ASSUME BufferAssumption, TypeOK, CachedOK, NEW k \in Key, NEW size \in Size, GetBuf(k, size)
    PROVE  TypeOK' /\ CachedOK' /\ Delivered'
<1>1. UNCHANGED <<arch, nvram, ints>> /\ StoreOK(nvram) /\ arch \in Archs /\ size \in Nat
  BY TypeOKStore DEF GetBuf, TypeOK, BufferAssumption
<1>2. CASE cached[k] # None
  <2> DEFINE s == cached[k]
             m == IF Len(s) <= size THEN Len(s) ELSE size
             bytes == Strncpy(s, size)
  <2>1. Answer("get_buf", k, size, bytes, None) /\ UNCHANGED cached
    BY <1>2 DEF GetBuf
  <2>2. s \in String /\ Len(s) \in Nat
    BY <1>2 DEF TypeOK, String
  <2>3. k \in Marked /\ (PresentIn(nvram, k) => IsPrefixOf(s, ValueIn(nvram, k)))
    BY <1>2 DEF CachedOK
  <2> HIDE DEF s
  <2>4. bytes \in Seq(Byte) /\ Len(bytes) = size /\ CString(bytes) = SubSeq(s, 1, m)
    BY <1>1, <2>2, StrncpyCuts
  <2>5. m \in 0 .. Len(s)
    BY <1>1, <2>2
  <2> HIDE DEF m, bytes
  <2>6. PresentIn(nvram, k) => IsPrefixOf(CString(bytes), ValueIn(nvram, k))
    <3>1. PresentIn(nvram, k) => ValueIn(nvram, k) \in String
      BY <1>1, PlaceOf
    <3> QED BY <2>2, <2>3, <2>4, <2>5, <3>1, PrefixOfString
  <2>7. Delivered' /\ out' = bytes /\ num' = None
    <3>1. UNCHANGED <<arch, nvram>> /\ Answer("get_buf", k, size, bytes, None)
      BY <1>1, <2>1
    <3>2. ~arch.big /\ size > 0 => Len(bytes) <= size
      BY <1>1, <2>4
    <3> QED BY <2>3, <2>4, <2>6, <3>1, <3>2, AnswerDelivers
  <2>8. cached' \in [Key -> String \cup {None}]
    BY <2>1 DEF TypeOK
  <2> QED BY <1>1, <2>1, <2>4, <2>7, <2>8, ReadKeeps
<1>3. CASE cached[k] = None /\ Present(k)
  <2> DEFINE v == Value(k)
             bytes == Cut(Append(v, NUL), HostSize(size))
  <2>1. /\ Answer("get_buf", k, size, bytes, None)
        /\ cached' = IF k \in Marked THEN [cached EXCEPT ![k] = CString(bytes)] ELSE cached
    BY <1>3 DEF GetBuf
  <2>2. v \in String /\ v = ValueIn(nvram, k) /\ PresentIn(nvram, k)
    BY <1>1, <1>3, InStore, PlaceOf
  <2>3. HostSize(size) \in Nat /\ (~arch.big => HostSize(size) = size)
    BY <1>1, HostSizeExact
  <2> HIDE DEF v
  <2>4. /\ bytes \in Seq(Byte) /\ (HostSize(size) > 0 => Len(bytes) <= HostSize(size))
        /\ CString(bytes) \in String /\ Len(CString(bytes)) <= Len(v)
        /\ CString(bytes) = SubSeq(v, 1, Len(CString(bytes)))
        /\ NUL \in Range(bytes)
        /\ HostSize(size) > 0 => CString(bytes) = v \/ Len(CString(bytes)) = HostSize(size) - 1
    BY <2>2, <2>3, CutDelivers
  <2> HIDE DEF bytes
  <2>5. IsPrefixOf(CString(bytes), ValueIn(nvram, k))
    BY <2>2, <2>4 DEF IsPrefixOf
  <2>6. ~arch.big /\ size > 0 =>
            /\ Len(bytes) <= size
            /\ CString(bytes) = ValueIn(nvram, k) \/ Len(CString(bytes)) = size - 1
    BY <2>2, <2>3, <2>4
  <2>7. Delivered' /\ out' = bytes /\ num' = None
    BY <1>1, <2>1, <2>4, <2>5, <2>6, AnswerDelivers
  <2>8. cached' \in [Key -> String \cup {None}]
    BY <2>1, <2>4 DEF TypeOK
  <2>9. \A k2 \in Key : cached'[k2] # cached[k2] => k2 = k /\ k \in Marked /\ cached'[k] = CString(bytes)
    BY <2>1 DEF TypeOK
  <2> QED BY <1>1, <2>4, <2>5, <2>7, <2>8, <2>9, ReadKeeps
<1>4. CASE cached[k] = None /\ ~ Present(k)
  <2>1. Answer("missing", k, size, <<>>, None) /\ UNCHANGED cached
    BY <1>4 DEF GetBuf
  <2> DEFINE bytes == <<>>
  <2>2. bytes \in Seq(Byte) /\ Len(bytes) = 0 /\ Answer("missing", k, size, bytes, None)
    BY <2>1
  <2> HIDE DEF bytes
  <2>3. Delivered' /\ out' = bytes /\ num' = None
    <3>1. ~arch.big /\ size > 0 => Len(bytes) <= size
      BY <1>1, <2>2
    <3>2. UNCHANGED <<arch, nvram>>
      BY <1>1
    <3> QED BY <2>2, <3>1, <3>2, AnswerDelivers
  <2>4. cached' \in [Key -> String \cup {None}]
    BY <2>1 DEF TypeOK
  <2> QED BY <1>1, <2>1, <2>2, <2>3, <2>4, ReadKeeps
<1> QED BY <1>2, <1>3, <1>4

LEMMA GetAllKeeps ==
    ASSUME BufferAssumption, TypeOK, CachedOK, NEW size \in Size, GetAll(size)
    PROVE  TypeOK' /\ CachedOK' /\ Delivered'
<1> DEFINE bytes == Framed(ByteStr, HostSize(size))
<1>1. /\ last' = [op |-> "getall", key |-> <<>>, size |-> size] /\ out' = bytes /\ num' = None
      /\ UNCHANGED <<arch, nvram, cached, ints>>
  BY DEF GetAll, Answer
<1>2. nvram \in Seq(Pair) /\ arch \in Archs /\ size \in Nat
  BY DEF TypeOK, BufferAssumption
<1>3. HostSize(size) \in Nat /\ (~arch.big => HostSize(size) = size)
  BY <1>2, HostSizeExact, Zenon
<1>4. bytes \in Seq(Byte) /\ Len(bytes) <= HostSize(size)
  <2> DEFINE b == ByteStr
             most == HostSize(size)
  <2>1. b \in Seq(Byte)
    BY <1>2, ByteStrLayout
  <2>2. most \in Nat
    BY <1>3
  <2> HIDE DEF b, most
  <2>3. PICK e \in 0 .. Len(b) :
            Framed(b, most) \in Seq(Byte) /\ Len(Framed(b, most)) = e /\ e <= most
    BY <2>1, <2>2, FramedCuts, Zenon
  <2>4. Framed(b, most) \in Seq(Byte) /\ Len(Framed(b, most)) <= most
    BY <2>3
  <2> QED BY <2>4 DEF b, most
<1>5. \E n \in 0 .. Len(nvram) :
          /\ Len(bytes) = EndOf[n]
          /\ \A i \in 1 .. n :
               nvram[i].val # <<>> => SubSeq(bytes, EndOf[i - 1] + 1, EndOf[i]) = Record(nvram[i])
          /\ n < Len(nvram) => EndOf[n + 1] > HostSize(size)
  <2>1. PICK n \in 0 .. Len(nvram) :
          /\ Len(bytes) = EndOf[n]
          /\ \A i \in 1 .. n : SubSeq(bytes, EndOf[i - 1] + 1, EndOf[i]) = Part(nvram[i])
          /\ n < Len(nvram) => EndOf[n + 1] > HostSize(size)
    BY <1>2, <1>3, WholeRecordsFit
  <2>2. \A e : e.val # <<>> => Part(e) = Record(e)
    BY DEF Part
  <2> HIDE DEF bytes
  <2> QED BY <2>1, <2>2
<1> HIDE DEF bytes
<1>6. TypeOK' /\ CachedOK'
  <2>1. cached' \in [Key -> String \cup {None}] /\ cached' = cached
    BY <1>1 DEF TypeOK
  <2> QED BY <1>1, <1>4, <2>1, ReadKeeps
<1>7. BufferSafe'
  BY <1>1, <1>3, <1>4 DEF BufferSafe
<1>8. WholeRecords'
  <2>1. EndOf' = EndOf
    BY <1>1 DEF EndOf
  <2> QED BY <1>1, <1>3, <1>5, <2>1 DEF WholeRecords
<1>9. TextDelivered' /\ IntDelivered'
  BY <1>1 DEF TextDelivered, IntDelivered
<1> QED BY <1>6, <1>7, <1>8, <1>9 DEF Delivered

LEMMA GetIntKeeps ==
    ASSUME BufferAssumption, TypeOK, CachedOK, NEW k \in Key, GetInt(k)
    PROVE  TypeOK' /\ CachedOK' /\ Delivered'
<1> DEFINE n == IF Present(k) THEN GuestInt(ParseInt(Value(k))) ELSE 0
<1>1. /\ last' = [op |-> "get_int", key |-> k, size |-> IntBytes] /\ out' = <<>> /\ num' = n
      /\ UNCHANGED <<arch, nvram, cached, ints>>
  BY DEF GetInt, Answer
<1>2. StoreOK(nvram) /\ arch \in Archs
  BY TypeOKStore DEF TypeOK
<1>3. Present(k) => Value(k) \in String
  BY <1>2, InStore, PlaceOf
<1>4. Present(k) => GuestInt(ParseInt(Value(k))) \in Int
  BY <1>2, <1>3, ParseIntType, GuestIntExact
<1>5. TypeOK' /\ CachedOK'
  <2>1. cached' \in [Key -> String \cup {None}] /\ cached' = cached
    BY <1>1 DEF TypeOK
  <2>2. n \in Int /\ <<>> \in Seq(Byte)
    BY <1>4
  <2> HIDE DEF n
  <2> QED BY <1>1, <2>1, <2>2, ReadKeeps
<1>6. BufferSafe'
  <2>1. Len(<<>>) = 0 /\ IntBytes \in Nat
    BY BaseTyped
  <2> QED BY <1>1, <2>1 DEF BufferSafe
<1>7. IntDelivered'
  <2>1. (Present(k)' <=> Present(k)) /\ Value(k)' = Value(k)
    BY <1>1 DEF Present, Positions, Value
  <2>2. ASSUME ~arch.big, Present(k),
               NEW i \in -(Power(Base, IntBytes) \div 2) .. (Power(Base, IntBytes) - 1) \div 2,
               Value(k) = Decimal(i), i >= 0 \/ arch.ptr = IntBytes
        PROVE  n = i
    <3>1. i \in Int
      OBVIOUS
    <3>2. ParseInt(Value(k)) = i
      BY <2>2, <3>1, DecimalParses
    <3>3. GuestInt(i) = i
      BY <1>2, <2>2, <3>1, GuestIntExact
    <3> QED BY <2>2, <3>2, <3>3
  <2> HIDE DEF n
  <2> QED BY <1>1, <2>1, <2>2 DEF IntDelivered, Present, Positions, Value
<1>8. TextDelivered' /\ WholeRecords'
  BY <1>1 DEF TextDelivered, WholeRecords
<1> QED BY <1>5, <1>6, <1>7, <1>8 DEF Delivered

-----------------------------------------------------------------------------
(* The theorems. *)

LEMMA BufferInit == ASSUME BufferAssumption, Init PROVE BufferInv
<1>1. TypeOK
  <2>1. nvram \in Seq(Pair) /\ DOMAIN nvram = {}
    BY DEF Init
  <2> QED BY <2>1 DEF Init, TypeOK
<1>2. CachedOK
  BY DEF Init, CachedOK
<1>3. Delivered
  <2>1. last.op = "none" /\ last.size = 0
    BY DEF Init, NoCall
  <2> QED BY <2>1 DEF Delivered, BufferSafe, TextDelivered, WholeRecords, IntDelivered
<1> QED BY <1>1, <1>2, <1>3 DEF BufferInv

LEMMA BufferStutter == ASSUME BufferInv, UNCHANGED vars PROVE BufferInv'
<1>1. UNCHANGED <<arch, nvram, cached, last, out, num, ints>>
  BY DEF vars
<1>2. TypeOK' /\ CachedOK'
  BY <1>1 DEF BufferInv, TypeOK, CachedOK
<1>3. BufferSafe'
  BY <1>1 DEF BufferInv, Delivered, BufferSafe
<1>4. TextDelivered'
  BY <1>1 DEF BufferInv, Delivered, TextDelivered, Present, Positions, Value
<1>5. WholeRecords'
  <2>1. EndOf' = EndOf
    BY <1>1 DEF EndOf
  <2> QED BY <1>1, <2>1 DEF BufferInv, Delivered, WholeRecords
<1>6. IntDelivered'
  BY <1>1 DEF BufferInv, Delivered, IntDelivered, Present, Positions, Value
<1> QED BY <1>2, <1>3, <1>4, <1>5, <1>6 DEF BufferInv, Delivered

LEMMA BufferStep == ASSUME BufferAssumption, BufferInv, [Next]_vars PROVE BufferInv'
<1>1. TypeOK /\ CachedOK
  BY DEF BufferInv
<1>2. ASSUME NEW k \in Key, NEW v \in Text, Set(k, v) PROVE BufferInv'
  BY <1>1, <1>2, SetKeeps DEF BufferInv
<1>3. ASSUME NEW k \in Key, NEW n \in Num, SetInt(k, n) PROVE BufferInv'
  BY <1>1, <1>3, SetIntKeeps DEF BufferInv
<1>4. ASSUME NEW k \in Key, Unset(k) PROVE BufferInv'
  BY <1>1, <1>4, UnsetKeeps DEF BufferInv
<1>5. ASSUME NEW k \in Key, NEW size \in Size, GetBuf(k, size) PROVE BufferInv'
  BY <1>1, <1>5, GetBufKeeps DEF BufferInv
<1>6. ASSUME NEW k \in Key, GetInt(k) PROVE BufferInv'
  BY <1>1, <1>6, GetIntKeeps DEF BufferInv
<1>7. CASE Clear
  BY <1>1, <1>7, ClearKeeps DEF BufferInv
<1>8. ASSUME NEW size \in Size, GetAll(size) PROVE BufferInv'
  BY <1>1, <1>8, GetAllKeeps DEF BufferInv
<1>9. CASE UNCHANGED vars
  BY <1>9, BufferStutter
<1> QED BY <1>2, <1>3, <1>4, <1>5, <1>6, <1>7, <1>8, <1>9 DEF Next

LEMMA BufferAlways == Spec => []BufferInv
BY BufferAssumption, BufferInit, BufferStep, PTL DEF Spec

\* The store holds pairs of keys and strings, each key once, whatever is written
\* to it: the text of a number that was read from memory is a string, too.
THEOREM TypeCorrect == Spec => []TypeOK
<1>1. BufferInv => TypeOK
  BY DEF BufferInv
<1> QED BY <1>1, BufferAlways, PTL

\* On a little-endian guest, neither nvram_get_buf nor nvram_getall writes behind
\* the buffer of its caller, unless that is empty.
THEOREM BuffersSafe == Spec => []BufferSafe
<1>1. BufferInv => BufferSafe
  BY DEF BufferInv, Delivered
<1> QED BY <1>1, BufferAlways, PTL

\* nvram_get_buf delivers a prefix of the value, from the plugin or from the
\* cache; what the plugin answers for a key that is not cached is terminated, and
\* cut only where it fills the buffer.
THEOREM TextArrives == Spec => []TextDelivered
<1>1. BufferInv => TextDelivered
  BY DEF BufferInv, Delivered
<1> QED BY <1>1, BufferAlways, PTL

\* Of the pairs with a value that is not empty, nvram_getall delivers the first
\* records of the store, each one whole, and leaves out only those the buffer has
\* no room for.
THEOREM RecordsWhole == Spec => []WholeRecords
<1>1. BufferInv => WholeRecords
  BY DEF BufferInv, Delivered
<1> QED BY <1>1, BufferAlways, PTL

\* A number that an int can hold comes back from its text through the words of a
\* pointer and of an int; a negative one does where these are as wide.
THEOREM IntsArrive == Spec => []IntDelivered
<1>1. BufferInv => IntDelivered
  BY DEF BufferInv, Delivered
<1> QED BY <1>1, BufferAlways, PTL
=============================================================================
