--------------------------- MODULE HashMapProofs ---------------------------
(***************************************************************************)
(* Proofs about the hash map and the list of zones that it indexes, for    *)
(* any names, hash values and sizes asked for.  The operations: the        *)
(* probing of a table of 2^k slots visits every slot, so it ends as long   *)
(* as one slot is EMPTY; one always is; and every name in the map is found *)
(* where its entry is.  The state machine of one map.  The zones of a      *)
(* base: what is in memory and what is in the file stay in step, and the   *)
(* map with the list, but for a deletion.                                  *)
(***************************************************************************)
EXTENDS NameMap, ZoneList, FiniteSetTheorems, WellFoundedInduction, TLAPS

----------------------------------------------------------------------------
(* Numbers                                                                 *)

LEMMA LeastElement ==
    ASSUME NEW S \in SUBSET Nat, S # {}
    PROVE  \E n \in S : \A m \in S : n <= m
<1>1. PICK n \in S : \A m \in S : ~ (<<m, n>> \in OpToRel(<, Nat))
  BY WFMin, NatLessThanWellFounded, Zenon
<1>2. \A m \in S : ~ (m < n)
  BY <1>1, Zenon DEF OpToRel
<1> QED BY <1>2

\* A set of numbers that has 0 and with every number the next has all of them.
LEMMA AllNumbers ==
    ASSUME NEW S \in SUBSET Nat, 0 \in S, \A n \in S : n + 1 \in S
    PROVE  S = Nat
<1> SUFFICES ASSUME Nat \ S # {} PROVE FALSE
  OBVIOUS
<1>1. PICK n \in Nat \ S : \A m \in Nat \ S : n <= m
  BY LeastElement
<1>2. n # 0 /\ n - 1 \in Nat /\ n - 1 \in S
  BY <1>1
<1> QED BY <1>1, <1>2

LEMMA Division ==
    ASSUME NEW u \in Nat, NEW s \in Nat \ {0}
    PROVE  u % s \in 0 .. s - 1 /\ \E q \in Nat : u = s * q + (u % s)
<1>1. u \div s \in Nat /\ u = s * (u \div s) + (u % s)
  OBVIOUS
<1>2. u % s \in 0 .. s - 1
  OBVIOUS
<1> QED BY <1>1, <1>2

LEMMA Remainder ==
    ASSUME NEW s \in Nat \ {0}, NEW q \in Nat, NEW r \in 0 .. s - 1
    PROVE  (s * q + r) % s = r
OBVIOUS

\* Two numbers with one remainder differ by a multiple.
LEMMA SameRemainder ==
    ASSUME NEW s \in Nat \ {0}, NEW u \in Nat, NEW v \in Nat, u <= v, u % s = v % s
    PROVE  \E q \in Nat : v = u + s * q
<1>1. PICK a \in Nat : u = s * a + (u % s)
  BY Division
<1>2. PICK b \in Nat : v = s * b + (v % s)
  BY Division
<1>3. s * a <= s * b
  <2>1. PICK r : r = u % s
    OBVIOUS
  <2>2. r \in Nat /\ u = s * a + r /\ v = s * b + r
    BY <1>1, <1>2, <2>1
  <2>3. PICK x \in Nat : x = s * a
    OBVIOUS
  <2>4. PICK y \in Nat : y = s * b
    OBVIOUS
  <2>5. x + r <= y + r
    BY <2>2, <2>3, <2>4
  <2> QED BY <2>2, <2>3, <2>4, <2>5
<1>4. a <= b
  BY <1>3
<1>5. b - a \in Nat /\ s * (b - a) = s * b - s * a
  BY <1>4
<1>6. v = u + s * (b - a)
  BY <1>1, <1>2, <1>5, Division
<1> QED BY <1>5, <1>6

\* A power of two that divides an odd multiple divides the number.
Divides(s, n) == \E q \in Nat : n = s * q
Odd(n) == \E b \in Nat : n = 2 * b + 1
OddCancels(s) == \A a, o \in Nat : Odd(o) /\ Divides(s, a * o) => Divides(s, a)

LEMMA OddCancelsTwice ==
    ASSUME NEW s \in Nat \ {0}, OddCancels(s)
    PROVE  OddCancels(2 * s)
<1> SUFFICES ASSUME NEW a \in Nat, NEW o \in Nat, Odd(o), Divides(2 * s, a * o)
             PROVE  Divides(2 * s, a)
  BY DEF OddCancels
<1>a. PICK b \in Nat : o = 2 * b + 1
  BY DEF Odd
<1>b. PICK q \in Nat : a * o = (2 * s) * q
  BY DEF Divides
<1> a * (2 * b + 1) = (2 * s) * q
  BY <1>a, <1>b
<1>1. PICK ab \in Nat : ab = a * b
  OBVIOUS
<1>2. PICK sq \in Nat : sq = s * q
  OBVIOUS
<1>3. a * (2 * b + 1) = 2 * ab + a /\ (2 * s) * q = 2 * sq
  BY <1>1, <1>2
<1>4. PICK c \in Nat : a = 2 * c
  <2>1. a = 2 * (sq - ab) /\ sq - ab \in Nat
    BY <1>1, <1>2, <1>3
  <2> QED BY <2>1
<1>5. c * (2 * b + 1) = s * q
  BY <1>2, <1>3, <1>4, <1>1
<1>6. Divides(s, c)
  <2>1. c * o = s * q /\ Odd(o)
    BY <1>5, <1>a DEF Odd
  <2>2. Divides(s, c * o)
    BY <2>1 DEF Divides
  <2> QED BY <2>1, <2>2 DEF OddCancels
<1>7. PICK r \in Nat : c = s * r
  BY <1>6 DEF Divides
<1>8. a = (2 * s) * r
  BY <1>4, <1>7
<1> QED BY <1>8 DEF Divides

\* The numbers that five times plus one makes of 0.
Orbit(f, N) == f = [n \in 0 .. N |-> IF n = 0 THEN 0 ELSE 5 * f[n - 1] + 1]

LEMMA OrbitExists ==
    ASSUME NEW N \in Nat
    PROVE  \E f : Orbit(f, N)
<1> DEFINE S == {m \in Nat : \E f : Orbit(f, m)}
<1>1. 0 \in S
  <2>1. Orbit([n \in 0 .. 0 |-> 0], 0)
    BY DEF Orbit
  <2> QED BY <2>1
<1>2. ASSUME NEW m \in S PROVE m + 1 \in S
  <2>1. PICK w : Orbit(w, m)
    OBVIOUS
  <2>2. PICK v : v = [n \in 0 .. m + 1 |-> IF n = 0 THEN 0 ELSE 5 * w[n - 1] + 1]
    OBVIOUS
  <2>3. \A n \in 0 .. m : v[n] = w[n]
    <3>1. \A n \in 0 .. m : w[n] = IF n = 0 THEN 0 ELSE 5 * w[n - 1] + 1
      BY <2>1 DEF Orbit
    <3>2. \A n \in 0 .. m : v[n] = IF n = 0 THEN 0 ELSE 5 * w[n - 1] + 1
      BY <2>2
    <3> QED BY <3>1, <3>2
  <2>4. \A n \in 0 .. m + 1 : n # 0 => v[n - 1] = w[n - 1]
    BY <2>3
  <2>5. Orbit(v, m + 1)
    BY <2>2, <2>4 DEF Orbit
  <2> QED BY <2>5
<1>3. S = Nat
  <2> HIDE DEF S
  <2>1. S \in SUBSET Nat
    BY DEF S
  <2> QED BY <1>1, <1>2, <2>1, AllNumbers
<1> QED BY <1>3

LEMMA OrbitIs ==
    ASSUME NEW N \in Nat, NEW f, Orbit(f, N)
    PROVE  /\ f[0] = 0 /\ \A n \in 0 .. N - 1 : f[n + 1] = 5 * f[n] + 1
           /\ \A n \in 0 .. N : f[n] \in Nat /\ f[n] % 2 = n % 2
<1>1. \A n \in 0 .. N : f[n] = IF n = 0 THEN 0 ELSE 5 * f[n - 1] + 1
  BY DEF Orbit
<1>2. f[0] = 0 /\ \A n \in 0 .. N - 1 : f[n + 1] = 5 * f[n] + 1
  BY <1>1
<1> DEFINE S == {n \in Nat : n <= N => f[n] \in Nat /\ f[n] % 2 = n % 2}
<1>3. 0 \in S
  BY <1>2
<1>4. ASSUME NEW n \in S PROVE n + 1 \in S
  <2> SUFFICES ASSUME n + 1 <= N PROVE f[n + 1] \in Nat /\ f[n + 1] % 2 = (n + 1) % 2
    OBVIOUS
  <2>1. f[n] \in Nat /\ f[n] % 2 = n % 2
    BY <1>4
  <2>2. f[n + 1] = 5 * f[n] + 1
    BY <1>2
  <2> QED BY <2>1, <2>2
<1>5. S = Nat
  <2> HIDE DEF S
  <2>1. S \in SUBSET Nat
    BY DEF S
  <2> QED BY <1>3, <1>4, <2>1, AllNumbers
<1> QED BY <1>2, <1>5

LEMMA OrbitSum ==
    ASSUME NEW N \in Nat, NEW f, Orbit(f, N), NEW m \in Nat, NEW n \in Nat, m + n <= N
    PROVE  f[m + n] = f[m] + (4 * f[m] + 1) * f[n]
<1>1. /\ f[0] = 0 /\ \A k \in 0 .. N - 1 : f[k + 1] = 5 * f[k] + 1
      /\ \A k \in 0 .. N : f[k] \in Nat
  BY OrbitIs
<1> DEFINE S == {k \in Nat : m + k <= N => f[m + k] = f[m] + (4 * f[m] + 1) * f[k]}
<1>2. 0 \in S
  <2>1. f[m] \in Nat
    BY <1>1
  <2>2. m + 0 = m
    OBVIOUS
  <2> QED BY <1>1, <2>1, <2>2
<1>3. ASSUME NEW k \in S PROVE k + 1 \in S
  <2> SUFFICES ASSUME m + (k + 1) <= N
               PROVE  f[m + (k + 1)] = f[m] + (4 * f[m] + 1) * f[k + 1]
    OBVIOUS
  <2>1. f[m + k] = f[m] + (4 * f[m] + 1) * f[k]
    BY <1>3
  <2>2. f[(m + k) + 1] = 5 * f[m + k] + 1 /\ (m + k) + 1 = m + (k + 1)
    BY <1>1
  <2>3. f[k + 1] = 5 * f[k] + 1
    BY <1>1
  <2>4. f[m] \in Nat /\ f[k] \in Nat /\ f[m + k] \in Nat
    BY <1>1
  <2>5. PICK a \in Nat : a = f[m]
    BY <2>4
  <2>6. PICK b \in Nat : b = f[k]
    BY <2>4
  <2>7. 5 * (a + (4 * a + 1) * b) + 1 = a + (4 * a + 1) * (5 * b + 1)
    OBVIOUS
  <2> QED BY <2>1, <2>2, <2>3, <2>5, <2>6, <2>7
<1>4. S = Nat
  <2> HIDE DEF S
  <2>1. S \in SUBSET Nat
    BY DEF S
  <2> QED BY <1>2, <1>3, <2>1, AllNumbers
<1> QED BY <1>4

\* A multiple of s comes in the orbit at a multiple of s only.
Spread(f, N, s) == \A n \in 0 .. N : Divides(s, f[n]) => Divides(s, n)

LEMMA SpreadTwice ==
    ASSUME NEW N \in Nat, NEW f, Orbit(f, N), NEW s \in Nat \ {0}, OddCancels(s), Spread(f, N, s)
    PROVE  Spread(f, N, 2 * s)
<1> SUFFICES ASSUME NEW n \in 0 .. N, Divides(2 * s, f[n]) PROVE Divides(2 * s, n)
  BY DEF Spread
<1>1. f[n] \in Nat /\ f[n] % 2 = n % 2
  BY OrbitIs
<1>2. PICK q \in Nat : f[n] = (2 * s) * q
  BY DEF Divides
<1>3. PICK m \in Nat : n = 2 * m
  <2>1. PICK x \in Nat : x = s * q
    OBVIOUS
  <2>2. f[n] = 2 * x
    BY <1>2, <2>1
  <2>3. n % 2 = 0
    BY <1>1, <2>2
  <2>4. n = 2 * (n \div 2) /\ n \div 2 \in Nat
    BY <2>3
  <2> QED BY <2>4
<1>4. m \in 0 .. N /\ m + m = n /\ m + m <= N
  BY <1>3
<1>5. PICK a \in Nat : a = f[m]
  BY <1>4, OrbitIs
<1>6. f[n] = f[m] + (4 * f[m] + 1) * f[m]
  BY <1>4, OrbitSum, SMTT(60)
<1>7. f[n] = 2 * (a * (2 * a + 1))
  BY <1>5, <1>6
<1>8. a * (2 * a + 1) = s * q
  BY <1>2, <1>7
<1>9. Divides(s, a)
  <2>1. PICK o \in Nat : o = 2 * a + 1
    OBVIOUS
  <2>2. Odd(o) /\ Divides(s, a * o)
    BY <1>8, <2>1 DEF Odd, Divides
  <2> QED BY <2>2 DEF OddCancels
<1>10. Divides(s, m)
  BY <1>4, <1>5, <1>9 DEF Spread
<1>11. PICK r \in Nat : m = s * r
  BY <1>10 DEF Divides
<1>12. n = (2 * s) * r
  BY <1>3, <1>11
<1> QED BY <1>12 DEF Divides

LEMMA SizesSpread ==
    ASSUME NEW N \in Nat, NEW f, Orbit(f, N), NEW s \in TableSizes \cup {1}
    PROVE  OddCancels(s) /\ Spread(f, N, s)
<1> DEFINE P(t) == t \in Nat \ {0} /\ OddCancels(t) /\ Spread(f, N, t)
<1>1. P(1)
  <2>1. \A n \in Nat : Divides(1, n)
    BY DEF Divides
  <2> QED BY <2>1 DEF OddCancels, Spread
<1>2. \A t, u : P(t) /\ u = 2 * t => P(u)
  BY OddCancelsTwice, SpreadTwice
<1> HIDE DEF P
<1>3. P(2)
  BY <1>2, <1>1
<1>4. P(4)
  BY <1>2, <1>3
<1>5. P(8)
  BY <1>2, <1>4
<1>6. P(16)
  BY <1>2, <1>5
<1>7. P(32)
  BY <1>2, <1>6
<1>8. P(64)
  BY <1>2, <1>7
<1>9. P(128)
  BY <1>2, <1>8
<1>10. P(256)
  BY <1>2, <1>9
<1>11. P(512)
  BY <1>2, <1>10
<1>12. P(1024)
  BY <1>2, <1>11
<1>13. P(2048)
  BY <1>2, <1>12
<1>14. P(4096)
  BY <1>2, <1>13
<1>15. P(8192)
  BY <1>2, <1>14
<1>16. P(16384)
  BY <1>2, <1>15
<1>17. P(32768)
  BY <1>2, <1>16
<1>18. P(65536)
  BY <1>2, <1>17
<1>19. P(131072)
  BY <1>2, <1>18
<1>20. P(262144)
  BY <1>2, <1>19
<1>21. P(s)
  BY <1>1, <1>5, <1>6, <1>7, <1>8, <1>9, <1>10, <1>11, <1>12, <1>13, <1>14, <1>15, <1>16, <1>17, <1>18, <1>19, <1>20
  DEF TableSizes
<1> QED BY <1>21 DEF P

----------------------------------------------------------------------------
(* Probing                                                                 *)

\* A function of the numbers up to N that is given by its first value and by
\* the step from each value to the next.
Recursion(f, N, a, g) ==
    f = [n \in 0 .. N |-> IF n = 0 THEN a ELSE g[<<n, f[n - 1]>>]]

LEMMA RecursionExists ==
    ASSUME NEW T, NEW a \in T, NEW g \in [Nat \X T -> T], NEW N \in Nat
    PROVE  \E f \in [0 .. N -> T] : Recursion(f, N, a, g)
<1> DEFINE S == {m \in Nat : \E f \in [0 .. m -> T] : Recursion(f, m, a, g)}
<1>1. 0 \in S
  <2>1. [n \in 0 .. 0 |-> a] \in [0 .. 0 -> T] /\ Recursion([n \in 0 .. 0 |-> a], 0, a, g)
    BY DEF Recursion
  <2> QED BY <2>1
<1>2. ASSUME NEW m \in S PROVE m + 1 \in S
  <2>1. PICK w \in [0 .. m -> T] : Recursion(w, m, a, g)
    OBVIOUS
  <2>2. PICK v : v = [n \in 0 .. m + 1 |-> IF n = 0 THEN a ELSE g[<<n, w[n - 1]>>]]
    OBVIOUS
  <2>3. \A n \in 0 .. m : v[n] = w[n]
    <3>1. \A n \in 0 .. m : w[n] = IF n = 0 THEN a ELSE g[<<n, w[n - 1]>>]
      BY <2>1 DEF Recursion
    <3>2. \A n \in 0 .. m : v[n] = IF n = 0 THEN a ELSE g[<<n, w[n - 1]>>]
      BY <2>2
    <3> QED BY <3>1, <3>2
  <2>4. \A n \in 0 .. m + 1 : n # 0 => v[n - 1] = w[n - 1]
    BY <2>3
  <2>5. Recursion(v, m + 1, a, g)
    BY <2>2, <2>4 DEF Recursion
  <2>6. \A n \in 0 .. m + 1 : v[n] \in T
    <3> SUFFICES ASSUME NEW n \in 0 .. m + 1, n # 0 PROVE v[n] \in T
      BY <2>2
    <3>1. n \in Nat /\ n - 1 \in 0 .. m /\ w[n - 1] \in T
      BY <2>1
    <3>2. <<n, w[n - 1]>> \in Nat \X T
      BY <3>1
    <3>3. v[n] = g[<<n, w[n - 1]>>]
      BY <2>2
    <3> QED BY <3>2, <3>3
  <2>7. v \in [0 .. m + 1 -> T]
    BY <2>2, <2>6
  <2> QED BY <2>5, <2>7
<1>3. S = Nat
  <2> HIDE DEF S
  <2>1. S \in SUBSET Nat
    BY DEF S
  <2> QED BY <1>1, <1>2, <2>1, AllNumbers
<1> QED BY <1>3

\* The shifted hash, round by round.
Shifts(p, rounds, hash) ==
    p = [n \in 0 .. rounds |-> IF n = 0 THEN hash ELSE p[n - 1] \div 32]

LEMMA PerturbSteps ==
    ASSUME NEW rounds \in Nat, NEW hash \in Nat
    PROVE  /\ Perturb(rounds, hash) \in [0 .. rounds -> Nat]
           /\ Perturb(rounds, hash)[0] = hash
           /\ \A n \in 0 .. rounds - 1 :
                 Perturb(rounds, hash)[n + 1] = Perturb(rounds, hash)[n] \div 32
<1> DEFINE g == [x \in Nat \X Nat |-> x[2] \div 32]
<1>1. g \in [Nat \X Nat -> Nat]
  OBVIOUS
<1>2. PICK f \in [0 .. rounds -> Nat] : Recursion(f, rounds, hash, g)
  <2> HIDE DEF g
  <2> QED BY <1>1, RecursionExists
<1>3. Shifts(f, rounds, hash)
  <2>1. \A n \in 0 .. rounds : n # 0 => <<n, f[n - 1]>> \in Nat \X Nat /\ g[<<n, f[n - 1]>>] = f[n - 1] \div 32
    OBVIOUS
  <2> HIDE DEF g
  <2> QED BY <1>2, <2>1 DEF Shifts, Recursion
<1>4. Perturb(rounds, hash) = CHOOSE p : Shifts(p, rounds, hash)
  BY Zenon DEF Perturb, Shifts
<1>5. PICK p : p = Perturb(rounds, hash)
  OBVIOUS
<1>6. Shifts(p, rounds, hash)
  BY <1>3, <1>4, <1>5, Zenon
<1>7. /\ p[0] = hash /\ DOMAIN p = 0 .. rounds
      /\ \A n \in 0 .. rounds - 1 : p[n + 1] = p[n] \div 32
  <2>1. \A n \in 0 .. rounds : p[n] = IF n = 0 THEN hash ELSE p[n - 1] \div 32
    BY <1>6 DEF Shifts
  <2>2. DOMAIN p = 0 .. rounds
    BY <1>6 DEF Shifts
  <2> QED BY <2>1, <2>2
<1> DEFINE S == {n \in Nat : n <= rounds => p[n] \in Nat}
<1>8. S = Nat
  <2>1. 0 \in S
    BY <1>7
  <2>2. ASSUME NEW n \in S PROVE n + 1 \in S
    BY <1>7
  <2>3. S \in SUBSET Nat
    OBVIOUS
  <2> HIDE DEF S
  <2> QED BY <2>1, <2>2, <2>3, AllNumbers
<1>9. p \in [0 .. rounds -> Nat]
  <2>1. \A n \in 0 .. rounds : p[n] \in Nat
    BY <1>8
  <2>2. p = [n \in 0 .. rounds |-> p[n]]
    BY <1>6 DEF Shifts
  <2> QED BY <2>1, <2>2
<1> QED BY <1>5, <1>7, <1>9

\* After HashDigits rounds there is nothing left to shift.
LEMMA PerturbEnds ==
    ASSUME NEW key \in Key, NEW more \in Nat, NEW n \in HashDigits .. more + HashDigits
    PROVE  Perturb(more + HashDigits, HashOf[key])[n] = 0
<1> DEFINE h == HashOf[key]
<1> DEFINE R == more + HashDigits
<1>1. HashDigits \in Nat /\ h \in Nat /\ R \in Nat /\ Perturb(HashDigits, h)[HashDigits] = 0
  BY HashAssumption
<1> HIDE DEF h
<1>2. PICK p : p = Perturb(R, h)
  OBVIOUS
<1>3. PICK q : q = Perturb(HashDigits, h)
  OBVIOUS
<1>4. p[0] = h /\ \A k \in 0 .. R - 1 : p[k + 1] = p[k] \div 32
  <2>1. /\ Perturb(R, h)[0] = h
        /\ \A k \in 0 .. R - 1 : Perturb(R, h)[k + 1] = Perturb(R, h)[k] \div 32
    <3> HIDE DEF R
    <3> QED BY <1>1, PerturbSteps
  <2> HIDE DEF R
  <2> QED BY <1>2, <2>1
<1>5. q[0] = h /\ \A k \in 0 .. HashDigits - 1 : q[k + 1] = q[k] \div 32
  <2>1. /\ Perturb(HashDigits, h)[0] = h
        /\ \A k \in 0 .. HashDigits - 1 :
              Perturb(HashDigits, h)[k + 1] = Perturb(HashDigits, h)[k] \div 32
    BY <1>1, PerturbSteps
  <2> QED BY <1>3, <2>1
<1> DEFINE S == {k \in Nat : k <= HashDigits => p[k] = q[k]}
<1>6. S = Nat
  <2>1. 0 \in S
    BY <1>4, <1>5
  <2>2. ASSUME NEW k \in S PROVE k + 1 \in S
    BY <1>1, <1>4, <1>5
  <2>3. S \in SUBSET Nat
    OBVIOUS
  <2> HIDE DEF S
  <2> QED BY <2>1, <2>2, <2>3, AllNumbers
<1>7. p[HashDigits] = 0
  BY <1>1, <1>3, <1>6
<1> DEFINE Z == {k \in Nat : k <= more => p[HashDigits + k] = 0}
<1>8. Z = Nat
  <2>1. 0 \in Z
    BY <1>1, <1>7
  <2>2. ASSUME NEW k \in Z PROVE k + 1 \in Z
    <3> SUFFICES ASSUME k + 1 <= more PROVE p[HashDigits + (k + 1)] = 0
      OBVIOUS
    <3>1. p[(HashDigits + k) + 1] = p[HashDigits + k] \div 32
      BY <1>1, <1>4
    <3>2. p[HashDigits + k] = 0 /\ (HashDigits + k) + 1 = HashDigits + (k + 1)
      BY <1>1
    <3> QED BY <3>1, <3>2
  <2>3. Z \in SUBSET Nat
    OBVIOUS
  <2> HIDE DEF Z
  <2> QED BY <2>1, <2>2, <2>3, AllNumbers
<1>9. n - HashDigits \in Nat /\ n - HashDigits <= more /\ HashDigits + (n - HashDigits) = n
  BY <1>1
<1>10. p[HashDigits + (n - HashDigits)] = 0
  BY <1>8, <1>9
<1> QED BY <1>2, <1>9, <1>10 DEF h

\* The slots looked at, given the shifted hash.
Slots(w, p, size, rounds, hash) ==
    w = [n \in 0 .. rounds |->
            IF n = 0 THEN hash % size ELSE (5 * w[n - 1] + p[n] + 1) % size]

LEMMA WalkSteps ==
    ASSUME NEW key \in Key, NEW size \in Nat \ {0}
    PROVE  /\ Walk(size, HashOf[key]) \in [0 .. size + HashDigits -> 0 .. size - 1]
           /\ \A n \in HashDigits .. size + HashDigits - 1 :
                 Walk(size, HashOf[key])[n + 1] = (5 * Walk(size, HashOf[key])[n] + 1) % size
<1> DEFINE h == HashOf[key]
<1> DEFINE R == size + HashDigits
<1>1. HashDigits \in Nat /\ h \in Nat /\ R \in Nat
  BY HashAssumption
<1>2. PICK p : p = Perturb(R, h)
  OBVIOUS
<1>3. p \in [0 .. R -> Nat]
  <2> HIDE DEF h, R
  <2> QED BY <1>1, <1>2, PerturbSteps
<1>4. \A n \in HashDigits .. R : p[n] = 0
  BY <1>2, PerturbEnds
<1> HIDE DEF h
<1>5. \A u \in Nat : u % size \in 0 .. size - 1
  BY Division
<1> DEFINE T == 0 .. size - 1
<1> DEFINE P(n) == IF n \in 0 .. R THEN p[n] ELSE 0
<1> DEFINE g == [x \in Nat \X T |-> (5 * x[2] + P(x[1]) + 1) % size]
<1>6. g \in [Nat \X T -> T]
  <2> SUFFICES ASSUME NEW x \in Nat \X T PROVE (5 * x[2] + P(x[1]) + 1) % size \in T
    OBVIOUS
  <2>1. P(x[1]) \in Nat /\ x[2] \in Nat
    BY <1>3
  <2>2. 5 * x[2] + P(x[1]) + 1 \in Nat
    BY <2>1
  <2> HIDE DEF P
  <2> QED BY <1>5, <2>2
<1>7. h % size \in T
  BY <1>1, <1>5
<1>8. PICK f \in [0 .. R -> T] : Recursion(f, R, h % size, g)
  <2> HIDE DEF g, T, R
  <2> QED BY <1>1, <1>6, <1>7, RecursionExists
<1>9. Slots(f, p, size, R, h)
  <2>1. \A n \in 0 .. R : n # 0 =>
           <<n, f[n - 1]>> \in Nat \X T /\ g[<<n, f[n - 1]>>] = (5 * f[n - 1] + p[n] + 1) % size
    <3> SUFFICES ASSUME NEW n \in 0 .. R, n # 0
                 PROVE  <<n, f[n - 1]>> \in Nat \X T /\ g[<<n, f[n - 1]>>] = (5 * f[n - 1] + p[n] + 1) % size
      OBVIOUS
    <3>1. n \in Nat /\ n - 1 \in 0 .. R /\ P(n) = p[n]
      BY <1>1
    <3>2. f[n - 1] \in T
      BY <3>1
    <3>3. <<n, f[n - 1]>> \in Nat \X T
      BY <3>1, <3>2
    <3>4. g[<<n, f[n - 1]>>] = (5 * f[n - 1] + P(n) + 1) % size
      BY <3>3, Zenon
    <3> QED BY <3>1, <3>3, <3>4
  <2> HIDE DEF g
  <2> QED BY <1>8, <2>1 DEF Slots, Recursion
<1>10. Walk(size, h) = CHOOSE w : Slots(w, p, size, R, h)
  BY <1>2, Zenon DEF Walk, Slots
<1>11. PICK w : w = Walk(size, h)
  OBVIOUS
<1>12. Slots(w, p, size, R, h)
  BY <1>9, <1>10, <1>11, Zenon
<1>13. \A n \in 0 .. R : w[n] = IF n = 0 THEN h % size ELSE (5 * w[n - 1] + p[n] + 1) % size
  BY <1>12 DEF Slots
<1> DEFINE S == {n \in Nat : n <= R => w[n] \in T}
<1>14. S = Nat
  <2>1. 0 \in S
    BY <1>1, <1>7, <1>13
  <2>2. ASSUME NEW n \in S PROVE n + 1 \in S
    <3> SUFFICES ASSUME n + 1 <= R PROVE w[n + 1] \in T
      OBVIOUS
    <3>1. w[n] \in T /\ (n + 1) - 1 = n /\ p[n + 1] \in Nat
      BY <1>1, <1>3
    <3>2. w[n + 1] = (5 * w[n] + p[n + 1] + 1) % size
      BY <1>1, <1>13, <3>1
    <3>3. 5 * w[n] + p[n + 1] + 1 \in Nat
      BY <3>1
    <3> QED BY <1>5, <3>2, <3>3
  <2>3. S \in SUBSET Nat
    OBVIOUS
  <2> HIDE DEF S
  <2> QED BY <2>1, <2>2, <2>3, AllNumbers
<1>15. w \in [0 .. R -> T]
  <2>1. \A n \in 0 .. R : w[n] \in T
    BY <1>1, <1>14, SMTT(60)
  <2>2. w = [n \in 0 .. R |-> w[n]]
    BY <1>12 DEF Slots
  <2> QED BY <2>1, <2>2
<1>16. \A n \in HashDigits .. size + HashDigits - 1 : w[n + 1] = (5 * w[n] + 1) % size
  <2> SUFFICES ASSUME NEW n \in HashDigits .. R - 1 PROVE w[n + 1] = (5 * w[n] + 1) % size
    <3>1. R - 1 = size + HashDigits - 1
      BY <1>1
    <3> QED BY <3>1, Zenon
  <2>1. n \in Nat /\ n + 1 \in 0 .. R /\ n + 1 # 0 /\ (n + 1) - 1 = n /\ p[n + 1] = 0
    BY <1>1, <1>4
  <2>2. w[n + 1] = (5 * w[n] + p[n + 1] + 1) % size
    BY <1>13, <2>1
  <2>3. w[n] \in Nat
    BY <1>1, <1>15
  <2>4. 5 * w[n] + 0 + 1 = 5 * w[n] + 1
    BY <2>3
  <2> QED BY <2>1, <2>2, <2>4
<1>17. /\ w \in [0 .. size + HashDigits -> 0 .. size - 1]
       /\ \A n \in HashDigits .. size + HashDigits - 1 : w[n + 1] = (5 * w[n] + 1) % size
  BY <1>15, <1>16, Zenon
<1>18. w = Walk(size, HashOf[key])
  BY <1>11 DEF h
<1> QED BY <1>17, <1>18, Zenon

\* The steps of a walk, from the one on where there is nothing left to shift.
LEMMA ModStep ==
    ASSUME NEW s \in Nat \ {0}, NEW u \in Nat
    PROVE  (5 * (u % s) + 1) % s = (5 * u + 1) % s
<1>1. PICK q \in Nat : u = s * q + (u % s)
  BY Division
<1>2. PICK r \in Nat : r = u % s
  BY Division
<1>3. 5 * r + 1 \in Nat
  OBVIOUS
<1>4. PICK c \in Nat : 5 * r + 1 = s * c + ((5 * r + 1) % s)
  BY <1>3, Division
<1>5. (5 * r + 1) % s \in 0 .. s - 1
  BY <1>3, Division
<1>6. PICK d \in 0 .. s - 1 : d = (5 * r + 1) % s
  BY <1>5
<1>7. 5 * u + 1 = s * (5 * q + c) + d
  <2>1. PICK x \in Nat : x = s * q
    OBVIOUS
  <2>2. PICK y \in Nat : y = s * c
    OBVIOUS
  <2>3. s * (5 * q + c) = 5 * x + y
    BY <2>1, <2>2
  <2>4. u = x + r /\ 5 * r + 1 = y + d
    BY <1>1, <1>2, <1>4, <1>6, <2>1, <2>2
  <2> QED BY <2>3, <2>4
<1>8. (s * (5 * q + c) + d) % s = d
  <2>1. 5 * q + c \in Nat
    OBVIOUS
  <2> QED BY <2>1, Remainder
<1> QED BY <1>2, <1>6, <1>7, <1>8

LEMMA WalkVisitsAll ==
    ASSUME NEW key \in Key, NEW size \in TableSizes \cup {1}, NEW i \in 0 .. size - 1
    PROVE  \E n \in 0 .. size + HashDigits : Walk(size, HashOf[key])[n] = i
<1>1. size \in Nat \ {0} /\ HashDigits \in Nat
  BY HashAssumption DEF TableSizes
<1>2. PICK w : w = Walk(size, HashOf[key])
  OBVIOUS
<1>3. /\ w \in [0 .. size + HashDigits -> 0 .. size - 1]
      /\ \A n \in HashDigits .. size + HashDigits - 1 : w[n + 1] = (5 * w[n] + 1) % size
  BY <1>1, <1>2, WalkSteps
<1>4. PICK A : Orbit(A, size)
  BY <1>1, OrbitExists
<1>5. A[0] = 0 /\ (\A n \in 0 .. size - 1 : A[n + 1] = 5 * A[n] + 1) /\ \A n \in 0 .. size : A[n] \in Nat
  BY <1>1, <1>4, OrbitIs
<1>6. OddCancels(size) /\ Spread(A, size, size)
  BY <1>1, <1>4, SizesSpread
<1>7. PICK x \in Nat : x = w[HashDigits] /\ x < size
  BY <1>1, <1>3
<1> DEFINE u == [j \in 0 .. size |-> x + (4 * x + 1) * A[j]]
<1> DEFINE S == {j \in Nat : j <= size => w[HashDigits + j] = u[j] % size}
<1>8. \A j \in 0 .. size : u[j] \in Nat /\ u[j] = x + (4 * x + 1) * A[j]
  <2> SUFFICES ASSUME NEW j \in 0 .. size PROVE x + (4 * x + 1) * A[j] \in Nat
    OBVIOUS
  <2>1. A[j] \in Nat
    BY <1>5
  <2> QED BY <2>1
<1> HIDE DEF u
<1>9. \A j \in 0 .. size - 1 : u[j + 1] = 5 * u[j] + 1
  <2> SUFFICES ASSUME NEW j \in 0 .. size - 1 PROVE u[j + 1] = 5 * u[j] + 1
    OBVIOUS
  <2>1. A[j + 1] = 5 * A[j] + 1
    BY <1>5
  <2>2. PICK a \in Nat : a = A[j]
    BY <1>1, <1>5
  <2>3. x + (4 * x + 1) * (5 * a + 1) = 5 * (x + (4 * x + 1) * a) + 1
    OBVIOUS
  <2>4. u[j] = x + (4 * x + 1) * a /\ u[j + 1] = x + (4 * x + 1) * (5 * a + 1)
    BY <1>1, <1>8, <2>1, <2>2
  <2> QED BY <2>3, <2>4
<1>10. S = Nat
  <2>1. 0 \in S
    <3>1. u[0] = x
      <4>1. u[0] = x + (4 * x + 1) * 0
        BY <1>1, <1>5, <1>8
      <4> QED BY <4>1
    <3>2. x % size = x
      BY <1>1, <1>7
    <3>3. HashDigits + 0 = HashDigits
      BY <1>1
    <3> QED BY <1>7, <3>1, <3>2, <3>3
  <2>2. ASSUME NEW j \in S PROVE j + 1 \in S
    <3> SUFFICES ASSUME j + 1 <= size PROVE w[HashDigits + (j + 1)] = u[j + 1] % size
      OBVIOUS
    <3>1. w[(HashDigits + j) + 1] = (5 * w[HashDigits + j] + 1) % size
      BY <1>1, <1>3
    <3>2. w[HashDigits + j] = u[j] % size /\ (HashDigits + j) + 1 = HashDigits + (j + 1)
      BY <1>1
    <3>3. u[j] \in Nat /\ u[j + 1] = 5 * u[j] + 1
      BY <1>1, <1>8, <1>9
    <3>4. (5 * (u[j] % size) + 1) % size = (5 * u[j] + 1) % size
      BY <1>1, <3>3, ModStep
    <3> QED BY <3>1, <3>2, <3>3, <3>4
  <2>3. S \in SUBSET Nat
    OBVIOUS
  <2> HIDE DEF S
  <2> QED BY <2>1, <2>2, <2>3, AllNumbers
<1>11. ASSUME NEW j \in Nat, NEW k \in Nat, j < k, k < size, u[j] % size = u[k] % size
       PROVE  FALSE
  <2>1. PICK l \in Nat \ {0} : k = j + l
    <3>1. k - j \in Nat \ {0} /\ k = j + (k - j)
      BY <1>11
    <3> QED BY <3>1
  <2>2. A[k] = A[j] + (4 * A[j] + 1) * A[l]
    BY <1>1, <1>4, <1>11, <2>1, OrbitSum
  <2>3. PICK a \in Nat : a = A[j]
    BY <1>1, <1>5, <1>11
  <2>4. PICK b \in Nat : b = A[l]
    BY <1>1, <1>5, <1>11, <2>1
  <2>5. u[j] \in Nat /\ u[k] \in Nat /\ u[j] = x + (4 * x + 1) * a
        /\ u[k] = x + (4 * x + 1) * (a + (4 * a + 1) * b)
    BY <1>1, <1>8, <1>11, <2>2, <2>3, <2>4
  <2>6. PICK d \in Nat : d = (4 * x + 1) * ((4 * a + 1) * b)
    OBVIOUS
  <2>7. u[k] = u[j] + d
    BY <2>5, <2>6
  <2>8. PICK q \in Nat : u[k] = u[j] + size * q
    <3>1. u[j] <= u[k]
      BY <2>5, <2>7
    <3> QED BY <1>1, <1>11, <2>5, <3>1, SameRemainder, ZenonT(90)
  <2>9. d = size * q
    <3>1. PICK y \in Nat : y = size * q
      BY <1>1
    <3> QED BY <2>5, <2>7, <2>8, <3>1
  <2>10. Divides(size, ((4 * a + 1) * b) * (4 * x + 1))
    BY <2>6, <2>9 DEF Divides
  <2>11. \A y \in Nat : 4 * y + 1 \in Nat /\ Odd(4 * y + 1)
    <3> SUFFICES ASSUME NEW y \in Nat PROVE Odd(4 * y + 1)
      OBVIOUS
    <3>1. 4 * y + 1 = 2 * (2 * y) + 1 /\ 2 * y \in Nat
      OBVIOUS
    <3> QED BY <3>1 DEF Odd
  <2>12. PICK c \in Nat : c = (4 * a + 1) * b
    OBVIOUS
  <2>13. PICK o \in Nat : o = 4 * x + 1 /\ Odd(o)
    BY <2>11
  <2>14. Divides(size, c * o)
    BY <2>10, <2>12, <2>13
  <2>15. Divides(size, c)
    BY <1>6, <2>13, <2>14 DEF OddCancels
  <2>16. PICK e \in Nat : e = 4 * a + 1 /\ Odd(e)
    BY <2>11
  <2>17. c = b * e
    BY <2>12, <2>16
  <2>18. Divides(size, b)
    BY <1>6, <2>15, <2>16, <2>17 DEF OddCancels
  <2>19. Divides(size, l)
    <3>1. l \in 0 .. size /\ Divides(size, A[l])
      BY <1>1, <1>11, <2>1, <2>4, <2>18
    <3> QED BY <1>6, <3>1, Zenon DEF Spread
  <2>20. PICK t \in Nat : l = size * t
    BY <2>19 DEF Divides
  <2>21. t # 0
    BY <1>1, <2>20
  <2>22. size * t >= size
    BY <1>1, <2>21
  <2> QED BY <1>1, <1>11, <2>1, <2>20, <2>22
<1> DEFINE F == [j \in 0 .. size - 1 |-> w[HashDigits + j]]
<1>12. F \in Injection(0 .. size - 1, 0 .. size - 1)
  <2>1. \A j \in 0 .. size - 1 : F[j] \in 0 .. size - 1 /\ F[j] = u[j] % size
    <3> SUFFICES ASSUME NEW j \in 0 .. size - 1
                 PROVE  w[HashDigits + j] \in 0 .. size - 1 /\ w[HashDigits + j] = u[j] % size
      OBVIOUS
    <3>1. HashDigits + j \in 0 .. size + HashDigits
      BY <1>1
    <3>2. w[HashDigits + j] \in 0 .. size - 1
      BY <1>3, <3>1
    <3>3. j \in S
      BY <1>10
    <3> QED BY <1>1, <3>2, <3>3
  <2>2. F \in [0 .. size - 1 -> 0 .. size - 1]
    BY <2>1
  <2>3. ASSUME NEW j \in 0 .. size - 1, NEW k \in 0 .. size - 1, F[j] = F[k] PROVE j = k
    <3>1. u[j] % size = u[k] % size
      BY <2>1, <2>3
    <3> HIDE DEF F
    <3>2. ~ (j < k) /\ ~ (k < j)
      BY <1>1, <1>11, <3>1
    <3> QED BY <1>1, <3>2
  <2> HIDE DEF F
  <2> QED BY <2>2, <2>3 DEF Injection, IsInjective
<1>13. F \in Surjection(0 .. size - 1, 0 .. size - 1)
  <2>1. IsFiniteSet(0 .. size - 1)
    BY <1>1, FS_Interval
  <2> HIDE DEF F
  <2> QED BY <1>12, <2>1, FS_Injection
<1>14. PICK j \in 0 .. size - 1 : F[j] = i
  <2> HIDE DEF F
  <2> QED BY <1>13 DEF Surjection
<1>15. HashDigits + j \in 0 .. size + HashDigits
  BY <1>1
<1> QED BY <1>2, <1>14, <1>15

\* The n-th slot of a walk is the first one in X.
FirstAt(w, n, X) == w[n] \in X /\ \A k \in 0 .. n - 1 : w[k] \notin X

LEMMA FirstIsThere ==
    ASSUME NEW key \in Key, NEW size \in TableSizes \cup {1}, NEW X \in SUBSET (0 .. size - 1),
           X # {}
    PROVE  \E n \in 0 .. size + HashDigits : FirstAt(Walk(size, HashOf[key]), n, X)
<1>1. size \in Nat \ {0} /\ HashDigits \in Nat
  BY HashAssumption DEF TableSizes
<1>2. PICK w : w = Walk(size, HashOf[key])
  OBVIOUS
<1>3. PICK i \in X : TRUE
  OBVIOUS
<1>4. PICK l \in 0 .. size + HashDigits : w[l] = i
  BY <1>2, <1>3, WalkVisitsAll
<1> DEFINE S == {n \in 0 .. size + HashDigits : w[n] \in X}
<1>5. l \in S /\ S \in SUBSET Nat
  BY <1>1, <1>3, <1>4
<1>6. PICK n \in S : \A k \in S : n <= k
  <2> HIDE DEF S
  <2> QED BY <1>5, LeastElement
<1>7. n \in 0 .. size + HashDigits /\ n \in Nat /\ w[n] \in X
  BY <1>1, <1>6
<1>8. \A k \in 0 .. n - 1 : w[k] \notin X
  <2> SUFFICES ASSUME NEW k \in 0 .. n - 1, w[k] \in X PROVE FALSE
    OBVIOUS
  <2>1. k \in S
    BY <1>1, <1>7
  <2>2. n <= k
    BY <1>6, <2>1
  <2> QED BY <1>7, <2>2
<1>9. FirstAt(w, n, X)
  BY <1>7, <1>8 DEF FirstAt
<1> QED BY <1>2, <1>7, <1>9

LEMMA WalkStaysIn ==
    ASSUME NEW key \in Key, NEW size \in TableSizes \cup {1}, NEW n \in 0 .. size + HashDigits
    PROVE  Walk(size, HashOf[key])[n] \in 0 .. size - 1
<1>1. size \in Nat \ {0}
  BY DEF TableSizes
<1>2. Walk(size, HashOf[key]) \in [0 .. size + HashDigits -> 0 .. size - 1]
  BY <1>1, WalkSteps
<1> QED BY <1>2

LEMMA WalkDomain ==
    ASSUME NEW key \in Key, NEW size \in TableSizes \cup {1}
    PROVE  DOMAIN Walk(size, HashOf[key]) = 0 .. size + HashDigits
<1>1. size \in Nat \ {0}
  BY DEF TableSizes
<1>2. Walk(size, HashOf[key]) \in [0 .. size + HashDigits -> 0 .. size - 1]
  BY <1>1, WalkSteps
<1> QED BY <1>2

\* What the four probing loops of the map stop at.
NameStops(m, key) ==
    {i \in 0 .. m.table_size - 1 :
        m.indices[i] = EMPTY \/ (m.indices[i] >= 0 /\ m.entries[m.indices[i]].key = key)}
IndexStops(m, ix) == {i \in 0 .. m.table_size - 1 : m.indices[i] \in {EMPTY, ix}}
FreeStops(m) == {i \in 0 .. m.table_size - 1 : m.indices[i] < 0}
EmptyStops(size, indices) == {i \in 0 .. size - 1 : indices[i] = EMPTY}

LEMMA NameLookupStops ==
    ASSUME NEW m, NEW key \in Key, m.table_size \in TableSizes \cup {1}, NameStops(m, key) # {}
    PROVE  \E n \in 0 .. m.table_size + HashDigits :
              /\ FirstAt(Walk(m.table_size, HashOf[key]), n, NameStops(m, key))
              /\ NameLookup(m, key) = m.indices[Walk(m.table_size, HashOf[key])[n]]
<1> DEFINE size == m.table_size
<1> DEFINE w == Walk(size, HashOf[key])
<1> DEFINE Stop(i) == m.indices[i] = EMPTY \/ (m.indices[i] >= 0 /\ m.entries[m.indices[i]].key = key)
<1> DEFINE Q(n) == Stop(w[n]) /\ \A k \in 0 .. n - 1 : ~ Stop(w[k])
<1>1. \A n \in 0 .. size + HashDigits : Q(n) <=> FirstAt(w, n, NameStops(m, key))
  <2> SUFFICES ASSUME NEW n \in 0 .. size + HashDigits
               PROVE  Q(n) <=> FirstAt(w, n, NameStops(m, key))
    OBVIOUS
  <2>1. size \in Nat /\ HashDigits \in Nat
    BY HashAssumption DEF TableSizes
  <2>2. \A k \in 0 .. n : k \in 0 .. size + HashDigits
    BY <2>1
  <2>3. \A k \in 0 .. n : w[k] \in 0 .. size - 1
    BY <2>2, WalkStaysIn
  <2>4. \A k \in 0 .. n : Stop(w[k]) <=> w[k] \in NameStops(m, key)
    BY <2>3, Zenon DEF NameStops
  <2>5. n \in 0 .. n /\ \A k \in 0 .. n - 1 : k \in 0 .. n
    BY <2>1
  <2> HIDE DEF Stop, w
  <2> QED BY <2>4, <2>5, Zenon DEF FirstAt
<1>2. NameLookup(m, key) = m.indices[w[CHOOSE n \in DOMAIN w : Q(n)]]
  BY Zenon DEF NameLookup, FirstSlot
<1>3. NameStops(m, key) \in SUBSET (0 .. size - 1)
  BY DEF NameStops
<1>4. DOMAIN w = 0 .. size + HashDigits
  BY WalkDomain
<1> HIDE DEF Q
<1>5. PICK l \in 0 .. size + HashDigits : FirstAt(w, l, NameStops(m, key))
  BY <1>3, FirstIsThere
<1> HIDE DEF w
<1>6. PICK n : n = CHOOSE j \in DOMAIN w : Q(j)
  OBVIOUS
<1>7. n \in DOMAIN w /\ Q(n)
  BY <1>1, <1>4, <1>5, <1>6, Zenon
<1>8. /\ n \in 0 .. size + HashDigits /\ FirstAt(w, n, NameStops(m, key))
      /\ NameLookup(m, key) = m.indices[w[n]]
  BY <1>1, <1>2, <1>4, <1>6, <1>7, Zenon
<1> QED BY <1>8, Zenon DEF w

LEMMA IndexLookupStops ==
    ASSUME NEW m, NEW key \in Key, NEW ix, m.table_size \in TableSizes \cup {1}, IndexStops(m, ix) # {}
    PROVE  \E n \in 0 .. m.table_size + HashDigits :
              /\ FirstAt(Walk(m.table_size, HashOf[key]), n, IndexStops(m, ix))
              /\ IndexLookup(m, key, ix) = Walk(m.table_size, HashOf[key])[n]
<1> DEFINE size == m.table_size
<1> DEFINE w == Walk(size, HashOf[key])
<1> DEFINE Stop(i) == m.indices[i] \in {EMPTY, ix}
<1> DEFINE Q(n) == Stop(w[n]) /\ \A k \in 0 .. n - 1 : ~ Stop(w[k])
<1>1. \A n \in 0 .. size + HashDigits : Q(n) <=> FirstAt(w, n, IndexStops(m, ix))
  <2> SUFFICES ASSUME NEW n \in 0 .. size + HashDigits
               PROVE  Q(n) <=> FirstAt(w, n, IndexStops(m, ix))
    OBVIOUS
  <2>1. size \in Nat /\ HashDigits \in Nat
    BY HashAssumption DEF TableSizes
  <2>2. \A k \in 0 .. n : k \in 0 .. size + HashDigits
    BY <2>1
  <2>3. \A k \in 0 .. n : w[k] \in 0 .. size - 1
    BY <2>2, WalkStaysIn
  <2>4. \A k \in 0 .. n : Stop(w[k]) <=> w[k] \in IndexStops(m, ix)
    BY <2>3, Zenon DEF IndexStops
  <2>5. n \in 0 .. n /\ \A k \in 0 .. n - 1 : k \in 0 .. n
    BY <2>1
  <2> HIDE DEF Stop, w
  <2> QED BY <2>4, <2>5, Zenon DEF FirstAt
<1>2. IndexLookup(m, key, ix) = w[CHOOSE n \in DOMAIN w : Q(n)]
  BY Zenon DEF IndexLookup, FirstSlot
<1>3. IndexStops(m, ix) \in SUBSET (0 .. size - 1)
  BY DEF IndexStops
<1>4. DOMAIN w = 0 .. size + HashDigits
  BY WalkDomain
<1> HIDE DEF Q
<1>5. PICK l \in 0 .. size + HashDigits : FirstAt(w, l, IndexStops(m, ix))
  BY <1>3, FirstIsThere
<1> HIDE DEF w
<1>6. PICK n : n = CHOOSE j \in DOMAIN w : Q(j)
  OBVIOUS
<1>7. n \in DOMAIN w /\ Q(n)
  BY <1>1, <1>4, <1>5, <1>6, Zenon
<1>8. /\ n \in 0 .. size + HashDigits /\ FirstAt(w, n, IndexStops(m, ix))
      /\ IndexLookup(m, key, ix) = w[n]
  BY <1>1, <1>2, <1>4, <1>6, <1>7, Zenon
<1> QED BY <1>8, Zenon DEF w

LEMMA FindEmptySlotStops ==
    ASSUME NEW m, NEW key \in Key, m.table_size \in TableSizes \cup {1}, FreeStops(m) # {}
    PROVE  \E n \in 0 .. m.table_size + HashDigits :
              /\ FirstAt(Walk(m.table_size, HashOf[key]), n, FreeStops(m))
              /\ FindEmptySlot(m, key) = Walk(m.table_size, HashOf[key])[n]
<1> DEFINE size == m.table_size
<1> DEFINE w == Walk(size, HashOf[key])
<1> DEFINE Stop(i) == m.indices[i] < 0
<1> DEFINE Q(n) == Stop(w[n]) /\ \A k \in 0 .. n - 1 : ~ Stop(w[k])
<1>1. \A n \in 0 .. size + HashDigits : Q(n) <=> FirstAt(w, n, FreeStops(m))
  <2> SUFFICES ASSUME NEW n \in 0 .. size + HashDigits
               PROVE  Q(n) <=> FirstAt(w, n, FreeStops(m))
    OBVIOUS
  <2>1. size \in Nat /\ HashDigits \in Nat
    BY HashAssumption DEF TableSizes
  <2>2. \A k \in 0 .. n : k \in 0 .. size + HashDigits
    BY <2>1
  <2>3. \A k \in 0 .. n : w[k] \in 0 .. size - 1
    BY <2>2, WalkStaysIn
  <2>4. \A k \in 0 .. n : Stop(w[k]) <=> w[k] \in FreeStops(m)
    BY <2>3, Zenon DEF FreeStops
  <2>5. n \in 0 .. n /\ \A k \in 0 .. n - 1 : k \in 0 .. n
    BY <2>1
  <2> HIDE DEF Stop, w
  <2> QED BY <2>4, <2>5, Zenon DEF FirstAt
<1>2. FindEmptySlot(m, key) = w[CHOOSE n \in DOMAIN w : Q(n)]
  BY Zenon DEF FindEmptySlot, FirstSlot
<1>3. FreeStops(m) \in SUBSET (0 .. size - 1)
  BY DEF FreeStops
<1>4. DOMAIN w = 0 .. size + HashDigits
  BY WalkDomain
<1> HIDE DEF Q
<1>5. PICK l \in 0 .. size + HashDigits : FirstAt(w, l, FreeStops(m))
  BY <1>3, FirstIsThere
<1> HIDE DEF w
<1>6. PICK n : n = CHOOSE j \in DOMAIN w : Q(j)
  OBVIOUS
<1>7. n \in DOMAIN w /\ Q(n)
  BY <1>1, <1>4, <1>5, <1>6, Zenon
<1>8. /\ n \in 0 .. size + HashDigits /\ FirstAt(w, n, FreeStops(m))
      /\ FindEmptySlot(m, key) = w[n]
  BY <1>1, <1>2, <1>4, <1>6, <1>7, Zenon
<1> QED BY <1>8, Zenon DEF w

LEMMA PlacedStops ==
    ASSUME NEW size, NEW indices, NEW ix, NEW key \in Key, size \in TableSizes \cup {1}, EmptyStops(size, indices) # {}
    PROVE  \E n \in 0 .. size + HashDigits :
              /\ FirstAt(Walk(size, HashOf[key]), n, EmptyStops(size, indices))
              /\ Placed(size, indices, ix, key) = [indices EXCEPT ![Walk(size, HashOf[key])[n]] = ix]
<1> DEFINE w == Walk(size, HashOf[key])
<1> DEFINE Stop(i) == indices[i] = EMPTY
<1> DEFINE Q(n) == Stop(w[n]) /\ \A k \in 0 .. n - 1 : ~ Stop(w[k])
<1>1. \A n \in 0 .. size + HashDigits : Q(n) <=> FirstAt(w, n, EmptyStops(size, indices))
  <2> SUFFICES ASSUME NEW n \in 0 .. size + HashDigits
               PROVE  Q(n) <=> FirstAt(w, n, EmptyStops(size, indices))
    OBVIOUS
  <2>1. size \in Nat /\ HashDigits \in Nat
    BY HashAssumption DEF TableSizes
  <2>2. \A k \in 0 .. n : k \in 0 .. size + HashDigits
    BY <2>1
  <2>3. \A k \in 0 .. n : w[k] \in 0 .. size - 1
    BY <2>2, WalkStaysIn
  <2>4. \A k \in 0 .. n : Stop(w[k]) <=> w[k] \in EmptyStops(size, indices)
    BY <2>3, Zenon DEF EmptyStops
  <2>5. n \in 0 .. n /\ \A k \in 0 .. n - 1 : k \in 0 .. n
    BY <2>1
  <2> HIDE DEF Stop, w
  <2> QED BY <2>4, <2>5, Zenon DEF FirstAt
<1>2. Placed(size, indices, ix, key) = [indices EXCEPT ![w[CHOOSE n \in DOMAIN w : Q(n)]] = ix]
  BY Zenon DEF Placed, FirstSlot
<1>3. EmptyStops(size, indices) \in SUBSET (0 .. size - 1)
  BY DEF EmptyStops
<1>4. DOMAIN w = 0 .. size + HashDigits
  BY WalkDomain
<1> HIDE DEF Q
<1>5. PICK l \in 0 .. size + HashDigits : FirstAt(w, l, EmptyStops(size, indices))
  BY <1>3, FirstIsThere
<1> HIDE DEF w
<1>6. PICK n : n = CHOOSE j \in DOMAIN w : Q(j)
  OBVIOUS
<1>7. n \in DOMAIN w /\ Q(n)
  BY <1>1, <1>4, <1>5, <1>6, Zenon
<1>8. /\ n \in 0 .. size + HashDigits /\ FirstAt(w, n, EmptyStops(size, indices))
      /\ Placed(size, indices, ix, key) = [indices EXCEPT ![w[n]] = ix]
  BY <1>1, <1>2, <1>4, <1>6, <1>7, Zenon
<1> QED BY <1>8, Zenon DEF w

----------------------------------------------------------------------------
(* Probe chains                                                            *)

\* The n-th slot of a walk holds ix, and nothing before it ends the probing.
Reaches(indices, w, n, ix) ==
    indices[w[n]] = ix /\ \A k \in 0 .. n - 1 : indices[w[k]] # EMPTY

Filled(size, indices) == {i \in 0 .. size - 1 : indices[i] # EMPTY}

\* Every live entry of L, with the key that keyOf says, is in one slot, which the
\* walk of its key reaches; every slot that is not EMPTY or DUMMY names a live entry.
Chained(size, indices, keyOf, L) ==
    /\ indices \in [0 .. size - 1 -> {EMPTY, DUMMY} \cup L]
    /\ \A i, j \in 0 .. size - 1 : indices[i] = indices[j] /\ indices[i] \in L => i = j
    /\ \A ix \in L : \E n \in 0 .. size + HashDigits :
          Reaches(indices, Walk(size, HashOf[keyOf[ix]]), n, ix)

\* A new entry goes to a slot of its own walk, with no EMPTY slot before it.
LEMMA ChainPlace ==
    ASSUME NEW size \in TableSizes \cup {1}, NEW indices, NEW keyOf, NEW L \in SUBSET Nat,
           Chained(size, indices, keyOf, L), \A ix \in L : keyOf[ix] \in Key,
           NEW c \in Nat \ L, NEW key \in Key, NEW n \in 0 .. size + HashDigits,
           indices[Walk(size, HashOf[key])[n]] < 0,
           \A k \in 0 .. n - 1 : indices[Walk(size, HashOf[key])[k]] # EMPTY,
           NEW keyOf2, \A ix \in L : keyOf2[ix] = keyOf[ix], keyOf2[c] = key,
           NEW indices2, indices2 = [indices EXCEPT ![Walk(size, HashOf[key])[n]] = c]
    PROVE  Chained(size, indices2, keyOf2, L \cup {c})
<1>1. size \in Nat \ {0} /\ HashDigits \in Nat
  BY HashAssumption DEF TableSizes
<1>2. PICK w : w = Walk(size, HashOf[key])
  OBVIOUS
<1>3. PICK s \in 0 .. size - 1 : s = w[n]
  BY <1>2, WalkStaysIn
<1>4. /\ indices \in [0 .. size - 1 -> {EMPTY, DUMMY} \cup L]
      /\ \A i, j \in 0 .. size - 1 : indices[i] = indices[j] /\ indices[i] \in L => i = j
      /\ \A ix \in L : \E l \in 0 .. size + HashDigits :
            Reaches(indices, Walk(size, HashOf[keyOf[ix]]), l, ix)
  BY DEF Chained
<1>5. /\ indices2 \in [0 .. size - 1 -> {EMPTY, DUMMY} \cup (L \cup {c})]
      /\ indices2[s] = c /\ \A i \in 0 .. size - 1 : i # s => indices2[i] = indices[i]
  BY <1>2, <1>3, <1>4
<1>6. indices[s] < 0
  BY <1>2, <1>3
<1>7. ASSUME NEW i \in 0 .. size - 1, NEW j \in 0 .. size - 1,
             indices2[i] = indices2[j], indices2[i] \in L \cup {c}
      PROVE  i = j
  <2>1. \A k \in 0 .. size - 1 : k # s => indices2[k] # c
    BY <1>4, <1>5 DEF EMPTY, DUMMY
  <2>2. CASE indices2[i] = c
    BY <1>7, <2>1, <2>2
  <2>3. CASE indices2[i] # c
    <3>1. i # s /\ j # s
      BY <1>5, <1>7, <2>3
    <3>2. indices[i] = indices[j] /\ indices[i] \in L
      BY <1>5, <1>7, <2>3, <3>1
    <3> QED BY <1>4, <3>2
  <2> QED BY <2>2, <2>3
<1>8. \A i \in 0 .. size - 1 : indices[i] # EMPTY => indices2[i] # EMPTY
  BY <1>5 DEF EMPTY
<1>9. ASSUME NEW ix \in L
      PROVE  \E l \in 0 .. size + HashDigits :
                Reaches(indices2, Walk(size, HashOf[keyOf2[ix]]), l, ix)
  <2>1. PICK v : v = Walk(size, HashOf[keyOf[ix]])
    OBVIOUS
  <2>2. PICK l \in 0 .. size + HashDigits : Reaches(indices, v, l, ix)
    BY <1>4, <2>1
  <2>3. \A k \in 0 .. size + HashDigits : v[k] \in 0 .. size - 1
    BY <2>1, WalkStaysIn
  <2>4. v[l] # s
    <3>1. indices[v[l]] = ix
      BY <2>2 DEF Reaches
    <3> QED BY <1>6, <3>1
  <2>5. indices2[v[l]] = ix
    BY <1>5, <2>2, <2>3, <2>4 DEF Reaches
  <2>6. \A k \in 0 .. l - 1 : k \in 0 .. size + HashDigits
    BY <1>1
  <2>7. \A k \in 0 .. l - 1 : indices2[v[k]] # EMPTY
    BY <1>8, <2>2, <2>3, <2>6 DEF Reaches
  <2>8. Reaches(indices2, v, l, ix)
    BY <2>5, <2>7 DEF Reaches
  <2>9. v = Walk(size, HashOf[keyOf2[ix]])
    BY <2>1
  <2> QED BY <2>8, <2>9
<1>10. Reaches(indices2, Walk(size, HashOf[keyOf2[c]]), n, c)
  <2>1. \A k \in 0 .. n - 1 : k \in 0 .. size + HashDigits
    BY <1>1
  <2>2. \A k \in 0 .. n - 1 : w[k] \in 0 .. size - 1 /\ indices[w[k]] # EMPTY
    BY <1>2, <2>1, WalkStaysIn
  <2>3. \A k \in 0 .. n - 1 : indices2[w[k]] # EMPTY
    BY <1>8, <2>2
  <2>4. Reaches(indices2, w, n, c)
    BY <1>3, <1>5, <2>3 DEF Reaches
  <2>5. w = Walk(size, HashOf[keyOf2[c]])
    BY <1>2
  <2> QED BY <2>4, <2>5
<1>11. \A ix \in L \cup {c} : \E l \in 0 .. size + HashDigits :
          Reaches(indices2, Walk(size, HashOf[keyOf2[ix]]), l, ix)
  <2> SUFFICES ASSUME NEW ix \in L \cup {c}
               PROVE  \E l \in 0 .. size + HashDigits :
                         Reaches(indices2, Walk(size, HashOf[keyOf2[ix]]), l, ix)
    OBVIOUS
  <2>1. CASE ix \in L
    BY <1>9, <2>1, Zenon
  <2>2. CASE ix = c
    BY <1>10, <2>2, Zenon
  <2> QED BY <2>1, <2>2
<1>12. \A i, j \in 0 .. size - 1 : indices2[i] = indices2[j] /\ indices2[i] \in L \cup {c} => i = j
  BY <1>7
<1>13. indices2 \in [0 .. size - 1 -> {EMPTY, DUMMY} \cup (L \cup {c})]
  BY <1>5
<1> QED BY <1>11, <1>12, <1>13, Zenon DEF Chained

\* A slot marked DUMMY ends no probing.
LEMMA ChainRemove ==
    ASSUME NEW size \in TableSizes \cup {1}, NEW indices, NEW keyOf, NEW L \in SUBSET Nat,
           Chained(size, indices, keyOf, L), \A ix \in L : keyOf[ix] \in Key,
           NEW c \in L, NEW s \in 0 .. size - 1, indices[s] = c,
           NEW keyOf2, \A ix \in L \ {c} : keyOf2[ix] = keyOf[ix],
           NEW indices2, indices2 = [indices EXCEPT ![s] = DUMMY]
    PROVE  Chained(size, indices2, keyOf2, L \ {c})
<1>1. size \in Nat \ {0} /\ HashDigits \in Nat
  BY HashAssumption DEF TableSizes
<1>2. /\ indices \in [0 .. size - 1 -> {EMPTY, DUMMY} \cup L]
      /\ \A i, j \in 0 .. size - 1 : indices[i] = indices[j] /\ indices[i] \in L => i = j
      /\ \A ix \in L : \E l \in 0 .. size + HashDigits :
            Reaches(indices, Walk(size, HashOf[keyOf[ix]]), l, ix)
  BY DEF Chained
<1>3. /\ indices2[s] = DUMMY /\ \A i \in 0 .. size - 1 : i # s => indices2[i] = indices[i]
      /\ DOMAIN indices2 = 0 .. size - 1
      /\ indices2 = [i \in 0 .. size - 1 |-> indices2[i]]
  BY <1>2
<1>4. \A i \in 0 .. size - 1 : i # s => indices[i] # c
  BY <1>2
<1>5. indices2 \in [0 .. size - 1 -> {EMPTY, DUMMY} \cup (L \ {c})]
  <2>1. \A i \in 0 .. size - 1 : indices2[i] \in {EMPTY, DUMMY} \cup (L \ {c})
    BY <1>2, <1>3, <1>4
  <2> QED BY <1>3, <2>1
<1>6. \A i, j \in 0 .. size - 1 : indices2[i] = indices2[j] /\ indices2[i] \in L \ {c} => i = j
  <2> SUFFICES ASSUME NEW i \in 0 .. size - 1, NEW j \in 0 .. size - 1,
                      indices2[i] = indices2[j], indices2[i] \in L \ {c}
               PROVE  i = j
    OBVIOUS
  <2>1. i # s /\ j # s
    BY <1>3 DEF DUMMY
  <2> QED BY <1>2, <1>3, <2>1
<1>7. \A i \in 0 .. size - 1 : indices[i] # EMPTY => indices2[i] # EMPTY
  BY <1>3 DEF EMPTY, DUMMY
<1>8. \A ix \in L \ {c} : \E l \in 0 .. size + HashDigits :
         Reaches(indices2, Walk(size, HashOf[keyOf2[ix]]), l, ix)
  <2> SUFFICES ASSUME NEW ix \in L \ {c}
               PROVE  \E l \in 0 .. size + HashDigits :
                         Reaches(indices2, Walk(size, HashOf[keyOf2[ix]]), l, ix)
    OBVIOUS
  <2>1. PICK v : v = Walk(size, HashOf[keyOf[ix]])
    OBVIOUS
  <2>2. PICK l \in 0 .. size + HashDigits : Reaches(indices, v, l, ix)
    BY <1>2, <2>1
  <2>3. \A k \in 0 .. size + HashDigits : v[k] \in 0 .. size - 1
    BY <2>1, WalkStaysIn
  <2>4. indices[v[l]] = ix
    BY <2>2 DEF Reaches
  <2>5. v[l] # s
    BY <2>4
  <2>6. indices2[v[l]] = ix
    BY <1>3, <2>3, <2>4, <2>5
  <2>7. \A k \in 0 .. l - 1 : k \in 0 .. size + HashDigits
    BY <1>1
  <2>8. \A k \in 0 .. l - 1 : indices2[v[k]] # EMPTY
    BY <1>7, <2>2, <2>3, <2>7 DEF Reaches
  <2>9. Reaches(indices2, v, l, ix)
    BY <2>6, <2>8 DEF Reaches
  <2>10. v = Walk(size, HashOf[keyOf2[ix]])
    BY <2>1
  <2> QED BY <2>9, <2>10
<1> QED BY <1>5, <1>6, <1>8, Zenon DEF Chained

\* A table with less than size slots in use has an EMPTY one.
LEMMA FilledBound ==
    ASSUME NEW size \in Nat \ {0}, NEW indices, Cardinality(Filled(size, indices)) < size
    PROVE  \E i \in 0 .. size - 1 : indices[i] = EMPTY
<1> SUFFICES ASSUME \A i \in 0 .. size - 1 : indices[i] # EMPTY PROVE FALSE
  OBVIOUS
<1>1. Filled(size, indices) = 0 .. size - 1
  BY DEF Filled
<1>2. Cardinality(0 .. size - 1) = size
  <2>1. Cardinality(0 .. size - 1) = IF 0 > size - 1 THEN 0 ELSE size - 1 - 0 + 1
    BY FS_Interval
  <2> QED BY <2>1
<1> QED BY <1>1, <1>2

LEMMA FilledGrows ==
    ASSUME NEW size \in Nat \ {0}, NEW indices, NEW s, NEW c,
           NEW indices2, indices2 = [indices EXCEPT ![s] = c], DOMAIN indices = 0 .. size - 1
    PROVE  /\ IsFiniteSet(Filled(size, indices2))
           /\ Cardinality(Filled(size, indices2)) <= Cardinality(Filled(size, indices)) + 1
           /\ indices[s] # EMPTY => Cardinality(Filled(size, indices2)) <= Cardinality(Filled(size, indices))
<1> DEFINE F == Filled(size, indices)
<1> DEFINE G == Filled(size, indices2)
<1>1. IsFiniteSet(F) /\ IsFiniteSet(0 .. size - 1)
  <2>1. IsFiniteSet(0 .. size - 1)
    BY FS_Interval
  <2>2. F \in SUBSET (0 .. size - 1)
    BY DEF Filled
  <2> QED BY <2>1, <2>2, FS_Subset
<1>2. IsFiniteSet(F \cup {s}) /\ Cardinality(F \cup {s}) = IF s \in F THEN Cardinality(F) ELSE Cardinality(F) + 1
  <2> HIDE DEF F
  <2> QED BY <1>1, FS_AddElement
<1>3. G \in SUBSET (F \cup {s})
  BY DEF Filled
<1>4. IsFiniteSet(G) /\ Cardinality(G) <= Cardinality(F \cup {s})
  <2> HIDE DEF F, G
  <2> QED BY <1>2, <1>3, FS_Subset
<1>5. Cardinality(F) \in Nat /\ Cardinality(G) \in Nat
  <2> HIDE DEF F, G
  <2> QED BY <1>1, <1>4, FS_CardinalityType
<1>6. indices[s] # EMPTY => s \in F \/ G = F
  <2>1. CASE s \in 0 .. size - 1
    BY <2>1 DEF Filled
  <2>2. CASE s \notin 0 .. size - 1
    <3>1. \A i \in 0 .. size - 1 : indices2[i] = indices[i]
      BY <2>2
    <3>2. G = F
      BY <3>1 DEF Filled
    <3> QED BY <3>2
  <2> QED BY <2>1, <2>2
<1> HIDE DEF F, G
<1>7. Cardinality(G) <= Cardinality(F) + 1 /\ (indices[s] # EMPTY => Cardinality(G) <= Cardinality(F))
  BY <1>2, <1>4, <1>5, <1>6
<1> QED BY <1>4, <1>7 DEF F, G

----------------------------------------------------------------------------
(* Maps                                                                    *)

Entry == [key : Key \cup {NoKey}, value : Nat \cup {-1}]

IsMap(m) ==
    m = [ table_size |-> m.table_size, usable |-> m.usable, nentries |-> m.nentries,
          used |-> m.used, indices |-> m.indices, entries |-> m.entries ]

\* The bookkeeping of the entry array.
Balanced(m) ==
    /\ IsMap(m)
    /\ m.table_size \in TableSizes \cup {1}
    /\ m.usable \in Nat /\ m.nentries \in Nat
    /\ m.usable + m.nentries = UsableFraction(m.table_size)
    /\ m.entries \in [0 .. UsableFraction(m.table_size) - 1 -> Entry]
    /\ m.used = Cardinality(LiveIx(m))

\* The live entries have names, each its own.
Named(m) ==
    /\ \A ix \in LiveIx(m) : m.entries[ix].key \in Key
    /\ \A a, b \in LiveIx(m) : m.entries[a].key = m.entries[b].key => a = b

KeyOf(m) == [ix \in LiveIx(m) |-> m.entries[ix].key]

\* The inductive invariant: the probe chains of the live entries are whole, and the
\* slots in use, DUMMY ones too, are no more than the entries ever used.
Sound(m) ==
    /\ Balanced(m)
    /\ Named(m)
    /\ Chained(m.table_size, m.indices, KeyOf(m), LiveIx(m))
    /\ Cardinality(Filled(m.table_size, m.indices)) <= m.nentries

LEMMA Room ==
    ASSUME NEW size \in TableSizes \cup {1}
    PROVE  size \in Nat \ {0} /\ UsableFraction(size) \in Nat /\ UsableFraction(size) < size
           /\ (size # 1 => UsableFraction(size) >= 5)
BY DEF TableSizes, UsableFraction

LEMMA LiveFacts ==
    ASSUME NEW m, Balanced(m)
    PROVE  /\ LiveIx(m) \in SUBSET (0 .. m.nentries - 1)
           /\ LiveIx(m) \in SUBSET Nat
           /\ 0 .. m.nentries - 1 \in SUBSET (0 .. UsableFraction(m.table_size) - 1)
           /\ IsFiniteSet(LiveIx(m))
           /\ m.used \in Nat /\ m.used <= m.nentries
           /\ \A ix \in LiveIx(m) : m.entries[ix] \in Entry /\ m.entries[ix].value \in Nat
           /\ m.table_size \in Nat \ {0} /\ UsableFraction(m.table_size) \in Nat
           /\ m.nentries <= UsableFraction(m.table_size) /\ m.nentries < m.table_size
<1>1. /\ m.table_size \in TableSizes \cup {1} /\ m.usable \in Nat /\ m.nentries \in Nat
      /\ m.usable + m.nentries = UsableFraction(m.table_size)
      /\ m.entries \in [0 .. UsableFraction(m.table_size) - 1 -> Entry]
      /\ m.used = Cardinality(LiveIx(m))
  BY DEF Balanced
<1>2. /\ m.table_size \in Nat \ {0} /\ UsableFraction(m.table_size) \in Nat
      /\ UsableFraction(m.table_size) < m.table_size
  BY <1>1, Room
<1>3. /\ LiveIx(m) \in SUBSET (0 .. m.nentries - 1) /\ LiveIx(m) \in SUBSET Nat
      /\ \A ix \in LiveIx(m) : m.entries[ix].value # -1
  BY <1>1 DEF LiveIx
<1>4. /\ m.nentries <= UsableFraction(m.table_size)
      /\ 0 .. m.nentries - 1 \in SUBSET (0 .. UsableFraction(m.table_size) - 1)
  BY <1>1, <1>2
<1>5. IsFiniteSet(0 .. m.nentries - 1) /\ Cardinality(0 .. m.nentries - 1) = m.nentries
  <2>1. /\ IsFiniteSet(0 .. m.nentries - 1)
        /\ Cardinality(0 .. m.nentries - 1) = IF 0 > m.nentries - 1 THEN 0 ELSE m.nentries - 1 - 0 + 1
    <3>1. 0 \in Int /\ m.nentries - 1 \in Int
      BY <1>1
    <3> QED BY <3>1, FS_Interval
  <2> QED BY <1>1, <2>1
<1>6. IsFiniteSet(LiveIx(m)) /\ Cardinality(LiveIx(m)) <= m.nentries
  BY <1>3, <1>5, FS_Subset
<1>7. Cardinality(LiveIx(m)) \in Nat
  BY <1>6, FS_CardinalityType
<1>8. \A ix \in LiveIx(m) : m.entries[ix] \in Entry
  BY <1>1, <1>3, <1>4
<1>9. \A ix \in LiveIx(m) : m.entries[ix].value \in Nat
  BY <1>3, <1>8 DEF Entry
<1> QED BY <1>1, <1>2, <1>3, <1>4, <1>6, <1>7, <1>8, <1>9

\* A sound map has an EMPTY slot.
LEMMA SoundHasEmpty ==
    ASSUME NEW m, Sound(m)
    PROVE  \E i \in 0 .. m.table_size - 1 : m.indices[i] = EMPTY
<1>1. m.table_size \in Nat \ {0} /\ m.nentries < m.table_size /\ m.nentries \in Nat
  BY LiveFacts DEF Sound, Balanced
<1>2. IsFiniteSet(Filled(m.table_size, m.indices))
  <2>1. IsFiniteSet(0 .. m.table_size - 1)
    BY SMTT(60), <1>1, FS_Interval
  <2>2. Filled(m.table_size, m.indices) \in SUBSET (0 .. m.table_size - 1)
    BY DEF Filled
  <2> QED BY <2>1, <2>2, FS_Subset
<1>3. Cardinality(Filled(m.table_size, m.indices)) \in Nat
  BY <1>2, FS_CardinalityType
<1>4. Cardinality(Filled(m.table_size, m.indices)) < m.table_size
  BY <1>1, <1>3 DEF Sound
<1> QED BY <1>1, <1>4, FilledBound

\* A lookup finds the entry of a name that is there, and nothing for one that is not.
LEMMA LookupFinds ==
    ASSUME NEW m, Sound(m), NEW key \in Key
    PROVE  /\ \A ix \in LiveIx(m) : m.entries[ix].key = key => NameLookup(m, key) = ix
           /\ \/ NameLookup(m, key) = EMPTY
              \/ NameLookup(m, key) \in LiveIx(m) /\ m.entries[NameLookup(m, key)].key = key
<1> DEFINE size == m.table_size
<1> DEFINE X == NameStops(m, key)
<1>1. /\ size \in TableSizes \cup {1} /\ LiveIx(m) \in SUBSET Nat
      /\ HashDigits \in Nat
  BY HashAssumption, LiveFacts DEF Sound, Balanced
<1>2. PICK w : w = Walk(size, HashOf[key])
  OBVIOUS
<1>3. PICK e \in 0 .. size - 1 : m.indices[e] = EMPTY
  BY SoundHasEmpty
<1>4. X # {}
  BY <1>3 DEF NameStops
<1>5. PICK n \in 0 .. size + HashDigits : FirstAt(w, n, X) /\ NameLookup(m, key) = m.indices[w[n]]
  <2> HIDE DEF X
  <2> QED BY <1>1, <1>2, <1>4, NameLookupStops DEF X
<1>6. w[n] \in 0 .. size - 1 /\ w[n] \in X /\ \A k \in 0 .. n - 1 : w[k] \notin X
  BY <1>1, <1>2, <1>5, WalkStaysIn DEF FirstAt
<1>7. /\ m.indices \in [0 .. size - 1 -> {EMPTY, DUMMY} \cup LiveIx(m)]
      /\ \A ix \in LiveIx(m) : \E l \in 0 .. size + HashDigits :
            Reaches(m.indices, Walk(size, HashOf[KeyOf(m)[ix]]), l, ix)
  BY DEF Sound, Chained
<1>8. \/ m.indices[w[n]] = EMPTY
      \/ m.indices[w[n]] \in LiveIx(m) /\ m.entries[m.indices[w[n]]].key = key
  <2>1. PICK c : c = m.indices[w[n]]
    OBVIOUS
  <2>2. c \in {EMPTY, DUMMY} \cup LiveIx(m)
    BY <1>6, <1>7, <2>1
  <2>3. c = EMPTY \/ (c >= 0 /\ m.entries[c].key = key)
    BY <1>6, <2>1, Zenon DEF NameStops
  <2>4. c # DUMMY \/ c = EMPTY
    BY <2>3 DEF DUMMY, EMPTY
  <2>5. c = EMPTY \/ (c \in LiveIx(m) /\ m.entries[c].key = key)
    BY <2>2, <2>3, <2>4
  <2> QED BY <2>1, <2>5
<1>9. ASSUME NEW ix \in LiveIx(m), m.entries[ix].key = key PROVE m.indices[w[n]] = ix
  <2>1. KeyOf(m)[ix] = key
    BY <1>9 DEF KeyOf
  <2>2. PICK l \in 0 .. size + HashDigits : Reaches(m.indices, w, l, ix)
    BY <1>2, <1>7, <2>1
  <2>3. m.indices[w[l]] = ix /\ \A k \in 0 .. l - 1 : m.indices[w[k]] # EMPTY
    BY <2>2 DEF Reaches
  <2>4. w[l] \in 0 .. size - 1
    BY <1>1, <1>2, WalkStaysIn
  <2>5. w[l] \in X
    BY <1>1, <1>9, <2>3, <2>4 DEF NameStops
  <2>6. size \in Nat
    BY <1>1, Room
  <2>7. n <= l
    BY <1>1, <1>6, <2>5, <2>6
  <2>8. CASE n = l
    BY <2>3, <2>8
  <2>9. CASE n # l
    <3>1. m.indices[w[n]] # EMPTY
      BY <1>1, <2>3, <2>6, <2>7, <2>9
    <3>2. m.indices[w[n]] \in LiveIx(m) /\ m.entries[m.indices[w[n]]].key = key
      BY <1>8, <3>1
    <3> QED BY <1>9, <3>2, Zenon DEF Sound, Named
  <2> QED BY <2>8, <2>9
<1> QED BY <1>5, <1>8, <1>9, Zenon

----------------------------------------------------------------------------
(* The operations on maps                                                  *)

\* The new entry goes behind the last one used.
Appended(m, m2, key, value) ==
    /\ LiveIx(m2) = LiveIx(m) \cup {m.nentries}
    /\ \A ix \in LiveIx(m) : ix < m.nentries /\ m2.entries[ix] = m.entries[ix]
    /\ m2.entries[m.nentries] = [key |-> key, value |-> value]

LEMMA AppendIsSound ==
    ASSUME NEW m, Sound(m), m.usable > 0, NEW key \in Key, key \notin NamesOf(m),
           NEW value \in Nat
    PROVE  /\ Sound(AppendEntry(m, key, value))
           /\ Appended(m, AppendEntry(m, key, value), key, value)
           /\ AppendEntry(m, key, value).table_size = m.table_size
<1> DEFINE size == m.table_size
<1> DEFINE c == m.nentries
<1> DEFINE L == LiveIx(m)
<1>1. /\ m = [ table_size |-> m.table_size, usable |-> m.usable, nentries |-> m.nentries,
               used |-> m.used, indices |-> m.indices, entries |-> m.entries ]
      /\ m.usable \in Nat /\ c \in Nat /\ m.usable + c = UsableFraction(size)
      /\ m.entries \in [0 .. UsableFraction(size) - 1 -> Entry]
      /\ m.used = Cardinality(L) /\ size \in TableSizes \cup {1}
  BY DEF Sound, Balanced, IsMap
<1>2. /\ L \in SUBSET (0 .. c - 1) /\ L \in SUBSET Nat /\ IsFiniteSet(L) /\ m.used \in Nat
      /\ size \in Nat \ {0} /\ UsableFraction(size) \in Nat
  BY LiveFacts DEF Sound
<1>3. c < UsableFraction(size) /\ c \notin L /\ c \in 0 .. UsableFraction(size) - 1
  BY <1>1, <1>2
<1>4. PICK w : w = Walk(size, HashOf[key])
  OBVIOUS
<1>5. PICK s : s = FindEmptySlot(m, key)
  OBVIOUS
<1>6. PICK n \in 0 .. size + HashDigits : s = w[n] /\ FirstAt(w, n, FreeStops(m))
  <2>1. PICK e \in 0 .. size - 1 : m.indices[e] = EMPTY
    BY SoundHasEmpty
  <2>2. FreeStops(m) # {}
    BY <2>1 DEF FreeStops, EMPTY
  <2> QED BY <1>1, <1>4, <1>5, <2>2, FindEmptySlotStops
<1>7. Chained(size, m.indices, KeyOf(m), L) /\ Cardinality(Filled(size, m.indices)) <= c
  BY DEF Sound
<1>8. m.indices \in [0 .. size - 1 -> {EMPTY, DUMMY} \cup L]
  BY <1>7 DEF Chained
<1>9. PICK I2 : I2 = [m.indices EXCEPT ![s] = c]
  OBVIOUS
<1>10. PICK E2 : E2 = [m.entries EXCEPT ![c] = [key |-> key, value |-> value]]
  OBVIOUS
<1>11. PICK m2 : m2 = AppendEntry(m, key, value)
  OBVIOUS
<1>12. m2 = [ table_size |-> size, usable |-> m.usable - 1, nentries |-> c + 1,
              used |-> m.used + 1, indices |-> I2, entries |-> E2 ]
  BY <1>1, <1>5, <1>9, <1>10, <1>11 DEF AppendEntry
<1>13. /\ m2.table_size = size /\ m2.usable = m.usable - 1 /\ m2.nentries = c + 1
       /\ m2.used = m.used + 1 /\ m2.indices = I2 /\ m2.entries = E2
  BY <1>12
<1>14. [key |-> key, value |-> value] \in Entry
  BY DEF Entry
<1>15. /\ E2 \in [0 .. UsableFraction(size) - 1 -> Entry]
       /\ E2[c] = [key |-> key, value |-> value]
       /\ \A ix \in 0 .. c - 1 : E2[ix] = m.entries[ix]
  <2>1. \A ix \in 0 .. c - 1 : ix \in 0 .. UsableFraction(size) - 1 /\ ix # c
    BY <1>1, <1>2, <1>3
  <2> QED BY <1>1, <1>3, <1>10, <1>14, <2>1
<1>16. LiveIx(m2) = L \cup {c}
  <2>1. LiveIx(m2) = {ix \in 0 .. c : E2[ix].value # -1}
    <3>1. (c + 1) - 1 = c
      BY <1>1
    <3> QED BY <1>13, <3>1 DEF LiveIx
  <2>2. E2[c].value # -1
    BY <1>15
  <2>3. L = {ix \in 0 .. c - 1 : E2[ix].value # -1}
    BY <1>15 DEF LiveIx
  <2>4. 0 .. c = (0 .. c - 1) \cup {c}
    BY <1>1
  <2> HIDE DEF L, c
  <2> QED BY <2>1, <2>2, <2>3, <2>4
<1>17. \A ix \in L : ix \in 0 .. c - 1 /\ E2[ix] = m.entries[ix]
  BY <1>2, <1>15
<1>18. Balanced(m2)
  <2>1. Cardinality(L \cup {c}) = Cardinality(L) + 1
    <3> HIDE DEF L, c
    <3> QED BY <1>2, <1>3, FS_AddElement
  <2>2. m2.used = Cardinality(LiveIx(m2))
    BY <1>1, <1>13, <1>16, <2>1
  <2>3. m2.usable \in Nat /\ m2.nentries \in Nat /\ m2.usable + m2.nentries = UsableFraction(m2.table_size)
    BY <1>1, <1>2, <1>13, SMTT(60)
  <2>4. IsMap(m2)
    BY <1>12 DEF IsMap
  <2>5. m2.entries \in [0 .. UsableFraction(m2.table_size) - 1 -> Entry]
    BY <1>13, <1>15
  <2>6. m2.table_size \in TableSizes \cup {1}
    BY <1>1, <1>13
  <2> QED BY <2>2, <2>3, <2>4, <2>5, <2>6 DEF Balanced
<1>19. Named(m2)
  <2>1. \A ix \in L : m.entries[ix].key \in Key /\ m.entries[ix].key # key
    BY DEF Sound, Named, NamesOf
  <2>2. \A a, b \in L : m.entries[a].key = m.entries[b].key => a = b
    BY DEF Sound, Named
  <2>3. \A ix \in L : E2[ix].key = m.entries[ix].key
    BY <1>17
  <2>4. E2[c].key = key
    BY <1>15
  <2>5. \A ix \in L \cup {c} : E2[ix].key \in Key
    BY <2>1, <2>3, <2>4
  <2>6. \A a, b \in L \cup {c} : E2[a].key = E2[b].key => a = b
    BY <2>1, <2>2, <2>3, <2>4
  <2> QED BY <1>13, <1>16, <2>5, <2>6, Zenon DEF Named
<1>20. Chained(size, I2, KeyOf(m2), L \cup {c})
  <2>1. \A ix \in L : KeyOf(m)[ix] = m.entries[ix].key /\ KeyOf(m)[ix] \in Key
    BY DEF KeyOf, Sound, Named
  <2>2. \A ix \in L \cup {c} : KeyOf(m2)[ix] = E2[ix].key
    BY <1>13, <1>16 DEF KeyOf
  <2>3. \A ix \in L : KeyOf(m2)[ix] = KeyOf(m)[ix]
    BY <1>17, <2>1, <2>2
  <2>4. KeyOf(m2)[c] = key
    BY <1>15, <2>2
  <2>5. w[n] \in FreeStops(m) /\ \A k \in 0 .. n - 1 : w[k] \notin FreeStops(m)
    BY <1>6 DEF FirstAt
  <2>6. m.indices[w[n]] < 0
    BY <2>5 DEF FreeStops
  <2>7. \A k \in 0 .. n - 1 : m.indices[w[k]] # EMPTY
    <3> SUFFICES ASSUME NEW k \in 0 .. n - 1 PROVE m.indices[w[k]] # EMPTY
      OBVIOUS
    <3>1. k \in 0 .. size + HashDigits
      BY <1>2, HashAssumption
    <3>2. w[k] \in 0 .. size - 1
      BY <1>1, <1>4, <3>1, WalkStaysIn
    <3> QED BY <2>5, <3>2 DEF FreeStops, EMPTY
  <2>8. I2 = [m.indices EXCEPT ![w[n]] = c]
    BY <1>6, <1>9
  <2>9. /\ size \in TableSizes \cup {1} /\ L \in SUBSET Nat
        /\ Chained(size, m.indices, KeyOf(m), L) /\ (\A ix \in L : KeyOf(m)[ix] \in Key)
        /\ c \in Nat \ L /\ n \in 0 .. size + HashDigits
        /\ m.indices[Walk(size, HashOf[key])[n]] < 0
        /\ (\A k \in 0 .. n - 1 : m.indices[Walk(size, HashOf[key])[k]] # EMPTY)
        /\ (\A ix \in L : KeyOf(m2)[ix] = KeyOf(m)[ix]) /\ KeyOf(m2)[c] = key
        /\ I2 = [m.indices EXCEPT ![Walk(size, HashOf[key])[n]] = c]
    BY <1>1, <1>2, <1>3, <1>4, <1>6, <1>7, <2>1, <2>3, <2>4, <2>6, <2>7, <2>8, Zenon
  <2> HIDE DEF size, c, L
  <2> QED BY <2>9, ChainPlace
<1>21. Cardinality(Filled(size, I2)) <= c + 1
  <2>1. DOMAIN m.indices = 0 .. size - 1
    BY <1>8
  <2>2. /\ IsFiniteSet(Filled(size, I2))
        /\ Cardinality(Filled(size, I2)) <= Cardinality(Filled(size, m.indices)) + 1
    <3> HIDE DEF size, c
    <3> QED BY <1>2, <1>9, <2>1, FilledGrows
  <2>3. IsFiniteSet(Filled(size, m.indices))
    <3>1. IsFiniteSet(0 .. size - 1)
      BY <1>2, FS_Interval, SMTT(60)
    <3>2. Filled(size, m.indices) \in SUBSET (0 .. size - 1)
      BY DEF Filled
    <3> QED BY <3>1, <3>2, FS_Subset
  <2>4. Cardinality(Filled(size, m.indices)) \in Nat /\ Cardinality(Filled(size, I2)) \in Nat
    BY <2>2, <2>3, FS_CardinalityType
  <2> QED BY <1>1, <1>7, <2>2, <2>4
<1>22. Sound(m2)
  BY <1>13, <1>16, <1>18, <1>19, <1>20, <1>21, Zenon DEF Sound
<1>23. Appended(m, m2, key, value)
  <2>1. \A ix \in L : ix < c
    BY <1>1, <1>2
  <2> QED BY <1>13, <1>15, <1>16, <1>17, <2>1 DEF Appended
<1> QED BY <1>11, <1>13, <1>22, <1>23

\* A new map is empty.
LEMMA NewIsSound ==
    ASSUME NEW size \in TableSizes \cup {1}
    PROVE  /\ Sound(NewKeys(size)) /\ LiveIx(NewKeys(size)) = {}
           /\ NewKeys(size).table_size = size /\ NewKeys(size).usable = UsableFraction(size)
           /\ NewKeys(size).indices = [i \in 0 .. size - 1 |-> EMPTY]
           /\ NewKeys(size).entries = [i \in 0 .. UsableFraction(size) - 1 |-> Freed]
<1>1. size \in Nat \ {0} /\ UsableFraction(size) \in Nat
  BY Room
<1>2. PICK m : m = NewKeys(size)
  OBVIOUS
<1>3. /\ m.table_size = size /\ m.usable = UsableFraction(size) /\ m.nentries = 0 /\ m.used = 0
      /\ m.indices = [i \in 0 .. size - 1 |-> EMPTY]
      /\ m.entries = [i \in 0 .. UsableFraction(size) - 1 |-> Freed]
      /\ IsMap(m)
  BY <1>2 DEF NewKeys, IsMap
<1>4. LiveIx(m) = {}
  BY <1>3 DEF LiveIx
<1>5. Balanced(m)
  <2>1. Freed \in Entry
    BY DEF Freed, Entry
  <2>2. m.entries \in [0 .. UsableFraction(size) - 1 -> Entry]
    BY <1>3, <2>1
  <2>3. m.used = Cardinality(LiveIx(m))
    BY <1>3, <1>4, FS_EmptySet
  <2>4. m.usable + m.nentries = UsableFraction(m.table_size)
    BY <1>1, <1>3
  <2> QED BY <1>1, <1>3, <2>2, <2>3, <2>4 DEF Balanced
<1>6. Named(m)
  BY <1>4 DEF Named
<1>7. Chained(size, m.indices, KeyOf(m), LiveIx(m))
  BY <1>3, <1>4 DEF Chained
<1>8. Filled(size, m.indices) = {}
  BY <1>3 DEF Filled
<1>9. Cardinality(Filled(size, m.indices)) <= m.nentries
  <2>1. Cardinality({}) = 0
    BY FS_EmptySet
  <2>2. Cardinality(Filled(size, m.indices)) = 0
    BY <1>8, <2>1, Zenon
  <2>3. m.nentries = 0
    BY <1>3
  <2> QED BY <2>2, <2>3
<1>10. Sound(m)
  BY <1>3, <1>5, <1>6, <1>7, <1>9 DEF Sound
<1> QED BY <1>2, <1>3, <1>4, <1>10

\* The same slots and the same live names, whatever the values.
LEMMA NewValuesAreSound ==
    ASSUME NEW m, Sound(m), NEW E2 \in [0 .. UsableFraction(m.table_size) - 1 -> Entry],
           \A ix \in 0 .. UsableFraction(m.table_size) - 1 :
              /\ E2[ix].key = m.entries[ix].key
              /\ E2[ix].value = -1 <=> m.entries[ix].value = -1,
           NEW m2, m2 = [m EXCEPT !.entries = E2]
    PROVE  Sound(m2) /\ LiveIx(m2) = LiveIx(m)
           /\ m2.table_size = m.table_size
<1>1. /\ m = [ table_size |-> m.table_size, usable |-> m.usable, nentries |-> m.nentries,
               used |-> m.used, indices |-> m.indices, entries |-> m.entries ]
      /\ m.usable \in Nat /\ m.nentries \in Nat
      /\ m.usable + m.nentries = UsableFraction(m.table_size)
      /\ m.entries \in [0 .. UsableFraction(m.table_size) - 1 -> Entry]
      /\ m.used = Cardinality(LiveIx(m)) /\ m.table_size \in TableSizes \cup {1}
  BY DEF Sound, Balanced, IsMap
<1>2. m2 = [ table_size |-> m.table_size, usable |-> m.usable, nentries |-> m.nentries,
             used |-> m.used, indices |-> m.indices, entries |-> E2 ]
  BY <1>1
<1>3. /\ m2.table_size = m.table_size /\ m2.usable = m.usable /\ m2.nentries = m.nentries
      /\ m2.used = m.used /\ m2.indices = m.indices /\ m2.entries = E2
  BY <1>2
<1>4. /\ LiveIx(m) \in SUBSET (0 .. m.nentries - 1)
      /\ 0 .. m.nentries - 1 \in SUBSET (0 .. UsableFraction(m.table_size) - 1)
  BY LiveFacts DEF Sound
<1>5. LiveIx(m2) = LiveIx(m)
  BY <1>3, <1>4 DEF LiveIx
<1>6. \A ix \in LiveIx(m) : m2.entries[ix].key = m.entries[ix].key
  BY <1>3, <1>4
<1>7. Balanced(m2)
  <2>1. IsMap(m2)
    BY <1>2 DEF IsMap
  <2> QED BY <1>1, <1>3, <1>5, <2>1 DEF Balanced
<1>8. Named(m2)
  BY <1>5, <1>6 DEF Sound, Named
<1>9. KeyOf(m2) = KeyOf(m)
  BY <1>5, <1>6 DEF KeyOf
<1>10. Sound(m2)
  BY <1>3, <1>5, <1>7, <1>8, <1>9 DEF Sound
<1> QED BY <1>3, <1>5, <1>10

\* The entry of a name that is there gets the value.
LEMMA ValueIsSound ==
    ASSUME NEW m, Sound(m), NEW ix \in LiveIx(m), NEW value \in Nat,
           NEW m2, m2 = [m EXCEPT !.entries[ix].value = value]
    PROVE  /\ Sound(m2) /\ LiveIx(m2) = LiveIx(m) /\ m2.table_size = m.table_size
           /\ \A a \in LiveIx(m) : m2.entries[a].key = m.entries[a].key
           /\ \A a \in LiveIx(m) : m2.entries[a].value = IF a = ix THEN value ELSE m.entries[a].value
<1> DEFINE D == 0 .. UsableFraction(m.table_size) - 1
<1>1. /\ m = [ table_size |-> m.table_size, usable |-> m.usable, nentries |-> m.nentries,
               used |-> m.used, indices |-> m.indices, entries |-> m.entries ]
      /\ m.entries \in [D -> Entry]
  BY DEF Sound, Balanced, IsMap
<1>2. ix \in D /\ LiveIx(m) \in SUBSET D /\ m.entries[ix].value \in Nat
  BY LiveFacts DEF Sound
<1>3. PICK E2 : E2 = [m.entries EXCEPT ![ix].value = value]
  OBVIOUS
<1>4. m2 = [m EXCEPT !.entries = E2]
  BY <1>1, <1>3
<1>5. \A a \in D : E2[a].key = m.entries[a].key
                   /\ E2[a].value = IF a = ix THEN value ELSE m.entries[a].value
  BY <1>1, <1>2, <1>3 DEF Entry
<1>6. \A a \in D : E2[a] \in Entry
  <2> SUFFICES ASSUME NEW a \in D PROVE E2[a] \in Entry
    OBVIOUS
  <2>1. CASE a = ix
    <3>1. m.entries[ix] \in Entry
      BY <1>1, <1>2
    <3>2. E2[a] = [m.entries[ix] EXCEPT !.value = value]
      BY <1>1, <1>2, <1>3, <2>1
    <3> QED BY <3>1, <3>2 DEF Entry
  <2>2. CASE a # ix
    BY <1>1, <1>3, <2>2
  <2> QED BY <2>1, <2>2
<1>7. E2 \in [D -> Entry]
  <2>1. E2 = [a \in D |-> E2[a]]
    BY <1>1, <1>3
  <2> QED BY <1>6, <2>1
<1>8. \A a \in D : E2[a].key = m.entries[a].key /\ (E2[a].value = -1 <=> m.entries[a].value = -1)
  BY <1>2, <1>5
<1>9. Sound(m2) /\ LiveIx(m2) = LiveIx(m) /\ m2.table_size = m.table_size
  <2>1. E2 \in [D -> Entry] /\ m2 = [m EXCEPT !.entries = E2] /\ Sound(m)
    BY <1>4, <1>7
  <2> QED BY <1>8, <2>1, NewValuesAreSound
<1>10. m2.entries = E2
  BY <1>1, <1>4
<1> QED BY <1>2, <1>5, <1>9, <1>10

\* The shift of a deletion changes values alone, and keeps them positions.
LEMMA ShiftIsSound ==
    ASSUME NEW m, Sound(m), NEW old \in Nat
    PROVE  /\ Sound(ShiftDown(m, old)) /\ LiveIx(ShiftDown(m, old)) = LiveIx(m)
           /\ ShiftDown(m, old).table_size = m.table_size
           /\ \A a \in LiveIx(m) : ShiftDown(m, old).entries[a].key = m.entries[a].key
<1> DEFINE D == 0 .. UsableFraction(m.table_size) - 1
<1>1. /\ m = [ table_size |-> m.table_size, usable |-> m.usable, nentries |-> m.nentries,
               used |-> m.used, indices |-> m.indices, entries |-> m.entries ]
      /\ m.entries \in [D -> Entry] /\ m.usable \in Nat
  BY DEF Sound, Balanced, IsMap
<1>2. PICK E2 : E2 = [i \in DOMAIN m.entries |->
                        IF i < m.usable THEN Lowered(m.entries[i], old) ELSE m.entries[i]]
  OBVIOUS
<1>3. PICK m2 : m2 = ShiftDown(m, old)
  OBVIOUS
<1>4. m2 = [m EXCEPT !.entries = E2]
  BY <1>2, <1>3, Zenon DEF ShiftDown
<1>5. ASSUME NEW i \in D
      PROVE  E2[i] \in Entry /\ E2[i].key = m.entries[i].key /\ (E2[i].value = -1 <=> m.entries[i].value = -1)
  <2>1. m.entries[i] \in Entry
    BY <1>1
  <2>2. PICK e \in Entry : e = m.entries[i]
    BY <2>1
  <2>3. e.key \in Key \cup {NoKey} /\ e.value \in Nat \cup {-1}
        /\ e = [key |-> e.key, value |-> e.value]
    BY DEF Entry
  <2>4. CASE i < m.usable /\ e.value > old
    <3>1. E2[i] = Lowered(e, old) /\ e.value > old
      BY <1>1, <1>2, <2>2, <2>4
    <3>2. E2[i] = [key |-> e.key, value |-> e.value - 1]
      BY <2>3, <3>1 DEF Lowered
    <3>3. e.value \in Nat /\ e.value - 1 \in Nat
      BY <2>3, <2>4
    <3> QED BY <2>2, <2>3, <3>2, <3>3 DEF Entry
  <2>5. CASE ~ (i < m.usable /\ e.value > old)
    <3>1. E2[i] = m.entries[i]
      BY <1>1, <1>2, <2>2, <2>5 DEF Lowered
    <3> QED BY <2>1, <3>1
  <2> QED BY <2>4, <2>5
<1>6. E2 \in [D -> Entry]
  <2>1. E2 = [i \in D |-> E2[i]]
    BY <1>1, <1>2
  <2>2. \A i \in D : E2[i] \in Entry
    BY <1>5
  <2> QED BY <2>1, <2>2
<1>7. \A i \in D : E2[i].key = m.entries[i].key /\ (E2[i].value = -1 <=> m.entries[i].value = -1)
  BY <1>5
<1>8. Sound(m2) /\ LiveIx(m2) = LiveIx(m) /\ m2.table_size = m.table_size
  <2> HIDE DEF D
  <2>1. E2 \in [D -> Entry] /\ m2 = [m EXCEPT !.entries = E2] /\ Sound(m)
    BY <1>4, <1>6
  <2> QED BY <1>7, <2>1, NewValuesAreSound DEF D
<1>9. m2.entries = E2
  BY <1>1, <1>4
<1>10. LiveIx(m) \in SUBSET D
  BY LiveFacts DEF Sound
<1> QED BY <1>3, <1>7, <1>8, <1>9, <1>10

\* The slot that names an entry is found.
LEMMA IndexIsFound ==
    ASSUME NEW m, Sound(m), NEW ix \in LiveIx(m)
    PROVE  /\ IndexLookup(m, m.entries[ix].key, ix) \in 0 .. m.table_size - 1
           /\ m.indices[IndexLookup(m, m.entries[ix].key, ix)] = ix
<1> DEFINE size == m.table_size
<1>1. /\ size \in TableSizes \cup {1} /\ ix \in Nat /\ HashDigits \in Nat /\ size \in Nat
  BY HashAssumption, LiveFacts DEF Sound, Balanced
<1>2. PICK key \in Key : key = m.entries[ix].key
  BY DEF Sound, Named
<1>3. PICK w : w = Walk(size, HashOf[key])
  OBVIOUS
<1>4. \E l \in 0 .. size + HashDigits :
         Reaches(m.indices, Walk(size, HashOf[KeyOf(m)[ix]]), l, ix)
  BY DEF Sound, Chained
<1>5. KeyOf(m)[ix] = key
  BY <1>2 DEF KeyOf
<1>6. PICK l \in 0 .. size + HashDigits : Reaches(m.indices, w, l, ix)
  BY <1>3, <1>4, <1>5
<1>7. m.indices[w[l]] = ix /\ \A k \in 0 .. l - 1 : m.indices[w[k]] # EMPTY
  BY <1>6 DEF Reaches
<1>8. \A k \in 0 .. size + HashDigits : w[k] \in 0 .. size - 1
  BY <1>1, <1>3, WalkStaysIn
<1>9. w[l] \in IndexStops(m, ix)
  BY <1>7, <1>8 DEF IndexStops
<1>10. PICK n \in 0 .. size + HashDigits :
          FirstAt(w, n, IndexStops(m, ix)) /\ IndexLookup(m, key, ix) = w[n]
  <2>1. IndexStops(m, ix) # {}
    BY <1>9
  <2> QED BY <1>1, <1>3, <2>1, IndexLookupStops
<1>11. w[n] \in IndexStops(m, ix) /\ \A k \in 0 .. n - 1 : w[k] \notin IndexStops(m, ix)
  BY <1>10 DEF FirstAt
<1>12. n <= l
  BY <1>1, <1>9, <1>11
<1>13. m.indices[w[n]] \in {EMPTY, ix}
  BY <1>11 DEF IndexStops
<1>14. m.indices[w[n]] = ix
  <2>1. CASE n = l
    BY <1>7, <2>1
  <2>2. CASE n # l
    <3>1. n \in 0 .. l - 1
      BY <1>1, <1>12, <2>2
    <3> QED BY <1>7, <1>13, <3>1
  <2> QED BY <2>1, <2>2
<1> QED BY <1>2, <1>8, <1>10, <1>14

\* The entry of a name is freed and its slot marked DUMMY; every other name stays.
WithoutEntry(m, s, c) ==
    [m EXCEPT !.indices[s] = DUMMY, !.entries[c] = Freed, !.used = m.used - 1]

LEMMA FreeIsSound ==
    ASSUME NEW m, Sound(m), NEW c \in LiveIx(m), NEW s \in 0 .. m.table_size - 1,
           m.indices[s] = c
    PROVE  /\ Sound(WithoutEntry(m, s, c))
           /\ LiveIx(WithoutEntry(m, s, c)) = LiveIx(m) \ {c}
           /\ WithoutEntry(m, s, c).table_size = m.table_size
           /\ \A a \in LiveIx(m) \ {c} : WithoutEntry(m, s, c).entries[a] = m.entries[a]
<1> DEFINE size == m.table_size
<1> DEFINE L == LiveIx(m)
<1> DEFINE D == 0 .. UsableFraction(size) - 1
<1>1. /\ m = [ table_size |-> m.table_size, usable |-> m.usable, nentries |-> m.nentries,
               used |-> m.used, indices |-> m.indices, entries |-> m.entries ]
      /\ m.usable \in Nat /\ m.nentries \in Nat /\ m.usable + m.nentries = UsableFraction(size)
      /\ m.entries \in [D -> Entry]
      /\ m.used = Cardinality(L) /\ size \in TableSizes \cup {1}
  BY DEF Sound, Balanced, IsMap
<1>2. /\ L \in SUBSET (0 .. m.nentries - 1) /\ L \in SUBSET Nat /\ IsFiniteSet(L) /\ m.used \in Nat
      /\ size \in Nat \ {0} /\ L \in SUBSET D
  BY LiveFacts DEF Sound
<1>3. Chained(size, m.indices, KeyOf(m), L) /\ Cardinality(Filled(size, m.indices)) <= m.nentries
  BY DEF Sound
<1>4. m.indices \in [0 .. size - 1 -> {EMPTY, DUMMY} \cup L]
  BY <1>3 DEF Chained
<1>5. PICK I2 : I2 = [m.indices EXCEPT ![s] = DUMMY]
  OBVIOUS
<1>6. PICK E2 : E2 = [m.entries EXCEPT ![c] = Freed]
  OBVIOUS
<1>u. PICK u : u = m.used - 1
  OBVIOUS
<1>m. PICK m2 : m2 = WithoutEntry(m, s, c)
  OBVIOUS
<1>7. m2 = [ table_size |-> size, usable |-> m.usable, nentries |-> m.nentries,
             used |-> u, indices |-> I2, entries |-> E2 ]
  BY <1>1, <1>5, <1>6, <1>u, <1>m DEF WithoutEntry
<1>8. /\ m2.table_size = size /\ m2.usable = m.usable /\ m2.nentries = m.nentries
      /\ m2.used = u /\ m2.indices = I2 /\ m2.entries = E2
  BY <1>7
<1>9. E2 \in [D -> Entry] /\ E2[c] = Freed /\ \A a \in D : a # c => E2[a] = m.entries[a]
  <2>1. Freed \in Entry /\ c \in D
    BY <1>2 DEF Freed, Entry
  <2> QED BY <1>1, <1>6, <2>1
<1>10. LiveIx(m2) = L \ {c}
  <2>1. LiveIx(m2) = {a \in 0 .. m.nentries - 1 : E2[a].value # -1}
    BY <1>8 DEF LiveIx
  <2>2. L = {a \in 0 .. m.nentries - 1 : m.entries[a].value # -1}
    BY DEF LiveIx
  <2>3. E2[c].value = -1
    BY <1>9 DEF Freed
  <2>4. \A a \in 0 .. m.nentries - 1 : a # c => E2[a] = m.entries[a]
    <3>1. 0 .. m.nentries - 1 \in SUBSET D
      BY LiveFacts DEF Sound
    <3> QED BY <1>9, <3>1
  <2> QED BY <2>1, <2>2, <2>3, <2>4
<1>11. \A a \in L \ {c} : E2[a] = m.entries[a]
  BY <1>2, <1>9
<1>12. Balanced(m2)
  <2>1. Cardinality(L \ {c}) = Cardinality(L) - 1
    <3>1. c \in L
      OBVIOUS
    <3> HIDE DEF L
    <3>2. Cardinality(L \ {c}) = IF c \in L THEN Cardinality(L) - 1 ELSE Cardinality(L)
      BY <1>2, FS_RemoveElement
    <3> QED BY <3>1, <3>2
  <2>2. m2.used = Cardinality(LiveIx(m2))
    BY <1>1, <1>u, <1>8, <1>10, <2>1
  <2>3. IsMap(m2)
    BY <1>7 DEF IsMap
  <2> QED BY <1>1, <1>8, <1>9, <2>2, <2>3 DEF Balanced
<1>13. Named(m2)
  <2>1. \A ix \in L : m.entries[ix].key \in Key
    BY DEF Sound, Named
  <2>2. \A a, b \in L : m.entries[a].key = m.entries[b].key => a = b
    BY DEF Sound, Named
  <2>3. \A ix \in L \ {c} : E2[ix].key = m.entries[ix].key
    BY <1>11
  <2>4. \A ix \in L \ {c} : E2[ix].key \in Key
    BY <2>1, <2>3
  <2>5. \A a, b \in L \ {c} : E2[a].key = E2[b].key => a = b
    BY <2>2, <2>3
  <2>6. LiveIx(m2) = L \ {c} /\ m2.entries = E2
    BY <1>8, <1>10
  <2> HIDE DEF L
  <2> QED BY <2>4, <2>5, <2>6, Zenon DEF Named
<1>14. Chained(size, I2, KeyOf(m2), L \ {c})
  <2>1. \A ix \in L : KeyOf(m)[ix] \in Key
    BY DEF KeyOf, Sound, Named
  <2>2. \A ix \in L \ {c} : KeyOf(m2)[ix] = KeyOf(m)[ix]
    BY <1>8, <1>10, <1>11 DEF KeyOf
  <2>3. /\ size \in TableSizes \cup {1} /\ L \in SUBSET Nat
        /\ Chained(size, m.indices, KeyOf(m), L) /\ (\A ix \in L : KeyOf(m)[ix] \in Key)
        /\ c \in L /\ s \in 0 .. size - 1 /\ m.indices[s] = c
        /\ (\A ix \in L \ {c} : KeyOf(m2)[ix] = KeyOf(m)[ix])
        /\ I2 = [m.indices EXCEPT ![s] = DUMMY]
    BY <1>1, <1>2, <1>3, <1>5, <2>1, <2>2, Zenon
  <2> HIDE DEF size, L
  <2> QED BY <2>3, ChainRemove
<1>15. Cardinality(Filled(size, I2)) <= m.nentries
  <2>1. DOMAIN m.indices = 0 .. size - 1
    BY <1>4
  <2>2. m.indices[s] # EMPTY
    BY <1>2 DEF EMPTY
  <2>3. /\ IsFiniteSet(Filled(size, I2))
        /\ Cardinality(Filled(size, I2)) <= Cardinality(Filled(size, m.indices))
    <3> HIDE DEF size
    <3> QED BY <1>2, <1>5, <2>1, <2>2, FilledGrows
  <2>4. IsFiniteSet(Filled(size, m.indices))
    <3>1. IsFiniteSet(0 .. size - 1)
      <4>1. 0 \in Int /\ size - 1 \in Int
        BY <1>2
      <4> QED BY <4>1, FS_Interval
    <3>2. Filled(size, m.indices) \in SUBSET (0 .. size - 1)
      BY DEF Filled
    <3> QED BY <3>1, <3>2, FS_Subset
  <2>5. Cardinality(Filled(size, m.indices)) \in Nat /\ Cardinality(Filled(size, I2)) \in Nat
    BY <2>3, <2>4, FS_CardinalityType
  <2> QED BY <1>1, <1>3, <2>3, <2>5
<1>16. Sound(m2)
  BY <1>8, <1>10, <1>12, <1>13, <1>14, <1>15, Zenon DEF Sound
<1> QED BY <1>m, <1>8, <1>10, <1>11, <1>16

LEMMA DeleteIsSound ==
    ASSUME NEW m, Sound(m), NEW key \in Key
    PROVE  /\ Sound(DelShiftItem(m, key)) /\ DelShiftItem(m, key).table_size = m.table_size
           /\ LiveIx(DelShiftItem(m, key)) = {a \in LiveIx(m) : m.entries[a].key # key}
           /\ \A a \in LiveIx(DelShiftItem(m, key)) :
                 DelShiftItem(m, key).entries[a].key = m.entries[a].key
<1>1. PICK m2 : m2 = DelShiftItem(m, key)
  OBVIOUS
<1>2. PICK ix : ix = NameLookup(m, key)
  OBVIOUS
<1>3. /\ \A a \in LiveIx(m) : m.entries[a].key = key => ix = a
      /\ ix = EMPTY \/ (ix \in LiveIx(m) /\ m.entries[ix].key = key)
  BY <1>2, LookupFinds
<1>4. CASE ~ HasItem(m, key)
  <2>1. m2 = m
    BY <1>1, <1>4 DEF DelShiftItem
  <2>2. ix = EMPTY
    <3> SUFFICES ASSUME ix # EMPTY PROVE FALSE
      OBVIOUS
    <3>1. ix \in LiveIx(m)
      BY <1>3
    <3>2. m.entries[ix].value # -1
      BY <3>1 DEF LiveIx
    <3>3. GetItem(m, key) = m.entries[ix].value
      BY <1>2 DEF GetItem
    <3> QED BY <1>2, <1>4, <3>2, <3>3 DEF HasItem
  <2>3. EMPTY \notin LiveIx(m)
    BY LiveFacts DEF Sound, EMPTY
  <2>4. LiveIx(m) = {a \in LiveIx(m) : m.entries[a].key # key}
    BY <1>3, <2>2, <2>3
  <2> QED BY <1>1, <2>1, <2>4
<1>5. CASE HasItem(m, key)
  <2>1. ix \in LiveIx(m) /\ m.entries[ix].key = key
    BY <1>2, <1>3, <1>5 DEF HasItem
  <2>2. PICK s : s = IndexLookup(m, key, ix)
    OBVIOUS
  <2>3. s \in 0 .. m.table_size - 1 /\ m.indices[s] = ix
    BY <2>1, <2>2, IndexIsFound
  <2>4. PICK f : f = WithoutEntry(m, s, ix)
    OBVIOUS
  <2>5. m2 = ShiftDown(f, m.entries[ix].value)
    BY <1>1, <1>2, <1>5, <2>2, <2>4, Zenon DEF DelShiftItem, WithoutEntry
  <2>6. /\ Sound(f) /\ LiveIx(f) = LiveIx(m) \ {ix} /\ f.table_size = m.table_size
        /\ \A a \in LiveIx(m) \ {ix} : f.entries[a] = m.entries[a]
    BY <2>1, <2>3, <2>4, FreeIsSound
  <2>7. m.entries[ix].value \in Nat
    BY <2>1, LiveFacts DEF Sound
  <2>8. /\ Sound(m2) /\ LiveIx(m2) = LiveIx(f) /\ m2.table_size = f.table_size
        /\ \A a \in LiveIx(f) : m2.entries[a].key = f.entries[a].key
    BY <2>5, <2>6, <2>7, ShiftIsSound
  <2>9. LiveIx(m) \ {ix} = {a \in LiveIx(m) : m.entries[a].key # key}
    BY <1>3, <2>1
  <2>10. \A a \in LiveIx(m2) : m2.entries[a].key = m.entries[a].key
    BY <2>6, <2>8
  <2> QED BY <1>1, <2>6, <2>8, <2>9, <2>10
<1> QED BY <1>4, <1>5

----------------------------------------------------------------------------
(* Resizing                                                                *)

LiveBelow(m, k) == {ix \in 0 .. k - 1 : m.entries[ix].value # -1}

\* The sequence q has the live ones of the first k entries, in their order.
CopyOf(m, k, q) ==
    /\ q \in Seq(Entry)
    /\ Len(q) = Cardinality(LiveBelow(m, k))
    /\ \E at \in [1 .. Len(q) -> LiveBelow(m, k)] :
          /\ \A a, b \in 1 .. Len(q) : a < b => at[a] < at[b]
          /\ \A a \in 1 .. Len(q) : q[a] = m.entries[at[a]]

LEMMA CopyGrows ==
    ASSUME NEW m, NEW k \in Nat, NEW q, CopyOf(m, k, q), m.entries[k] \in Entry
    PROVE  /\ m.entries[k].value = -1 => CopyOf(m, k + 1, q)
           /\ m.entries[k].value # -1 => CopyOf(m, k + 1, Append(q, m.entries[k]))
<1>1. PICK n \in Nat : n = Len(q) /\ q \in Seq(Entry)
  BY DEF CopyOf
<1>2. n = Cardinality(LiveBelow(m, k))
  BY <1>1 DEF CopyOf
<1>3. PICK at \in [1 .. n -> LiveBelow(m, k)] :
          /\ \A a, b \in 1 .. n : a < b => at[a] < at[b]
          /\ \A a \in 1 .. n : q[a] = m.entries[at[a]]
  BY <1>1 DEF CopyOf
<1>4. LiveBelow(m, k) \in SUBSET (0 .. k - 1)
  BY DEF LiveBelow
<1>5. CASE m.entries[k].value = -1
  <2>1. LiveBelow(m, k + 1) = LiveBelow(m, k)
    BY <1>5 DEF LiveBelow
  <2>2. CopyOf(m, k + 1, q)
    BY <2>1 DEF CopyOf
  <2> QED BY <1>5, <2>2
<1>6. CASE m.entries[k].value # -1
  <2>1. LiveBelow(m, k + 1) = LiveBelow(m, k) \cup {k}
    BY <1>6 DEF LiveBelow
  <2>2. IsFiniteSet(LiveBelow(m, k)) /\ k \notin LiveBelow(m, k)
    <3>1. 0 \in Int /\ k - 1 \in Int
      OBVIOUS
    <3>2. IsFiniteSet(0 .. k - 1)
      BY <3>1, FS_Interval
    <3>3. IsFiniteSet(LiveBelow(m, k))
      BY <1>4, <3>2, FS_Subset
    <3> QED BY <1>4, <3>3
  <2>3. Cardinality(LiveBelow(m, k + 1)) = n + 1
    <3>1. Cardinality(LiveBelow(m, k) \cup {k})
            = IF k \in LiveBelow(m, k) THEN Cardinality(LiveBelow(m, k))
              ELSE Cardinality(LiveBelow(m, k)) + 1
      BY <2>2, FS_AddElement
    <3> QED BY <1>2, <2>1, <2>2, <3>1
  <2>4. PICK q2 : q2 = Append(q, m.entries[k])
    OBVIOUS
  <2>5. /\ q2 \in Seq(Entry) /\ Len(q2) = n + 1
        /\ q2[n + 1] = m.entries[k] /\ \A a \in 1 .. n : q2[a] = q[a]
    BY <1>1, <2>4
  <2>6. PICK at2 : at2 = [a \in 1 .. n + 1 |-> IF a <= n THEN at[a] ELSE k]
    OBVIOUS
  <2>7. at2 \in [1 .. n + 1 -> LiveBelow(m, k + 1)]
    BY <1>3, <2>1, <2>6
  <2>8. \A a \in 1 .. n : at2[a] = at[a] /\ at[a] \in 0 .. k - 1
    BY <1>3, <1>4, <2>6
  <2>9. at2[n + 1] = k
    BY <2>6
  <2>10. \A a, b \in 1 .. n + 1 : a < b => at2[a] < at2[b]
    <3> SUFFICES ASSUME NEW a \in 1 .. n + 1, NEW b \in 1 .. n + 1, a < b PROVE at2[a] < at2[b]
      OBVIOUS
    <3>1. a \in 1 .. n
      OBVIOUS
    <3>2. CASE b = n + 1
      BY <2>8, <2>9, <3>1, <3>2
    <3>3. CASE b # n + 1
      <4>1. b \in 1 .. n
        BY <3>3
      <4> QED BY <1>3, <2>8, <3>1, <4>1
    <3> QED BY <3>2, <3>3
  <2>11. \A a \in 1 .. n + 1 : q2[a] = m.entries[at2[a]]
    <3> SUFFICES ASSUME NEW a \in 1 .. n + 1 PROVE q2[a] = m.entries[at2[a]]
      OBVIOUS
    <3>1. CASE a = n + 1
      BY <2>5, <2>9, <3>1
    <3>2. CASE a # n + 1
      <4>1. a \in 1 .. n
        BY <3>2
      <4> QED BY <1>3, <2>5, <2>8, <4>1
    <3> QED BY <3>1, <3>2
  <2>12. CopyOf(m, k + 1, q2)
    BY <2>3, <2>5, <2>7, <2>10, <2>11 DEF CopyOf
  <2> QED BY <1>6, <2>4, <2>12
<1> QED BY <1>5, <1>6

Copied(c, m) ==
    c = [k \in 0 .. m.nentries |->
            IF k = 0 THEN <<>>
            ELSE IF m.entries[k - 1].value = -1 THEN c[k - 1]
            ELSE Append(c[k - 1], m.entries[k - 1])]

LEMMA LiveEntriesAreCopied ==
    ASSUME NEW m, Balanced(m)
    PROVE  CopyOf(m, m.nentries, LiveEntries(m))
<1> DEFINE N == m.nentries
<1>1. N \in Nat /\ \A k \in 0 .. N - 1 : m.entries[k] \in Entry
  BY LiveFacts DEF Balanced
<1> DEFINE g == [x \in Nat \X Seq(Entry) |->
                    IF x[1] \notin 1 .. N THEN <<>>
                    ELSE IF m.entries[x[1] - 1].value = -1 THEN x[2]
                    ELSE Append(x[2], m.entries[x[1] - 1])]
<1>2. g \in [Nat \X Seq(Entry) -> Seq(Entry)]
  <2> SUFFICES ASSUME NEW x \in Nat \X Seq(Entry) PROVE g[x] \in Seq(Entry)
    OBVIOUS
  <2>1. <<>> \in Seq(Entry) /\ x[2] \in Seq(Entry)
    OBVIOUS
  <2>2. CASE x[1] \notin 1 .. N
    BY <2>1, <2>2
  <2>3. CASE x[1] \in 1 .. N
    <3>1. x[1] - 1 \in 0 .. N - 1
      BY <1>1, <2>3
    <3>2. PICK e \in Entry : e = m.entries[x[1] - 1]
      BY <1>1, <3>1
    <3>3. PICK q \in Seq(Entry) : q = x[2]
      BY <2>1
    <3>4. Append(q, e) \in Seq(Entry)
      OBVIOUS
    <3> QED BY <2>3, <3>2, <3>3, <3>4
  <2> QED BY <2>2, <2>3
<1>3. PICK f \in [0 .. N -> Seq(Entry)] : Recursion(f, N, <<>>, g)
  <2>1. <<>> \in Seq(Entry)
    OBVIOUS
  <2> HIDE DEF g, N
  <2> QED BY <1>1, <1>2, <2>1, RecursionExists
<1>4. Copied(f, m)
  <2>1. ASSUME NEW k \in 0 .. N, k # 0
        PROVE  g[<<k, f[k - 1]>>] = IF m.entries[k - 1].value = -1 THEN f[k - 1]
                                    ELSE Append(f[k - 1], m.entries[k - 1])
    <3>1. k \in Nat /\ k \in 1 .. N /\ k - 1 \in 0 .. N
      BY <1>1, <2>1
    <3>2. f[k - 1] \in Seq(Entry)
      BY <1>3, <3>1
    <3>3. <<k, f[k - 1]>> \in Nat \X Seq(Entry)
      BY <3>1, <3>2
    <3> QED BY <3>1, <3>3, Zenon
  <2>2. f = [k \in 0 .. N |-> IF k = 0 THEN <<>> ELSE g[<<k, f[k - 1]>>]]
    BY <1>3, ZenonT(60) DEF Recursion
  <2> HIDE DEF g
  <2> QED BY <2>1, <2>2, Zenon DEF Copied
<1>5. PICK c : Copied(c, m) /\ LiveEntries(m) = c[N]
  <2>1. LiveEntries(m) = (CHOOSE c : Copied(c, m))[N]
    BY Zenon DEF LiveEntries, Copied
  <2> QED BY <1>4, <2>1, Zenon
<1>6. \A k \in 0 .. N : c[k] = IF k = 0 THEN <<>>
                              ELSE IF m.entries[k - 1].value = -1 THEN c[k - 1]
                              ELSE Append(c[k - 1], m.entries[k - 1])
  BY <1>5 DEF Copied
<1> DEFINE S == {k \in Nat : k <= N => CopyOf(m, k, c[k])}
<1>7. 0 \in S
  <2>1. c[0] = <<>>
    BY <1>1, <1>6
  <2>2. LiveBelow(m, 0) = {}
    BY DEF LiveBelow
  <2>3. Cardinality({}) = 0
    BY FS_EmptySet
  <2>4. <<>> \in Seq(Entry) /\ Len(<<>>) = 0
    OBVIOUS
  <2>5. PICK at : at = [a \in 1 .. 0 |-> 0]
    OBVIOUS
  <2>6. at \in [1 .. 0 -> {}]
    BY <2>5
  <2>7. CopyOf(m, 0, <<>>)
    BY <2>2, <2>3, <2>4, <2>6 DEF CopyOf
  <2> QED BY <2>1, <2>7
<1>8. ASSUME NEW k \in S PROVE k + 1 \in S
  <2> SUFFICES ASSUME k + 1 <= N PROVE CopyOf(m, k + 1, c[k + 1])
    OBVIOUS
  <2>1. k \in Nat /\ CopyOf(m, k, c[k]) /\ m.entries[k] \in Entry
    BY <1>1, <1>8
  <2>2. k + 1 \in 0 .. N /\ k + 1 # 0 /\ (k + 1) - 1 = k
    BY <1>1, <2>1
  <2>3. c[k + 1] = IF m.entries[k].value = -1 THEN c[k] ELSE Append(c[k], m.entries[k])
    BY <1>6, <2>2
  <2>4. /\ m.entries[k].value = -1 => CopyOf(m, k + 1, c[k])
        /\ m.entries[k].value # -1 => CopyOf(m, k + 1, Append(c[k], m.entries[k]))
    BY <2>1, CopyGrows
  <2> QED BY <2>3, <2>4, Zenon
<1>9. S = Nat
  <2> HIDE DEF S
  <2>1. S \in SUBSET Nat
    BY DEF S
  <2> QED BY <1>7, <1>8, <2>1, AllNumbers
<1> QED BY <1>1, <1>5, <1>9

\* The entries from 0 on that a resize makes of the live ones.
LEMMA LiveEntriesAre ==
    ASSUME NEW m, Balanced(m)
    PROVE  /\ LiveEntries(m) \in Seq(Entry) /\ Len(LiveEntries(m)) = m.used
           /\ \E at \in [1 .. m.used -> LiveIx(m)] :
                 /\ \A a, b \in 1 .. m.used : a < b => at[a] < at[b]
                 /\ \A ix \in LiveIx(m) : \E a \in 1 .. m.used : at[a] = ix
                 /\ \A a \in 1 .. m.used : LiveEntries(m)[a] = m.entries[at[a]]
<1>1. CopyOf(m, m.nentries, LiveEntries(m))
  BY LiveEntriesAreCopied
<1>2. LiveBelow(m, m.nentries) = LiveIx(m)
  BY DEF LiveBelow, LiveIx
<1>3. /\ m.used = Cardinality(LiveIx(m)) /\ m.used \in Nat /\ IsFiniteSet(LiveIx(m))
      /\ LiveIx(m) \in SUBSET Nat
  BY LiveFacts DEF Balanced
<1>4. PICK q : q = LiveEntries(m)
  OBVIOUS
<1>5. q \in Seq(Entry) /\ Len(q) = m.used
  BY <1>1, <1>2, <1>3, <1>4 DEF CopyOf
<1>6. PICK at \in [1 .. m.used -> LiveIx(m)] :
         /\ \A a, b \in 1 .. m.used : a < b => at[a] < at[b]
         /\ \A a \in 1 .. m.used : q[a] = m.entries[at[a]]
  BY <1>1, <1>2, <1>4, <1>5 DEF CopyOf
<1>7. at \in Injection(1 .. m.used, LiveIx(m))
  <2>1. \A a, b \in 1 .. m.used : at[a] = at[b] => a = b
    <3> SUFFICES ASSUME NEW a \in 1 .. m.used, NEW b \in 1 .. m.used, at[a] = at[b] PROVE a = b
      OBVIOUS
    <3>1. at[a] \in Nat /\ at[b] \in Nat
      BY <1>3, <1>6
    <3>2. ~ (a < b) /\ ~ (b < a)
      BY <1>6, <3>1
    <3> QED BY <1>3, <3>2
  <2> QED BY <1>6, <2>1 DEF Injection, IsInjective
<1>8. Cardinality(1 .. m.used) = m.used
  <2>1. 1 \in Int /\ m.used \in Int
    BY <1>3
  <2>2. Cardinality(1 .. m.used) = IF 1 > m.used THEN 0 ELSE m.used - 1 + 1
    BY <2>1, FS_Interval
  <2> QED BY <1>3, <2>2
<1>9. at \in Surjection(1 .. m.used, LiveIx(m))
  BY <1>3, <1>7, <1>8, FS_Injection
<1>10. \A ix \in LiveIx(m) : \E a \in 1 .. m.used : at[a] = ix
  BY <1>9 DEF Surjection
<1> QED BY <1>4, <1>5, <1>6, <1>10

\* The first k of the copied entries are in the new index table.
KeyAt(live) == [ix \in 0 .. Len(live) - 1 |-> live[ix + 1].key]

Indexed(size, live, k, indices) ==
    /\ Chained(size, indices, KeyAt(live), 0 .. k - 1)
    /\ Cardinality(Filled(size, indices)) <= k

LEMMA FilledIsFinite ==
    ASSUME NEW size \in Nat, NEW indices
    PROVE  IsFiniteSet(Filled(size, indices)) /\ Cardinality(Filled(size, indices)) \in Nat
<1>1. 0 \in Int /\ size - 1 \in Int
  OBVIOUS
<1>2. IsFiniteSet(0 .. size - 1)
  BY <1>1, FS_Interval
<1>3. Filled(size, indices) \in SUBSET (0 .. size - 1)
  BY DEF Filled
<1>4. IsFiniteSet(Filled(size, indices))
  BY <1>2, <1>3, FS_Subset
<1> QED BY <1>4, FS_CardinalityType

LEMMA IndexGrows ==
    ASSUME NEW size \in TableSizes \cup {1}, NEW live \in Seq(Entry),
           \A a \in 1 .. Len(live) : live[a].key \in Key,
           NEW k \in Nat, k < Len(live), k < size, NEW indices, Indexed(size, live, k, indices)
    PROVE  Indexed(size, live, k + 1, Placed(size, indices, k, live[k + 1].key))
<1> DEFINE L == 0 .. k - 1
<1>1. size \in Nat \ {0} /\ Len(live) \in Nat /\ HashDigits \in Nat
  BY Room, HashAssumption
<1>2. Chained(size, indices, KeyAt(live), L) /\ Cardinality(Filled(size, indices)) <= k
  BY DEF Indexed
<1>3. indices \in [0 .. size - 1 -> {EMPTY, DUMMY} \cup L]
  BY <1>2 DEF Chained
<1>4. PICK key \in Key : key = live[k + 1].key
  BY <1>1
<1>5. Cardinality(Filled(size, indices)) < size
  BY <1>1, <1>2, FilledIsFinite
<1>6. PICK e \in 0 .. size - 1 : indices[e] = EMPTY
  BY <1>1, <1>5, FilledBound
<1>7. EmptyStops(size, indices) # {}
  BY <1>6 DEF EmptyStops
<1>8. PICK w : w = Walk(size, HashOf[key])
  OBVIOUS
<1>9. PICK I2 : I2 = Placed(size, indices, k, key)
  OBVIOUS
<1>10. PICK n \in 0 .. size + HashDigits :
          FirstAt(w, n, EmptyStops(size, indices)) /\ I2 = [indices EXCEPT ![w[n]] = k]
  BY <1>7, <1>8, <1>9, PlacedStops
<1>11. w[n] \in EmptyStops(size, indices) /\ \A l \in 0 .. n - 1 : w[l] \notin EmptyStops(size, indices)
  BY <1>10 DEF FirstAt
<1>12. indices[w[n]] < 0
  BY <1>11 DEF EmptyStops, EMPTY
<1>13. \A l \in 0 .. n - 1 : indices[w[l]] # EMPTY
  <2> SUFFICES ASSUME NEW l \in 0 .. n - 1 PROVE indices[w[l]] # EMPTY
    OBVIOUS
  <2>1. l \in 0 .. size + HashDigits
    BY <1>1
  <2>2. w[l] \in 0 .. size - 1
    BY <1>8, <2>1, WalkStaysIn
  <2> QED BY <1>11, <2>2 DEF EmptyStops
<1>14. /\ \A ix \in 0 .. Len(live) - 1 : KeyAt(live)[ix] = live[ix + 1].key
       /\ \A ix \in 0 .. Len(live) - 1 : KeyAt(live)[ix] \in Key
  <2>1. \A ix \in 0 .. Len(live) - 1 : ix + 1 \in 1 .. Len(live)
    BY <1>1
  <2> QED BY <2>1 DEF KeyAt
<1>15. L \in SUBSET Nat /\ L \in SUBSET (0 .. Len(live) - 1) /\ k \in Nat \ L /\ k \in 0 .. Len(live) - 1
  BY <1>1
<1>16. Chained(size, I2, KeyAt(live), L \cup {k})
  <2>1. KeyAt(live)[k] = key
    BY <1>4, <1>14, <1>15
  <2>2. \A ix \in L : KeyAt(live)[ix] \in Key /\ KeyAt(live)[ix] = KeyAt(live)[ix]
    BY <1>14, <1>15
  <2>3. /\ L \in SUBSET Nat
        /\ Chained(size, indices, KeyAt(live), L) /\ (\A ix \in L : KeyAt(live)[ix] \in Key)
        /\ k \in Nat \ L /\ n \in 0 .. size + HashDigits
        /\ indices[Walk(size, HashOf[key])[n]] < 0
        /\ (\A l \in 0 .. n - 1 : indices[Walk(size, HashOf[key])[l]] # EMPTY)
        /\ (\A ix \in L : KeyAt(live)[ix] = KeyAt(live)[ix]) /\ KeyAt(live)[k] = key
        /\ I2 = [indices EXCEPT ![Walk(size, HashOf[key])[n]] = k]
    BY <1>2, <1>8, <1>10, <1>12, <1>13, <1>15, <2>1, <2>2, Zenon
  <2> HIDE DEF L
  <2> QED BY <2>3, ChainPlace
<1>17. L \cup {k} = 0 .. (k + 1) - 1
  OBVIOUS
<1>18. Cardinality(Filled(size, I2)) <= k + 1
  <2>1. DOMAIN indices = 0 .. size - 1
    BY <1>3
  <2>2. Cardinality(Filled(size, I2)) <= Cardinality(Filled(size, indices)) + 1
    BY <1>1, <1>10, <2>1, FilledGrows
  <2>3. Cardinality(Filled(size, indices)) \in Nat /\ Cardinality(Filled(size, I2)) \in Nat
    BY <1>1, FilledIsFinite
  <2> QED BY <1>2, <2>2, <2>3
<1>19. Indexed(size, live, k + 1, I2)
  BY <1>16, <1>17, <1>18 DEF Indexed
<1> QED BY <1>4, <1>9, <1>19

BuiltBy(b, m, live) ==
    b = [k \in 0 .. Len(live) |->
            IF k = 0 THEN m.indices
            ELSE Placed(m.table_size, b[k - 1], k - 1, live[k].key)]

LEMMA BuildIndexesAll ==
    ASSUME NEW size \in TableSizes \cup {1}, NEW live \in Seq(Entry),
           \A a \in 1 .. Len(live) : live[a].key \in Key, Len(live) < size
    PROVE  Indexed(size, live, Len(live), BuildIndices(NewKeys(size), live))
<1> DEFINE m == NewKeys(size)
<1> DEFINE N == Len(live)
<1>1. size \in Nat \ {0} /\ N \in Nat
  BY Room
<1>2. m.table_size = size /\ m.indices = [i \in 0 .. size - 1 |-> EMPTY]
  BY NewIsSound
<1> DEFINE T == [0 .. size - 1 -> Int]
<1>3. m.indices \in T
  BY <1>2 DEF EMPTY
<1> DEFINE g == [x \in Nat \X T |-> Placed(size, x[2], x[1] - 1, live[x[1]].key)]
<1>4. g \in [Nat \X T -> T]
  <2> SUFFICES ASSUME NEW x \in Nat \X T
               PROVE  Placed(size, x[2], x[1] - 1, live[x[1]].key) \in T
    OBVIOUS
  <2>1. PICK I \in T : I = x[2]
    OBVIOUS
  <2>2. PICK c \in Int : c = x[1] - 1
    OBVIOUS
  <2>3. PICK s : [I EXCEPT ![s] = c] = Placed(size, x[2], x[1] - 1, live[x[1]].key)
    BY <2>1, <2>2, Zenon DEF Placed
  <2>4. [I EXCEPT ![s] = c] \in T
    OBVIOUS
  <2> QED BY <2>3, <2>4
<1> HIDE DEF m
<1>5. PICK f \in [0 .. N -> T] : Recursion(f, N, m.indices, g)
  <2> HIDE DEF g, N, T
  <2> QED BY <1>1, <1>3, <1>4, RecursionExists
<1>6. BuiltBy(f, m, live)
  <2>1. \A k \in 0 .. N : k # 0 =>
           g[<<k, f[k - 1]>>] = Placed(m.table_size, f[k - 1], k - 1, live[k].key)
    <3> SUFFICES ASSUME NEW k \in 0 .. N, k # 0
                 PROVE  g[<<k, f[k - 1]>>] = Placed(m.table_size, f[k - 1], k - 1, live[k].key)
      OBVIOUS
    <3>1. k \in Nat /\ k - 1 \in 0 .. N
      BY <1>1
    <3>2. f[k - 1] \in T
      BY <1>5, <3>1
    <3>3. <<k, f[k - 1]>> \in Nat \X T
      BY <3>1, <3>2
    <3>4. g[<<k, f[k - 1]>>] = Placed(size, f[k - 1], k - 1, live[k].key)
      BY <3>3, Zenon
    <3> QED BY <1>2, <3>4
  <2>2. f = [k \in 0 .. N |-> IF k = 0 THEN m.indices ELSE g[<<k, f[k - 1]>>]]
    BY <1>5, ZenonT(60) DEF Recursion
  <2> HIDE DEF g
  <2> QED BY <2>1, <2>2, Zenon DEF BuiltBy
<1>7. PICK b : BuiltBy(b, m, live) /\ BuildIndices(m, live) = b[N]
  <2>1. BuildIndices(m, live) = (CHOOSE b : BuiltBy(b, m, live))[N]
    BY Zenon DEF BuildIndices, BuiltBy
  <2> QED BY <1>6, <2>1, Zenon
<1>8. \A k \in 0 .. N : b[k] = IF k = 0 THEN m.indices
                              ELSE Placed(m.table_size, b[k - 1], k - 1, live[k].key)
  BY <1>7 DEF BuiltBy
<1> DEFINE S == {k \in Nat : k <= N => Indexed(size, live, k, b[k])}
<1>9. 0 \in S
  <2>1. b[0] = [i \in 0 .. size - 1 |-> EMPTY]
    BY <1>1, <1>2, <1>8
  <2>2. Filled(size, b[0]) = {}
    BY <2>1 DEF Filled
  <2>3. Cardinality({}) = 0
    BY FS_EmptySet
  <2>4. Cardinality(Filled(size, b[0])) <= 0
    BY <2>2, <2>3
  <2>5. 0 .. 0 - 1 = {}
    OBVIOUS
  <2>6. Chained(size, b[0], KeyAt(live), {})
    BY <2>1 DEF Chained
  <2>7. Indexed(size, live, 0, b[0])
    BY <2>4, <2>5, <2>6 DEF Indexed
  <2> QED BY <2>7
<1>10. ASSUME NEW k \in S PROVE k + 1 \in S
  <2> SUFFICES ASSUME k + 1 <= N PROVE Indexed(size, live, k + 1, b[k + 1])
    OBVIOUS
  <2>1. k \in Nat /\ k < N /\ k < size /\ Indexed(size, live, k, b[k])
    BY <1>1, <1>10
  <2>2. k + 1 \in 0 .. N /\ k + 1 # 0 /\ (k + 1) - 1 = k
    BY <1>1, <2>1
  <2>3. b[k + 1] = Placed(size, b[k], k, live[k + 1].key)
    BY <1>2, <1>8, <2>2
  <2>4. Indexed(size, live, k + 1, Placed(size, b[k], k, live[k + 1].key))
    BY <2>1, IndexGrows
  <2> QED BY <2>3, <2>4
<1>11. S = Nat
  <2> HIDE DEF S
  <2>1. S \in SUBSET Nat
    BY DEF S
  <2> QED BY <1>9, <1>10, <2>1, AllNumbers
<1>12. Indexed(size, live, N, b[N])
  BY <1>1, <1>11
<1> QED BY <1>7, <1>12 DEF m

\* Every live entry comes to its place in the order they had.
Moved(m, m2) ==
    \E from \in [LiveIx(m2) -> LiveIx(m)] :
       /\ \A a, b \in LiveIx(m2) : a < b => from[a] < from[b]
       /\ \A ix \in LiveIx(m) : \E a \in LiveIx(m2) : from[a] = ix
       /\ \A a \in LiveIx(m2) : m2.entries[a] = m.entries[from[a]]

LEMMA ResizeIsSound ==
    ASSUME NEW m, Sound(m), NEW newsize \in TableSizes, m.used <= UsableFraction(newsize)
    PROVE  /\ Sound(Resize(m, newsize)) /\ Moved(m, Resize(m, newsize))
           /\ Resize(m, newsize).usable = UsableFraction(newsize) - m.used
           /\ Resize(m, newsize).table_size = newsize
<1> DEFINE room == UsableFraction(newsize)
<1> DEFINE N == m.used
<1>1. newsize \in TableSizes \cup {1} /\ newsize \in Nat \ {0} /\ room \in Nat /\ room < newsize
  BY Room
<1>2. N \in Nat /\ N <= room /\ Balanced(m) /\ Named(m) /\ LiveIx(m) \in SUBSET Nat
  BY LiveFacts DEF Sound
<1>3. PICK live : live = LiveEntries(m)
  OBVIOUS
<1>4. live \in Seq(Entry) /\ Len(live) = N
  BY <1>2, <1>3, LiveEntriesAre
<1>5. PICK at \in [1 .. N -> LiveIx(m)] :
         /\ \A a, b \in 1 .. N : a < b => at[a] < at[b]
         /\ \A ix \in LiveIx(m) : \E a \in 1 .. N : at[a] = ix
         /\ \A a \in 1 .. N : live[a] = m.entries[at[a]]
  BY <1>2, <1>3, LiveEntriesAre
<1>6. \A a \in 1 .. N : live[a].key \in Key
  BY <1>2, <1>5 DEF Named
<1>7. PICK fresh : fresh = NewKeys(newsize)
  OBVIOUS
<1>8. PICK I2 : I2 = BuildIndices(fresh, live)
  OBVIOUS
<1>9. Indexed(newsize, live, N, I2)
  <2>1. Len(live) < newsize /\ \A a \in 1 .. Len(live) : live[a].key \in Key
    BY <1>1, <1>2, <1>4, <1>6
  <2> QED BY <1>1, <1>4, <1>7, <1>8, <2>1, BuildIndexesAll
<1>10. PICK E2 : E2 = [i \in 0 .. room - 1 |-> IF i < N THEN live[i + 1] ELSE Freed]
  OBVIOUS
<1>11. PICK left : left = room - N
  OBVIOUS
<1>12. PICK m2 : m2 = Resize(m, newsize)
  OBVIOUS
<1>13. m2 = [ table_size |-> newsize, usable |-> left, nentries |-> N,
              used |-> N, indices |-> I2, entries |-> E2 ]
  <2>1. m2 = [ fresh EXCEPT
                 !.usable   = fresh.usable - N,
                 !.nentries = N,
                 !.used     = N,
                 !.indices  = I2,
                 !.entries  = [i \in DOMAIN fresh.entries |->
                                 IF i < N THEN live[i + 1] ELSE Freed] ]
    BY <1>3, <1>7, <1>8, <1>12, Zenon DEF Resize
  <2>2. fresh = [ table_size |-> newsize, usable |-> room, nentries |-> 0, used |-> 0,
                  indices |-> [i \in 0 .. newsize - 1 |-> EMPTY],
                  entries |-> [i \in 0 .. room - 1 |-> Freed] ]
    BY <1>7 DEF NewKeys
  <2>3. fresh.usable = room /\ DOMAIN fresh.entries = 0 .. room - 1
    BY <2>2
  <2>4. E2 = [i \in DOMAIN fresh.entries |-> IF i < N THEN live[i + 1] ELSE Freed]
    BY <1>10, <2>3
  <2>5. left = fresh.usable - N
    BY <1>11, <2>3
  <2>6. m2 = [ fresh EXCEPT !.usable = left, !.nentries = N, !.used = N, !.indices = I2, !.entries = E2 ]
    BY <2>1, <2>4, <2>5, Zenon
  <2> HIDE DEF N, room
  <2> QED BY <2>2, <2>6
<1>14. /\ m2.table_size = newsize /\ m2.usable = left /\ m2.nentries = N
       /\ m2.used = N /\ m2.indices = I2 /\ m2.entries = E2 /\ IsMap(m2)
  BY <1>13 DEF IsMap
<1>15. \A a \in 0 .. N - 1 : a + 1 \in 1 .. N /\ E2[a] = live[a + 1] /\ E2[a] = m.entries[at[a + 1]]
                            /\ at[a + 1] \in LiveIx(m)
  <2> SUFFICES ASSUME NEW a \in 0 .. N - 1
               PROVE  a + 1 \in 1 .. N /\ E2[a] = live[a + 1] /\ E2[a] = m.entries[at[a + 1]]
                      /\ at[a + 1] \in LiveIx(m)
    OBVIOUS
  <2>1. a + 1 \in 1 .. N /\ a < N /\ a \in 0 .. room - 1
    BY <1>1, <1>2
  <2>2. E2[a] = live[a + 1]
    BY <1>10, <2>1
  <2> QED BY <1>5, <2>1, <2>2
<1>16. LiveIx(m2) = 0 .. N - 1
  <2>1. \A a \in 0 .. N - 1 : E2[a].value # -1
    BY <1>15 DEF LiveIx
  <2> QED BY <1>14, <2>1 DEF LiveIx
<1>17. Balanced(m2)
  <2>1. Cardinality(0 .. N - 1) = N
    <3>1. 0 \in Int /\ N - 1 \in Int
      BY <1>2
    <3>2. Cardinality(0 .. N - 1) = IF 0 > N - 1 THEN 0 ELSE N - 1 - 0 + 1
      BY <3>1, FS_Interval
    <3> QED BY <1>2, <3>2
  <2>2. E2 \in [0 .. room - 1 -> Entry]
    <3>1. Freed \in Entry
      BY DEF Freed, Entry
    <3>2. \A i \in 0 .. room - 1 : i < N => live[i + 1] \in Entry
      BY <1>1, <1>2, <1>4
    <3> QED BY <1>10, <3>1, <3>2
  <2>3. left \in Nat /\ left + N = room
    BY <1>1, <1>2, <1>11
  <2>4. m2.used = Cardinality(LiveIx(m2))
    BY <1>14, <1>16, <2>1
  <2> QED BY <1>1, <1>2, <1>14, <2>2, <2>3, <2>4 DEF Balanced
<1>18. Named(m2)
  <2>1. \A a, b \in LiveIx(m) : m.entries[a].key = m.entries[b].key => a = b
    BY <1>2 DEF Named
  <2>2. \A a \in 0 .. N - 1 : E2[a].key \in Key
    BY <1>2, <1>15 DEF Named
  <2>3. \A a, b \in 0 .. N - 1 : E2[a].key = E2[b].key => a = b
    <3> SUFFICES ASSUME NEW a \in 0 .. N - 1, NEW b \in 0 .. N - 1, E2[a].key = E2[b].key PROVE a = b
      OBVIOUS
    <3>1. at[a + 1] = at[b + 1]
      BY <1>15, <2>1
    <3>2. at[a + 1] \in Nat /\ at[b + 1] \in Nat
      BY <1>2, <1>15
    <3>3. ~ (a + 1 < b + 1) /\ ~ (b + 1 < a + 1)
      BY <1>5, <1>15, <3>1, <3>2
    <3> QED BY <1>2, <3>3
  <2> QED BY <1>14, <1>16, <2>2, <2>3, Zenon DEF Named
<1>19. KeyAt(live) = KeyOf(m2)
  <2>1. KeyAt(live) = [ix \in 0 .. N - 1 |-> live[ix + 1].key]
    BY <1>4, Zenon DEF KeyAt
  <2>2. KeyOf(m2) = [ix \in 0 .. N - 1 |-> E2[ix].key]
    BY <1>14, <1>16, Zenon DEF KeyOf
  <2> QED BY <1>15, <2>1, <2>2
<1>20. Chained(newsize, I2, KeyOf(m2), LiveIx(m2)) /\ Cardinality(Filled(newsize, I2)) <= N
  BY <1>9, <1>16, <1>19 DEF Indexed
<1>21. Sound(m2)
  BY <1>14, <1>17, <1>18, <1>20, Zenon DEF Sound
<1>22. Moved(m, m2)
  <2>1. PICK from : from = [a \in 0 .. N - 1 |-> at[a + 1]]
    OBVIOUS
  <2>2. from \in [LiveIx(m2) -> LiveIx(m)]
    BY <1>15, <1>16, <2>1
  <2>3. \A a, b \in LiveIx(m2) : a < b => from[a] < from[b]
    <3> SUFFICES ASSUME NEW a \in 0 .. N - 1, NEW b \in 0 .. N - 1, a < b PROVE from[a] < from[b]
      BY <1>16
    <3>1. a + 1 \in 1 .. N /\ b + 1 \in 1 .. N /\ a + 1 < b + 1
      BY <1>2
    <3>2. at[a + 1] < at[b + 1]
      BY <1>5, <3>1
    <3> QED BY <2>1, <3>2
  <2>4. \A ix \in LiveIx(m) : \E a \in LiveIx(m2) : from[a] = ix
    <3> SUFFICES ASSUME NEW ix \in LiveIx(m) PROVE \E a \in 0 .. N - 1 : from[a] = ix
      BY <1>16
    <3>1. PICK a \in 1 .. N : at[a] = ix
      BY <1>5
    <3>2. a - 1 \in 0 .. N - 1 /\ (a - 1) + 1 = a
      BY <1>2
    <3>3. from[a - 1] = ix
      BY <2>1, <3>1, <3>2
    <3> QED BY <3>2, <3>3
  <2>5. \A a \in LiveIx(m2) : m2.entries[a] = m.entries[from[a]]
    BY <1>14, <1>15, <1>16, <2>1
  <2> QED BY <2>2, <2>3, <2>4, <2>5, Zenon DEF Moved
<1> QED BY <1>11, <1>12, <1>14, <1>21, <1>22

LEMMA KeySizeIs ==
    ASSUME NEW n \in Nat, n <= MaxPresize
    PROVE  KeySize(n) \in TableSizes /\ KeySize(n) >= n
<1>1. PICK d : d = Or7(Or8(n) - 1)
  OBVIOUS
<1>2. PICK e : e = Or8(n)
  OBVIOUS
<1>3. e \in Nat /\ e >= n /\ e <= n + 8 /\ e >= 8
  BY <1>2 DEF Or8
<1>4. d \in Nat /\ d >= e - 1 /\ d <= e + 7 /\ d >= 7
  <2>1. d = 8 * ((e - 1) \div 8) + 7
    BY <1>1, <1>2 DEF Or7
  <2>2. e - 1 \in Nat
    BY <1>3
  <2> QED BY <1>3, <2>1, <2>2
<1>5. d >= 7 /\ d < 262144 /\ d + 1 >= n
  BY <1>3, <1>4 DEF MaxPresize
<1>6. \E s \in TableSizes : s > d /\ s \div 2 <= d
  <2>1. CASE d < 64
    BY <1>4, <1>5, <2>1 DEF TableSizes
  <2>2. CASE d >= 64 /\ d < 1024
    BY <1>4, <1>5, <2>2 DEF TableSizes
  <2>3. CASE d >= 1024 /\ d < 16384
    BY <1>4, <1>5, <2>3 DEF TableSizes
  <2>4. CASE d >= 16384
    BY <1>4, <1>5, <2>4 DEF TableSizes
  <2> QED BY <1>4, <2>1, <2>2, <2>3, <2>4
<1>7. PICK k : k = KeySize(n)
  OBVIOUS
<1>8. k = CHOOSE s \in TableSizes : s > d /\ s \div 2 <= d
  BY <1>1, <1>7, Zenon DEF KeySize
<1>9. k \in TableSizes /\ k > d
  BY <1>6, <1>8, Zenon
<1>10. k \in Nat
  BY <1>9 DEF TableSizes
<1> QED BY <1>4, <1>5, <1>7, <1>9, <1>10

\* A resize for an insertion makes room.
LEMMA NamesAreFew ==
    ASSUME NEW m, Sound(m)
    PROVE  2 * m.used <= MaxPresize
<1>1. /\ m.used = Cardinality(LiveIx(m)) /\ m.used \in Nat
      /\ \A ix \in LiveIx(m) : m.entries[ix].key \in Key
      /\ \A a, b \in LiveIx(m) : m.entries[a].key = m.entries[b].key => a = b
  BY LiveFacts DEF Sound, Balanced, Named
<1>2. KeyOf(m) \in Injection(LiveIx(m), Key)
  <2>1. KeyOf(m) \in [LiveIx(m) -> Key]
    BY <1>1 DEF KeyOf
  <2>2. \A a, b \in LiveIx(m) : KeyOf(m)[a] = KeyOf(m)[b] => a = b
    BY <1>1 DEF KeyOf
  <2> QED BY <2>1, <2>2 DEF Injection, IsInjective
<1>3. IsFiniteSet(Key) /\ 2 * Cardinality(Key) <= MaxPresize
  BY KeyAssumption
<1>4. Cardinality(LiveIx(m)) <= Cardinality(Key)
  BY <1>2, <1>3, FS_Injection
<1>5. Cardinality(Key) \in Nat
  BY <1>3, FS_CardinalityType
<1> QED BY <1>1, <1>3, <1>4, <1>5 DEF MaxPresize

LEMMA InsertionResizeIsSound ==
    ASSUME NEW m, Sound(m)
    PROVE  /\ Sound(InsertionResize(m)) /\ Moved(m, InsertionResize(m))
           /\ InsertionResize(m).usable > 0
<1>1. m.used \in Nat /\ 2 * m.used \in Nat /\ 2 * m.used <= MaxPresize
  BY NamesAreFew, LiveFacts DEF Sound
<1>2. PICK s : s = KeySize(2 * m.used)
  OBVIOUS
<1>3. s \in TableSizes /\ s >= 2 * m.used
  BY <1>1, <1>2, KeySizeIs
<1>4. s \in Nat /\ s >= 8
  BY <1>3 DEF TableSizes
<1>5. m.used < UsableFraction(s) /\ UsableFraction(s) \in Nat
  BY <1>1, <1>3, <1>4 DEF UsableFraction
<1>6. /\ Sound(Resize(m, s)) /\ Moved(m, Resize(m, s))
      /\ Resize(m, s).usable = UsableFraction(s) - m.used
  BY <1>1, <1>3, <1>5, ResizeIsSound
<1>7. InsertionResize(m) = Resize(m, s)
  BY <1>2 DEF InsertionResize
<1> QED BY <1>1, <1>5, <1>6, <1>7

----------------------------------------------------------------------------
(* What the operations do to the names                                     *)

\* The map gives the name this value.
Gives(m, name, v) ==
    \E ix \in LiveIx(m) : m.entries[ix].key = name /\ m.entries[ix].value = v

\* Names that were there have the order they had.
KeepsOrder(m, m2) ==
    \A a, b \in LiveIx(m2) :
       a < b /\ m2.entries[a].key \in NamesOf(m) /\ m2.entries[b].key \in NamesOf(m)
       => \E c, d \in LiveIx(m) : c < d /\ m.entries[c].key = m2.entries[a].key
                                       /\ m.entries[d].key = m2.entries[b].key

LEMMA MovedGives ==
    ASSUME NEW m, NEW m2, Moved(m, m2)
    PROVE  /\ KeepsOrder(m, m2) /\ NamesOf(m2) = NamesOf(m)
           /\ \A name, v : Gives(m2, name, v) <=> Gives(m, name, v)
<1>1. PICK from \in [LiveIx(m2) -> LiveIx(m)] :
         /\ \A a, b \in LiveIx(m2) : a < b => from[a] < from[b]
         /\ \A ix \in LiveIx(m) : \E a \in LiveIx(m2) : from[a] = ix
         /\ \A a \in LiveIx(m2) : m2.entries[a] = m.entries[from[a]]
  BY DEF Moved
<1>2. \A a \in LiveIx(m2) : from[a] \in LiveIx(m)
  BY <1>1
<1>3. KeepsOrder(m, m2)
  <2> SUFFICES ASSUME NEW a \in LiveIx(m2), NEW b \in LiveIx(m2), a < b
               PROVE  \E c, d \in LiveIx(m) : c < d /\ m.entries[c].key = m2.entries[a].key
                                                   /\ m.entries[d].key = m2.entries[b].key
    BY DEF KeepsOrder
  <2>1. /\ from[a] \in LiveIx(m) /\ from[b] \in LiveIx(m) /\ from[a] < from[b]
        /\ m.entries[from[a]].key = m2.entries[a].key /\ m.entries[from[b]].key = m2.entries[b].key
    BY <1>1, <1>2
  <2> QED BY <2>1
<1>4. NamesOf(m2) = NamesOf(m)
  <2>1. \A a \in LiveIx(m2) : m2.entries[a].key \in NamesOf(m)
    BY <1>1, <1>2 DEF NamesOf
  <2>2. \A ix \in LiveIx(m) : m.entries[ix].key \in NamesOf(m2)
    <3> SUFFICES ASSUME NEW ix \in LiveIx(m) PROVE m.entries[ix].key \in NamesOf(m2)
      OBVIOUS
    <3>1. PICK a \in LiveIx(m2) : from[a] = ix
      BY <1>1
    <3>2. m2.entries[a] = m.entries[ix]
      BY <1>1, <3>1
    <3> QED BY <3>2 DEF NamesOf
  <2> QED BY <2>1, <2>2 DEF NamesOf
<1>5. ASSUME NEW name, NEW v PROVE Gives(m2, name, v) <=> Gives(m, name, v)
  <2>1. Gives(m2, name, v) => Gives(m, name, v)
    BY <1>1, <1>2 DEF Gives
  <2>2. ASSUME Gives(m, name, v) PROVE Gives(m2, name, v)
    <3>1. PICK ix \in LiveIx(m) : m.entries[ix].key = name /\ m.entries[ix].value = v
      BY <2>2 DEF Gives
    <3>2. PICK a \in LiveIx(m2) : from[a] = ix
      BY <1>1
    <3>3. m2.entries[a] = m.entries[ix]
      BY <1>1, <3>2
    <3> QED BY <3>1, <3>3 DEF Gives
  <2> QED BY <2>1, <2>2
<1> QED BY <1>3, <1>4, <1>5

\* What a set does.
SetGives(m, m2, key, value) ==
    /\ KeepsOrder(m, m2)
    /\ \A name, v : Gives(m2, name, v) <=> IF name = key THEN v = value ELSE Gives(m, name, v)

LEMMA AppendedGives ==
    ASSUME NEW m, NEW m2, NEW key, NEW value, key \notin NamesOf(m), Appended(m, m2, key, value),
           m.nentries \in Nat, LiveIx(m) \in SUBSET Nat
    PROVE  SetGives(m, m2, key, value)
<1> DEFINE c == m.nentries
<1>1. /\ LiveIx(m2) = LiveIx(m) \cup {c}
      /\ \A ix \in LiveIx(m) : ix < c /\ m2.entries[ix] = m.entries[ix]
      /\ m2.entries[c].key = key /\ m2.entries[c].value = value
  <2>1. m2.entries[c] = [key |-> key, value |-> value]
    BY DEF Appended
  <2> QED BY <2>1 DEF Appended
<1>2. \A ix \in LiveIx(m) : m.entries[ix].key # key
  BY DEF NamesOf
<1>3. KeepsOrder(m, m2)
  <2> SUFFICES ASSUME NEW a \in LiveIx(m2), NEW b \in LiveIx(m2), a < b,
                      m2.entries[a].key \in NamesOf(m), m2.entries[b].key \in NamesOf(m)
               PROVE  \E e, d \in LiveIx(m) : e < d /\ m.entries[e].key = m2.entries[a].key
                                                   /\ m.entries[d].key = m2.entries[b].key
    BY DEF KeepsOrder
  <2>1. a # c /\ b # c
    BY <1>1
  <2>2. /\ a \in LiveIx(m) /\ b \in LiveIx(m)
        /\ m.entries[a].key = m2.entries[a].key /\ m.entries[b].key = m2.entries[b].key
    BY <1>1, <2>1
  <2> QED BY <2>2
<1>4. ASSUME NEW name, NEW v
      PROVE  Gives(m2, name, v) <=> IF name = key THEN v = value ELSE Gives(m, name, v)
  <2> HIDE DEF c
  <2>1. CASE name = key
    BY <1>1, <1>2, <2>1, Zenon DEF Gives
  <2>2. CASE name # key
    <3>1. Gives(m2, name, v) => Gives(m, name, v)
      BY <1>1, <2>2 DEF Gives
    <3>2. Gives(m, name, v) => Gives(m2, name, v)
      BY <1>1, <2>2 DEF Gives
    <3> QED BY <2>2, <3>1, <3>2
  <2> QED BY <2>1, <2>2
<1> QED BY <1>3, <1>4 DEF SetGives

\* A resize before it changes nothing of that.
LEMMA MovedThenSet ==
    ASSUME NEW m, NEW r, NEW m2, NEW key, NEW value, Moved(m, r), SetGives(r, m2, key, value)
    PROVE  SetGives(m, m2, key, value)
<1>1. /\ KeepsOrder(m, r) /\ NamesOf(r) = NamesOf(m)
      /\ \A name, v : Gives(r, name, v) <=> Gives(m, name, v)
  BY MovedGives
<1>2. KeepsOrder(r, m2)
  BY DEF SetGives
<1>3. KeepsOrder(m, m2)
  <2> SUFFICES ASSUME NEW a \in LiveIx(m2), NEW b \in LiveIx(m2), a < b,
                      m2.entries[a].key \in NamesOf(m), m2.entries[b].key \in NamesOf(m)
               PROVE  \E e, d \in LiveIx(m) : e < d /\ m.entries[e].key = m2.entries[a].key
                                                   /\ m.entries[d].key = m2.entries[b].key
    BY DEF KeepsOrder
  <2>1. PICK c, d \in LiveIx(r) : c < d /\ r.entries[c].key = m2.entries[a].key
                                       /\ r.entries[d].key = m2.entries[b].key
    BY <1>1, <1>2 DEF KeepsOrder
  <2>2. r.entries[c].key \in NamesOf(m) /\ r.entries[d].key \in NamesOf(m)
    BY <2>1
  <2> QED BY <1>1, <2>1, <2>2 DEF KeepsOrder
<1>4. \A name, v : Gives(m2, name, v) <=> IF name = key THEN v = value ELSE Gives(m, name, v)
  BY <1>1 DEF SetGives
<1> QED BY <1>3, <1>4 DEF SetGives

LEMMA InsertIsSound ==
    ASSUME NEW m, Sound(m), NEW key \in Key, NEW value \in Nat
    PROVE  Sound(InsertKey(m, key, value)) /\ SetGives(m, InsertKey(m, key, value), key, value)
<1>1. PICK m2 : m2 = InsertKey(m, key, value)
  OBVIOUS
<1>2. PICK ix : ix = NameLookup(m, key)
  OBVIOUS
<1>3. /\ \A a \in LiveIx(m) : m.entries[a].key = key => ix = a
      /\ ix = EMPTY \/ (ix \in LiveIx(m) /\ m.entries[ix].key = key)
  BY <1>2, LookupFinds
<1>4. CASE ix # EMPTY
  <2>1. m2 = [m EXCEPT !.entries[ix].value = value]
    BY <1>1, <1>2, <1>4, Zenon DEF InsertKey
  <2>2. ix \in LiveIx(m) /\ m.entries[ix].key = key
    BY <1>3, <1>4
  <2>3. /\ Sound(m2) /\ LiveIx(m2) = LiveIx(m)
        /\ \A a \in LiveIx(m) : m2.entries[a].key = m.entries[a].key
        /\ \A a \in LiveIx(m) : m2.entries[a].value = IF a = ix THEN value ELSE m.entries[a].value
    <3> HIDE <2>1
    <3> QED BY <2>1, <2>2, ValueIsSound, SMTT(60)
  <2>4. KeepsOrder(m, m2)
    BY <2>3 DEF KeepsOrder
  <2>5. \A name, v : Gives(m2, name, v) <=> IF name = key THEN v = value ELSE Gives(m, name, v)
    <3> SUFFICES ASSUME NEW name, NEW v
                 PROVE  Gives(m2, name, v) <=> IF name = key THEN v = value ELSE Gives(m, name, v)
      OBVIOUS
    <3>1. CASE name = key
      <4>1. Gives(m2, name, v) => v = value
        BY <1>3, <2>2, <2>3, <3>1 DEF Gives
      <4>2. v = value => Gives(m2, name, v)
        BY <2>2, <2>3, <3>1 DEF Gives
      <4> QED BY <3>1, <4>1, <4>2
    <3>2. CASE name # key
      <4>1. Gives(m2, name, v) => Gives(m, name, v)
        BY <2>2, <2>3, <3>2 DEF Gives
      <4>2. Gives(m, name, v) => Gives(m2, name, v)
        BY <2>2, <2>3, <3>2 DEF Gives
      <4> QED BY <3>2, <4>1, <4>2
    <3> QED BY <3>1, <3>2
  <2> QED BY <1>1, <2>3, <2>4, <2>5 DEF SetGives
<1>5. CASE ix = EMPTY
  <2>1. EMPTY \notin LiveIx(m)
    BY LiveFacts DEF Sound, EMPTY
  <2>2. key \notin NamesOf(m)
    BY <1>3, <1>5, <2>1 DEF NamesOf
  <2>3. m.usable \in Nat
    BY DEF Sound, Balanced
  <2>4. CASE m.usable <= 0
    <3>1. PICK r : r = InsertionResize(m)
      OBVIOUS
    <3>2. m2 = AppendEntry(r, key, value)
      BY <1>1, <1>2, <1>5, <2>4, <3>1, Zenon DEF InsertKey
    <3>3. Sound(r) /\ Moved(m, r) /\ r.usable > 0
      BY <3>1, InsertionResizeIsSound
    <3>4. key \notin NamesOf(r)
      BY <2>2, <3>3, MovedGives
    <3>5. Sound(m2) /\ Appended(r, m2, key, value)
      BY <3>2, <3>3, <3>4, AppendIsSound
    <3>6. r.nentries \in Nat /\ LiveIx(r) \in SUBSET Nat
      BY <3>3, LiveFacts DEF Sound, Balanced
    <3>7. SetGives(r, m2, key, value)
      BY <3>4, <3>5, <3>6, AppendedGives
    <3>8. SetGives(m, m2, key, value)
      BY <3>3, <3>7, MovedThenSet
    <3> QED BY <1>1, <3>5, <3>8
  <2>5. CASE ~ (m.usable <= 0)
    <3>1. m2 = AppendEntry(m, key, value)
      BY <1>1, <1>2, <1>5, <2>5, Zenon DEF InsertKey
    <3>2. m.usable > 0
      BY <2>3, <2>5
    <3>3. Sound(m2) /\ Appended(m, m2, key, value)
      BY <2>2, <3>1, <3>2, AppendIsSound
    <3>4. m.nentries \in Nat /\ LiveIx(m) \in SUBSET Nat
      BY LiveFacts DEF Sound, Balanced
    <3>5. SetGives(m, m2, key, value)
      BY <2>2, <3>3, <3>4, AppendedGives
    <3> QED BY <1>1, <3>3, <3>5
  <2> QED BY <2>4, <2>5
<1> QED BY <1>4, <1>5

LEMMA SetIsSound ==
    ASSUME NEW m, Sound(m), NEW key \in Key, NEW value \in Nat
    PROVE  Sound(SetItem(m, key, value)) /\ SetGives(m, SetItem(m, key, value), key, value)
<1>1. CASE ~ IsStatic(m)
  <2>1. SetItem(m, key, value) = InsertKey(m, key, value)
    BY <1>1 DEF SetItem
  <2> QED BY <2>1, InsertIsSound
<1>2. CASE IsStatic(m)
  <2>1. PICK f : f = NewKeys(MINSIZE)
    OBVIOUS
  <2>2. SetItem(m, key, value) = AppendEntry(f, key, value)
    BY <1>2, <2>1 DEF SetItem
  <2>3. MINSIZE \in TableSizes \cup {1}
    BY DEF MINSIZE, TableSizes
  <2>4. Sound(f) /\ LiveIx(f) = {} /\ f.usable = UsableFraction(MINSIZE)
    BY <2>1, <2>3, NewIsSound
  <2>5. f.usable > 0
    BY <2>4 DEF UsableFraction, MINSIZE
  <2>6. LiveIx(m) = {}
    <3>1. m.nentries = 0
      <4>1. UsableFraction(m.table_size) = 0
        BY <1>2 DEF IsStatic, UsableFraction
      <4>2. m.nentries \in Nat /\ m.nentries <= UsableFraction(m.table_size)
        BY LiveFacts DEF Sound, Balanced
      <4> QED BY <4>1, <4>2
    <3> QED BY <3>1 DEF LiveIx
  <2>7. key \notin NamesOf(f)
    BY <2>4 DEF NamesOf
  <2>8. PICK m2 : m2 = AppendEntry(f, key, value)
    OBVIOUS
  <2>9. Sound(m2) /\ Appended(f, m2, key, value)
    BY <2>4, <2>5, <2>7, <2>8, AppendIsSound
  <2>10. f.nentries \in Nat /\ LiveIx(f) \in SUBSET Nat
    BY <2>4, LiveFacts DEF Sound, Balanced
  <2>11. SetGives(f, m2, key, value)
    BY <2>7, <2>9, <2>10, AppendedGives
  <2>12. Moved(m, f)
    <3>1. PICK from : from = [a \in {} |-> 0]
      OBVIOUS
    <3>2. from \in [{} -> {}]
      BY <3>1
    <3> QED BY <2>4, <2>6, <3>2 DEF Moved
  <2>13. SetGives(m, m2, key, value)
    BY <2>11, <2>12, MovedThenSet
  <2> QED BY <2>2, <2>8, <2>9, <2>13
<1> QED BY <1>1, <1>2

LEMMA PresizedIsSound ==
    ASSUME NEW minused \in Nat
    PROVE  Sound(NewPresized(minused)) /\ LiveIx(NewPresized(minused)) = {}
<1>1. CASE minused <= UsableFraction(MINSIZE)
  <2>1. ~ (minused > UsableFraction(MaxPresize))
    BY <1>1 DEF UsableFraction, MINSIZE, MaxPresize
  <2>2. NewPresized(minused) = NewKeys(1)
    BY <1>1, <2>1 DEF NewPresized, EmptyMap
  <2> QED BY <2>2, NewIsSound
<1>2. CASE minused > UsableFraction(MINSIZE) /\ minused > UsableFraction(MaxPresize)
  <2>1. ~ (minused <= UsableFraction(MINSIZE))
    BY <1>2 DEF UsableFraction, MINSIZE
  <2>2. NewPresized(minused) = NewKeys(MaxPresize)
    BY <1>2, <2>1 DEF NewPresized
  <2>3. MaxPresize \in TableSizes \cup {1}
    BY DEF MaxPresize, TableSizes
  <2> QED BY <2>2, <2>3, NewIsSound
<1>3. CASE ~ (minused <= UsableFraction(MINSIZE)) /\ ~ (minused > UsableFraction(MaxPresize))
  <2>1. NewPresized(minused) = NewKeys(EstimateKeySize(minused))
    BY <1>3, Zenon DEF NewPresized
  <2>2. PICK n : n = (minused * 3 + 1) \div 2
    OBVIOUS
  <2>3. UsableFraction(MaxPresize) = 87381 /\ MaxPresize = 131072
    BY DEF UsableFraction, MaxPresize
  <2>4. minused <= 87381
    BY <1>3, <2>3
  <2>5. n \in Nat /\ n <= MaxPresize
    BY <2>2, <2>3, <2>4
  <2>6. KeySize(n) \in TableSizes
    BY <2>5, KeySizeIs
  <2>7. EstimateKeySize(minused) \in TableSizes \cup {1}
    BY <2>2, <2>6 DEF EstimateKeySize
  <2> QED BY <2>1, <2>7, NewIsSound
<1>4. minused <= UsableFraction(MINSIZE) \/ minused > UsableFraction(MINSIZE)
  BY DEF UsableFraction, MINSIZE
<1> QED BY <1>1, <1>2, <1>3, <1>4

----------------------------------------------------------------------------
(* The machine                                                             *)

MapInv == map # NULL => Sound(map)

LEMMA InitIsSound == MapInit => MapInv
BY DEF MapInit, MapInv

LEMMA StepIsSound == MapInv /\ [MapNext]_map => MapInv'
<1> SUFFICES ASSUME MapInv, [MapNext]_map PROVE MapInv'
  OBVIOUS
<1>1. ASSUME NEW n \in Presizes, New(n) PROVE MapInv'
  <2>1. n \in Nat /\ map' = NewPresized(n)
    BY <1>1, ValuesAssumption DEF New
  <2>2. Sound(map')
    BY <2>1, PresizedIsSound
  <2> QED BY <2>2 DEF MapInv
<1>2. ASSUME NEW key \in Key, NEW value \in Values, Set(key, value) PROVE MapInv'
  <2>1. value \in Nat /\ map # NULL /\ map' = SetItem(map, key, value)
    BY <1>2, ValuesAssumption DEF Set
  <2>2. Sound(map)
    BY <2>1 DEF MapInv
  <2>3. Sound(map')
    BY <2>1, <2>2, SetIsSound
  <2> QED BY <2>3 DEF MapInv
<1>3. ASSUME NEW key \in Key, DelShift(key) PROVE MapInv'
  <2>1. map # NULL /\ map' = DelShiftItem(map, key)
    BY <1>3 DEF DelShift
  <2>2. Sound(map)
    BY <2>1 DEF MapInv
  <2>3. Sound(map')
    BY <2>1, <2>2, DeleteIsSound
  <2> QED BY <2>3 DEF MapInv
<1>4. CASE Clear
  BY <1>4 DEF Clear, MapInv
<1>5. CASE UNCHANGED map
  BY <1>5 DEF MapInv
<1> QED BY <1>1, <1>2, <1>3, <1>4, <1>5 DEF MapNext

\* The invariant of every reachable map: its chains are whole, its names are
\* each there once, and its books balance.
THEOREM InvAlways == MapSpec => []MapInv
<1>1. MapInit => MapInv
  BY InitIsSound
<1>2. MapInv /\ [MapNext]_map => MapInv'
  BY StepIsSound
<1> QED BY <1>1, <1>2, PTL DEF MapSpec

\* The entry array balances: every slot names an entry in use, room left and room
\* used are the whole array, and ma_used counts the live entries
\* (cgi_insert_key, cgi_resize_hashmap, _cg_del_shift_item_known_hash).
THEOREM BooksBalance == MapSpec => []MapTypeOK
<1>1. MapInv => MapTypeOK
  <2> SUFFICES ASSUME Sound(map)
               PROVE  /\ map.table_size \in {1} \cup TableSizes
                      /\ DOMAIN map.indices = 0 .. map.table_size - 1
                      /\ \A i \in DOMAIN map.indices :
                            map.indices[i] \in {EMPTY, DUMMY} \cup 0 .. map.nentries - 1
                      /\ DOMAIN map.entries = 0 .. UsableFraction(map.table_size) - 1
                      /\ \A ix \in DOMAIN map.entries :
                            map.entries[ix] \in [key : Key \cup {NoKey}, value : Nat \cup {-1}]
                      /\ map.usable >= 0
                      /\ map.usable + map.nentries = UsableFraction(map.table_size)
                      /\ map.used = Cardinality(LiveIx(map))
    BY DEF MapInv, MapTypeOK
  <2>1. Balanced(map) /\ Chained(map.table_size, map.indices, KeyOf(map), LiveIx(map))
    BY DEF Sound
  <2>2. LiveIx(map) \in SUBSET (0 .. map.nentries - 1)
    BY <2>1, LiveFacts
  <2>3. map.indices \in [0 .. map.table_size - 1 -> {EMPTY, DUMMY} \cup LiveIx(map)]
    BY <2>1 DEF Chained
  <2>4. map.entries \in [0 .. UsableFraction(map.table_size) - 1 -> Entry]
    BY <2>1 DEF Balanced
  <2>5. \A ix \in DOMAIN map.entries :
           map.entries[ix] \in [key : Key \cup {NoKey}, value : Nat \cup {-1}]
    BY <2>4 DEF Entry
  <2>6. DOMAIN map.entries = 0 .. UsableFraction(map.table_size) - 1
    BY <2>4
  <2>7. /\ map.table_size \in {1} \cup TableSizes /\ map.usable >= 0
        /\ map.usable + map.nentries = UsableFraction(map.table_size)
        /\ map.used = Cardinality(LiveIx(map))
    BY <2>1 DEF Balanced
  <2>8. /\ DOMAIN map.indices = 0 .. map.table_size - 1
        /\ \A i \in DOMAIN map.indices :
              map.indices[i] \in {EMPTY, DUMMY} \cup 0 .. map.nentries - 1
    BY <2>2, <2>3
  <2> QED BY <2>5, <2>6, <2>7, <2>8
<1> QED BY <1>1, InvAlways, PTL

\* cgi_name_lookup finds every live name, past the DUMMY slots of deletions and
\* the slots reused since, in a table of any size and for any hash values; so
\* cgi_insert_key never puts a name in twice.
THEOREM EveryNameIsFound == MapSpec => []EveryKeyIsFound
<1>1. MapInv => EveryKeyIsFound
  <2> SUFFICES ASSUME Sound(map), NEW ix \in LiveIx(map)
               PROVE  NameLookup(map, map.entries[ix].key) = ix
    BY DEF MapInv, EveryKeyIsFound
  <2>1. map.entries[ix].key \in Key
    BY DEF Sound, Named
  <2> QED BY <2>1, LookupFinds
<1> QED BY <1>1, InvAlways, PTL

\* There is an EMPTY slot in every table, which with WalkVisitsAll ends every
\* probing loop of the map: cgi_name_lookup, cgi_index_lookup,
\* cgi_find_empty_slot and the loop of cgi_build_indices.
THEOREM ProbingEnds == MapSpec => []AlwaysAnEmptySlot
<1>1. MapInv => AlwaysAnEmptySlot
  <2> SUFFICES ASSUME Sound(map) PROVE \E i \in DOMAIN map.indices : map.indices[i] = EMPTY
    BY DEF MapInv, AlwaysAnEmptySlot
  <2>1. \E i \in 0 .. map.table_size - 1 : map.indices[i] = EMPTY
    BY SoundHasEmpty
  <2>2. DOMAIN map.indices = 0 .. map.table_size - 1
    BY DEF Sound, Chained
  <2> QED BY <2>1, <2>2
<1> QED BY <1>1, InvAlways, PTL

\* Two names that stand in some order in one map do not stand in the other in the next.
LEMMA OrderHolds ==
    ASSUME NEW m, NEW m2, Sound(m), KeepsOrder(m, m2), NEW j, NEW k, Before(m, j, k)
    PROVE  ~ Before(m2, k, j)
<1> SUFFICES ASSUME Before(m2, k, j) PROVE FALSE
  OBVIOUS
<1>1. PICK a, b \in LiveIx(m) : a < b /\ m.entries[a].key = j /\ m.entries[b].key = k
  BY DEF Before
<1>2. PICK c, d \in LiveIx(m2) : c < d /\ m2.entries[c].key = k /\ m2.entries[d].key = j
  BY DEF Before
<1>3. j \in NamesOf(m) /\ k \in NamesOf(m)
  BY <1>1 DEF NamesOf
<1>4. PICK e, f \in LiveIx(m) : e < f /\ m.entries[e].key = k /\ m.entries[f].key = j
  BY <1>2, <1>3 DEF KeepsOrder
<1>5. e = b /\ f = a
  BY <1>1, <1>4 DEF Sound, Named
<1>6. a \in Nat /\ b \in Nat
  BY LiveFacts DEF Sound
<1> QED BY <1>1, <1>4, <1>5, <1>6

LEMMA DeleteKeepsOrder ==
    ASSUME NEW m, Sound(m), NEW key \in Key
    PROVE  KeepsOrder(m, DelShiftItem(m, key))
<1>1. PICK m2 : m2 = DelShiftItem(m, key)
  OBVIOUS
<1>2. /\ LiveIx(m2) \in SUBSET LiveIx(m)
      /\ \A a \in LiveIx(m2) : m2.entries[a].key = m.entries[a].key
  BY <1>1, DeleteIsSound
<1> QED BY <1>1, <1>2 DEF KeepsOrder

\* No operation, resize and deletion included, makes two names change places in
\* the entry array.
THEOREM NamesKeepTheirOrder == MapSpec => OrderIsKept
<1>1. MapInv /\ [MapNext]_map
        => [(map # NULL /\ map' # NULL) =>
              \A j, k \in Key : Before(map, j, k) => ~ Before(map', k, j)]_map
  <2> SUFFICES ASSUME MapInv, MapNext, map # NULL, map' # NULL,
                      NEW j \in Key, NEW k \in Key, Before(map, j, k)
               PROVE  ~ Before(map', k, j)
    OBVIOUS
  <2>1. Sound(map)
    BY DEF MapInv
  <2>2. ASSUME NEW key \in Key, NEW value \in Values, Set(key, value) PROVE ~ Before(map', k, j)
    <3>1. value \in Nat /\ map' = SetItem(map, key, value)
      BY <2>2, ValuesAssumption DEF Set
    <3>2. KeepsOrder(map, map')
      BY <2>1, <3>1, SetIsSound DEF SetGives
    <3> QED BY <2>1, <3>2, OrderHolds
  <2>3. ASSUME NEW key \in Key, DelShift(key) PROVE ~ Before(map', k, j)
    <3>1. map' = DelShiftItem(map, key)
      BY <2>3 DEF DelShift
    <3>2. KeepsOrder(map, map')
      BY <2>1, <3>1, DeleteKeepsOrder
    <3> QED BY <2>1, <3>2, OrderHolds
  <2>4. ~ (\E n \in Presizes : New(n)) /\ ~ Clear
    BY DEF New, Clear
  <2> QED BY <2>2, <2>3, <2>4 DEF MapNext
<1> QED BY <1>1, InvAlways, PTL DEF MapSpec, OrderIsKept

----------------------------------------------------------------------------
(* The index its callers see                                               *)

LEMMA ContentIs ==
    ASSUME NEW m, Sound(m)
    PROVE  /\ Content(m) \in [NamesOf(m) -> Nat] /\ NamesOf(m) \in SUBSET Key
           /\ \A name \in NamesOf(m) : \A v : Gives(m, name, v) <=> v = Content(m)[name]
           /\ \A name, v : Gives(m, name, v) => name \in NamesOf(m)
<1>1. /\ \A a, b \in LiveIx(m) : m.entries[a].key = m.entries[b].key => a = b
      /\ \A a \in LiveIx(m) : m.entries[a].key \in Key /\ m.entries[a].value \in Nat
  BY LiveFacts DEF Sound, Named
<1>2. NamesOf(m) \in SUBSET Key
  BY <1>1 DEF NamesOf
<1> DEFINE C(name) == m.entries[CHOOSE ix \in LiveIx(m) : m.entries[ix].key = name].value
<1>3. Content(m) = [name \in NamesOf(m) |-> C(name)]
  BY Zenon DEF Content, NamesOf
<1>4. ASSUME NEW name \in NamesOf(m)
      PROVE  C(name) \in Nat /\ \A v : Gives(m, name, v) <=> v = C(name)
  <2>1. PICK a \in LiveIx(m) : m.entries[a].key = name
    BY DEF NamesOf
  <2>2. PICK b : b = CHOOSE ix \in LiveIx(m) : m.entries[ix].key = name
    OBVIOUS
  <2>3. b \in LiveIx(m) /\ m.entries[b].key = name
    BY <2>1, <2>2, Zenon
  <2>4. C(name) = m.entries[b].value
    BY <2>2
  <2> HIDE DEF C
  <2>5. C(name) \in Nat
    BY <1>1, <2>3, <2>4
  <2>6. ASSUME NEW v PROVE Gives(m, name, v) <=> v = C(name)
    <3>1. Gives(m, name, v) => v = C(name)
      BY <1>1, <2>3, <2>4 DEF Gives
    <3>2. v = C(name) => Gives(m, name, v)
      BY <2>3, <2>4 DEF Gives
    <3> QED BY <3>1, <3>2
  <2> QED BY <2>5, <2>6
<1>5. \A name, v : Gives(m, name, v) => name \in NamesOf(m)
  BY DEF Gives, NamesOf
<1> HIDE DEF C
<1>6. \A name \in NamesOf(m) : Content(m)[name] = C(name)
  BY <1>3
<1>7. Content(m) \in [NamesOf(m) -> Nat]
  BY <1>3, <1>4
<1>8. \A name \in NamesOf(m) : \A v : Gives(m, name, v) <=> v = Content(m)[name]
  BY <1>4, <1>6
<1> QED BY <1>2, <1>5, <1>7, <1>8

\* A name that is in the map gives its value; SetGives says the rest of the names.
LEMMA SetIsPut ==
    ASSUME NEW m, NEW m2, Sound(m), Sound(m2), NEW key \in Key, NEW value \in Nat,
           SetGives(m, m2, key, value)
    PROVE  Content(m2) = [x \in DOMAIN Content(m) \cup {key} |->
                             IF x = key THEN value ELSE Content(m)[x]]
<1>1. /\ DOMAIN Content(m) = NamesOf(m) /\ DOMAIN Content(m2) = NamesOf(m2)
      /\ Content(m2) = [x \in NamesOf(m2) |-> Content(m2)[x]]
  BY ContentIs
<1>2. /\ \A name \in NamesOf(m) : \A v : Gives(m, name, v) <=> v = Content(m)[name]
      /\ \A name, v : Gives(m, name, v) => name \in NamesOf(m)
  BY ContentIs
<1>3. /\ \A name \in NamesOf(m2) : \A v : Gives(m2, name, v) <=> v = Content(m2)[name]
      /\ \A name, v : Gives(m2, name, v) => name \in NamesOf(m2)
  BY ContentIs
<1>4. \A name, v : Gives(m2, name, v) <=> IF name = key THEN v = value ELSE Gives(m, name, v)
  BY DEF SetGives
<1>5. Gives(m2, key, value)
  BY <1>4
<1>6. key \in NamesOf(m2) /\ Content(m2)[key] = value
  BY <1>3, <1>5
<1>7. \A x \in NamesOf(m) : x # key => x \in NamesOf(m2) /\ Content(m2)[x] = Content(m)[x]
  <2> SUFFICES ASSUME NEW x \in NamesOf(m), x # key
               PROVE  x \in NamesOf(m2) /\ Content(m2)[x] = Content(m)[x]
    OBVIOUS
  <2>1. Gives(m, x, Content(m)[x])
    BY <1>2
  <2>2. Gives(m2, x, Content(m)[x])
    BY <1>4, <2>1
  <2> QED BY <1>3, <2>2
<1>8. \A x \in NamesOf(m2) : x # key => x \in NamesOf(m)
  <2> SUFFICES ASSUME NEW x \in NamesOf(m2), x # key PROVE x \in NamesOf(m)
    OBVIOUS
  <2>1. Gives(m2, x, Content(m2)[x])
    BY <1>3
  <2>2. Gives(m, x, Content(m2)[x])
    BY <1>4, <2>1
  <2> QED BY <1>2, <2>2
<1>9. NamesOf(m2) = NamesOf(m) \cup {key}
  BY <1>6, <1>7, <1>8
<1>10. \A x \in NamesOf(m2) : Content(m2)[x] = IF x = key THEN value ELSE Content(m)[x]
  BY <1>6, <1>7, <1>9
<1> QED BY <1>1, <1>9, <1>10

LEMMA AbsentIsKept ==
    ASSUME NEW m, Sound(m), NEW key \in Key, key \notin NamesOf(m)
    PROVE  DelShiftItem(m, key) = m
<1>1. NameLookup(m, key) = EMPTY
  BY LookupFinds DEF NamesOf
<1>2. ~ HasItem(m, key)
  BY <1>1 DEF HasItem
<1> QED BY <1>2 DEF DelShiftItem

\* Every operation but a deletion changes the mapping of names to positions as
\* NameIndex says, and a deletion removes the name it is given and no other: the
\* map's callers (cg_zone_write, cg_particle_write, cg_delete_node) never lose a name
\* to another.
THEOREM ImplementsNames == MapSpec => ImplementsNamesOfIndex
<1> DEFINE index == IF map = NULL THEN NULL ELSE Content(map)
<1>1. MapInit => map = NULL
  BY DEF MapInit
<1>2. MapInv /\ MapInv' /\ [MapNext]_map
        => [\/ Abstract!Make
            \/ \E k \in Key, v \in Values : Abstract!Put(k, v)
            \/ \E k \in Key : /\ map # NULL /\ map' # NULL
                              /\ k \in NamesOf(map)
                              /\ NamesOf(map') = NamesOf(map) \ {k}
            \/ Abstract!Dispose]_(IF map = NULL THEN NULL ELSE Content(map))
  <2> SUFFICES ASSUME MapInv, MapInv', [MapNext]_map
               PROVE  \/ Abstract!Make
                      \/ \E k \in Key, v \in Values : Abstract!Put(k, v)
                      \/ \E k \in Key : /\ map # NULL /\ map' # NULL
                                        /\ k \in NamesOf(map)
                                        /\ NamesOf(map') = NamesOf(map) \ {k}
                      \/ Abstract!Dispose
                      \/ index' = index
    OBVIOUS
  <2>1. ASSUME NEW m, Sound(m) PROVE Content(m) # NULL
    <3>1. Content(m) \in [NamesOf(m) -> Nat] /\ NamesOf(m) \in SUBSET Key
      BY <2>1, ContentIs
    <3> QED BY <3>1, NullAssumption
  <2>2. map # NULL => index # NULL
    BY <2>1 DEF MapInv
  <2>3. CASE map' = NULL
    <3>1. index' = NULL
      BY <2>3
    <3>2. CASE map = NULL
      BY <3>1, <3>2
    <3>3. CASE map # NULL
      <4>1. Abstract!Dispose
        BY <2>2, <3>1, <3>3 DEF Abstract!Dispose
      <4> QED BY <4>1
    <3> QED BY <3>2, <3>3
  <2>4. ASSUME map' # NULL, NEW n \in Presizes, New(n) PROVE Abstract!Make
    <3>1. n \in Nat /\ map = NULL /\ map' = NewPresized(n)
      BY <2>4, ValuesAssumption DEF New
    <3>2. LiveIx(map') = {}
      BY <3>1, PresizedIsSound
    <3>3. Content(map') = [k \in {} |-> 0]
      BY <3>2 DEF Content
    <3>4. index = NULL /\ index' = [k \in {} |-> 0]
      BY <2>4, <3>1, <3>3
    <3> QED BY <3>4 DEF Abstract!Make
  <2>5. ASSUME map' # NULL, NEW key \in Key, NEW value \in Values, Set(key, value)
        PROVE  Abstract!Put(key, value)
    <3>1. value \in Nat /\ map # NULL /\ map' = SetItem(map, key, value)
      BY <2>5, ValuesAssumption DEF Set
    <3>2. Sound(map) /\ Sound(map') /\ SetGives(map, map', key, value)
      BY <3>1, SetIsSound DEF MapInv
    <3>3. Content(map') = [x \in DOMAIN Content(map) \cup {key} |->
                              IF x = key THEN value ELSE Content(map)[x]]
      BY <3>1, <3>2, SetIsPut, SMTT(60)
    <3>4. index # NULL /\ index = Content(map) /\ index' = Content(map')
      BY <2>2, <2>5, <3>1
    <3> QED BY <3>1, <3>3, <3>4 DEF Abstract!Put
  <2>6. ASSUME map' # NULL, NEW key \in Key, DelShift(key)
        PROVE  \/ index' = index
               \/ map # NULL /\ key \in NamesOf(map) /\ NamesOf(map') = NamesOf(map) \ {key}
    <3>1. map # NULL /\ map' = DelShiftItem(map, key)
      BY <2>6 DEF DelShift
    <3>2. Sound(map)
      BY <3>1 DEF MapInv
    <3>3. CASE key \notin NamesOf(map)
      BY <3>1, <3>2, <3>3, AbsentIsKept
    <3>4. CASE key \in NamesOf(map)
      <4>1. /\ LiveIx(map') = {a \in LiveIx(map) : map.entries[a].key # key}
            /\ \A a \in LiveIx(map') : map'.entries[a].key = map.entries[a].key
        BY <3>1, <3>2, DeleteIsSound
      <4>2. NamesOf(map') = NamesOf(map) \ {key}
        BY <4>1 DEF NamesOf
      <4> QED BY <3>1, <3>4, <4>2
    <3> QED BY <3>3, <3>4
  <2>7. CASE Clear
    BY <2>3, <2>7 DEF Clear
  <2>8. CASE UNCHANGED map
    BY <2>8
  <2> QED BY <2>3, <2>4, <2>5, <2>6, <2>7, <2>8 DEF MapNext
<1> QED BY <1>1, <1>2, InvAlways, PTL DEF MapSpec, ImplementsNamesOfIndex

-----------------------------------------------------------------------------
----------------------------------------------------------------------------
(* The positions that a map gives                                          *)

\* cgi_map_get_item returns what the map gives a name, and -1 for no other.
LEMMA GetItemGives ==
    ASSUME NEW m, Sound(m), NEW key \in Key
    PROVE  /\ \A v \in Nat : GetItem(m, key) = v <=> Gives(m, key, v)
           /\ key \in NamesOf(m) => GetItem(m, key) \in Nat
           /\ key \notin NamesOf(m) => GetItem(m, key) = -1
           /\ HasItem(m, key) <=> key \in NamesOf(m)
<1>1. PICK ix : ix = NameLookup(m, key)
  OBVIOUS
<1>2. /\ \A a \in LiveIx(m) : m.entries[a].key = key => ix = a
      /\ ix = EMPTY \/ (ix \in LiveIx(m) /\ m.entries[ix].key = key)
  BY <1>1, LookupFinds
<1>3. EMPTY \notin LiveIx(m) /\ \A a \in LiveIx(m) : m.entries[a].value \in Nat
  BY LiveFacts DEF Sound, EMPTY
<1>4. CASE ix = EMPTY
  <2>1. GetItem(m, key) = -1
    BY <1>1, <1>4 DEF GetItem
  <2>2. \A a \in LiveIx(m) : m.entries[a].key # key
    BY <1>2, <1>3, <1>4
  <2>3. key \notin NamesOf(m) /\ \A v : ~ Gives(m, key, v)
    BY <2>2 DEF NamesOf, Gives
  <2>4. ~ HasItem(m, key)
    BY <1>1, <1>4 DEF HasItem
  <2> QED BY <2>1, <2>3, <2>4
<1>5. CASE ix # EMPTY
  <2>1. ix \in LiveIx(m) /\ m.entries[ix].key = key
    BY <1>2, <1>5
  <2>2. GetItem(m, key) = m.entries[ix].value
    BY <1>1, <1>5 DEF GetItem
  <2>3. GetItem(m, key) \in Nat /\ key \in NamesOf(m)
    BY <1>3, <2>1, <2>2 DEF NamesOf
  <2>4. \A v : GetItem(m, key) = v <=> Gives(m, key, v)
    BY <1>2, <2>1, <2>2 DEF Gives
  <2>5. HasItem(m, key)
    BY <1>1, <1>5, <2>3 DEF HasItem
  <2> QED BY <2>3, <2>4, <2>5
<1> QED BY <1>4, <1>5

\* ma_used is the number of names.
LEMMA UsedIsNames ==
    ASSUME NEW m, Sound(m)
    PROVE  m.used = Cardinality(NamesOf(m)) /\ IsFiniteSet(NamesOf(m)) /\ NamesOf(m) \in SUBSET Key
<1>1. /\ m.used = Cardinality(LiveIx(m)) /\ IsFiniteSet(LiveIx(m))
      /\ \A ix \in LiveIx(m) : m.entries[ix].key \in Key
      /\ \A a, b \in LiveIx(m) : m.entries[a].key = m.entries[b].key => a = b
  BY LiveFacts DEF Sound, Balanced, Named
<1>2. KeyOf(m) \in Bijection(LiveIx(m), NamesOf(m))
  <2>1. KeyOf(m) \in [LiveIx(m) -> NamesOf(m)]
    BY DEF KeyOf, NamesOf
  <2>2. \A a, b \in LiveIx(m) : KeyOf(m)[a] = KeyOf(m)[b] => a = b
    BY <1>1 DEF KeyOf
  <2>3. \A name \in NamesOf(m) : \E a \in LiveIx(m) : KeyOf(m)[a] = name
    BY DEF KeyOf, NamesOf
  <2> QED BY <2>1, <2>2, <2>3 DEF Bijection, Injection, Surjection, IsInjective
<1>3. IsFiniteSet(NamesOf(m)) /\ Cardinality(NamesOf(m)) = Cardinality(LiveIx(m))
  <2>1. ExistsBijection(LiveIx(m), NamesOf(m))
    BY <1>2 DEF ExistsBijection
  <2> QED BY <1>1, <2>1, FS_Bijection
<1>4. NamesOf(m) \in SUBSET Key
  BY <1>1 DEF NamesOf
<1> QED BY <1>1, <1>3, <1>4

LEMMA NamesAreGiven ==
    ASSUME NEW m, NEW name
    PROVE  name \in NamesOf(m) <=> \E v : Gives(m, name, v)
BY DEF NamesOf, Gives

\* A name has one position.
LEMMA GivesOnce ==
    ASSUME NEW m, Sound(m), NEW name, NEW u, NEW v, Gives(m, name, u), Gives(m, name, v)
    PROVE  u = v /\ u \in Nat
<1>1. /\ \A ix \in LiveIx(m) : m.entries[ix].value \in Nat
      /\ \A a, b \in LiveIx(m) : m.entries[a].key = m.entries[b].key => a = b
  BY LiveFacts DEF Sound, Named
<1> QED BY <1>1 DEF Gives

\* The shift reaches the entries below the room left.
LEMMA ShiftLowers ==
    ASSUME NEW m, Sound(m), NEW old \in Nat, NEW a \in LiveIx(m), a < m.usable
    PROVE  ShiftDown(m, old).entries[a].value
             = IF m.entries[a].value > old THEN m.entries[a].value - 1 ELSE m.entries[a].value
<1>1. /\ m = [ table_size |-> m.table_size, usable |-> m.usable, nentries |-> m.nentries,
               used |-> m.used, indices |-> m.indices, entries |-> m.entries ]
      /\ m.entries \in [0 .. UsableFraction(m.table_size) - 1 -> Entry]
      /\ a \in 0 .. UsableFraction(m.table_size) - 1
  BY LiveFacts DEF Sound, Balanced, IsMap
<1>2. PICK E2 : E2 = [i \in DOMAIN m.entries |->
                        IF i < m.usable THEN Lowered(m.entries[i], old) ELSE m.entries[i]]
  OBVIOUS
<1>3. ShiftDown(m, old) = [m EXCEPT !.entries = E2]
  BY <1>2, Zenon DEF ShiftDown
<1>4. ShiftDown(m, old).entries = E2
  BY <1>1, <1>3
<1>5. E2[a] = Lowered(m.entries[a], old)
  BY <1>1, <1>2
<1>6. PICK e \in Entry : e = m.entries[a]
  BY <1>1
<1>7. e = [key |-> e.key, value |-> e.value]
  BY DEF Entry
<1>8. Lowered(e, old).value = IF e.value > old THEN e.value - 1 ELSE e.value
  BY <1>7 DEF Lowered
<1> QED BY <1>4, <1>5, <1>6, <1>8

\* With room left for as many entries as are used a deletion lowers every position
\* above the one that it removes.
LEMMA DeleteLowers ==
    ASSUME NEW m, Sound(m), NEW key \in Key, NEW old, Gives(m, key, old), m.nentries <= m.usable,
           NEW name, name # key, NEW v, Gives(m, name, v)
    PROVE  Gives(DelShiftItem(m, key), name, IF v > old THEN v - 1 ELSE v)
<1>1. PICK ix \in LiveIx(m) : m.entries[ix].key = key /\ m.entries[ix].value = old
  BY DEF Gives
<1>2. ix = NameLookup(m, key) /\ old \in Nat
  BY <1>1, LookupFinds, LiveFacts DEF Sound
<1>3. HasItem(m, key)
  BY <1>1, GetItemGives DEF NamesOf
<1>4. PICK s : s = IndexLookup(m, key, ix)
  OBVIOUS
<1>5. s \in 0 .. m.table_size - 1 /\ m.indices[s] = ix
  BY <1>1, <1>4, IndexIsFound
<1>6. PICK f : f = WithoutEntry(m, s, ix)
  OBVIOUS
<1>7. DelShiftItem(m, key) = ShiftDown(f, old)
  BY <1>1, <1>2, <1>3, <1>4, <1>6, Zenon DEF DelShiftItem, WithoutEntry
<1>8. /\ Sound(f) /\ LiveIx(f) = LiveIx(m) \ {ix}
      /\ \A a \in LiveIx(m) \ {ix} : f.entries[a] = m.entries[a]
  BY <1>5, <1>6, FreeIsSound
<1>9. f.usable = m.usable
  <2>1. m = [ table_size |-> m.table_size, usable |-> m.usable, nentries |-> m.nentries,
              used |-> m.used, indices |-> m.indices, entries |-> m.entries ]
    BY DEF Sound, Balanced, IsMap
  <2> QED BY <1>6, <2>1 DEF WithoutEntry
<1>10. PICK a \in LiveIx(m) : m.entries[a].key = name /\ m.entries[a].value = v
  BY DEF Gives
<1>11. a \in LiveIx(f) /\ f.entries[a] = m.entries[a]
  BY <1>1, <1>8, <1>10
<1>12. a < f.usable
  <2>1. a \in 0 .. m.nentries - 1 /\ m.nentries \in Nat /\ m.usable \in Nat
    BY <1>10, LiveFacts DEF Sound, Balanced
  <2> QED BY <1>9, <2>1
<1>13. ShiftDown(f, old).entries[a].value = IF v > old THEN v - 1 ELSE v
  BY <1>2, <1>8, <1>10, <1>11, <1>12, ShiftLowers
<1>14. a \in LiveIx(ShiftDown(f, old)) /\ ShiftDown(f, old).entries[a].key = name
  BY <1>2, <1>8, <1>10, <1>11, ShiftIsSound
<1> QED BY <1>7, <1>13, <1>14 DEF Gives

----------------------------------------------------------------------------
(* The zones of a base                                                     *)

Element == [name : Key, id : Nat]

\* The place of a name in the order, and the ids that its nodes are given.
Own(name) == CHOOSE i \in DOMAIN Order : Order[i] = name
Ids(name) == {Own(name), Own(name) + Len(Order)}

LEMMA OwnIs ==
    ASSUME NEW name \in Key
    PROVE  Own(name) \in 1 .. Len(Order) /\ Order[Own(name)] = name /\ Len(Order) \in Nat
<1>1. DOMAIN Order = 1 .. Len(Order) /\ Len(Order) \in Nat
  BY OrderAssumption
<1>2. \E i \in DOMAIN Order : Order[i] = name
  BY OrderAssumption DEF Range
<1>3. Own(name) \in DOMAIN Order /\ Order[Own(name)] = name
  BY <1>2, Zenon DEF Own
<1> QED BY <1>1, <1>3

LEMMA FreshIs ==
    ASSUME NEW name \in Key
    PROVE  FreshId(name) \in Ids(name) /\ Ids(name) \in SUBSET (Nat \ {NoNode})
<1>1. FreshId(name) \in Ids(name)
  BY DEF FreshId, Ids, Own
<1>2. Ids(name) \in SUBSET (Nat \ {NoNode})
  BY OwnIs DEF Ids, NoNode
<1> QED BY <1>1, <1>2

\* The nodes of two names never have one id.
LEMMA IdsApart ==
    ASSUME NEW a \in Key, NEW b \in Key, NEW id, id \in Ids(a), id \in Ids(b)
    PROVE  a = b
<1>1. Own(a) \in 1 .. Len(Order) /\ Order[Own(a)] = a /\ Len(Order) \in Nat
  BY OwnIs
<1>2. Own(b) \in 1 .. Len(Order) /\ Order[Own(b)] = b
  BY OwnIs
<1>3. Own(a) = Own(b)
  BY <1>1, <1>2 DEF Ids
<1> QED BY <1>1, <1>2, <1>3

ListNames == {zone[i].name : i \in 1 .. nzones}
ListIsDistinct == \A i, j \in 1 .. nzones : zone[i].name = zone[j].name => i = j

ZoneIn(f, n) == n \in DOMAIN f /\ f[n].label = ZoneLabel

\* Every zone of the file has an element, and an element with a node has its own.
Mirrors ==
    /\ \A n \in Key : ZoneIn(file, n) =>
          \E i \in 1 .. nzones : zone[i].name = n /\ zone[i].id = file[n].id
    /\ \A i \in 1 .. nzones :
          zone[i].id # NoNode => ZoneIn(file, zone[i].name) /\ file[zone[i].name].id = zone[i].id

ZoneTyped ==
    /\ mode \in {"closed", "write", "modify"}
    /\ DOMAIN file \in SUBSET Key
    /\ \A n \in DOMAIN file : file[n] \in [id : Ids(n), label : {ZoneLabel, "Family_t"}]
    /\ zone \in Seq(Element)
    /\ nzones \in 0 .. Len(zone)
    /\ mode = "closed" => zonemap = NULL /\ nzones = 0

MapIsOfList == zonemap # NULL => Sound(zonemap) /\ NamesOf(zonemap) = ListNames

\* The inductive invariant: the types, and while nothing has been damaged, no two
\* elements of a name, the names of the map those of the list, whatever positions it
\* gives them, and the list in step with the file.
ZoneInv ==
    /\ ZoneTyped
    /\ Undamaged => ListIsDistinct /\ MapIsOfList /\ (mode # "closed" => Mirrors)

LEMMA ZoneInvImplies == ZoneInv => TypeOK /\ MemoryMirrorsFile
<1> SUFFICES ASSUME ZoneInv PROVE TypeOK /\ MemoryMirrorsFile
  OBVIOUS
<1>1. ZoneTyped
  BY DEF ZoneInv
<1>2. TypeOK
  <2>1. \A n \in DOMAIN file : file[n] \in [id : Nat \ {NoNode}, label : {ZoneLabel, "Family_t"}]
    <3> SUFFICES ASSUME NEW n \in DOMAIN file
                 PROVE  file[n] \in [id : Nat \ {NoNode}, label : {ZoneLabel, "Family_t"}]
      OBVIOUS
    <3>1. n \in Key /\ file[n] \in [id : Ids(n), label : {ZoneLabel, "Family_t"}]
      BY <1>1 DEF ZoneTyped
    <3>2. Ids(n) \in SUBSET (Nat \ {NoNode})
      BY <3>1, FreshIs
    <3> QED BY <3>1, <3>2
  <2>2. \A i \in DOMAIN zone : zone[i] \in [name : Key, id : Nat]
    <3>1. zone \in Seq(Element)
      BY <1>1 DEF ZoneTyped
    <3>2. \A i \in DOMAIN zone : zone[i] \in Element
      BY <3>1
    <3> QED BY <3>2 DEF Element
  <2> QED BY <1>1, <2>1, <2>2 DEF TypeOK, ZoneTyped
<1>3. ASSUME mode # "closed", Undamaged PROVE MemoryMirrorsFile
  <2>1. ListIsDistinct /\ Mirrors
    BY <1>3 DEF ZoneInv
  <2>2. ASSUME NEW n \in Key, IsZone(n)
        PROVE  Cardinality({i \in 1 .. nzones : zone[i].id = file[n].id}) = 1
    <3>1. PICK i \in 1 .. nzones : zone[i].name = n /\ zone[i].id = file[n].id
      BY <2>1, <2>2 DEF Mirrors, ZoneIn, IsZone
    <3>2. n \in DOMAIN file /\ file[n].id \in Ids(n) /\ file[n].id # NoNode
      <4>1. n \in DOMAIN file
        BY <2>2 DEF IsZone
      <4>2. file[n].id \in Ids(n)
        BY <1>1, <4>1 DEF ZoneTyped
      <4> QED BY <4>1, <4>2, FreshIs
    <3>3. ASSUME NEW j \in 1 .. nzones, zone[j].id = file[n].id PROVE j = i
      <4>1. IsZone(zone[j].name) /\ file[zone[j].name].id = file[n].id
        BY <2>1, <3>2, <3>3 DEF Mirrors, ZoneIn, IsZone
      <4>2. zone[j].name \in Key /\ zone[j].name \in DOMAIN file
        BY <1>1, <4>1 DEF IsZone, ZoneTyped
      <4>3. file[n].id \in Ids(zone[j].name)
        BY <1>1, <4>1, <4>2 DEF ZoneTyped
      <4>4. zone[j].name = n
        BY <3>2, <4>2, <4>3, IdsApart
      <4> QED BY <2>1, <3>1, <4>4 DEF ListIsDistinct
    <3>4. {j \in 1 .. nzones : zone[j].id = file[n].id} = {i}
      BY <3>1, <3>3
    <3> QED BY <3>4, FS_Singleton
  <2> QED BY <2>1, <2>2 DEF MemoryMirrorsFile, Mirrors, ZoneIn, IsZone
<1> QED BY <1>2, <1>3 DEF MemoryMirrorsFile

ZoneNames == {n \in Key : IsZone(n)}

ReadSteps(f, m) ==
    f = [k \in 0 .. m |-> IF k = 0 THEN <<>>
                          ELSE IF IsZone(Order[k]) THEN Append(f[k - 1], Order[k])
                          ELSE f[k - 1]]

\* The sequence q has each zone among the first k names once.
ReadUpTo(q, k) ==
    /\ q \in Seq(ZoneNames)
    /\ \A i \in 1 .. Len(q) : \E l \in 1 .. k : q[i] = Order[l]
    /\ \A l \in 1 .. k : IsZone(Order[l]) => \E i \in 1 .. Len(q) : q[i] = Order[l]
    /\ \A i, j \in 1 .. Len(q) : q[i] = q[j] => i = j

\* What zones the file has, and what the list is made of when a file is opened.
LEMMA ZonesInFileAre ==
    /\ ZonesInFile \in Seq(ZoneNames)
    /\ \A n \in Key : IsZone(n) => \E i \in 1 .. Len(ZonesInFile) : ZonesInFile[i] = n
    /\ \A i, j \in 1 .. Len(ZonesInFile) : ZonesInFile[i] = ZonesInFile[j] => i = j
<1> DEFINE N == Len(Order)
<1>1. /\ N \in Nat /\ \A k \in 1 .. N : Order[k] \in Key
      /\ \A n \in Key : \E k \in 1 .. N : Order[k] = n
      /\ \A k, l \in 1 .. N : Order[k] = Order[l] => k = l
  BY OrderAssumption DEF Range, IsInjective
<1>2. \E f : ReadSteps(f, N)
  <2> DEFINE S == {m \in Nat : \E f : ReadSteps(f, m)}
  <2>1. 0 \in S
    <3>1. ReadSteps([k \in 0 .. 0 |-> <<>>], 0)
      BY DEF ReadSteps
    <3> QED BY <3>1
  <2>2. ASSUME NEW m \in S PROVE m + 1 \in S
    <3>1. PICK w : ReadSteps(w, m)
      OBVIOUS
    <3>2. PICK v : v = [k \in 0 .. m + 1 |-> IF k = 0 THEN <<>>
                                            ELSE IF IsZone(Order[k]) THEN Append(w[k - 1], Order[k])
                                            ELSE w[k - 1]]
      OBVIOUS
    <3>3. \A k \in 0 .. m : v[k] = w[k]
      <4>1. \A k \in 0 .. m : w[k] = IF k = 0 THEN <<>>
                                     ELSE IF IsZone(Order[k]) THEN Append(w[k - 1], Order[k])
                                     ELSE w[k - 1]
        BY <3>1 DEF ReadSteps
      <4>2. \A k \in 0 .. m : k \in 0 .. m + 1
        OBVIOUS
      <4> QED BY <3>2, <4>1, <4>2, Zenon
    <3>4. \A k \in 0 .. m + 1 : k # 0 => v[k - 1] = w[k - 1]
      BY <3>3
    <3>5. ReadSteps(v, m + 1)
      BY <3>2, <3>4 DEF ReadSteps
    <3> QED BY <3>5
  <2>3. S = Nat
    <3> HIDE DEF S
    <3>1. S \in SUBSET Nat
      BY DEF S
    <3> QED BY <2>1, <2>2, <3>1, AllNumbers
  <2> QED BY <1>1, <2>3
<1>3. PICK read : ReadSteps(read, N) /\ ZonesInFile = read[N]
  <2>1. ZonesInFile = (CHOOSE f : ReadSteps(f, N))[N]
    BY Zenon DEF ZonesInFile, ReadSteps
  <2> QED BY <1>2, <2>1, Zenon
<1>4. \A k \in 0 .. N : read[k] = IF k = 0 THEN <<>>
                                 ELSE IF IsZone(Order[k]) THEN Append(read[k - 1], Order[k])
                                 ELSE read[k - 1]
  BY <1>3 DEF ReadSteps
<1> DEFINE S == {k \in Nat : k <= N => ReadUpTo(read[k], k)}
<1>5. 0 \in S
  <2>1. read[0] = <<>>
    BY <1>1, <1>4
  <2>2. ReadUpTo(<<>>, 0)
    BY DEF ReadUpTo
  <2> QED BY <2>1, <2>2
<1>6. ASSUME NEW k \in S PROVE k + 1 \in S
  <2> SUFFICES ASSUME k + 1 <= N PROVE ReadUpTo(read[k + 1], k + 1)
    OBVIOUS
  <2>1. PICK q : q = read[k]
    OBVIOUS
  <2>2. k \in Nat /\ ReadUpTo(q, k)
    BY <1>1, <1>6, <2>1
  <2>p. /\ q \in Seq(ZoneNames)
        /\ \A i \in 1 .. Len(q) : \E l \in 1 .. k : q[i] = Order[l]
        /\ \A l \in 1 .. k : IsZone(Order[l]) => \E i \in 1 .. Len(q) : q[i] = Order[l]
        /\ \A i, j \in 1 .. Len(q) : q[i] = q[j] => i = j
    BY <2>2 DEF ReadUpTo
  <2>3. k + 1 \in 1 .. N /\ k + 1 \in 0 .. N /\ k + 1 # 0 /\ (k + 1) - 1 = k
    BY <1>1, <2>2
  <2>4. read[k + 1] = IF IsZone(Order[k + 1]) THEN Append(q, Order[k + 1]) ELSE q
    BY <1>4, <2>1, <2>3
  <2>5. CASE ~ IsZone(Order[k + 1])
    <3>1. ReadUpTo(q, k + 1)
      <4>1. \A l \in 1 .. k + 1 : l = k + 1 \/ l \in 1 .. k
        BY <2>2
      <4>2. \A l \in 1 .. k : l \in 1 .. k + 1
        BY <2>2
      <4> QED BY <2>p, <2>5, <4>1, <4>2 DEF ReadUpTo
    <3> QED BY <2>4, <2>5, <3>1
  <2>6. CASE IsZone(Order[k + 1])
    <3>1. PICK n : n = Order[k + 1]
      OBVIOUS
    <3>2. n \in ZoneNames
      BY <1>1, <2>3, <2>6, <3>1 DEF ZoneNames
    <3>3. PICK q2 : q2 = Append(q, n)
      OBVIOUS
    <3>4. /\ q2 \in Seq(ZoneNames) /\ Len(q2) = Len(q) + 1 /\ Len(q) \in Nat
          /\ q2[Len(q) + 1] = n /\ \A i \in 1 .. Len(q) : q2[i] = q[i]
      BY <2>p, <3>2, <3>3
    <3>5. \A i \in 1 .. Len(q2) : i = Len(q) + 1 \/ i \in 1 .. Len(q)
      BY <3>4
    <3>6. \A l \in 1 .. k + 1 : l = k + 1 \/ l \in 1 .. k
      BY <2>2
    <3>7. \A i \in 1 .. Len(q) : q[i] # n
      <4> SUFFICES ASSUME NEW i \in 1 .. Len(q) PROVE q[i] # n
        OBVIOUS
      <4>1. PICK l \in 1 .. k : q[i] = Order[l]
        BY <2>p
      <4>2. l \in 1 .. N /\ l # k + 1
        BY <1>1, <2>2, <2>3
      <4> QED BY <1>1, <2>3, <3>1, <4>1, <4>2
    <3>8. \A i \in 1 .. Len(q2) : \E l \in 1 .. k + 1 : q2[i] = Order[l]
      <4> SUFFICES ASSUME NEW i \in 1 .. Len(q2) PROVE \E l \in 1 .. k + 1 : q2[i] = Order[l]
        OBVIOUS
      <4>1. CASE i = Len(q) + 1
        <5>1. k + 1 \in 1 .. k + 1
          BY <2>2
        <5> QED BY <3>1, <3>4, <4>1, <5>1
      <4>2. CASE i \in 1 .. Len(q)
        <5>1. PICK l \in 1 .. k : q[i] = Order[l]
          BY <2>p, <4>2
        <5>2. l \in 1 .. k + 1
          BY <2>2
        <5> QED BY <3>4, <4>2, <5>1, <5>2
      <4> QED BY <3>5, <4>1, <4>2
    <3>9. \A l \in 1 .. k + 1 : IsZone(Order[l]) => \E i \in 1 .. Len(q2) : q2[i] = Order[l]
      <4> SUFFICES ASSUME NEW l \in 1 .. k + 1, IsZone(Order[l])
                   PROVE  \E i \in 1 .. Len(q2) : q2[i] = Order[l]
        OBVIOUS
      <4>1. CASE l = k + 1
        BY <3>1, <3>4, <4>1
      <4>2. CASE l \in 1 .. k
        <5>1. PICK i \in 1 .. Len(q) : q[i] = Order[l]
          BY <2>p, <4>2
        <5> QED BY <3>4, <5>1
      <4> QED BY <3>6, <4>1, <4>2
    <3>10. \A i, j \in 1 .. Len(q2) : q2[i] = q2[j] => i = j
      <4> SUFFICES ASSUME NEW i \in 1 .. Len(q2), NEW j \in 1 .. Len(q2), q2[i] = q2[j] PROVE i = j
        OBVIOUS
      <4>1. CASE i \in 1 .. Len(q) /\ j \in 1 .. Len(q)
        BY <2>p, <3>4, <4>1
      <4>2. CASE i = Len(q) + 1 /\ j \in 1 .. Len(q)
        BY <3>4, <3>7, <4>2
      <4>3. CASE j = Len(q) + 1 /\ i \in 1 .. Len(q)
        BY <3>4, <3>7, <4>3
      <4> QED BY <3>5, <4>1, <4>2, <4>3
    <3>11. ReadUpTo(q2, k + 1)
      BY <3>4, <3>8, <3>9, <3>10 DEF ReadUpTo
    <3> QED BY <2>4, <2>6, <3>1, <3>3, <3>11
  <2> QED BY <2>5, <2>6
<1>7. S = Nat
  <2> HIDE DEF S
  <2>1. S \in SUBSET Nat
    BY DEF S
  <2> QED BY <1>5, <1>6, <2>1, AllNumbers
<1>8. ReadUpTo(ZonesInFile, N)
  <2>1. N \in S
    BY <1>1, <1>7
  <2> QED BY <1>3, <2>1
<1>p. /\ ZonesInFile \in Seq(ZoneNames)
      /\ \A l \in 1 .. N : IsZone(Order[l]) => \E i \in 1 .. Len(ZonesInFile) : ZonesInFile[i] = Order[l]
      /\ \A i, j \in 1 .. Len(ZonesInFile) : ZonesInFile[i] = ZonesInFile[j] => i = j
  BY <1>8 DEF ReadUpTo
<1>9. \A n \in Key : IsZone(n) => \E i \in 1 .. Len(ZonesInFile) : ZonesInFile[i] = n
  <2> SUFFICES ASSUME NEW n \in Key, IsZone(n)
               PROVE  \E i \in 1 .. Len(ZonesInFile) : ZonesInFile[i] = n
    OBVIOUS
  <2>1. PICK l \in 1 .. N : Order[l] = n
    BY <1>1
  <2> QED BY <1>p, <2>1
<1> QED BY <1>p, <1>9

----------------------------------------------------------------------------
(* The map and the list                                                    *)

LEMMA SetNames ==
    ASSUME NEW m, NEW m2, NEW key, NEW value, SetGives(m, m2, key, value)
    PROVE  /\ NamesOf(m2) = NamesOf(m) \cup {key} /\ Gives(m2, key, value)
           /\ \A name : name # key => \A v : Gives(m2, name, v) <=> Gives(m, name, v)
<1>1. \A name, v : Gives(m2, name, v) <=> IF name = key THEN v = value ELSE Gives(m, name, v)
  BY DEF SetGives
<1>2. Gives(m2, key, value)
  BY <1>1
<1>3. \A name : name # key => \A v : Gives(m2, name, v) <=> Gives(m, name, v)
  BY <1>1
<1>4. \A name : name \in NamesOf(m2) <=> name \in NamesOf(m) \cup {key}
  <2> SUFFICES ASSUME NEW name PROVE name \in NamesOf(m2) <=> name \in NamesOf(m) \cup {key}
    OBVIOUS
  <2>1. name \in NamesOf(m2) <=> \E v : Gives(m2, name, v)
    BY NamesAreGiven
  <2>2. name \in NamesOf(m) <=> \E v : Gives(m, name, v)
    BY NamesAreGiven
  <2> QED BY <1>2, <1>3, <2>1, <2>2
<1> QED BY <1>2, <1>3, <1>4

LEMMA NamesCount ==
    ASSUME NEW n \in Nat, NEW zs, \A i, j \in 1 .. n : zs[i].name = zs[j].name => i = j
    PROVE  Cardinality({zs[i].name : i \in 1 .. n}) = n
<1>1. PICK f : f = [i \in 1 .. n |-> zs[i].name]
  OBVIOUS
<1>2. PICK T : T = {zs[i].name : i \in 1 .. n}
  OBVIOUS
<1>3. f \in Bijection(1 .. n, T)
  <2>1. f \in [1 .. n -> T]
    BY <1>1, <1>2
  <2>2. \A i, j \in 1 .. n : f[i] = f[j] => i = j
    BY <1>1
  <2>3. \A name \in T : \E i \in 1 .. n : f[i] = name
    BY <1>1, <1>2
  <2> QED BY <2>1, <2>2, <2>3 DEF Bijection, Injection, Surjection, IsInjective
<1>4. IsFiniteSet(1 .. n) /\ Cardinality(1 .. n) = n
  <2>1. 1 \in Int /\ n \in Int
    OBVIOUS
  <2>2. IsFiniteSet(1 .. n) /\ Cardinality(1 .. n) = IF 1 > n THEN 0 ELSE n - 1 + 1
    BY <2>1, FS_Interval
  <2> QED BY <2>2
<1>5. ExistsBijection(1 .. n, T)
  BY <1>3 DEF ExistsBijection
<1>6. Cardinality(T) = Cardinality(1 .. n)
  BY <1>4, <1>5, FS_Bijection
<1> QED BY <1>2, <1>4, <1>6

\* A map that has the names of the list has as many as the list.
LEMMA SyncIs ==
    ASSUME NEW m, Sound(m), NEW n \in Nat, NEW zs, \A i \in 1 .. n : zs[i].name \in Key,
           \A i, j \in 1 .. n : zs[i].name = zs[j].name => i = j,
           NamesOf(m) = {zs[i].name : i \in 1 .. n}
    PROVE  /\ m.used = n
           /\ \A i \in 1 .. n : GetItem(m, zs[i].name) = i - 1 <=> Gives(m, zs[i].name, i - 1)
<1>1. m.used = n
  BY UsedIsNames, NamesCount, SMTT(60)
<1>2. ASSUME NEW i \in 1 .. n
      PROVE  GetItem(m, zs[i].name) = i - 1 <=> Gives(m, zs[i].name, i - 1)
  <2>1. i - 1 \in Nat /\ zs[i].name \in Key
    OBVIOUS
  <2> QED BY <2>1, GetItemGives
<1> QED BY <1>1, <1>2

BuildSteps(f, m) ==
    f = [k \in 0 .. m |-> IF k = 0 THEN NewPresized(nzones)
                          ELSE SetItem(f[k - 1], zone[k].name, k - 1)]

\* The map m has the first k zones at their places.
BuiltUpTo(m, k) ==
    /\ Sound(m)
    /\ NamesOf(m) = {zone[i].name : i \in 1 .. k}
    /\ \A i \in 1 .. k : Gives(m, zone[i].name, i - 1)

LEMMA BuildGrows ==
    ASSUME NEW m, NEW k \in Nat, BuiltUpTo(m, k), zone[k + 1].name \in Key,
           \A i \in 1 .. k : zone[i].name # zone[k + 1].name
    PROVE  BuiltUpTo(SetItem(m, zone[k + 1].name, k), k + 1)
<1>1. PICK name \in Key : name = zone[k + 1].name
  OBVIOUS
<1>2. PICK m2 : m2 = SetItem(m, name, k)
  OBVIOUS
<1>3. Sound(m2) /\ SetGives(m, m2, name, k)
  BY <1>2, SetIsSound DEF BuiltUpTo
<1>4. /\ NamesOf(m2) = NamesOf(m) \cup {name} /\ Gives(m2, name, k)
      /\ \A x : x # name => \A v : Gives(m2, x, v) <=> Gives(m, x, v)
  BY <1>3, SetNames
<1>5. NamesOf(m2) = {zone[i].name : i \in 1 .. k + 1}
  <2>1. NamesOf(m) = {zone[i].name : i \in 1 .. k}
    BY DEF BuiltUpTo
  <2>2. \A i \in 1 .. k + 1 : i = k + 1 \/ i \in 1 .. k
    OBVIOUS
  <2>3. k + 1 \in 1 .. k + 1 /\ \A i \in 1 .. k : i \in 1 .. k + 1
    OBVIOUS
  <2> QED BY <1>1, <1>4, <2>1, <2>2, <2>3
<1>6. \A i \in 1 .. k + 1 : Gives(m2, zone[i].name, i - 1)
  <2> SUFFICES ASSUME NEW i \in 1 .. k + 1 PROVE Gives(m2, zone[i].name, i - 1)
    OBVIOUS
  <2>1. CASE i = k + 1
    <3>1. i - 1 = k
      BY <2>1
    <3> QED BY <1>1, <1>4, <2>1, <3>1
  <2>2. CASE i # k + 1
    <3>1. i \in 1 .. k
      BY <2>2
    <3>2. Gives(m, zone[i].name, i - 1) /\ zone[i].name # name
      BY <1>1, <3>1 DEF BuiltUpTo
    <3> QED BY <1>4, <3>2
  <2> QED BY <2>1, <2>2
<1> QED BY <1>1, <1>2, <1>3, <1>5, <1>6 DEF BuiltUpTo

\* The map a write looks into, whether it is built by it or not.
LEMMA BuiltMapIs ==
    ASSUME ZoneTyped, ListIsDistinct, MapIsOfList
    PROVE  /\ Sound(BuiltMap) /\ NamesOf(BuiltMap) = ListNames
           /\ InSync => \A i \in 1 .. nzones : Gives(BuiltMap, zone[i].name, i - 1)
<1>1. nzones \in Nat /\ \A i \in 1 .. nzones : zone[i].name \in Key
  <2>1. zone \in Seq(Element) /\ nzones \in 0 .. Len(zone)
    BY DEF ZoneTyped
  <2>2. \A i \in 1 .. nzones : zone[i] \in Element
    BY <2>1
  <2> QED BY <2>1, <2>2 DEF Element
<1>2. CASE zonemap # NULL
  <2>1. BuiltMap = zonemap
    BY <1>2 DEF BuiltMap
  <2>2. Sound(zonemap) /\ NamesOf(zonemap) = ListNames
    BY <1>2 DEF MapIsOfList
  <2>3. \A i \in 1 .. nzones : GetItem(zonemap, zone[i].name) = i - 1 <=> Gives(zonemap, zone[i].name, i - 1)
    <3>1. /\ \A i, j \in 1 .. nzones : zone[i].name = zone[j].name => i = j
          /\ NamesOf(zonemap) = {zone[i].name : i \in 1 .. nzones}
      BY <2>2 DEF ListIsDistinct, ListNames
    <3> QED BY <1>1, <2>2, <3>1, SyncIs
  <2> QED BY <1>2, <2>1, <2>2, <2>3 DEF InSync
<1>3. CASE zonemap = NULL
  <2>1. \E f : BuildSteps(f, nzones)
    <3> DEFINE S == {m \in Nat : \E f : BuildSteps(f, m)}
    <3>1. 0 \in S
      <4>1. BuildSteps([k \in 0 .. 0 |-> NewPresized(nzones)], 0)
        BY DEF BuildSteps
      <4> QED BY <4>1
    <3>2. ASSUME NEW m \in S PROVE m + 1 \in S
      <4>1. PICK w : BuildSteps(w, m)
        OBVIOUS
      <4>2. PICK v : v = [k \in 0 .. m + 1 |-> IF k = 0 THEN NewPresized(nzones)
                                              ELSE SetItem(w[k - 1], zone[k].name, k - 1)]
        OBVIOUS
      <4>3. \A k \in 0 .. m : v[k] = w[k]
        <5>1. \A k \in 0 .. m : w[k] = IF k = 0 THEN NewPresized(nzones)
                                       ELSE SetItem(w[k - 1], zone[k].name, k - 1)
          BY <4>1 DEF BuildSteps
        <5>2. \A k \in 0 .. m : k \in 0 .. m + 1
          OBVIOUS
        <5> QED BY <4>2, <5>1, <5>2, Zenon
      <4>4. \A k \in 0 .. m + 1 : k # 0 => v[k - 1] = w[k - 1]
        BY <4>3
      <4>5. BuildSteps(v, m + 1)
        BY <4>2, <4>4 DEF BuildSteps
      <4> QED BY <4>5
    <3>3. S = Nat
      <4> HIDE DEF S
      <4>1. S \in SUBSET Nat
        BY DEF S
      <4> QED BY <3>1, <3>2, <4>1, AllNumbers
    <3> QED BY <1>1, <3>3
  <2>2. PICK built : BuildSteps(built, nzones) /\ BuiltMap = built[nzones]
    <3>1. BuiltMap = (CHOOSE f : BuildSteps(f, nzones))[nzones]
      BY <1>3, Zenon DEF BuiltMap, BuildSteps
    <3> QED BY <2>1, <3>1, Zenon
  <2>3. \A k \in 0 .. nzones : built[k] = IF k = 0 THEN NewPresized(nzones)
                                          ELSE SetItem(built[k - 1], zone[k].name, k - 1)
    BY <2>2 DEF BuildSteps
  <2> DEFINE S == {k \in Nat : k <= nzones => BuiltUpTo(built[k], k)}
  <2>4. 0 \in S
    <3>1. built[0] = NewPresized(nzones)
      BY <1>1, <2>3
    <3>2. Sound(built[0]) /\ LiveIx(built[0]) = {}
      BY <1>1, <3>1, PresizedIsSound
    <3>3. NamesOf(built[0]) = {}
      BY <3>2 DEF NamesOf
    <3>4. BuiltUpTo(built[0], 0)
      BY <3>2, <3>3 DEF BuiltUpTo
    <3> QED BY <3>4
  <2>5. ASSUME NEW k \in S PROVE k + 1 \in S
    <3> SUFFICES ASSUME k + 1 <= nzones PROVE BuiltUpTo(built[k + 1], k + 1)
      OBVIOUS
    <3>1. k \in Nat /\ BuiltUpTo(built[k], k)
      BY <1>1, <2>5
    <3>2. k + 1 \in 0 .. nzones /\ k + 1 \in 1 .. nzones /\ k + 1 # 0 /\ (k + 1) - 1 = k
      BY <1>1, <3>1
    <3>3. built[k + 1] = SetItem(built[k], zone[k + 1].name, k)
      BY <2>3, <3>2
    <3>4. zone[k + 1].name \in Key /\ \A i \in 1 .. k : zone[i].name # zone[k + 1].name
      <4>1. \A i \in 1 .. k : i \in 1 .. nzones /\ i # k + 1
        BY <1>1, <3>1, <3>2
      <4> QED BY <1>1, <3>2, <4>1 DEF ListIsDistinct
    <3> QED BY <3>1, <3>3, <3>4, BuildGrows
  <2>6. S = Nat
    <3> HIDE DEF S
    <3>1. S \in SUBSET Nat
      BY DEF S
    <3> QED BY <2>4, <2>5, <3>1, AllNumbers
  <2>7. BuiltUpTo(BuiltMap, nzones)
    <3>1. nzones \in S
      BY <1>1, <2>6
    <3>2. nzones <= nzones
      BY <1>1
    <3> QED BY <2>2, <3>1, <3>2
  <2> QED BY <2>7 DEF BuiltUpTo, ListNames
<1> QED BY <1>2, <1>3

----------------------------------------------------------------------------
(* The steps                                                               *)

LEMMA ListFacts ==
    ASSUME ZoneTyped
    PROVE  /\ nzones \in Nat /\ Len(zone) \in Nat /\ DOMAIN zone = 1 .. Len(zone)
           /\ 1 .. nzones \in SUBSET (1 .. Len(zone))
           /\ \A i \in 1 .. Len(zone) : zone[i] \in Element /\ zone[i].name \in Key /\ zone[i].id \in Nat
<1>1. zone \in Seq(Element) /\ nzones \in 0 .. Len(zone)
  BY DEF ZoneTyped
<1>2. \A i \in 1 .. Len(zone) : zone[i] \in Element
  BY <1>1
<1>3. \A i \in 1 .. Len(zone) : zone[i].name \in Key /\ zone[i].id \in Nat
  BY <1>2 DEF Element
<1> QED BY <1>1, <1>2, <1>3

\* When zones and elements are the same as before, they mirror each other as before.
LEMMA MirrorsKept ==
    ASSUME Mirrors, ZoneTyped, zone' = zone, nzones' = nzones,
           \A n \in Key : ZoneIn(file', n) <=> ZoneIn(file, n),
           \A n \in Key : ZoneIn(file, n) => file'[n] = file[n]
    PROVE  Mirrors'
<1>1. \A i \in 1 .. nzones : zone[i].name \in Key
  BY ListFacts
<1>2. ASSUME NEW n \in Key, ZoneIn(file', n)
      PROVE  \E i \in 1 .. nzones' : zone'[i].name = n /\ zone'[i].id = file'[n].id
  BY <1>2 DEF Mirrors
<1>3. ASSUME NEW i \in 1 .. nzones', zone'[i].id # NoNode
      PROVE  ZoneIn(file', zone'[i].name) /\ file'[zone'[i].name].id = zone'[i].id
  <2>1. PICK n \in Key : n = zone[i].name
    BY <1>1, <1>3
  <2>2. ZoneIn(file, n) /\ file[n].id = zone[i].id
    BY <1>3, <2>1 DEF Mirrors
  <2>3. ZoneIn(file', n) /\ file'[n].id = zone'[i].id
    BY <2>2
  <2> QED BY <2>1, <2>3
<1> QED BY <1>2, <1>3 DEF Mirrors

\* A write that finds the name leaves the names of the list, and the map it may have
\* built has them.
LEMMA LookupKeepsSync ==
    ASSUME ZoneTyped, ListIsDistinct, MapIsOfList, zonemap' = BuiltMap, nzones' = nzones,
           \A i \in 1 .. nzones : zone'[i].name = zone[i].name
    PROVE  ListIsDistinct' /\ MapIsOfList' /\ (InSync => InSync')
<1>1. /\ Sound(zonemap') /\ NamesOf(zonemap') = ListNames
      /\ InSync => \A i \in 1 .. nzones : Gives(zonemap', zone[i].name, i - 1)
  BY BuiltMapIs
<1>2. ListIsDistinct'
  BY DEF ListIsDistinct
<1>3. ListNames' = ListNames
  BY DEF ListNames
<1>4. MapIsOfList'
  BY <1>1, <1>3 DEF MapIsOfList
<1>5. /\ nzones' \in Nat /\ \A i \in 1 .. nzones' : zone'[i].name \in Key
  BY ListFacts
<1>6. /\ zonemap'.used = nzones'
      /\ \A i \in 1 .. nzones' : GetItem(zonemap', zone'[i].name) = i - 1
                                   <=> Gives(zonemap', zone'[i].name, i - 1)
  <2>1. /\ \A i, j \in 1 .. nzones' : zone'[i].name = zone'[j].name => i = j
        /\ NamesOf(zonemap') = {zone'[i].name : i \in 1 .. nzones'}
    BY <1>1, <1>2, <1>3 DEF ListIsDistinct, ListNames
  <2>2. PICK m, zs, n : m = zonemap' /\ zs = zone' /\ n = nzones'
    OBVIOUS
  <2>3. /\ Sound(m) /\ n \in Nat /\ (\A i \in 1 .. n : zs[i].name \in Key)
        /\ (\A i, j \in 1 .. n : zs[i].name = zs[j].name => i = j)
        /\ NamesOf(m) = {zs[i].name : i \in 1 .. n}
    BY <1>1, <1>5, <2>1, <2>2
  <2>4. /\ m.used = n
        /\ \A i \in 1 .. n : GetItem(m, zs[i].name) = i - 1 <=> Gives(m, zs[i].name, i - 1)
    BY <2>3, SyncIs
  <2> QED BY <2>2, <2>4
<1>7. InSync => InSync'
  BY <1>1, <1>6 DEF InSync
<1> QED BY <1>2, <1>4, <1>7

\* A map in step leads a write to the element of its zone.
LEMMA SyncedPlace ==
    ASSUME ZoneTyped, ListIsDistinct, MapIsOfList, InSync, NEW name \in Key,
           NEW ix, ix = GetItem(BuiltMap, name) + 1, ix # 0
    PROVE  ix \in 1 .. nzones /\ zone[ix].name = name
<1>1. /\ Sound(BuiltMap) /\ NamesOf(BuiltMap) = ListNames
      /\ \A i \in 1 .. nzones : Gives(BuiltMap, zone[i].name, i - 1)
  BY BuiltMapIs
<1>2. name \in NamesOf(BuiltMap)
  <2>1. name \notin NamesOf(BuiltMap) => GetItem(BuiltMap, name) = -1
    BY <1>1, GetItemGives
  <2> QED BY <2>1
<1>3. PICK i \in 1 .. nzones : zone[i].name = name
  BY <1>1, <1>2 DEF ListNames
<1>4. Gives(BuiltMap, name, i - 1) /\ i - 1 \in Nat
  BY <1>1, <1>3, ListFacts
<1>5. GetItem(BuiltMap, name) = i - 1
  BY <1>1, <1>4, GetItemGives
<1> QED BY <1>3, <1>5

LEMMA OpenKeeps ==
    ASSUME ZoneInv, NEW m \in {"write", "modify"}, Open(m)
    PROVE  ZoneInv' /\ InSync'
<1>1. zonemap = NULL /\ zonemap' = NULL /\ mode' = m /\ ZoneTyped
  BY DEF ZoneInv, ZoneTyped, Open
<1>2. CASE m = "write"
  <2>1. file' = [n \in {} |-> 0] /\ zone' = <<>> /\ nzones' = 0
    BY <1>2 DEF Open
  <2>2. DOMAIN file' = {} /\ <<>> \in Seq(Element) /\ Len(<<>>) = 0
    BY <2>1
  <2>3. ZoneTyped'
    BY <1>1, <1>2, <2>1, <2>2 DEF ZoneTyped
  <2>4. ListIsDistinct' /\ MapIsOfList' /\ InSync'
    BY <1>1, <2>1 DEF ListIsDistinct, MapIsOfList, InSync
  <2>5. Mirrors'
    BY <2>1, <2>2 DEF Mirrors, ZoneIn
  <2> QED BY <2>3, <2>4, <2>5 DEF ZoneInv
<1>3. CASE m = "modify"
  <2>1. PICK q : q = ZonesInFile
    OBVIOUS
  <2>2. /\ q \in Seq(ZoneNames)
        /\ \A n \in Key : IsZone(n) => \E i \in 1 .. Len(q) : q[i] = n
        /\ \A i, j \in 1 .. Len(q) : q[i] = q[j] => i = j
    BY <2>1, ZonesInFileAre
  <2>3. /\ DOMAIN q = 1 .. Len(q) /\ Len(q) \in Nat
        /\ \A i \in 1 .. Len(q) : q[i] \in Key /\ IsZone(q[i])
    BY <2>2 DEF ZoneNames
  <2>4. /\ zone' = [i \in 1 .. Len(q) |-> [name |-> q[i], id |-> file[q[i]].id]]
        /\ nzones' = Len(q) /\ file' = file
    BY <1>3, <2>1, <2>3 DEF Open
  <2>5. \A i \in 1 .. Len(q) : /\ zone'[i].name = q[i] /\ zone'[i].id = file'[q[i]].id
                               /\ zone'[i] \in Element
    <3> SUFFICES ASSUME NEW i \in 1 .. Len(q)
                 PROVE  /\ zone'[i].name = q[i] /\ zone'[i].id = file'[q[i]].id
                        /\ zone'[i] \in Element
      OBVIOUS
    <3>1. zone'[i] = [name |-> q[i], id |-> file[q[i]].id]
      BY <2>4
    <3>2. q[i] \in DOMAIN file /\ q[i] \in Key
      BY <2>3 DEF IsZone
    <3>3. file[q[i]].id \in Ids(q[i])
      BY <1>1, <3>2 DEF ZoneTyped
    <3>4. file[q[i]].id \in Nat
      BY <3>2, <3>3, FreshIs
    <3> QED BY <2>4, <3>1, <3>2, <3>4 DEF Element
  <2>6. zone' \in Seq(Element) /\ Len(zone') = Len(q)
    <3>1. zone' \in [1 .. Len(q) -> Element]
      BY <2>4, <2>5
    <3> QED BY <2>3, <3>1
  <2>7. ZoneTyped'
    BY <1>1, <1>3, <2>3, <2>4, <2>6 DEF ZoneTyped
  <2>8. ListIsDistinct' /\ MapIsOfList' /\ InSync'
    BY <1>1, <2>2, <2>4, <2>5 DEF ListIsDistinct, MapIsOfList, InSync
  <2>9. Mirrors'
    <3>1. \A n \in Key : ZoneIn(file', n) <=> IsZone(n)
      BY <2>4 DEF IsZone, ZoneIn
    <3>2. ASSUME NEW n \in Key, ZoneIn(file', n)
          PROVE  \E i \in 1 .. nzones' : zone'[i].name = n /\ zone'[i].id = file'[n].id
      <4>1. PICK i \in 1 .. Len(q) : q[i] = n
        BY <2>2, <3>1, <3>2
      <4> QED BY <2>4, <2>5, <4>1
    <3>3. ASSUME NEW i \in 1 .. nzones'
          PROVE  ZoneIn(file', zone'[i].name) /\ file'[zone'[i].name].id = zone'[i].id
      <4>1. i \in 1 .. Len(q) /\ zone'[i].name = q[i] /\ zone'[i].id = file'[q[i]].id
        BY <2>4, <2>5, <3>3
      <4> QED BY <2>3, <3>1, <4>1
    <3> QED BY <3>2, <3>3 DEF Mirrors
  <2> QED BY <2>7, <2>8, <2>9 DEF ZoneInv
<1> QED BY <1>2, <1>3

LEMMA CloseKeeps ==
    ASSUME ZoneInv, Close
    PROVE  ZoneInv' /\ InSync'
<1>1. ZoneTyped
  BY DEF ZoneInv
<1>2. mode' = "closed" /\ zone' = <<>> /\ nzones' = 0 /\ zonemap' = NULL /\ file' = file
  BY DEF Close
<1>3. <<>> \in Seq(Element) /\ Len(<<>>) = 0
  OBVIOUS
<1>4. ZoneTyped'
  BY <1>1, <1>2, <1>3 DEF ZoneTyped
<1> QED BY <1>2, <1>4 DEF ZoneInv, ListIsDistinct, MapIsOfList, InSync

\* A node of the base that is no zone comes or goes.
LEMMA OthersKeep ==
    ASSUME ZoneInv, Undamaged, NEW name \in Key,
           WriteOther(name) \/ DeleteOther(name)
    PROVE  ZoneInv' /\ (InSync => InSync')
<1>1. ZoneTyped /\ ListIsDistinct /\ MapIsOfList /\ mode # "closed" /\ Mirrors
  BY DEF ZoneInv, WriteOther, DeleteOther
<1>2. UNCHANGED <<mode, zone, nzones, zonemap>>
  BY DEF WriteOther, DeleteOther
<1>3. CASE WriteOther(name)
  <2>1. PICK id \in Ids(name) : id = FreshId(name)
    BY FreshIs
  <2>2. /\ name \notin DOMAIN file
        /\ file' = [[n \in DOMAIN file \cup {name} |->
                        IF n = name THEN [id |-> id, label |-> ZoneLabel] ELSE file[n]]
                      EXCEPT ![name].label = "Family_t"]
    BY <1>3, <2>1 DEF WriteOther, WithNode
  <2>3. /\ DOMAIN file' = DOMAIN file \cup {name} /\ file'[name] = [id |-> id, label |-> "Family_t"]
        /\ \A n \in DOMAIN file : file'[n] = file[n]
    BY <2>2
  <2>4. ZoneTyped'
    BY <1>1, <1>2, <2>3 DEF ZoneTyped
  <2>5. \A n \in Key : ZoneIn(file', n) <=> ZoneIn(file, n)
    BY <2>2, <2>3 DEF ZoneIn, ZoneLabel
  <2>6. \A n \in Key : ZoneIn(file, n) => file'[n] = file[n]
    BY <2>3 DEF ZoneIn
  <2> QED BY <1>1, <1>2, <2>4, <2>5, <2>6, MirrorsKept
          DEF ZoneInv, ListIsDistinct, MapIsOfList, ListNames, InSync
<1>4. CASE DeleteOther(name)
  <2>1. ~ IsZone(name) /\ file' = [n \in DOMAIN file \ {name} |-> file[n]]
    BY <1>4 DEF DeleteOther, WithoutNode
  <2>2. DOMAIN file' = DOMAIN file \ {name} /\ \A n \in DOMAIN file' : file'[n] = file[n]
    BY <2>1
  <2>3. ZoneTyped'
    BY <1>1, <1>2, <2>2 DEF ZoneTyped
  <2>4. \A n \in Key : ZoneIn(file', n) <=> ZoneIn(file, n)
    BY <2>1, <2>2 DEF ZoneIn, IsZone
  <2>5. \A n \in Key : ZoneIn(file, n) => file'[n] = file[n]
    BY <2>1, <2>2 DEF ZoneIn, IsZone
  <2> QED BY <1>1, <1>2, <2>3, <2>4, <2>5, MirrorsKept
          DEF ZoneInv, ListIsDistinct, MapIsOfList, ListNames, InSync
<1> QED BY <1>3, <1>4

\* The node that a write makes.
Made(f2, f, name, id) ==
    /\ DOMAIN f2 = DOMAIN f \cup {name}
    /\ f2[name] = [id |-> id, label |-> ZoneLabel]
    /\ \A n \in DOMAIN f : n # name => f2[n] = f[n]
    /\ \A n : n # name => (ZoneIn(f2, n) <=> ZoneIn(f, n))
    /\ ZoneIn(f2, name)

LEMMA MadeNode ==
    ASSUME NEW f, NEW name, NEW id
    PROVE  Made(WithNode(f, name, id), f, name, id)
BY DEF WithNode, ZoneIn, Made

LEMMA AddZoneKeeps ==
    ASSUME ZoneInv, Undamaged, mode # "closed", NEW name \in Key, AddZone(name), UNCHANGED mode
    PROVE  ZoneInv' /\ (InSync => InSync')
<1>1. ZoneTyped /\ ListIsDistinct /\ MapIsOfList /\ Mirrors
  BY DEF ZoneInv
<1>2. /\ nzones \in Nat /\ 1 .. nzones \in SUBSET (1 .. Len(zone)) /\ Len(zone) \in Nat
      /\ \A i \in 1 .. Len(zone) : zone[i] \in Element /\ zone[i].name \in Key /\ zone[i].id \in Nat
  BY <1>1, ListFacts
<1>3. /\ Sound(BuiltMap) /\ NamesOf(BuiltMap) = ListNames
      /\ InSync => \A i \in 1 .. nzones : Gives(BuiltMap, zone[i].name, i - 1)
  BY <1>1, BuiltMapIs
<1>4. PICK id : id = IF name \in DOMAIN file THEN NoNode ELSE FreshId(name)
  OBVIOUS
<1>5. /\ GetItem(BuiltMap, name) = -1
      /\ zonemap' = SetItem(BuiltMap, name, nzones)
      /\ zone' = GrownZone(name, id)
      /\ nzones' = nzones + 1
      /\ file' = IF id = NoNode THEN file ELSE WithNode(file, name, id)
  BY <1>4 DEF AddZone
<1>6. \A i \in 1 .. nzones : zone[i].name # name
  <2>1. name \notin NamesOf(BuiltMap)
    <3>1. name \in NamesOf(BuiltMap) => GetItem(BuiltMap, name) \in Nat
      BY <1>3, GetItemGives
    <3> QED BY <1>5, <3>1
  <2> QED BY <1>3, <2>1 DEF ListNames
<1>7. /\ id \in Nat
      /\ name \in DOMAIN file => id = NoNode /\ file' = file
      /\ name \notin DOMAIN file => id \in Ids(name) /\ id # NoNode /\ file' = WithNode(file, name, id)
  <2>1. FreshId(name) \in Ids(name) /\ Ids(name) \in SUBSET (Nat \ {NoNode})
    BY FreshIs
  <2> QED BY <1>4, <1>5, <2>1 DEF NoNode
<1>m. name \notin DOMAIN file => Made(file', file, name, id)
  BY <1>7, MadeNode
<1>8. /\ zone' \in Seq(Element) /\ Len(zone') = nzones + 1
      /\ \A i \in 1 .. nzones : zone'[i] = zone[i]
      /\ zone'[nzones + 1] = [name |-> name, id |-> id]
  <2>1. zone' = [i \in 1 .. nzones + 1 |->
                    IF i <= nzones THEN zone[i] ELSE [name |-> name, id |-> id]]
    BY <1>5 DEF GrownZone
  <2>2. [name |-> name, id |-> id] \in Element
    BY <1>7 DEF Element
  <2>3. zone' \in [1 .. nzones + 1 -> Element]
    <3>1. \A i \in 1 .. nzones + 1 : i <= nzones => zone[i] \in Element
      BY <1>2
    <3> QED BY <2>1, <2>2, <3>1
  <2>4. zone' \in Seq(Element) /\ Len(zone') = nzones + 1
    <3>1. nzones + 1 \in Nat
      BY <1>2
    <3> QED BY <2>3, <3>1
  <2>5. /\ \A i \in 1 .. nzones : zone'[i] = zone[i]
        /\ zone'[nzones + 1] = [name |-> name, id |-> id]
    BY <1>2, <2>1
  <2> QED BY <2>4, <2>5
<1>9. /\ \A i \in 1 .. nzones + 1 : i = nzones + 1 \/ i \in 1 .. nzones
      /\ nzones + 1 \in 1 .. nzones + 1 /\ \A i \in 1 .. nzones : i \in 1 .. nzones + 1
  BY <1>2
<1>10. ZoneTyped'
  <2>1. DOMAIN file' \in SUBSET Key
        /\ \A n \in DOMAIN file' : file'[n] \in [id : Ids(n), label : {ZoneLabel, "Family_t"}]
    <3>1. CASE name \in DOMAIN file
      BY <1>1, <1>7, <3>1 DEF ZoneTyped
    <3>2. CASE name \notin DOMAIN file
      <4>1. /\ DOMAIN file' = DOMAIN file \cup {name} /\ id \in Ids(name)
            /\ file'[name] = [id |-> id, label |-> ZoneLabel]
            /\ \A n \in DOMAIN file : n # name => file'[n] = file[n]
        BY <1>7, <1>m, <3>2 DEF Made
      <4> QED BY <1>1, <4>1 DEF ZoneTyped
    <3> QED BY <3>1, <3>2
  <2>2. nzones' \in 0 .. Len(zone')
    BY <1>2, <1>5, <1>8
  <2> QED BY <1>1, <1>8, <2>1, <2>2 DEF ZoneTyped
<1>11. ListIsDistinct'
  <2> SUFFICES ASSUME NEW i \in 1 .. nzones + 1, NEW j \in 1 .. nzones + 1,
                      zone'[i].name = zone'[j].name
               PROVE  i = j
    BY <1>5 DEF ListIsDistinct
  <2>1. CASE i \in 1 .. nzones /\ j \in 1 .. nzones
    BY <1>1, <1>8, <2>1 DEF ListIsDistinct
  <2>2. CASE i = nzones + 1 /\ j \in 1 .. nzones
    BY <1>6, <1>8, <2>2
  <2>3. CASE j = nzones + 1 /\ i \in 1 .. nzones
    BY <1>6, <1>8, <2>3
  <2> QED BY <1>9, <2>1, <2>2, <2>3
<1>12. /\ Sound(zonemap') /\ NamesOf(zonemap') = ListNames \cup {name}
       /\ Gives(zonemap', name, nzones)
       /\ \A x : x # name => \A v : Gives(zonemap', x, v) <=> Gives(BuiltMap, x, v)
  <2>1. PICK b : b = BuiltMap
    OBVIOUS
  <2>2. Sound(zonemap') /\ SetGives(b, zonemap', name, nzones)
    BY <1>2, <1>3, <1>5, <2>1, SetIsSound
  <2> QED BY <1>3, <2>1, <2>2, SetNames
<1>13. ListNames' = ListNames \cup {name}
  BY <1>5, <1>8, <1>9 DEF ListNames
<1>14. MapIsOfList'
  BY <1>12, <1>13 DEF MapIsOfList
<1>15. Mirrors'
  <2>1. ASSUME NEW n \in Key, ZoneIn(file', n)
        PROVE  \E i \in 1 .. nzones + 1 : zone'[i].name = n /\ zone'[i].id = file'[n].id
    <3>1. CASE name \notin DOMAIN file /\ n = name
      <4>1. file'[name] = [id |-> id, label |-> ZoneLabel]
        BY <1>m, <3>1 DEF Made
      <4> QED BY <1>8, <1>9, <3>1, <4>1
    <3>2. CASE ~ (name \notin DOMAIN file /\ n = name)
      <4>1. ZoneIn(file, n) /\ file'[n] = file[n]
        <5>1. CASE name \in DOMAIN file
          BY <1>7, <2>1, <5>1
        <5>2. CASE name \notin DOMAIN file
          <6>1. ZoneIn(file, n) /\ n # name
            BY <1>m, <2>1, <3>2, <5>2 DEF Made
          <6> QED BY <1>m, <5>2, <6>1 DEF Made, ZoneIn
        <5> QED BY <5>1, <5>2
      <4>2. PICK i \in 1 .. nzones : zone[i].name = n /\ zone[i].id = file[n].id
        BY <1>1, <4>1 DEF Mirrors
      <4> QED BY <1>8, <1>9, <4>1, <4>2
    <3> QED BY <3>1, <3>2
  <2>2. ASSUME NEW i \in 1 .. nzones + 1, zone'[i].id # NoNode
        PROVE  ZoneIn(file', zone'[i].name) /\ file'[zone'[i].name].id = zone'[i].id
    <3>1. CASE i = nzones + 1
      <4>1. name \notin DOMAIN file /\ zone'[i].name = name /\ zone'[i].id = id
        BY <1>7, <1>8, <2>2, <3>1
      <4>2. file'[name] = [id |-> id, label |-> ZoneLabel] /\ ZoneIn(file', name)
        BY <1>m, <4>1 DEF Made
      <4> QED BY <4>1, <4>2
    <3>2. CASE i \in 1 .. nzones
      <4>1. PICK n \in Key : n = zone[i].name
        BY <1>2, <3>2
      <4>2. ZoneIn(file, n) /\ file[n].id = zone[i].id /\ n # name /\ zone'[i] = zone[i]
        BY <1>1, <1>6, <1>8, <2>2, <3>2, <4>1 DEF Mirrors
      <4>3. ZoneIn(file', n) /\ file'[n] = file[n]
        <5>1. CASE name \in DOMAIN file
          BY <1>7, <4>2, <5>1
        <5>2. CASE name \notin DOMAIN file
          <6>1. ZoneIn(file', n)
            BY <1>m, <4>2, <5>2 DEF Made
          <6>2. n \in DOMAIN file
            BY <4>2 DEF ZoneIn
          <6> QED BY <1>m, <4>2, <5>2, <6>1, <6>2 DEF Made
        <5> QED BY <5>1, <5>2
      <4> QED BY <4>1, <4>2, <4>3
    <3> QED BY <1>9, <3>1, <3>2
  <2> QED BY <1>5, <2>1, <2>2 DEF Mirrors
<1>16. InSync => InSync'
  <2> SUFFICES ASSUME InSync PROVE InSync'
    OBVIOUS
  <2>1. \A i \in 1 .. nzones + 1 : Gives(zonemap', zone'[i].name, i - 1)
    <3> SUFFICES ASSUME NEW i \in 1 .. nzones + 1 PROVE Gives(zonemap', zone'[i].name, i - 1)
      OBVIOUS
    <3>1. CASE i = nzones + 1
      <4>1. i - 1 = nzones /\ zone'[i].name = name
        BY <1>2, <1>8, <3>1
      <4> QED BY <1>12, <4>1
    <3>2. CASE i \in 1 .. nzones
      <4>1. Gives(BuiltMap, zone[i].name, i - 1) /\ zone[i].name # name /\ zone'[i] = zone[i]
        BY <1>3, <1>6, <1>8, <3>2
      <4> QED BY <1>12, <4>1
    <3> QED BY <1>9, <3>1, <3>2
  <2>2. PICK m, zs, n : m = zonemap' /\ zs = zone' /\ n = nzones'
    OBVIOUS
  <2>3. n \in Nat /\ \A i \in 1 .. n : zs[i].name \in Key
    <3>1. \A i \in 1 .. nzones + 1 : zone'[i].name \in Key
      BY <1>2, <1>8, <1>9
    <3> QED BY <1>2, <1>5, <2>2, <3>1
  <2>4. /\ Sound(m) /\ n \in Nat /\ (\A i \in 1 .. n : zs[i].name \in Key)
        /\ (\A i, j \in 1 .. n : zs[i].name = zs[j].name => i = j)
        /\ NamesOf(m) = {zs[i].name : i \in 1 .. n}
    BY <1>11, <1>12, <1>13, <2>2, <2>3 DEF ListIsDistinct, ListNames
  <2>5. /\ m.used = n
        /\ \A i \in 1 .. n : GetItem(m, zs[i].name) = i - 1 <=> Gives(m, zs[i].name, i - 1)
    BY <2>4, SyncIs
  <2> QED BY <1>5, <2>1, <2>2, <2>5 DEF InSync
<1> QED BY <1>10, <1>11, <1>14, <1>15, <1>16 DEF ZoneInv

LEMMA RefuseZoneKeeps ==
    ASSUME ZoneInv, Undamaged, NEW name \in Key, RefuseZone(name), UNCHANGED mode
    PROVE  ZoneInv' /\ (InSync => InSync')
<1>1. ZoneTyped /\ ListIsDistinct /\ MapIsOfList /\ Mirrors /\ mode # "closed"
  BY DEF ZoneInv, RefuseZone
<1>2. zonemap' = BuiltMap /\ UNCHANGED <<mode, zone, nzones, file>>
  BY DEF RefuseZone
<1>3. ListIsDistinct' /\ MapIsOfList' /\ (InSync => InSync')
  BY <1>1, <1>2, LookupKeepsSync
<1>4. ZoneTyped' /\ Mirrors'
  BY <1>1, <1>2 DEF ZoneTyped, Mirrors
<1> QED BY <1>3, <1>4 DEF ZoneInv

LEMMA OverwriteZoneKeeps ==
    ASSUME ZoneInv, Undamaged, NEW name \in Key, OverwriteZone(name), UNCHANGED mode
    PROVE  ZoneInv' /\ (InSync => InSync')
<1>1. ZoneTyped /\ ListIsDistinct /\ MapIsOfList /\ Mirrors /\ mode # "closed"
  BY DEF ZoneInv, OverwriteZone
<1>2. /\ nzones \in Nat /\ 1 .. nzones \in SUBSET (1 .. Len(zone)) /\ Len(zone) \in Nat
      /\ DOMAIN zone = 1 .. Len(zone)
      /\ \A i \in 1 .. Len(zone) : zone[i] \in Element /\ zone[i].name \in Key /\ zone[i].id \in Nat
  BY <1>1, ListFacts
<1>3. /\ Sound(BuiltMap) /\ NamesOf(BuiltMap) = ListNames
      /\ InSync => \A i \in 1 .. nzones : Gives(BuiltMap, zone[i].name, i - 1)
  BY <1>1, BuiltMapIs
<1>4. PICK ix : ix = GetItem(BuiltMap, name) + 1
  OBVIOUS
<1>5. ix # 0 /\ zonemap' = BuiltMap /\ mode = "modify"
  BY <1>4 DEF OverwriteZone
<1>6. CASE UNCHANGED <<zone, nzones, file>>
  <2>1. ListIsDistinct' /\ MapIsOfList' /\ (InSync => InSync')
    BY <1>1, <1>5, <1>6, LookupKeepsSync
  <2>2. ZoneTyped' /\ Mirrors'
    BY <1>1, <1>5, <1>6 DEF ZoneTyped, Mirrors
  <2> QED BY <2>1, <2>2 DEF ZoneInv
<1>7. CASE ~ UNCHANGED <<zone, nzones, file>>
  <2>1. ix \in DOMAIN zone /\ nzones' = nzones
        /\ \E old \in DOMAIN file :
             /\ file[old].id = zone[ix].id
             /\ LET rest == WithoutNode(file, old)
                    id   == IF name \in DOMAIN rest THEN NoNode ELSE FreshId(name)
                IN  /\ file' = IF id = NoNode THEN rest ELSE WithNode(rest, name, id)
                    /\ zone' = [zone EXCEPT ![ix] = [name |-> name, id |-> id]]
                    /\ result' = [Written(name, id # NoNode, ix) EXCEPT !.was = zone[ix].name]
    BY <1>4, <1>7 DEF OverwriteZone
  <2>2. PICK old \in DOMAIN file :
           /\ file[old].id = zone[ix].id
           /\ LET rest == WithoutNode(file, old)
                  id   == IF name \in DOMAIN rest THEN NoNode ELSE FreshId(name)
              IN  /\ file' = IF id = NoNode THEN rest ELSE WithNode(rest, name, id)
                  /\ zone' = [zone EXCEPT ![ix] = [name |-> name, id |-> id]]
                  /\ result' = [Written(name, id # NoNode, ix) EXCEPT !.was = zone[ix].name]
    BY <2>1
  <2>3. PICK rest : rest = WithoutNode(file, old)
    OBVIOUS
  <2>4. PICK id : id = IF name \in DOMAIN rest THEN NoNode ELSE FreshId(name)
    OBVIOUS
  <2>5. /\ file' = IF id = NoNode THEN rest ELSE WithNode(rest, name, id)
        /\ zone' = [zone EXCEPT ![ix] = [name |-> name, id |-> id]]
        /\ result' = [Written(name, id # NoNode, ix) EXCEPT !.was = zone[ix].name]
    BY <2>2, <2>3, <2>4
  <2>6. DOMAIN rest = DOMAIN file \ {old} /\ \A n \in DOMAIN file : n # old => rest[n] = file[n]
    BY <2>3 DEF WithoutNode
  <2>7. /\ id \in Nat
        /\ name \in DOMAIN rest => id = NoNode /\ file' = rest
        /\ name \notin DOMAIN rest => id \in Ids(name) /\ id # NoNode /\ file' = WithNode(rest, name, id)
    <3>1. FreshId(name) \in Ids(name) /\ Ids(name) \in SUBSET (Nat \ {NoNode})
      BY FreshIs
    <3> QED BY <2>4, <2>5, <3>1 DEF NoNode
  <2>m. name \notin DOMAIN rest => Made(file', rest, name, id)
    BY <2>7, MadeNode
  <2>8. /\ zone' \in Seq(Element) /\ Len(zone') = Len(zone)
        /\ zone'[ix] = [name |-> name, id |-> id]
        /\ \A i \in DOMAIN zone : i # ix => zone'[i] = zone[i]
    <3>1. [name |-> name, id |-> id] \in Element /\ zone \in Seq(Element)
      BY <1>1, <2>7 DEF Element, ZoneTyped
    <3> QED BY <1>2, <2>1, <2>5, <3>1
  <2>9. ZoneTyped'
    <3>1. DOMAIN file' \in SUBSET Key
          /\ \A n \in DOMAIN file' : file'[n] \in [id : Ids(n), label : {ZoneLabel, "Family_t"}]
      <4>1. /\ DOMAIN rest \in SUBSET Key
            /\ \A n \in DOMAIN rest : rest[n] \in [id : Ids(n), label : {ZoneLabel, "Family_t"}]
        BY <1>1, <2>6 DEF ZoneTyped
      <4>2. CASE name \in DOMAIN rest
        BY <2>7, <4>1, <4>2
      <4>3. CASE name \notin DOMAIN rest
        <5>1. /\ DOMAIN file' = DOMAIN rest \cup {name} /\ id \in Ids(name)
              /\ file'[name] = [id |-> id, label |-> ZoneLabel]
              /\ \A n \in DOMAIN rest : n # name => file'[n] = rest[n]
          BY <2>7, <2>m, <4>3 DEF Made
        <5> QED BY <4>1, <5>1
      <4> QED BY <4>2, <4>3
    <3> QED BY <1>1, <1>5, <2>1, <2>8, <3>1 DEF ZoneTyped
  <2>10. CASE ix \in 1 .. nzones /\ zone[ix].name = name
    <3>1. \A i \in 1 .. nzones : zone'[i].name = zone[i].name
      BY <1>2, <2>8, <2>10
    <3>2. ListIsDistinct' /\ MapIsOfList' /\ (InSync => InSync')
      BY <1>1, <1>5, <2>1, <3>1, LookupKeepsSync
    <3>3. old = name
      <4>1. old \in Key /\ file[old].id \in Ids(old)
        BY <1>1 DEF ZoneTyped
      <4>2. zone[ix].id # NoNode
        BY <2>2, <4>1, FreshIs
      <4>3. name \in DOMAIN file /\ file[name].id = zone[ix].id
        BY <1>1, <2>10, <4>2 DEF Mirrors, ZoneIn
      <4>4. file[name].id \in Ids(name)
        BY <1>1, <4>3 DEF ZoneTyped
      <4>5. file[old].id \in Ids(name)
        BY <2>2, <4>3, <4>4
      <4> QED BY <4>1, <4>5, IdsApart
    <3>4. name \notin DOMAIN rest
      BY <2>6, <3>3
    <3>5. /\ file'[name] = [id |-> id, label |-> ZoneLabel] /\ ZoneIn(file', name)
          /\ \A n \in DOMAIN rest : n # name => file'[n] = rest[n]
          /\ \A n : n # name => (ZoneIn(file', n) <=> ZoneIn(rest, n))
      BY <2>m, <3>4 DEF Made
    <3>6. \A n : n # name => (ZoneIn(file', n) <=> ZoneIn(file, n))
      <4>1. \A n : n # name => (ZoneIn(rest, n) <=> ZoneIn(file, n))
        BY <2>6, <3>3 DEF ZoneIn
      <4> QED BY <3>5, <4>1
    <3>7. \A n : n # name /\ ZoneIn(file, n) => file'[n] = file[n]
      BY <2>6, <3>3, <3>5 DEF ZoneIn
    <3>8. Mirrors'
      <4>1. ASSUME NEW n \in Key, ZoneIn(file', n)
            PROVE  \E i \in 1 .. nzones : zone'[i].name = n /\ zone'[i].id = file'[n].id
        <5>1. CASE n = name
          BY <2>8, <2>10, <3>5, <5>1
        <5>2. CASE n # name
          <6>1. ZoneIn(file, n) /\ file'[n] = file[n]
            BY <3>6, <3>7, <4>1, <5>2
          <6>2. PICK i \in 1 .. nzones : zone[i].name = n /\ zone[i].id = file[n].id
            BY <1>1, <6>1 DEF Mirrors
          <6>3. i # ix /\ i \in DOMAIN zone
            BY <1>2, <2>10, <5>2, <6>2
          <6> QED BY <2>8, <6>1, <6>2, <6>3
        <5> QED BY <5>1, <5>2
      <4>2. ASSUME NEW i \in 1 .. nzones, zone'[i].id # NoNode
            PROVE  ZoneIn(file', zone'[i].name) /\ file'[zone'[i].name].id = zone'[i].id
        <5>1. CASE i = ix
          BY <2>8, <3>5, <5>1
        <5>2. CASE i # ix
          <6>1. zone'[i] = zone[i] /\ zone[i].name # name
            <7>1. i \in DOMAIN zone
              BY <1>2, <4>2
            <7>2. zone'[i] = zone[i]
              BY <2>8, <5>2, <7>1
            <7> QED BY <1>1, <2>10, <5>2, <7>2 DEF ListIsDistinct
          <6>2. PICK n : n = zone[i].name
            OBVIOUS
          <6>3. ZoneIn(file, n) /\ file[n].id = zone[i].id
            BY <1>1, <4>2, <6>1, <6>2 DEF Mirrors
          <6> QED BY <3>6, <3>7, <6>1, <6>2, <6>3
        <5> QED BY <5>1, <5>2
      <4> QED BY <2>1, <4>1, <4>2 DEF Mirrors
    <3> QED BY <2>9, <3>2, <3>8 DEF ZoneInv
  <2>11. CASE ~ (ix \in 1 .. nzones /\ zone[ix].name = name)
    <3>1. ~ Undamaged'
      <4>1. result' = [name |-> name, ok |-> id # NoNode, Z |-> ix, was |-> zone[ix].name]
        BY <2>5 DEF Written
      <4>2. result'.was = zone[ix].name /\ result'.name = name /\ result'.Z = ix
        BY <4>1
      <4>3. ix \in Nat /\ ix >= 1
        BY <1>2, <2>1
      <4> QED BY <1>2, <2>1, <2>11, <4>2, <4>3 DEF Undamaged
    <3>2. ~ InSync
      <4> SUFFICES ASSUME InSync PROVE FALSE
        OBVIOUS
      <4> QED BY <1>1, <1>4, <1>5, <2>11, SyncedPlace
    <3> QED BY <2>9, <3>1, <3>2 DEF ZoneInv
  <2> QED BY <2>10, <2>11
<1> QED BY <1>6, <1>7

\* The list after the deletion of its element ix: the others in their order.
ShiftedFrom(zs2, zs, n, ix) ==
    \A i \in 1 .. n - 1 : zs2[i] = IF i >= ix THEN zs[i + 1] ELSE zs[i]

LEMMA ShiftedList ==
    ASSUME NEW n \in Nat \ {0}, NEW ix \in 1 .. n, NEW zs, NEW zs2, ShiftedFrom(zs2, zs, n, ix)
    PROVE  /\ \A i \in 1 .. n : i # ix => \E k \in 1 .. n - 1 : zs2[k] = zs[i]
           /\ \A k \in 1 .. n - 1 : \E i \in 1 .. n : i # ix /\ zs2[k] = zs[i]
<1>1. ASSUME NEW i \in 1 .. n, i # ix PROVE \E k \in 1 .. n - 1 : zs2[k] = zs[i]
  <2>1. CASE i < ix
    <3>1. i \in 1 .. n - 1 /\ ~ (i >= ix)
      BY <2>1
    <3>2. zs2[i] = zs[i]
      BY <3>1 DEF ShiftedFrom
    <3> QED BY <3>1, <3>2
  <2>2. CASE i > ix
    <3>1. i - 1 \in 1 .. n - 1 /\ i - 1 >= ix /\ (i - 1) + 1 = i
      BY <2>2
    <3>2. zs2[i - 1] = zs[i]
      BY <3>1 DEF ShiftedFrom
    <3> QED BY <3>1, <3>2
  <2> QED BY <1>1, <2>1, <2>2
<1>2. ASSUME NEW k \in 1 .. n - 1 PROVE \E i \in 1 .. n : i # ix /\ zs2[k] = zs[i]
  <2>1. CASE k >= ix
    <3>1. k + 1 \in 1 .. n /\ k + 1 # ix
      BY <2>1
    <3> QED BY <2>1, <3>1 DEF ShiftedFrom
  <2>2. CASE ~ (k >= ix)
    <3>1. k \in 1 .. n /\ k # ix
      BY <2>2
    <3> QED BY <2>2, <3>1 DEF ShiftedFrom
  <2> QED BY <2>1, <2>2
<1> QED BY <1>1, <1>2

LEMMA DeleteZoneKeeps ==
    ASSUME ZoneInv, Undamaged, NEW name \in Key, DeleteZone(name)
    PROVE  /\ ZoneInv' /\ nzones' < nzones
           /\ InSync /\ ~ InSync' => zonemap.nentries > zonemap.usable
<1>1. ZoneTyped /\ ListIsDistinct /\ MapIsOfList /\ Mirrors
  BY DEF ZoneInv, DeleteZone
<1>2. /\ nzones \in Nat /\ 1 .. nzones \in SUBSET (1 .. Len(zone)) /\ Len(zone) \in Nat
      /\ DOMAIN zone = 1 .. Len(zone)
      /\ \A i \in 1 .. Len(zone) : zone[i] \in Element /\ zone[i].name \in Key /\ zone[i].id \in Nat
      /\ zone \in Seq(Element) /\ nzones <= Len(zone)
  BY <1>1, ListFacts DEF ZoneTyped
<1>3. PICK ix \in 1 .. nzones : zone[ix].name = name
  BY DEF DeleteZone, ZoneNamed
<1>4. \A i \in 1 .. nzones : zone[i].name = name => i = ix
  BY <1>1, <1>3 DEF ListIsDistinct
<1>5. (CHOOSE i \in 1 .. nzones : zone[i].name = name /\ \A j \in 1 .. i - 1 : zone[j].name # name) = ix
  <2>1. \A j \in 1 .. ix - 1 : zone[j].name # name
    <3> SUFFICES ASSUME NEW j \in 1 .. ix - 1 PROVE zone[j].name # name
      OBVIOUS
    <3>1. j \in 1 .. nzones /\ j # ix
      BY <1>2
    <3> QED BY <1>4, <3>1
  <2> DEFINE P(i) == zone[i].name = name /\ \A j \in 1 .. i - 1 : zone[j].name # name
  <2>2. P(ix) /\ \A i \in 1 .. nzones : P(i) => i = ix
    BY <1>3, <1>4, <2>1
  <2> HIDE DEF P
  <2>3. (CHOOSE i \in 1 .. nzones : P(i)) = ix
    BY <2>2
  <2> QED BY <2>3 DEF P
<1>6. /\ zone' = IF nzones = 1 THEN <<>>
                 ELSE [i \in DOMAIN zone |->
                        IF i \in ix .. nzones - 1 THEN zone[i + 1] ELSE zone[i]]
      /\ nzones' = nzones - 1 /\ file' = WithoutNode(file, name)
      /\ zonemap' = IF zonemap = NULL THEN NULL ELSE DelShiftItem(zonemap, name)
      /\ mode = "modify" /\ mode' = mode
  BY <1>5 DEF DeleteZone
<1>7. nzones \in Nat \ {0} /\ nzones' \in Nat /\ nzones' < nzones
  BY <1>2, <1>3, <1>6
<1>8. zone' \in Seq(Element) /\ nzones' \in 0 .. Len(zone')
  <2>1. CASE nzones = 1
    <3>1. zone' = <<>> /\ nzones' = 0
      BY <1>6, <2>1
    <3> QED BY <3>1
  <2>2. CASE nzones # 1
    <3>1. zone' = [i \in 1 .. Len(zone) |-> IF i \in ix .. nzones - 1 THEN zone[i + 1] ELSE zone[i]]
      BY <1>2, <1>6, <2>2
    <3>2. \A i \in 1 .. Len(zone) : i \in ix .. nzones - 1 => i + 1 \in 1 .. Len(zone)
      BY <1>2
    <3>3. \A i \in 1 .. Len(zone) : zone'[i] \in Element
      BY <1>2, <3>1, <3>2
    <3>4. zone' \in [1 .. Len(zone) -> Element]
      BY <3>1, <3>3
    <3>5. zone' \in Seq(Element) /\ Len(zone') = Len(zone)
      BY <1>2, <3>4
    <3> QED BY <1>2, <1>6, <1>7, <3>5
  <2> QED BY <2>1, <2>2
<1>9. ShiftedFrom(zone', zone, nzones, ix)
  <2> SUFFICES ASSUME NEW i \in 1 .. nzones - 1
               PROVE  zone'[i] = IF i >= ix THEN zone[i + 1] ELSE zone[i]
    BY DEF ShiftedFrom
  <2>1. nzones # 1 /\ i \in DOMAIN zone
    BY <1>2
  <2>2. i \in ix .. nzones - 1 <=> i >= ix
    BY <1>2
  <2> QED BY <1>6, <2>1, <2>2
<1>10. /\ \A i \in 1 .. nzones : i # ix => \E k \in 1 .. nzones' : zone'[k] = zone[i]
       /\ \A k \in 1 .. nzones' : \E i \in 1 .. nzones : i # ix /\ zone'[k] = zone[i]
  <2>1. PICK zs2 : zs2 = zone'
    OBVIOUS
  <2>2. ShiftedFrom(zs2, zone, nzones, ix)
    BY <1>9, <2>1
  <2>3. /\ \A i \in 1 .. nzones : i # ix => \E k \in 1 .. nzones - 1 : zs2[k] = zone[i]
        /\ \A k \in 1 .. nzones - 1 : \E i \in 1 .. nzones : i # ix /\ zs2[k] = zone[i]
    BY <1>7, <2>2, ShiftedList
  <2> QED BY <1>6, <2>1, <2>3
<1>11. DOMAIN file' = DOMAIN file \ {name} /\ \A n \in DOMAIN file' : file'[n] = file[n]
  BY <1>6 DEF WithoutNode
<1>12. ZoneTyped'
  BY <1>1, <1>6, <1>8, <1>11 DEF ZoneTyped
<1>13. ListIsDistinct'
  <2> SUFFICES ASSUME NEW i \in 1 .. nzones - 1, NEW j \in 1 .. nzones - 1,
                      zone'[i].name = zone'[j].name
               PROVE  i = j
    BY <1>6 DEF ListIsDistinct
  <2>1. PICK a : a = IF i >= ix THEN i + 1 ELSE i
    OBVIOUS
  <2>2. PICK b : b = IF j >= ix THEN j + 1 ELSE j
    OBVIOUS
  <2>3. zone'[i] = zone[a] /\ zone'[j] = zone[b]
    BY <1>9, <2>1, <2>2 DEF ShiftedFrom
  <2>4. a \in 1 .. nzones /\ b \in 1 .. nzones
    BY <1>7, <2>1, <2>2
  <2>5. a = b
    BY <1>1, <2>3, <2>4 DEF ListIsDistinct
  <2> QED BY <1>7, <2>1, <2>2, <2>5
<1>14. ListNames' = ListNames \ {name}
  <2>1. ASSUME NEW x, x \in ListNames' PROVE x \in ListNames \ {name}
    <3>1. PICK k \in 1 .. nzones' : zone'[k].name = x
      BY <2>1 DEF ListNames
    <3>2. PICK i \in 1 .. nzones : i # ix /\ zone'[k] = zone[i]
      BY <1>10
    <3> QED BY <1>4, <3>1, <3>2 DEF ListNames
  <2>2. ASSUME NEW x, x \in ListNames \ {name} PROVE x \in ListNames'
    <3>1. PICK i \in 1 .. nzones : zone[i].name = x
      BY <2>2 DEF ListNames
    <3>2. i # ix
      BY <1>3, <2>2, <3>1
    <3>3. PICK k \in 1 .. nzones' : zone'[k] = zone[i]
      BY <1>10, <3>2
    <3> QED BY <3>1, <3>3 DEF ListNames
  <2> QED BY <2>1, <2>2
<1>15. zonemap' # NULL => /\ zonemap # NULL /\ zonemap' = DelShiftItem(zonemap, name)
                          /\ Sound(zonemap) /\ NamesOf(zonemap) = ListNames
                          /\ Sound(zonemap') /\ NamesOf(zonemap') = ListNames \ {name}
  <2> SUFFICES ASSUME zonemap' # NULL
               PROVE  /\ zonemap # NULL /\ zonemap' = DelShiftItem(zonemap, name)
                      /\ Sound(zonemap) /\ NamesOf(zonemap) = ListNames
                      /\ Sound(zonemap') /\ NamesOf(zonemap') = ListNames \ {name}
    OBVIOUS
  <2>1. zonemap # NULL /\ zonemap' = DelShiftItem(zonemap, name)
    BY <1>6
  <2>2. Sound(zonemap) /\ NamesOf(zonemap) = ListNames
    BY <1>1, <2>1 DEF MapIsOfList
  <2>3. /\ Sound(zonemap')
        /\ LiveIx(zonemap') = {a \in LiveIx(zonemap) : zonemap.entries[a].key # name}
        /\ \A a \in LiveIx(zonemap') : zonemap'.entries[a].key = zonemap.entries[a].key
    BY <2>1, <2>2, DeleteIsSound
  <2>4. NamesOf(zonemap') = NamesOf(zonemap) \ {name}
    BY <2>3 DEF NamesOf
  <2> QED BY <2>1, <2>2, <2>3, <2>4
<1>16. MapIsOfList'
  BY <1>14, <1>15 DEF MapIsOfList
<1>17. Mirrors'
  <2>1. \A n : n # name => (ZoneIn(file', n) <=> ZoneIn(file, n))
    BY <1>11 DEF ZoneIn
  <2>2. ~ ZoneIn(file', name) /\ \A n : ZoneIn(file', n) => file'[n] = file[n]
    BY <1>11 DEF ZoneIn
  <2>3. ASSUME NEW n \in Key, ZoneIn(file', n)
        PROVE  \E i \in 1 .. nzones' : zone'[i].name = n /\ zone'[i].id = file'[n].id
    <3>1. n # name /\ ZoneIn(file, n) /\ file'[n] = file[n]
      BY <2>1, <2>2, <2>3
    <3>2. PICK i \in 1 .. nzones : zone[i].name = n /\ zone[i].id = file[n].id
      BY <1>1, <3>1 DEF Mirrors
    <3>3. i # ix
      BY <1>3, <3>1, <3>2
    <3>4. PICK k \in 1 .. nzones' : zone'[k] = zone[i]
      BY <1>10, <3>3
    <3> QED BY <3>1, <3>2, <3>4
  <2>4. ASSUME NEW k \in 1 .. nzones', zone'[k].id # NoNode
        PROVE  ZoneIn(file', zone'[k].name) /\ file'[zone'[k].name].id = zone'[k].id
    <3>1. PICK i \in 1 .. nzones : i # ix /\ zone'[k] = zone[i]
      BY <1>10
    <3>2. PICK n : n = zone[i].name
      OBVIOUS
    <3>3. ZoneIn(file, n) /\ file[n].id = zone[i].id
      BY <1>1, <2>4, <3>1, <3>2 DEF Mirrors
    <3>4. n # name
      BY <1>4, <3>1, <3>2
    <3>5. ZoneIn(file', n) /\ file'[n] = file[n]
      BY <2>1, <2>2, <3>3, <3>4
    <3> QED BY <3>1, <3>2, <3>3, <3>5
  <2> QED BY <2>3, <2>4 DEF Mirrors
<1>18. InSync /\ ~ InSync' => zonemap.nentries > zonemap.usable
  <2> SUFFICES ASSUME InSync, ~ (zonemap.nentries > zonemap.usable) PROVE InSync'
    OBVIOUS
  <2> SUFFICES ASSUME zonemap' # NULL
               PROVE  /\ zonemap'.used = nzones'
                      /\ \A i \in 1 .. nzones' : GetItem(zonemap', zone'[i].name) = i - 1
    BY DEF InSync
  <2>1. PICK m, zs, n : m = zonemap' /\ zs = zone' /\ n = nzones'
    OBVIOUS
  <2>2. Sound(zonemap) /\ zonemap.nentries <= zonemap.usable
    <3>1. Sound(zonemap)
      BY <1>15
    <3>2. zonemap.nentries \in Nat /\ zonemap.usable \in Nat
      BY <3>1 DEF Sound, Balanced
    <3> QED BY <3>1, <3>2
  <2>3. \A i \in 1 .. nzones : Gives(zonemap, zone[i].name, i - 1)
    <3> SUFFICES ASSUME NEW i \in 1 .. nzones PROVE Gives(zonemap, zone[i].name, i - 1)
      OBVIOUS
    <3>1. i - 1 \in Nat /\ zone[i].name \in Key
      BY <1>2
    <3>2. GetItem(zonemap, zone[i].name) = i - 1
      BY <1>15 DEF InSync
    <3> QED BY <2>2, <3>1, <3>2, GetItemGives
  <2>4. ASSUME NEW k \in 1 .. n PROVE zs[k].name \in Key /\ Gives(m, zs[k].name, k - 1)
    <3>1. PICK i : i = IF k >= ix THEN k + 1 ELSE k
      OBVIOUS
    <3>2. k \in 1 .. nzones - 1 /\ zs[k] = zone[i]
      BY <1>6, <1>9, <2>1, <2>4, <3>1 DEF ShiftedFrom
    <3>3. i \in 1 .. nzones /\ i # ix
      BY <1>7, <3>1, <3>2
    <3>4. PICK x : x = zone[i].name
      OBVIOUS
    <3>5. x # name /\ x \in Key
      BY <1>2, <1>4, <3>3, <3>4
    <3>6. Gives(zonemap, x, i - 1) /\ Gives(zonemap, name, ix - 1)
      BY <1>3, <2>3, <3>3, <3>4
    <3>7. PICK old, v : old = ix - 1 /\ v = i - 1
      OBVIOUS
    <3>8. /\ Sound(zonemap) /\ Gives(zonemap, name, old) /\ zonemap.nentries <= zonemap.usable
          /\ x # name /\ Gives(zonemap, x, v)
      BY <2>2, <3>5, <3>6, <3>7
    <3>9. Gives(DelShiftItem(zonemap, name), x, IF v > old THEN v - 1 ELSE v)
      BY <3>8, DeleteLowers
    <3>10. (IF v > old THEN v - 1 ELSE v) = k - 1
      BY <1>7, <3>1, <3>2, <3>7
    <3> QED BY <1>15, <2>1, <3>2, <3>4, <3>5, <3>9, <3>10
  <2>5. /\ Sound(m) /\ n \in Nat /\ (\A i \in 1 .. n : zs[i].name \in Key)
        /\ (\A i, j \in 1 .. n : zs[i].name = zs[j].name => i = j)
        /\ NamesOf(m) = {zs[i].name : i \in 1 .. n}
    <3>1. NamesOf(m) = {zs[i].name : i \in 1 .. n}
      BY <1>14, <1>15, <2>1 DEF ListNames
    <3>2. \A i, j \in 1 .. n : zs[i].name = zs[j].name => i = j
      BY <1>13, <2>1 DEF ListIsDistinct
    <3> QED BY <1>7, <1>15, <2>1, <2>4, <3>1, <3>2
  <2>6. /\ m.used = n
        /\ \A i \in 1 .. n : GetItem(m, zs[i].name) = i - 1 <=> Gives(m, zs[i].name, i - 1)
    BY <2>5, SyncIs
  <2>7. m.used = n /\ \A i \in 1 .. n : GetItem(m, zs[i].name) = i - 1
    BY <2>4, <2>6
  <2> QED BY <2>1, <2>7
<1> QED BY <1>7, <1>12, <1>13, <1>16, <1>17, <1>18 DEF ZoneInv

LEMMA ZoneInitIsFine == Init => ZoneInv
<1> SUFFICES ASSUME Init PROVE ZoneInv
  OBVIOUS
<1>1. /\ mode = "closed" /\ file = [n \in {} |-> 0] /\ zone = <<>> /\ nzones = 0 /\ zonemap = NULL
  BY DEF Init
<1>2. DOMAIN file = {} /\ <<>> \in Seq(Element) /\ Len(<<>>) = 0
  BY <1>1
<1>3. ZoneTyped
  BY <1>1, <1>2 DEF ZoneTyped
<1> QED BY <1>1, <1>3 DEF ZoneInv, ListIsDistinct, MapIsOfList

\* Every step keeps the invariant, and each but a deletion keeps the map in step.
LEMMA ZoneStepKeeps ==
    ASSUME ZoneInv, [Next]_vars
    PROVE  /\ ZoneInv'
           /\ InSync /\ ~ InSync' => nzones' < nzones /\ zonemap.nentries > zonemap.usable
<1>1. CASE UNCHANGED vars
  <2>1. /\ mode' = mode /\ file' = file /\ zone' = zone /\ nzones' = nzones
        /\ zonemap' = zonemap /\ result' = result
    BY <1>1 DEF vars
  <2> QED BY <2>1 DEF ZoneInv, ZoneTyped, Undamaged, ListIsDistinct, MapIsOfList, ListNames, Mirrors,
                     InSync
<1>2. CASE Next
  <2>1. Undamaged
    BY <1>2 DEF Next
  <2>2. ASSUME NEW m \in {"write", "modify"}, Open(m) PROVE ZoneInv' /\ InSync'
    BY <2>2, OpenKeeps
  <2>3. ASSUME Close PROVE ZoneInv' /\ InSync'
    BY <2>3, CloseKeeps
  <2>4. ASSUME NEW name \in Key, ZoneWrite(name) PROVE ZoneInv' /\ (InSync => InSync')
    <3>1. mode # "closed" /\ UNCHANGED mode
      BY <2>4 DEF ZoneWrite
    <3>2. CASE AddZone(name)
      BY <2>1, <3>1, <3>2, AddZoneKeeps
    <3>3. CASE RefuseZone(name)
      BY <2>1, <3>1, <3>3, RefuseZoneKeeps
    <3>4. CASE OverwriteZone(name)
      BY <2>1, <3>1, <3>4, OverwriteZoneKeeps
    <3> QED BY <2>4, <3>2, <3>3, <3>4 DEF ZoneWrite
  <2>5. ASSUME NEW name \in Others, WriteOther(name) PROVE ZoneInv' /\ (InSync => InSync')
    <3>1. name \in Key
      BY OrderAssumption
    <3> QED BY <2>1, <2>5, <3>1, OthersKeep
  <2>6. ASSUME NEW name \in Key, DeleteOther(name) PROVE ZoneInv' /\ (InSync => InSync')
    BY <2>1, <2>6, OthersKeep
  <2>7. ASSUME NEW name \in Key, DeleteZone(name)
        PROVE  /\ ZoneInv' /\ nzones' < nzones
               /\ InSync /\ ~ InSync' => zonemap.nentries > zonemap.usable
    BY <2>1, <2>7, DeleteZoneKeeps
  <2> QED BY <1>2, <2>2, <2>3, <2>4, <2>5, <2>6, <2>7 DEF Next
<1> QED BY <1>1, <1>2

\* No step from a map in step damages the list.
LEMMA SyncedSteps ==
    ASSUME ZoneInv, InSync, Next
    PROVE  Undamaged'
<1>1. Undamaged /\ ZoneTyped
  BY DEF Next, ZoneInv
<1>2. nzones \in Nat
  BY <1>1, ListFacts
<1>3. ZoneTyped'
  BY ZoneStepKeeps DEF ZoneInv
<1>4. nzones' \in Nat
  BY <1>3, <1>2 DEF ZoneTyped
<1>5. CASE result' = NoResult
  BY <1>4, <1>5 DEF NoResult, Written, Undamaged
<1>6. ASSUME NEW name \in Key, ZoneWrite(name) PROVE Undamaged'
  <2>1. mode # "closed"
    BY <1>6 DEF ZoneWrite
  <2>2. ListIsDistinct /\ MapIsOfList
    BY <1>1 DEF ZoneInv
  <2>3. CASE AddZone(name)
    <3>1. PICK ok : result' = Written(name, ok, nzones + 1) /\ nzones' = nzones + 1
      BY <2>3 DEF AddZone
    <3> QED BY <1>2, <3>1 DEF Written, Undamaged
  <2>4. CASE RefuseZone(name)
    BY <1>4, <2>4 DEF RefuseZone, Written, Undamaged
  <2>5. CASE OverwriteZone(name)
    <3>1. PICK ix : ix = GetItem(BuiltMap, name) + 1
      OBVIOUS
    <3>2. ix # 0
      BY <2>5, <3>1 DEF OverwriteZone
    <3>3. ix \in 1 .. nzones /\ zone[ix].name = name
      BY <1>1, <2>2, <3>1, <3>2, SyncedPlace
    <3>4. ix \in DOMAIN zone
      BY <1>1, <3>3, ListFacts
    <3>5. /\ nzones' = nzones
          /\ \/ result' = Written(name, FALSE, 0)
             \/ \E ok : result' = [Written(name, ok, ix) EXCEPT !.was = zone[ix].name]
      BY <2>5, <3>1, <3>4 DEF OverwriteZone
    <3>6. CASE result' = Written(name, FALSE, 0)
      BY <1>4, <3>6 DEF Written, Undamaged
    <3>7. ASSUME NEW ok, result' = [Written(name, ok, ix) EXCEPT !.was = zone[ix].name]
          PROVE  Undamaged'
      BY <1>2, <3>3, <3>5, <3>7 DEF Written, Undamaged
    <3> QED BY <3>5, <3>6, <3>7
  <2> QED BY <1>6, <2>3, <2>4, <2>5 DEF ZoneWrite
<1> QED BY <1>5, <1>6 DEF Next, Open, Close, WriteOther, DeleteZone, DeleteOther

LEMMA ZoneInvAlways == Spec => []ZoneInv
<1>1. ZoneInv /\ [Next]_vars => ZoneInv'
  BY ZoneStepKeeps
<1> QED BY ZoneInitIsFine, <1>1, PTL DEF Spec

\* Nodes are named once, and the list never counts more zones than its array has.
THEOREM ZonesAreTyped == Spec => []TypeOK
<1>1. ZoneInv => TypeOK
  BY ZoneInvImplies
<1> QED BY ZoneInvAlways, <1>1, PTL

\* Whatever is written, refused, overwritten and deleted, and whatever positions the
\* map gives, base->zone has each zone of the file once, under its own node, as long as
\* cg_zone_write has not written another zone's element.
THEOREM ListMirrorsTheFile == Spec => []MemoryMirrorsFile
<1>1. ZoneInv => MemoryMirrorsFile
  BY ZoneInvImplies
<1> QED BY ZoneInvAlways, <1>1, PTL

\* While base->zonemap is in step, cg_zone_write writes the element of the zone it is
\* given, or a new one; and it is in step until a deletion in a map with more entries
\* used than room left.
THEOREM OnlyDeletionsLoseSync == Spec => MapServesUntilDeletion
<1>1. ZoneInv /\ [Next]_vars
        => [InSync =>
              /\ Undamaged'
              /\ ~ InSync' => nzones' < nzones /\ zonemap.nentries > zonemap.usable]_vars
  BY ZoneStepKeeps, SyncedSteps
<1> QED BY ZoneInvAlways, <1>1, PTL DEF Spec, MapServesUntilDeletion
=============================================================================
