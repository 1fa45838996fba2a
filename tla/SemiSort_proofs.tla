--------------------------- MODULE SemiSort_proofs ---------------------------
(***************************************************************************)
(* Proofs about SemiSort: a bucket reads as it was written, sorted, and    *)
(* writing it changes no bit of another, for any number of buckets and all *)
(* the lengths of fingerprints at which a bucket is shorter than a word.   *)
(***************************************************************************)
EXTENDS SemiSort, Recursion_proofs

-----------------------------------------------------------------------------
(***************************************************************************)
(* Powers of two, and numbers as sets of bits.                             *)
(***************************************************************************)
\* The table of the powers of two.
LEMMA Powers ==
  /\ Power[0] = 1
  /\ Power[1] = 2
  /\ Power[2] = 4
  /\ Power[3] = 8
  /\ Power[4] = 16
  /\ Power[5] = 32
  /\ Power[6] = 64
  /\ Power[7] = 128
  /\ Power[8] = 256
  /\ Power[9] = 512
  /\ Power[10] = 1024
  /\ Power[11] = 2048
  /\ Power[12] = 4096
  /\ Power[13] = 8192
  /\ Power[14] = 16384
  /\ Power[15] = 32768
  /\ Power[16] = 65536
  /\ Power[17] = 131072
  /\ Power[18] = 262144
BY DEF Power

\* Powers of two are positive, double with the exponent, and grow with it.
LEMMA PowerIs ==
  /\ \A k \in 0 .. 18 : Power[k] \in Nat \ {0}
  /\ \A k \in 0 .. 17 : Power[k + 1] = 2 * Power[k]
  /\ \A k \in 0 .. 14 : Power[k + 4] = 16 * Power[k]
  /\ \A i, j \in 0 .. 18 : i <= j => Power[i] <= Power[j]
<1>1. \A k \in 0 .. 18 :
        \/ k = 0 \/ k = 1 \/ k = 2 \/ k = 3 \/ k = 4 \/ k = 5 \/ k = 6
        \/ k = 7 \/ k = 8 \/ k = 9 \/ k = 10 \/ k = 11 \/ k = 12 \/ k = 13
        \/ k = 14 \/ k = 15 \/ k = 16 \/ k = 17 \/ k = 18
  OBVIOUS
<1>2. \A k \in 0 .. 18 : Power[k] \in Nat \ {0}
  BY <1>1, Powers
<1>3. \A k \in 0 .. 17 : Power[k + 1] = 2 * Power[k]
  BY <1>1, Powers
<1>4. \A k \in 0 .. 14 : Power[k + 4] = 16 * Power[k]
  BY <1>1, Powers
<1>5. \A i, j \in 0 .. 18 : i <= j => Power[i] <= Power[j]
  BY <1>1, Powers
<1> QED
  BY <1>2, <1>3, <1>4, <1>5

LEMMA PowerPositive ==
  ASSUME NEW k \in 0 .. 18
  PROVE  Power[k] \in Nat \ {0}
BY PowerIs, Zenon

\* The bits of a number below a power of two are below its exponent.
LEMMA BitsLow ==
  ASSUME NEW k \in 0 .. 18, NEW x \in Nat, x < Power[k]
  PROVE  Bits(x) \subseteq 0 .. k - 1 /\ Bits(x) \subseteq 0 .. 17
<1>1. ASSUME NEW i \in Bits(x), i >= k
      PROVE  FALSE
  <2>1. i \in 0 .. 17 /\ (x \div Power[i]) % 2 = 1
    BY DEF Bits
  <2>a. i \in 0 .. 18 /\ k <= i
    BY <1>1, <2>1
  <2>b. Power[k] <= Power[i]
    BY <2>a, PowerIs, Zenon
  <2>c. Power[k] \in Nat \ {0} /\ Power[i] \in Nat \ {0}
    BY <2>a, PowerPositive, Zenon
  <2>2. PICK p \in Nat \ {0} : p = Power[i] /\ x < p
    BY <2>b, <2>c
  <2>3. x \div p = 0
    BY <2>2
  <2> QED
    BY <2>1, <2>2, <2>3
<1> QED
  BY <1>1 DEF Bits

\* A quotient is twice the next one, by double the power, and its last bit.
LEMMA HalfOf ==
  ASSUME NEW x \in Nat, NEW p \in Nat \ {0}
  PROVE  x \div p = 2 * (x \div (2 * p)) + ((x \div p) % 2) /\ x \div p \in Nat
<1>1. PICK y \in Nat : y = x \div p
  OBVIOUS
<1>2. x \div (2 * p) = y \div 2
  BY <1>1
<1>3. y = 2 * (y \div 2) + (y % 2)
  OBVIOUS
<1> QED
  BY <1>1, <1>2, <1>3

\* Bits and numbers are the same thing, up to 18 bits.
LEMMA NumIs ==
  ASSUME NEW x \in Nat, x < Power[18]
  PROVE  Num(Bits(x)) = x
<1> DEFINE w == Bits(x)
           eqn(f) == [i \in 0 .. 18 |->
                        IF i = 18 THEN 0 ELSE 2 * f[i + 1] + IF i \in w THEN 1 ELSE 0]
           g == [i \in 0 .. 18 |-> x \div Power[i]]
<1>1. ASSUME NEW i \in 0 .. 17
      PROVE  g[i] = 2 * g[i + 1] + IF i \in w THEN 1 ELSE 0
  <2>1. PICK p \in Nat \ {0} : p = Power[i] /\ Power[i + 1] = 2 * p
    <3>1. i \in 0 .. 18
      OBVIOUS
    <3>2. Power[i] \in Nat \ {0} /\ Power[i + 1] = 2 * Power[i]
      BY <3>1, PowerPositive, PowerIs, Zenon
    <3> QED
      BY <3>2, Zenon
  <2>2. g[i] = x \div p /\ g[i + 1] = x \div (2 * p)
    BY <2>1
  <2>3. i \in w <=> (x \div p) % 2 = 1
    BY <2>1 DEF Bits
  <2>4. PICK y \in Nat, z \in Nat : y = x \div p /\ z = x \div (2 * p) /\ y = 2 * z + (y % 2)
    <3>1. x \div (2 * p) \in Nat
      OBVIOUS
    <3> QED
      BY <3>1, HalfOf
  <2>5. y % 2 \in {0, 1}
    OBVIOUS
  <2> HIDE DEF g, w
  <2> QED
    BY <2>2, <2>3, <2>4, <2>5
<1>2. g[18] = 0
  <2>1. PICK p \in Nat \ {0} : p = Power[18] /\ x < p
    BY PowerIs
  <2>2. x \div p = 0
    BY <2>1
  <2> QED
    BY <2>1, <2>2
<1>3. g[0] = x
  <2>1. x \div 1 = x
    OBVIOUS
  <2> QED
    BY <2>1, Powers
<1>4. g = eqn(g)
  <2>1. g = [i \in 0 .. 18 |-> g[i]]
    OBVIOUS
  <2>2. \A i \in 0 .. 18 : i = 18 \/ (i # 18 /\ i \in 0 .. 17)
    OBVIOUS
  <2> HIDE DEF g, w
  <2> QED
    BY <1>1, <1>2, <2>1, <2>2
<1> HIDE DEF g
<1> DEFINE from == CHOOSE f : f = eqn(f)
<1>5. from = eqn(from)
  <2> HIDE DEF eqn
  <2> QED
    BY <1>4
<1>6. Num(Bits(x)) = from[0]
  BY DEF Num
<1> HIDE DEF from, w
<1> DEFINE S == {k \in Nat : k <= 18 => from[18 - k] = g[18 - k]}
<1>7. 0 \in S
  BY <1>2, <1>5
<1>8. ASSUME NEW k \in Nat, k \in S
      PROVE  k + 1 \in S
  <2> SUFFICES ASSUME k + 1 <= 18
               PROVE  from[18 - (k + 1)] = g[18 - (k + 1)]
    OBVIOUS
  <2>1. PICK i \in 0 .. 17 : i = 18 - (k + 1) /\ i + 1 = 18 - k
    <3>1. 18 - (k + 1) \in 0 .. 17 /\ (18 - (k + 1)) + 1 = 18 - k
      OBVIOUS
    <3> QED
      BY <3>1
  <2>2. from[i + 1] = g[i + 1]
    BY <1>8, <2>1
  <2>3. from[i] = 2 * from[i + 1] + IF i \in w THEN 1 ELSE 0
    <3>1. i \in 0 .. 18 /\ i # 18
      OBVIOUS
    <3> QED
      BY <1>5, <3>1
  <2> QED
    BY <1>1, <2>1, <2>2, <2>3
<1> HIDE DEF S
<1>9. 18 \in S
  BY <1>7, <1>8, Induct
<1>10. from[0] = g[0]
  BY <1>9 DEF S
<1> QED
  BY <1>3, <1>6, <1>10

-----------------------------------------------------------------------------
(***************************************************************************)
(* The two tables.                                                         *)
(***************************************************************************)
\* How often the outermost of the four loops runs, for every bound.
LEMMA Table ==
  /\ Passes(4, 0) = 0 /\ Passes(4, 1) = 1 /\ Passes(4, 2) = 5
  /\ Passes(4, 3) = 15 /\ Passes(4, 4) = 35 /\ Passes(4, 5) = 70
  /\ Passes(4, 6) = 126 /\ Passes(4, 7) = 210 /\ Passes(4, 8) = 330
  /\ Passes(4, 9) = 495 /\ Passes(4, 10) = 715 /\ Passes(4, 11) = 1001
  /\ Passes(4, 12) = 1365 /\ Passes(4, 13) = 1820 /\ Passes(4, 14) = 2380
  /\ Passes(4, 15) = 3060 /\ Passes(4, 16) = 3876
  /\ Passes(3, 0) = 0 /\ Passes(3, 1) = 1 /\ Passes(3, 2) = 4
  /\ Passes(3, 3) = 10 /\ Passes(3, 4) = 20 /\ Passes(3, 5) = 35
  /\ Passes(3, 6) = 56 /\ Passes(3, 7) = 84 /\ Passes(3, 8) = 120
  /\ Passes(3, 9) = 165 /\ Passes(3, 10) = 220 /\ Passes(3, 11) = 286
  /\ Passes(3, 12) = 364 /\ Passes(3, 13) = 455 /\ Passes(3, 14) = 560
  /\ Passes(3, 15) = 680 /\ Passes(3, 16) = 816
  /\ Passes(2, 0) = 0 /\ Passes(2, 1) = 1 /\ Passes(2, 2) = 3
  /\ Passes(2, 3) = 6 /\ Passes(2, 4) = 10 /\ Passes(2, 5) = 15
  /\ Passes(2, 6) = 21 /\ Passes(2, 7) = 28 /\ Passes(2, 8) = 36
  /\ Passes(2, 9) = 45 /\ Passes(2, 10) = 55 /\ Passes(2, 11) = 66
  /\ Passes(2, 12) = 78 /\ Passes(2, 13) = 91 /\ Passes(2, 14) = 105
  /\ Passes(2, 15) = 120 /\ Passes(2, 16) = 136
BY DEF Passes

\* With one more pass of a loop come the passes of the loop inside it.
LEMMA PassesAre ==
  /\ \A d \in 2 .. 4 : \A x \in 0 .. 16 : Passes(d, x) \in Nat
  /\ \A x \in Nibble : /\ Passes(4, x + 1) = Passes(4, x) + Passes(3, x + 1)
                       /\ Passes(3, x + 1) = Passes(3, x) + Passes(2, x + 1)
                       /\ Passes(2, x + 1) = Passes(2, x) + x + 1
  /\ \A x, y \in 0 .. 16 : x <= y => /\ Passes(4, x) <= Passes(4, y)
                                     /\ Passes(3, x) <= Passes(3, y)
                                     /\ Passes(2, x) <= Passes(2, y)
  /\ \A x : Passes(1, x) = x
<1>1. \A x \in 0 .. 16 :
        \/ x = 0 \/ x = 1 \/ x = 2 \/ x = 3 \/ x = 4 \/ x = 5 \/ x = 6 \/ x = 7 \/ x = 8
        \/ x = 9 \/ x = 10 \/ x = 11 \/ x = 12 \/ x = 13 \/ x = 14 \/ x = 15 \/ x = 16
  OBVIOUS
<1>2. \A d \in 2 .. 4 : d = 2 \/ d = 3 \/ d = 4
  OBVIOUS
<1>3. \A d \in 2 .. 4 : \A x \in 0 .. 16 : Passes(d, x) \in Nat
  BY <1>1, <1>2, Table
<1>4. \A x \in Nibble : x \in 0 .. 16 /\ x + 1 \in 0 .. 16
  BY DEF Nibble
<1>5. \A x \in Nibble : /\ Passes(4, x + 1) = Passes(4, x) + Passes(3, x + 1)
                        /\ Passes(3, x + 1) = Passes(3, x) + Passes(2, x + 1)
                        /\ Passes(2, x + 1) = Passes(2, x) + x + 1
  BY <1>1, <1>4, Table
<1>6. \A x, y \in 0 .. 16 : x <= y => /\ Passes(4, x) <= Passes(4, y)
                                      /\ Passes(3, x) <= Passes(3, y)
                                      /\ Passes(2, x) <= Passes(2, y)
  BY <1>1, Table
<1>7. \A x : Passes(1, x) = x
  BY DEF Passes
<1> QED
  BY <1>3, <1>5, <1>6, <1>7

\* The counter of the outermost loop is the only one that fits the pass.
LEMMA CounterIs ==
  ASSUME NEW d \in 2 .. 4, NEW x \in Nibble, NEW c \in Nat,
         Passes(d, x) <= c, c < Passes(d, x + 1)
  PROVE  Counter(d, c) = x
<1>1. ASSUME NEW y \in Nibble, Passes(d, y) <= c, c < Passes(d, y + 1)
      PROVE  y = x
  <2>1. /\ y \in 0 .. 16 /\ y + 1 \in 0 .. 16 /\ x \in 0 .. 16 /\ x + 1 \in 0 .. 16
        /\ (y < x => y + 1 <= x) /\ (x < y => x + 1 <= y) /\ (x < y \/ y < x \/ x = y)
    BY DEF Nibble
  <2>2. d = 2 \/ d = 3 \/ d = 4
    OBVIOUS
  <2>3. /\ Passes(d, x) \in Nat /\ Passes(d, x + 1) \in Nat
        /\ Passes(d, y) \in Nat /\ Passes(d, y + 1) \in Nat
    BY <2>1, PassesAre
  <2>4. y < x => Passes(d, y + 1) <= Passes(d, x)
    BY <2>1, <2>2, PassesAre
  <2>5. x < y => Passes(d, x + 1) <= Passes(d, y)
    BY <2>1, <2>2, PassesAre
  <2> QED
    BY <1>1, <2>1, <2>3, <2>4, <2>5
<1> QED
  BY <1>1 DEF Counter

\* Reading a code gives the sorted nibbles it was made of.
LEMMA TablesInverse ==
  ASSUME NEW q \in [Slot -> Nibble], Descending(q)
  PROVE  /\ encode_table(q) \in Nat /\ encode_table(q) < Power[12]
         /\ decode_table(encode_table(q)) = q
<1> DEFINE i == q[0]
           j == q[1]
           k == q[2]
           l == q[3]
           c == encode_table(q)
<1>1. /\ i \in Nibble /\ j \in Nibble /\ k \in Nibble /\ l \in Nibble
      /\ l <= k /\ k <= j /\ j <= i
  <2>1. 0 \in Slot /\ 1 \in Slot /\ 2 \in Slot /\ 3 \in Slot /\ 0 \in 0 .. 2 /\ 1 \in 0 .. 2 /\ 2 \in 0 .. 2
        /\ 0 + 1 = 1 /\ 1 + 1 = 2 /\ 2 + 1 = 3
    BY DEF Slot
  <2>2. q[0] >= q[0 + 1] /\ q[1] >= q[1 + 1] /\ q[2] >= q[2 + 1]
    BY <2>1 DEF Descending
  <2>3. q[0] \in Nibble /\ q[1] \in Nibble /\ q[2] \in Nibble /\ q[3] \in Nibble
    BY <2>1
  <2> QED
    BY <2>1, <2>2, <2>3 DEF Nibble
<1>2. c = Passes(4, i) + Passes(3, j) + Passes(2, k) + l
  BY PassesAre DEF encode_table
<1>3. q = [s \in Slot |-> IF s = 0 THEN i ELSE IF s = 1 THEN j ELSE IF s = 2 THEN k ELSE l]
  <2>1. \A s \in Slot : s = 0 \/ s = 1 \/ s = 2 \/ s = 3
    BY DEF Slot
  <2> QED
    BY <2>1
<1> HIDE DEF i, j, k, l, c
<1>4. /\ i \in 0 .. 16 /\ j \in 0 .. 16 /\ k \in 0 .. 16 /\ l \in Nat
      /\ i + 1 \in 0 .. 16 /\ 16 \in 0 .. 16 /\ i + 1 <= 16
  BY <1>1 DEF Nibble
<1> DEFINE A(x) == Passes(4, x)
           B(x) == Passes(3, x)
           C(x) == Passes(2, x)
<1>5. /\ A(i) \in Nat /\ A(i + 1) \in Nat /\ A(i + 1) = A(i) + B(i + 1) /\ B(i + 1) = B(i) + C(i + 1)
      /\ C(i + 1) = C(i) + i + 1 /\ B(j) <= B(i) /\ C(k) <= C(i)
      /\ B(i) \in Nat /\ B(j) \in Nat /\ C(k) \in Nat /\ C(i) \in Nat /\ A(i + 1) <= A(16)
  <2>1. k <= i /\ i \in Nibble
    BY <1>1 DEF Nibble
  <2>2. 4 \in 2 .. 4 /\ 3 \in 2 .. 4 /\ 2 \in 2 .. 4
    OBVIOUS
  <2> QED
    BY <1>1, <1>4, <2>1, <2>2, PassesAre
<1>6. /\ B(j + 1) = B(j) + C(j + 1) /\ C(j + 1) = C(j) + j + 1
      /\ C(k) <= C(j) /\ C(j) \in Nat
      /\ C(k + 1) = C(k) + k + 1
  <2>1. 4 \in 2 .. 4 /\ 3 \in 2 .. 4 /\ 2 \in 2 .. 4
    OBVIOUS
  <2> QED
    BY <1>1, <1>4, <2>1, PassesAre
<1>7. l <= i /\ i \in Nat /\ j \in Nat /\ k \in Nat /\ l <= j /\ l <= k
  BY <1>1 DEF Nibble
<1> HIDE DEF A, B, C
<1>8. c \in Nat /\ A(i) <= c /\ c < A(i + 1) /\ c < A(16)
  <2>1. c = A(i) + B(j) + C(k) + l
    BY <1>2 DEF A, B, C
  <2>2. A(i + 1) = A(i) + B(i) + C(i) + i + 1
    BY <1>4, <1>5
  <2>3. A(16) \in Nat
    BY PassesAre DEF A
  <2> QED
    BY <1>4, <1>5, <1>7, <2>1, <2>2, <2>3
<1>9. /\ c - A(i) \in Nat /\ B(j) <= c - A(i) /\ c - A(i) < B(j + 1)
  BY <1>2, <1>4, <1>5, <1>6, <1>7, <1>8 DEF A, B, C
<1>10. /\ c - A(i) - B(j) \in Nat /\ C(k) <= c - A(i) - B(j) /\ c - A(i) - B(j) < C(k + 1)
       /\ c - A(i) - B(j) - C(k) = l
  BY <1>2, <1>4, <1>5, <1>6, <1>7, <1>8 DEF A, B, C
<1>11. Counter(4, c) = i
  BY <1>1, <1>8, CounterIs DEF A
<1>12. Counter(3, c - Passes(4, i)) = j
  BY <1>1, <1>9, CounterIs DEF A, B
<1>13. Counter(2, c - Passes(4, i) - Passes(3, j)) = k
  BY <1>1, <1>10, CounterIs DEF A, B, C
<1>14. c < Passes(4, 16) /\ c - Passes(4, i) - Passes(3, j) - Passes(2, k) = l
  BY <1>8, <1>10 DEF A, B, C
<1>15. decode_table(c) = [s \in Slot |-> <<i, j, k, l>>[s + 1]]
  BY <1>11, <1>12, <1>13, <1>14 DEF decode_table
<1>16. \A s \in Slot :
         <<i, j, k, l>>[s + 1] = IF s = 0 THEN i ELSE IF s = 1 THEN j ELSE IF s = 2 THEN k ELSE l
  <2>1. \A s \in Slot : s = 0 \/ s = 1 \/ s = 2 \/ s = 3
    BY DEF Slot
  <2>2. <<i, j, k, l>>[0 + 1] = i /\ <<i, j, k, l>>[1 + 1] = j
        /\ <<i, j, k, l>>[2 + 1] = k /\ <<i, j, k, l>>[3 + 1] = l
    OBVIOUS
  <2> QED
    BY <2>1, <2>2
<1>17. c < Power[12]
  BY <1>8, Powers, Table DEF A
<1> QED
  BY <1>3, <1>8, <1>15, <1>16, <1>17 DEF c

-----------------------------------------------------------------------------
(***************************************************************************)
(* Sorting four fingerprints.                                              *)
(***************************************************************************)
One(p) == IF p THEN 1 ELSE 0

\* How many of the slots hold f.
Copies(s, f) == One(s[0] = f) + One(s[1] = f) + One(s[2] = f) + One(s[3] = f)

\* The four slots.
LEMMA Slots ==
  /\ 0 \in Slot /\ 1 \in Slot /\ 2 \in Slot /\ 3 \in Slot
  /\ \A i \in Slot : i = 0 \/ i = 1 \/ i = 2 \/ i = 3
BY DEF Slot

Hi(x, y) == IF x < y THEN y ELSE x
Lo(x, y) == IF x < y THEN x ELSE y

\* A comparison puts the larger one first and leaves the others where they are.
Compared(s, r, a, b) ==
  /\ r[a] = Hi(s[a], s[b]) /\ r[b] = Lo(s[a], s[b])
  /\ \A c \in Slot : c # a /\ c # b => r[c] = s[c]

\* A comparison of two slots orders them and keeps the fingerprints.
LEMMA PairIs ==
  ASSUME NEW S, NEW s \in [Slot -> S], NEW a \in Slot, NEW b \in Slot, a # b
  PROVE  /\ sort_pair(s, a, b) \in [Slot -> S] /\ Compared(s, sort_pair(s, a, b), a, b)
         /\ \A f : Copies(sort_pair(s, a, b), f) = Copies(s, f)
<1> DEFINE r == sort_pair(s, a, b)
<1>1. r \in [Slot -> S]
  BY DEF sort_pair
<1>2. Compared(s, r, a, b)
  BY DEF sort_pair, Compared, Hi, Lo
<1>3. r = s \/ (r[a] = s[b] /\ r[b] = s[a] /\ \A c \in Slot : c # a /\ c # b => r[c] = s[c])
  BY DEF sort_pair
<1> HIDE DEF r
<1>4. ASSUME NEW f
      PROVE  Copies(r, f) = Copies(s, f)
  <2>1. CASE r = s
    BY <2>1
  <2>2. CASE r[a] = s[b] /\ r[b] = s[a] /\ \A c \in Slot : c # a /\ c # b => r[c] = s[c]
    <3> DEFINE x(i) == One(s[i] = f)
               y(i) == One(r[i] = f)
    <3>1. \A i \in Slot : x(i) \in {0, 1}
      BY DEF One
    <3>2. y(a) = x(b) /\ y(b) = x(a) /\ \A c \in Slot : c # a /\ c # b => y(c) = x(c)
      BY <2>2
    <3>3. Copies(r, f) = y(0) + y(1) + y(2) + y(3) /\ Copies(s, f) = x(0) + x(1) + x(2) + x(3)
      BY DEF Copies
    <3> HIDE DEF x, y
    <3> QED
      BY <3>1, <3>2, <3>3, Slots
  <2> QED
    BY <1>3, <2>1, <2>2
<1> QED
  BY <1>1, <1>2, <1>4 DEF r

\* The five comparisons order any four fingerprints, and keep them.
LEMMA SortIs ==
  ASSUME NEW S, S \subseteq Nat, NEW s \in [Slot -> S]
  PROVE  /\ Sort(s) \in [Slot -> S] /\ Descending(Sort(s))
         /\ \A f : Copies(Sort(s), f) = Copies(s, f)
<1> DEFINE s1 == sort_pair(s, 0, 2)
           s2 == sort_pair(s1, 1, 3)
           s3 == sort_pair(s2, 0, 1)
           s4 == sort_pair(s3, 2, 3)
           s5 == sort_pair(s4, 1, 2)
<1>0. Sort(s) = s5
  BY DEF Sort
<1>1. s1 \in [Slot -> S] /\ Compared(s, s1, 0, 2) /\ \A f : Copies(s1, f) = Copies(s, f)
  BY Slots, PairIs
<1> HIDE DEF s1
<1>2. s2 \in [Slot -> S] /\ Compared(s1, s2, 1, 3) /\ \A f : Copies(s2, f) = Copies(s1, f)
  BY <1>1, Slots, PairIs
<1> HIDE DEF s2
<1>3. s3 \in [Slot -> S] /\ Compared(s2, s3, 0, 1) /\ \A f : Copies(s3, f) = Copies(s2, f)
  BY <1>2, Slots, PairIs
<1> HIDE DEF s3
<1>4. s4 \in [Slot -> S] /\ Compared(s3, s4, 2, 3) /\ \A f : Copies(s4, f) = Copies(s3, f)
  BY <1>3, Slots, PairIs
<1> HIDE DEF s4
<1>5. s5 \in [Slot -> S] /\ Compared(s4, s5, 1, 2) /\ \A f : Copies(s5, f) = Copies(s4, f)
  BY <1>4, Slots, PairIs
<1> HIDE DEF s5
<1>6. PICK x0 \in Nat, x1 \in Nat, x2 \in Nat, x3 \in Nat :
        x0 = s[0] /\ x1 = s[1] /\ x2 = s[2] /\ x3 = s[3]
  BY Slots
<1>7. s1[0] = Hi(x0, x2) /\ s1[2] = Lo(x0, x2) /\ s1[1] = x1 /\ s1[3] = x3
  BY <1>1, <1>6, Slots DEF Compared
<1>8. s2[1] = Hi(x1, x3) /\ s2[3] = Lo(x1, x3) /\ s2[0] = Hi(x0, x2) /\ s2[2] = Lo(x0, x2)
  BY <1>2, <1>7, Slots DEF Compared
<1>9. PICK a \in Nat, b \in Nat, c \in Nat, d \in Nat :
        a = s2[0] /\ b = s2[1] /\ c = s2[2] /\ d = s2[3] /\ a >= c /\ b >= d
  BY <1>8 DEF Hi, Lo
<1>10. s3[0] = Hi(a, b) /\ s3[1] = Lo(a, b) /\ s3[2] = c /\ s3[3] = d
  BY <1>3, <1>9, Slots DEF Compared
<1>11. s4[2] = Hi(c, d) /\ s4[3] = Lo(c, d) /\ s4[0] = Hi(a, b) /\ s4[1] = Lo(a, b)
  BY <1>4, <1>10, Slots DEF Compared
<1>12. /\ s5[1] = Hi(Lo(a, b), Hi(c, d)) /\ s5[2] = Lo(Lo(a, b), Hi(c, d))
       /\ s5[0] = Hi(a, b) /\ s5[3] = Lo(c, d)
  BY <1>5, <1>11, Slots DEF Compared
<1>13. s5[0] >= s5[1] /\ s5[1] >= s5[2] /\ s5[2] >= s5[3]
  BY <1>9, <1>12 DEF Hi, Lo
<1>14. Descending(s5)
  <2>1. \A i \in 0 .. 2 : i = 0 \/ i = 1 \/ i = 2
    OBVIOUS
  <2>2. 0 + 1 = 1 /\ 1 + 1 = 2 /\ 2 + 1 = 3
    OBVIOUS
  <2> QED
    BY <1>13, <2>1, <2>2 DEF Descending
<1>15. \A f : Copies(s5, f) = Copies(s, f)
  BY <1>1, <1>2, <1>3, <1>4, <1>5
<1> QED
  BY <1>0, <1>5, <1>14, <1>15

-----------------------------------------------------------------------------
(***************************************************************************)
(* The memory.  Bit(t, b) is its b-th bit, counted through all the words.  *)
(***************************************************************************)
Bit(t, b) == b % 64 \in t[WordOf(b)]

\* Where the bits of a bucket of length L from a on are in words.
Placed(a, L, len) ==
  /\ a \in Nat /\ WordOf(a) \in Word(len) /\ WordOf(a + L - 1) \in Word(len)
  /\ WordOf(a) \in Nat /\ a % 64 \in Unit /\ a = 64 * WordOf(a) + (a % 64)
  /\ \/ /\ WordOf(a + L - 1) = WordOf(a)
        /\ (a + L - 1) % 64 = (a % 64) + L - 1 /\ (a % 64) + L - 1 <= 63
     \/ /\ WordOf(a + L - 1) = WordOf(a) + 1
        /\ (a + L - 1) % 64 = (a % 64) + L - 65 /\ (a % 64) + L - 1 > 63

\* Every bit is in a word, at a position.
LEMMA WordsOf ==
  ASSUME NEW b \in Nat
  PROVE  WordOf(b) \in Nat /\ b % 64 \in Unit /\ b = 64 * WordOf(b) + (b % 64)
BY DEF WordOf, Unit

\* The word of a bit, and its position there, from its number.
LEMMA WordIs ==
  ASSUME NEW w \in Nat, NEW m \in 0 .. 63, NEW b \in Nat, b = 64 * w + m
  PROVE  b \div 64 = w /\ b % 64 = m
OBVIOUS

\* A bucket of fingerprints of at most 16 bits is shorter than a word.
LEMMA LengthIs ==
  ASSUME NEW len \in 4 .. 16
  PROVE  /\ bucket_length(len) \in 12 .. 60 /\ bucket_length(len) = 4 * (len - 4) + 12
         /\ len - 4 \in 0 .. 12
BY DEF bucket_length

\* Every bucket has its bits in the memory, in one word or in two.
LEMMA BucketPlaced ==
  ASSUME NEW len \in 4 .. 16, NEW p \in Bucket
  PROVE  /\ Placed(Start(len, p), bucket_length(len), len)
         /\ End(len, p) = Start(len, p) + bucket_length(len) - 1
<1>1. PICK L \in 12 .. 60 : L = bucket_length(len)
  BY LengthIs
<1>2. n \in Nat \ {0}
  BY SemiSortAssumption
<1>3. PICK k \in Nat : n = p + 1 + k /\ p \in Nat
  <2>1. n - p - 1 \in Nat /\ n = p + 1 + (n - p - 1) /\ p \in Nat
    BY <1>2 DEF Bucket
  <2> QED
    BY <2>1
<1>4. PICK a \in Nat, r \in Nat : a = p * L /\ r = k * L
  <2>1. p * L \in Nat /\ k * L \in Nat
    BY <1>3
  <2> QED
    BY <2>1
<1>5. n * L = a + L + r
  <2>1. (p + 1 + k) * L = p * L + L + k * L
    BY <1>3
  <2> QED
    BY <1>3, <1>4, <2>1
<1>6. a = Start(len, p)
  BY <1>1, <1>4 DEF Start
<1>7. PICK w \in Nat, m \in 0 .. 63 : w = WordOf(a) /\ m = a % 64 /\ a = 64 * w + m
  <2>1. WordOf(a) \in Nat /\ a % 64 \in 0 .. 63 /\ a = 64 * WordOf(a) + (a % 64)
    BY WordsOf, Zenon DEF Unit
  <2> QED
    BY <2>1, Zenon
<1>0. a = 64 * w + m
  BY <1>7
<1>8. PICK z \in Nat : z = memory_consumption(len) \div 8 /\ 8 * z + 7 >= memory_consumption(len)
                       /\ memory_consumption(len) = (a + L + r + 71) \div 8 + 8
  <2>1. memory_consumption(len) = ((a + L + r) + 64 + 7) \div 8 + 8
    BY <1>1, <1>5 DEF memory_consumption
  <2>2. PICK y \in Nat : y = memory_consumption(len) /\ y = (a + L + r + 71) \div 8 + 8
    BY <2>1
  <2>3. y \div 8 \in Nat /\ 8 * (y \div 8) + 7 >= y
    BY <2>2
  <2> QED
    BY <2>2, <2>3
<1>9. 64 * z > a + L
  <2>1. PICK y \in Nat : y = (a + L + r + 71) \div 8
    OBVIOUS
  <2>2. 8 * y + 7 >= a + L + r + 71
    BY <2>1
  <2>3. 8 * z + 7 >= y + 8
    BY <1>8, <2>1
  <2> QED
    BY <2>2, <2>3
<1>10. Word(len) = 0 .. z - 1
  BY <1>8 DEF Word
<1>11. w + 1 <= z
  <2>1. 64 * z > 64 * w
    BY <1>0, <1>9
  <2> QED
    BY <2>1
<1>12. CASE m + L - 1 <= 63
  <2>1. (a + L - 1) \div 64 = w /\ (a + L - 1) % 64 = m + L - 1
    <3>1. a + L - 1 = 64 * w + (m + L - 1) /\ m + L - 1 \in 0 .. 63 /\ a + L - 1 \in Nat
      BY <1>0, <1>12
    <3> QED
      BY <3>1, WordIs
  <2> QED
    BY <1>1, <1>6, <1>7, <1>10, <1>11, <1>12, <2>1 DEF Placed, End, WordOf, Unit
<1>13. CASE m + L - 1 > 63
  <2>1. (a + L - 1) \div 64 = w + 1 /\ (a + L - 1) % 64 = m + L - 65
    <3>1. a + L - 1 = 64 * (w + 1) + (m + L - 65)
      BY <1>0
    <3>2. m + L - 65 \in 0 .. 63 /\ w + 1 \in Nat /\ a + L - 1 \in Nat
      BY <1>13
    <3> QED
      BY <3>1, <3>2, WordIs
  <2>2. w + 1 \in 0 .. z - 1
    <3>1. 64 * z > 64 * (w + 1)
      BY <1>0, <1>9, <1>13
    <3> QED
      BY <3>1
  <2> QED
    BY <1>1, <1>6, <1>7, <1>10, <1>11, <1>13, <2>1, <2>2 DEF Placed, End, WordOf, Unit
<1> QED
  BY <1>12, <1>13

\* No bit is in two buckets.
LEMMA BucketsApart ==
  ASSUME NEW len \in 4 .. 16, NEW p \in Bucket, NEW q \in Bucket, p # q
  PROVE  \/ Start(len, p) + bucket_length(len) <= Start(len, q)
         \/ Start(len, q) + bucket_length(len) <= Start(len, p)
<1>1. PICK L \in 12 .. 60 : L = bucket_length(len)
  BY LengthIs
<1>2. p \in Nat /\ q \in Nat
  BY SemiSortAssumption DEF Bucket
<1>3. ASSUME NEW x \in Nat, NEW y \in Nat, x < y
      PROVE  x * L + L <= y * L
  <2>1. PICK k \in Nat : y = x + 1 + k
    <3>1. y - x - 1 \in Nat /\ y = x + 1 + (y - x - 1)
      BY <1>3
    <3> QED
      BY <3>1
  <2>2. (x + 1 + k) * L = x * L + L + k * L /\ k * L \in Nat /\ x * L \in Nat
    OBVIOUS
  <2> QED
    BY <2>1, <2>2
<1>4. p < q \/ q < p
  BY <1>2
<1> QED
  BY <1>1, <1>2, <1>3, <1>4 DEF Start

\* What a shift to the left puts where.
LEMMA ShiftLeftIs ==
  ASSUME NEW w, w \subseteq Int, NEW k \in Nat, NEW x \in Int
  PROVE  x \in ShiftLeft(w, k) <=> x \in Unit /\ x - k \in w
<1>1. ASSUME x - k \in w
      PROVE  x \in {b + k : b \in w}
  <2>1. (x - k) + k = x
    OBVIOUS
  <2> QED
    BY <1>1, <2>1
<1>2. ASSUME NEW b \in w, x = b + k
      PROVE  x - k \in w
  <2>1. b \in Int
    OBVIOUS
  <2>2. x - k = b
    BY <1>2, <2>1
  <2> QED
    BY <2>2
<1> QED
  BY <1>1, <1>2 DEF ShiftLeft

\* What a shift to the right puts where.
LEMMA ShiftRightIs ==
  ASSUME NEW w, w \subseteq Nat, NEW k \in Nat
  PROVE  /\ ShiftRight(w, k) \subseteq Nat
         /\ \A x \in Nat : x \in ShiftRight(w, k) <=> x + k \in w
<1>1. ASSUME NEW x \in Nat, x + k \in w
      PROVE  x \in ShiftRight(w, k)
  <2>1. (x + k) - k = x /\ x + k >= k
    BY <1>1
  <2> QED
    BY <1>1, <2>1 DEF ShiftRight
<1>2. ASSUME NEW y \in ShiftRight(w, k)
      PROVE  y \in Nat /\ y + k \in w
  <2>1. PICK c \in w : c >= k /\ y = c - k
    BY DEF ShiftRight
  <2>2. c \in Nat
    OBVIOUS
  <2>3. y \in Nat /\ y + k = c
    BY <2>1, <2>2
  <2> QED
    BY <2>3
<1> QED
  BY <1>1, <1>2

Memory(len) == [Word(len) -> SUBSET Unit]

\* A bucket's L bits begin at bit m of word w, and end in that word or the next.
Where(len, p, L, w, m) ==
  /\ L = bucket_length(len) /\ w \in Word(len) /\ Start(len, p) = 64 * w + m
  /\ WordOf(Start(len, p)) = w /\ Start(len, p) % 64 = m
  /\ m + L <= 64 => Within(len, p) /\ End(len, p) % 64 = m + L - 1
  /\ m + L > 64 => ~Within(len, p) /\ End(len, p) % 64 = m + L - 65 /\ w + 1 \in Word(len)

\* The place of a bucket, in the terms of the definitions that use it.
LEMMA BucketWhere ==
  ASSUME NEW len \in 4 .. 16, NEW p \in Bucket
  PROVE  \E L \in 12 .. 60, w \in Nat, m \in 0 .. 63 : Where(len, p, L, w, m)
<1>1. PICK L \in 12 .. 60 : L = bucket_length(len)
  BY LengthIs
<1> DEFINE a == Start(len, p)
<1>2. Placed(a, L, len) /\ End(len, p) = a + L - 1
  BY <1>1, BucketPlaced
<1> HIDE DEF a
<1>3. WordOf(a) \in Nat /\ a % 64 \in 0 .. 63
  BY <1>2 DEF Placed, Unit
<1>4. PICK w \in Nat, m \in 0 .. 63 : w = WordOf(a) /\ m = a % 64
  BY <1>3
<1>5. /\ w \in Word(len) /\ a = 64 * w + m
      /\ \/ WordOf(a + L - 1) = w /\ (a + L - 1) % 64 = m + L - 1 /\ m + L - 1 <= 63
         \/ /\ WordOf(a + L - 1) = w + 1 /\ w + 1 \in Word(len)
            /\ (a + L - 1) % 64 = m + L - 65 /\ m + L - 1 > 63
  BY <1>2, <1>4, Zenon DEF Placed
<1> DEFINE e == WordOf(a + L - 1)
           f == (a + L - 1) % 64
<1>6. /\ Within(len, p) <=> w = e
      /\ End(len, p) % 64 = f
  BY <1>2, <1>4 DEF Within, a
<1>7. \/ e = w /\ f = m + L - 1 /\ m + L - 1 <= 63
      \/ e = w + 1 /\ w + 1 \in Word(len) /\ f = m + L - 65 /\ m + L - 1 > 63
  BY <1>5
<1> HIDE DEF e, f
<1>8. /\ m + L <= 64 => Within(len, p) /\ End(len, p) % 64 = m + L - 1
      /\ m + L > 64 => ~Within(len, p) /\ End(len, p) % 64 = m + L - 65 /\ w + 1 \in Word(len)
  BY <1>6, <1>7
<1>9. Where(len, p, L, w, m)
  <2> HIDE DEF e
  <2> QED
    BY <1>1, <1>4, <1>5, <1>8, Zenon DEF Where, a
<1> QED
  BY <1>9

\* A bit counted from the first one of a bucket is in that word or in the next.
LEMMA BitAt ==
  ASSUME NEW t, NEW w \in Nat, NEW m \in 0 .. 63, NEW x \in 0 .. 63
  PROVE  Bit(t, (64 * w + m) + x)
           <=> IF m + x <= 63 THEN m + x \in t[w] ELSE m + x - 64 \in t[w + 1]
<1> DEFINE b == (64 * w + m) + x
<1> HIDE DEF b
<1>0. b = (64 * w + m) + x
  BY DEF b
<1>1. CASE m + x <= 63
  <2>1. PICK y \in 0 .. 63 : y = m + x
    BY <1>1
  <2>2. PICK c \in Nat : c = b /\ c = 64 * w + y
    BY <1>0, <2>1
  <2>3. c = 64 * w + y
    BY <2>2
  <2>4. c \div 64 = w /\ c % 64 = y
    BY <2>3
  <2>5. Bit(t, c) <=> y \in t[w]
    BY <2>4 DEF Bit, WordOf
  <2>6. c = b
    BY <2>2
  <2>7. Bit(t, b) <=> m + x \in t[w]
    BY <2>1, <2>5, <2>6, Zenon
  <2> QED
    BY <1>1, <2>7 DEF b
<1>2. CASE m + x > 63
  <2>1. PICK v \in Nat, y \in 0 .. 63 : v = w + 1 /\ y = m + x - 64
    BY <1>2
  <2>2. PICK c \in Nat : c = b /\ c = 64 * v + y
    BY <1>0, <2>1
  <2>3. c = 64 * v + y
    BY <2>2
  <2>4. c \div 64 = v /\ c % 64 = y
    BY <2>3
  <2>5. Bit(t, c) <=> y \in t[v]
    BY <2>4 DEF Bit, WordOf
  <2>6. c = b
    BY <2>2
  <2>7. Bit(t, b) <=> m + x - 64 \in t[w + 1]
    BY <2>1, <2>5, <2>6, Zenon
  <2>8. ~ (m + x <= 63)
    BY <1>2
  <2> QED
    BY <2>7, <2>8 DEF b
<1> QED
  BY <1>1, <1>2

\* What is read of a bucket are its bits in the memory.
LEMMA ReadIs ==
  ASSUME NEW len \in 4 .. 16, NEW p \in Bucket, NEW t \in Memory(len)
  PROVE  /\ ReadBits(t, len, p) \subseteq 0 .. bucket_length(len) - 1
         /\ \A x \in 0 .. bucket_length(len) - 1 :
              x \in ReadBits(t, len, p) <=> Bit(t, Start(len, p) + x)
<1>1. PICK L \in 12 .. 60, w \in Nat, m \in 0 .. 63 : Where(len, p, L, w, m)
  BY BucketWhere
<1>2. L = bucket_length(len) /\ w \in Word(len) /\ Start(len, p) = 64 * w + m
  BY <1>1 DEF Where
<1>0. m \in Nat
  OBVIOUS
<1>3. t[w] \subseteq 0 .. 63
  BY <1>2 DEF Memory, Unit
<1>4. \A x \in 0 .. L - 1 :
        Bit(t, Start(len, p) + x)
          <=> IF m + x <= 63 THEN m + x \in t[w] ELSE m + x - 64 \in t[w + 1]
  <2>1. \A x \in 0 .. L - 1 : x \in 0 .. 63
    OBVIOUS
  <2> QED
    BY <1>2, <2>1, BitAt, ZenonT(40)
<1> DEFINE R == ReadBits(t, len, p)
<1>5. CASE m + L <= 64
  <2> DEFINE u == t[w] \cap 0 .. m + L - 1
  <2>1. Within(len, p) /\ End(len, p) % 64 = m + L - 1
        /\ WordOf(Start(len, p)) = w /\ Start(len, p) % 64 = m
    BY <1>1, <1>5 DEF Where
  <2>2. R = ShiftRight(u, m)
    BY <2>1 DEF ReadBits
  <2>3. u \subseteq Nat
    OBVIOUS
  <2> HIDE DEF u
  <2>4. ShiftRight(u, m) \subseteq Nat /\ \A x \in Nat : x \in ShiftRight(u, m) <=> x + m \in u
    BY <1>0, <2>3, ShiftRightIs, Zenon
  <2>5. ASSUME NEW x \in Nat
        PROVE  x \in R <=> x + m \in u
    BY <2>2, <2>4
  <2> HIDE DEF R
  <2>6. ASSUME NEW x \in R
        PROVE  x \in 0 .. L - 1
    <3>1. x \in Nat /\ x + m \in u
      BY <2>2, <2>4, <2>5
    <3> QED
      BY <3>1 DEF u
  <2>7. ASSUME NEW x \in 0 .. L - 1
        PROVE  x \in R <=> Bit(t, Start(len, p) + x)
    <3>1. x \in R <=> x + m \in u
      BY <2>5
    <3>2. x + m \in u <=> m + x \in t[w]
      BY <1>5 DEF u
    <3>3. m + x <= 63
      BY <1>5
    <3> QED
      BY <1>4, <3>1, <3>2, <3>3
  <2> QED
    BY <1>2, <2>6, <2>7 DEF R
<1>6. CASE m + L > 64
  <2> DEFINE u == t[w + 1] \cap 0 .. m + L - 65
             k == 64 - m
  <2>1. ~Within(len, p) /\ End(len, p) % 64 = m + L - 65
        /\ WordOf(Start(len, p)) = w /\ Start(len, p) % 64 = m
    BY <1>1, <1>6 DEF Where
  <2>2. R = ShiftRight(t[w], m) \cup ShiftLeft(u, k)
    BY <2>1 DEF ReadBits
  <2>3. u \subseteq Int /\ t[w] \subseteq Nat /\ k \in Nat
    BY <1>3
  <2> HIDE DEF u, R
  <2>4. /\ ShiftRight(t[w], m) \subseteq Nat
        /\ \A x \in Nat : x \in ShiftRight(t[w], m) <=> x + m \in t[w]
    BY <1>0, <2>3, ShiftRightIs, Zenon
  <2>5. /\ ShiftLeft(u, k) \subseteq Nat
        /\ \A x \in Nat : x \in ShiftLeft(u, k) <=> x \in 0 .. 63 /\ x - k \in u
    <3>1. ShiftLeft(u, k) \subseteq Unit
      BY DEF ShiftLeft
    <3>2. \A x \in Nat : x \in Int
      OBVIOUS
    <3>3. \A x \in Nat : x \in ShiftLeft(u, k) <=> x \in Unit /\ x - k \in u
      BY <2>3, <3>2, ShiftLeftIs
    <3> QED
      BY <3>1, <3>3 DEF Unit
  <2>6. ASSUME NEW x \in Nat
        PROVE  x \in R <=> \/ x + m \in t[w]
                           \/ x \in 0 .. 63 /\ x - k \in u
    BY <2>2, <2>4, <2>5
  <2>7. R \subseteq Nat
    BY <2>2, <2>4, <2>5
  <2>8. ASSUME NEW x \in Nat
        PROVE  /\ x + m \in t[w] => m + x <= 63
               /\ x - k \in u <=> m + x - 64 \in t[w + 1] /\ m + x - 64 \in 0 .. m + L - 65
               /\ x + m = m + x
    BY <1>3 DEF u
  <2>9. ASSUME NEW x \in R
        PROVE  x \in 0 .. L - 1
    <3>1. x \in Nat
      BY <2>7
    <3> QED
      BY <1>6, <2>6, <2>8, <3>1
  <2>10. ASSUME NEW x \in 0 .. L - 1
         PROVE  x \in R <=> Bit(t, Start(len, p) + x)
    <3>1. x \in Nat
      OBVIOUS
    <3>2. x \in R <=> \/ x + m \in t[w]
                      \/ x \in 0 .. 63 /\ x - k \in u
      BY <2>6, <3>1
    <3>3. CASE m + x <= 63
      <4>1. ~ (m + x - 64 \in 0 .. m + L - 65)
        BY <3>3
      <4> QED
        BY <1>4, <2>8, <3>1, <3>2, <3>3, <4>1
    <3>4. CASE ~ (m + x <= 63)
      <4>1. m + x - 64 \in 0 .. m + L - 65 /\ x \in 0 .. 63
        BY <3>4
      <4> QED
        BY <1>4, <2>8, <3>1, <3>2, <3>4, <4>1
    <3> QED
      BY <3>3, <3>4
  <2> QED
    BY <1>2, <2>9, <2>10 DEF R
<1>7. m + L <= 64 \/ m + L > 64
  OBVIOUS
<1> QED
  BY <1>5, <1>6, <1>7, SMTT(60)

\* What a write leaves in the word that has all of the bucket's bits.
OneWritten(t, W, len, L, w, m, all) ==
  /\ W \in Memory(len)
  /\ \A v \in Word(len) : v # w => W[v] = t[v]
  /\ \A z \in 0 .. 63 : z \in W[w]
       <=> \/ z \in t[w] /\ (z < m \/ z >= m + L)
           \/ z - m \in all

LEMMA WrittenOne ==
  ASSUME NEW len, NEW p, NEW t \in Memory(len), NEW ub,
         NEW L \in 12 .. 60, NEW w \in Nat, NEW m \in 0 .. 63, Where(len, p, L, w, m),
         NEW all, all \subseteq 0 .. L - 1, m + L <= 64
  PROVE  OneWritten(t, WriteBits(t, len, p, all, ub), len, L, w, m, all)
<1>1. /\ Within(len, p) /\ End(len, p) % 64 = m + L - 1
      /\ WordOf(Start(len, p)) = w /\ Start(len, p) % 64 = m /\ w \in Word(len)
  BY DEF Where
<1>2. m + L - 1 - m + 1 = L /\ L # 64 /\ m + L - 1 + 1 = m + L /\ m \in Nat
  OBVIOUS
<1> DEFINE kept == t[w] \cap (0 .. m - 1 \cup m + L .. 63)
           one == all \cap 0 .. L - 1
<1>3. WriteBits(t, len, p, all, ub) = [t EXCEPT ![w] = kept \cup ShiftLeft(one, m)]
  <2>1. WriteBits(t, len, p, all, ub)
          = [t EXCEPT ![w] = (t[w] \cap (0 .. m - 1 \cup (m + L - 1) + 1 .. 63))
                               \cup ShiftLeft(all \cap Mask((m + L - 1) - m + 1, ub), m)]
    BY <1>1 DEF WriteBits
  <2>2. Mask((m + L - 1) - m + 1, ub) = 0 .. L - 1
    BY <1>2 DEF Mask
  <2> QED
    BY <1>2, <2>1, <2>2
<1>4. one \subseteq Int
  OBVIOUS
<1>5. kept \subseteq Unit
  BY <1>1 DEF Memory
<1>6. ShiftLeft(one, m) \subseteq Unit
  BY DEF ShiftLeft
<1>7. \A z \in 0 .. 63 : z \in ShiftLeft(one, m) <=> z - m \in all
  <2>1. \A z \in 0 .. 63 : z \in Int /\ z \in Unit
    BY DEF Unit
  <2>2. \A z \in 0 .. 63 : z \in ShiftLeft(one, m) <=> z \in Unit /\ z - m \in one
    <3> HIDE DEF one
    <3> QED
      BY <1>2, <1>4, <2>1, ShiftLeftIs, Zenon
  <2> QED
    BY <2>1, <2>2
<1>8. \A z \in 0 .. 63 : z \in kept <=> z \in t[w] /\ (z < m \/ z >= m + L)
  OBVIOUS
<1> HIDE DEF kept, one
<1> DEFINE W == [t EXCEPT ![w] = kept \cup ShiftLeft(one, m)]
<1>9. W \in Memory(len) /\ W[w] = kept \cup ShiftLeft(one, m)
      /\ \A v \in Word(len) : v # w => W[v] = t[v]
  BY <1>1, <1>5, <1>6 DEF Memory
<1> HIDE DEF W
<1>10. \A z \in 0 .. 63 : z \in W[w]
         <=> \/ z \in t[w] /\ (z < m \/ z >= m + L)
             \/ z - m \in all
  BY <1>7, <1>8, <1>9
<1>11. OneWritten(t, W, len, L, w, m, all)
  BY <1>9, <1>10, Zenon DEF OneWritten
<1> QED
  BY <1>3, <1>11, Zenon DEF W

\* W is t, but with `all' as the L bits from bit m of word w on.
TwoWritten(t, W, len, L, w, m, all) ==
  /\ W \in Memory(len)
  /\ \A v \in Word(len) : v # w /\ v # w + 1 => W[v] = t[v]
  /\ \A z \in 0 .. 63 : z \in W[w] <=> (z \in t[w] /\ z < m) \/ z - m \in all
  /\ \A z \in 0 .. 63 : z \in W[w + 1]
       <=> (z \in t[w + 1] /\ z >= m + L - 64) \/ z + (64 - m) \in all

\* What a write leaves in two words that share the bucket's bits.
LEMMA WrittenTwo ==
  ASSUME NEW len, NEW p, NEW t \in Memory(len), NEW ub,
         NEW L \in 12 .. 60, NEW w \in Nat, NEW m \in 0 .. 63, Where(len, p, L, w, m),
         NEW all, all \subseteq 0 .. L - 1, m + L > 64
  PROVE  TwoWritten(t, WriteBits(t, len, p, all, ub), len, L, w, m, all)
<1>1. /\ ~Within(len, p) /\ End(len, p) % 64 = m + L - 65
      /\ WordOf(Start(len, p)) = w /\ Start(len, p) % 64 = m
      /\ w \in Word(len) /\ w + 1 \in Word(len)
  BY DEF Where
<1>2. 64 - m # 64 /\ m + L - 65 + 1 = m + L - 64 /\ m \in Nat /\ 64 - m \in Nat
  OBVIOUS
<1> DEFINE one == all \cap 0 .. 64 - m - 1
           first == (t[w] \cap 0 .. m - 1) \cup ShiftLeft(one, m)
           second == (t[w + 1] \cap m + L - 64 .. 63) \cup ShiftRight(all, 64 - m)
<1>3. WriteBits(t, len, p, all, ub) = [t EXCEPT ![w] = first, ![w + 1] = second]
  <2>1. Mask(64 - m, ub) = 0 .. 64 - m - 1
    BY <1>2 DEF Mask
  <2>2. WriteBits(t, len, p, all, ub)
          = [t EXCEPT ![w] = (t[w] \cap 0 .. m - 1)
                               \cup ShiftLeft(all \cap Mask(64 - m, ub), m),
                      ![w + 1] = (t[w + 1] \cap (m + L - 65) + 1 .. 63)
                                   \cup ShiftRight(all, 64 - m)]
    <3>1. w # w + 1
      OBVIOUS
    <3> QED
      BY <1>1, <3>1, ZenonT(40) DEF WriteBits
  <2> QED
    BY <1>2, <2>1, <2>2, Zenon
<1>4. one \subseteq Int /\ all \subseteq Nat
  OBVIOUS
<1>5. \A z \in 0 .. 63 : z \in ShiftLeft(one, m) <=> z - m \in all
  <2>1. \A z \in 0 .. 63 : z \in Int /\ z \in Unit
    BY DEF Unit
  <2>2. \A z \in 0 .. 63 : z \in ShiftLeft(one, m) <=> z \in Unit /\ z - m \in one
    <3> HIDE DEF one
    <3> QED
      BY <1>2, <1>4, <2>1, ShiftLeftIs, Zenon
  <2>3. \A z \in 0 .. 63 : z - m \in all => z - m \in 0 .. 64 - m - 1
    OBVIOUS
  <2> QED
    BY <2>1, <2>2, <2>3
<1>6. /\ ShiftRight(all, 64 - m) \subseteq Nat
      /\ \A z \in Nat : z \in ShiftRight(all, 64 - m) <=> z + (64 - m) \in all
  BY <1>2, <1>4, ShiftRightIs, Zenon
<1>7. first \subseteq Unit
  <2>1. ShiftLeft(one, m) \subseteq Unit
    BY DEF ShiftLeft
  <2> HIDE DEF one
  <2> QED
    BY <1>1, <2>1 DEF Memory
<1>8. second \subseteq Unit
  <2>1. ASSUME NEW z \in ShiftRight(all, 64 - m)
        PROVE  z \in Unit
    <3>1. z \in Nat /\ z + (64 - m) \in all
      BY <1>6
    <3> QED
      BY <3>1 DEF Unit
  <2> QED
    BY <1>1, <2>1 DEF Memory
<1>9. \A z \in 0 .. 63 : z \in first <=> (z \in t[w] /\ z < m) \/ z - m \in all
  <2>1. \A z \in 0 .. 63 : z \in t[w] \cap 0 .. m - 1 <=> z \in t[w] /\ z < m
    OBVIOUS
  <2> HIDE DEF one
  <2> QED
    BY <1>5, <2>1
<1>10. \A z \in 0 .. 63 : z \in second
          <=> (z \in t[w + 1] /\ z >= m + L - 64) \/ z + (64 - m) \in all
  <2>1. \A z \in 0 .. 63 : z \in t[w + 1] \cap m + L - 64 .. 63 <=> z \in t[w + 1] /\ z >= m + L - 64
    OBVIOUS
  <2>2. \A z \in 0 .. 63 : z \in Nat
    OBVIOUS
  <2> QED
    BY <1>6, <2>1, <2>2
<1> HIDE DEF first, second
<1> DEFINE W == [t EXCEPT ![w] = first, ![w + 1] = second]
<1>11. W \in Memory(len) /\ W[w] = first /\ W[w + 1] = second
       /\ \A v \in Word(len) : v # w /\ v # w + 1 => W[v] = t[v]
  <2>1. w # w + 1
    OBVIOUS
  <2> QED
    BY <1>1, <1>7, <1>8, <2>1 DEF Memory
<1> HIDE DEF W
<1> QED
  BY <1>3, <1>9, <1>10, <1>11 DEF W, TwoWritten

\* A write leaves in the memory what it writes, and the rest as it was.
LEMMA WriteIs ==
  ASSUME NEW len \in 4 .. 16, NEW p \in Bucket, NEW t \in Memory(len), NEW ub,
         NEW all, all \subseteq 0 .. bucket_length(len) - 1
  PROVE  /\ WriteBits(t, len, p, all, ub) \in Memory(len)
         /\ \A x \in 0 .. bucket_length(len) - 1 :
              Bit(WriteBits(t, len, p, all, ub), Start(len, p) + x) <=> x \in all
         /\ \A b \in Nat :
              /\ WordOf(b) \in Word(len)
              /\ b < Start(len, p) \/ b >= Start(len, p) + bucket_length(len)
              => (Bit(WriteBits(t, len, p, all, ub), b) <=> Bit(t, b))
<1>1. PICK L \in 12 .. 60, w \in Nat, m \in 0 .. 63 : Where(len, p, L, w, m)
  BY BucketWhere
<1>2. L = bucket_length(len) /\ Start(len, p) = 64 * w + m
  BY <1>1 DEF Where
<1>3. all \subseteq 0 .. L - 1
  BY <1>2
<1> DEFINE W == WriteBits(t, len, p, all, ub)
<1>4. \A x \in 0 .. L - 1 :
        Bit(W, Start(len, p) + x)
          <=> IF m + x <= 63 THEN m + x \in W[w] ELSE m + x - 64 \in W[w + 1]
  <2>1. \A x \in 0 .. L - 1 : x \in 0 .. 63
    OBVIOUS
  <2> QED
    BY <1>2, <2>1, BitAt, ZenonT(40)
<1>5. \A b \in Nat : \E v \in Nat, y \in 0 .. 63 :
         v = WordOf(b) /\ b = 64 * v + y /\ (Bit(W, b) <=> y \in W[v]) /\ (Bit(t, b) <=> y \in t[v])
  <2> TAKE b \in Nat
  <2>1. WordOf(b) \in Nat /\ b % 64 \in 0 .. 63 /\ b = 64 * WordOf(b) + (b % 64)
    BY WordsOf, Zenon DEF Unit
  <2> HIDE DEF W
  <2>2. /\ Bit(W, b) <=> b % 64 \in W[WordOf(b)]
        /\ Bit(t, b) <=> b % 64 \in t[WordOf(b)]
    BY Zenon DEF Bit
  <2> QED
    BY <2>1, <2>2, Zenon
<1>6. CASE m + L <= 64
  <2>1. /\ W \in Memory(len)
        /\ \A v \in Word(len) : v # w => W[v] = t[v]
        /\ \A z \in 0 .. 63 : z \in W[w]
             <=> \/ z \in t[w] /\ (z < m \/ z >= m + L)
                 \/ z - m \in all
    <3>1. OneWritten(t, W, len, L, w, m, all)
      BY <1>1, <1>3, <1>6, WrittenOne, Zenon
    <3> HIDE DEF W
    <3> QED
      BY <3>1, Zenon DEF OneWritten
  <2> HIDE DEF W
  <2>2. ASSUME NEW x \in 0 .. L - 1
        PROVE  Bit(W, Start(len, p) + x) <=> x \in all
    <3>1. m + x <= 63 /\ m + x \in 0 .. 63 /\ (m + x) - m = x /\ ~ (m + x < m \/ m + x >= m + L)
      BY <1>6
    <3> QED
      BY <1>4, <2>1, <3>1
  <2>3. ASSUME NEW b \in Nat, WordOf(b) \in Word(len),
               b < Start(len, p) \/ b >= Start(len, p) + L
        PROVE  Bit(W, b) <=> Bit(t, b)
    <3>1. PICK v \in Nat, y \in 0 .. 63 :
            v = WordOf(b) /\ b = 64 * v + y /\ (Bit(W, b) <=> y \in W[v]) /\ (Bit(t, b) <=> y \in t[v])
      BY <1>5
    <3>2. CASE v = w
      <4>1. y < m \/ y >= m + L
        BY <1>2, <2>3, <3>1, <3>2
      <4>2. y - m \notin all
        BY <1>3, <4>1
      <4> QED
        BY <2>1, <3>1, <3>2, <4>1, <4>2
    <3>3. CASE v # w
      BY <2>1, <2>3, <3>1, <3>3
    <3> QED
      BY <3>2, <3>3
  <2> QED
    BY <1>2, <2>1, <2>2, <2>3 DEF W
<1>7. CASE m + L > 64
  <2>1. /\ W \in Memory(len)
        /\ \A v \in Word(len) : v # w /\ v # w + 1 => W[v] = t[v]
        /\ \A z \in 0 .. 63 : z \in W[w] <=> (z \in t[w] /\ z < m) \/ z - m \in all
        /\ \A z \in 0 .. 63 : z \in W[w + 1]
             <=> (z \in t[w + 1] /\ z >= m + L - 64) \/ z + (64 - m) \in all
    <3>1. TwoWritten(t, W, len, L, w, m, all)
      BY <1>1, <1>3, <1>7, WrittenTwo, Zenon
    <3> HIDE DEF W
    <3> QED
      BY <3>1, Zenon DEF TwoWritten
  <2> HIDE DEF W
  <2>2. ASSUME NEW x \in 0 .. L - 1
        PROVE  Bit(W, Start(len, p) + x) <=> x \in all
    <3>1. CASE m + x <= 63
      <4>1. m + x \in 0 .. 63 /\ (m + x) - m = x /\ ~ (m + x < m)
        BY <3>1
      <4> QED
        BY <1>4, <2>1, <3>1, <4>1
    <3>2. CASE ~ (m + x <= 63)
      <4>1. m + x - 64 \in 0 .. 63 /\ (m + x - 64) + (64 - m) = x /\ ~ (m + x - 64 >= m + L - 64)
        BY <3>2
      <4> QED
        BY <1>4, <2>1, <3>2, <4>1
    <3> QED
      BY <3>1, <3>2
  <2>3. ASSUME NEW b \in Nat, WordOf(b) \in Word(len),
               b < Start(len, p) \/ b >= Start(len, p) + L
        PROVE  Bit(W, b) <=> Bit(t, b)
    <3>1. PICK v \in Nat, y \in 0 .. 63 :
            v = WordOf(b) /\ b = 64 * v + y /\ (Bit(W, b) <=> y \in W[v]) /\ (Bit(t, b) <=> y \in t[v])
      BY <1>5
    <3>2. CASE v = w
      <4>1. y < m
        BY <1>2, <1>7, <2>3, <3>1, <3>2
      <4>2. y - m \notin all
        BY <1>3, <4>1
      <4> QED
        BY <2>1, <3>1, <3>2, <4>1, <4>2
    <3>3. CASE v = w + 1
      <4>1. y >= m + L - 64
        BY <1>2, <1>7, <2>3, <3>1, <3>3
      <4>2. y + (64 - m) \notin all
        BY <1>3, <4>1
      <4> QED
        BY <2>1, <3>1, <3>3, <4>1, <4>2
    <3>4. CASE v # w /\ v # w + 1
      BY <2>1, <2>3, <3>1, <3>4
    <3> QED
      BY <3>2, <3>3, <3>4
  <2> QED
    BY <1>2, <2>1, <2>2, <2>3 DEF W
<1> QED
  BY <1>6, <1>7

-----------------------------------------------------------------------------
(***************************************************************************)
(* A bucket's fingerprints and its bits.                                   *)
(***************************************************************************)
Fingerprints(len) == [Slot -> 0 .. Power[len] - 1]

High(s, len) == [i \in Slot |-> (s[i] \div Power[len - 4]) % 16]
Low(s, len, i) == s[i] % Power[len - 4]

\* A fingerprint is its high nibble and its low bits, and the nibbles are in
\* the order of the fingerprints.
LEMMA Halves ==
  ASSUME NEW len \in 4 .. 16, NEW s \in Fingerprints(len), Descending(s)
  PROVE  /\ High(s, len) \in [Slot -> Nibble] /\ Descending(High(s, len))
         /\ \A i \in Slot : /\ Low(s, len, i) \in Nat /\ Low(s, len, i) < Power[len - 4]
                            /\ s[i] = Low(s, len, i) + High(s, len)[i] * Power[len - 4]
<1>1. len - 4 \in 0 .. 14 /\ (len - 4) + 4 = len /\ len - 4 \in 0 .. 18
  OBVIOUS
<1>2. PICK P \in Nat \ {0} : P = Power[len - 4] /\ Power[len] = 16 * P
  <2>1. Power[len - 4] \in Nat \ {0} /\ Power[(len - 4) + 4] = 16 * Power[len - 4]
    BY <1>1, PowerIs, Zenon
  <2> QED
    BY <1>1, <2>1
<1>3. \A i \in Slot : s[i] \in 0 .. 16 * P - 1
  BY <1>2 DEF Fingerprints
<1>4. ASSUME NEW x \in 0 .. 16 * P - 1
      PROVE  /\ x \div P \in 0 .. 15 /\ (x \div P) % 16 = x \div P
             /\ x % P \in Nat /\ x % P < P /\ x = (x % P) + (x \div P) * P
  <2>1. x \in Nat /\ x < 16 * P
    BY <1>2
  <2>2. PICK q \in Nat, r \in Nat : q = x \div P /\ r = x % P
    BY <2>1
  <2>3. x = P * q + r /\ r < P
    BY <2>1, <2>2
  <2>4. q < 16
    <3>1. CASE q >= 16
      <4>1. PICK k \in Nat : q = 16 + k
        <5>1. q - 16 \in Nat /\ q = 16 + (q - 16)
          BY <3>1
        <5> QED
          BY <5>1
      <4>2. P * (16 + k) = 16 * P + P * k /\ P * k \in Nat
        OBVIOUS
      <4> QED
        BY <2>1, <2>3, <4>1, <4>2
    <3> QED
      BY <3>1
  <2>5. q % 16 = q
    BY <2>4
  <2>6. P * q = q * P
    OBVIOUS
  <2>7. x = r + q * P
    BY <2>3, <2>6
  <2> QED
    BY <2>2, <2>3, <2>4, <2>5, <2>7
<1>5. ASSUME NEW x \in 0 .. 16 * P - 1, NEW y \in 0 .. 16 * P - 1, x >= y
      PROVE  x \div P >= y \div P
  <2>1. x \in Nat /\ y \in Nat
    BY <1>2
  <2>2. PICK a \in Nat, b \in Nat : a = x \div P /\ b = y \div P
    BY <2>1
  <2>3. x < P * a + P /\ P * b <= y
    BY <2>1, <2>2
  <2>4. CASE a < b
    <3>1. PICK k \in Nat : b = a + 1 + k
      <4>1. b - a - 1 \in Nat /\ b = a + 1 + (b - a - 1)
        BY <2>4
      <4> QED
        BY <4>1
    <3>2. P * (a + 1 + k) = P * a + P + P * k /\ P * k \in Nat
      OBVIOUS
    <3> QED
      BY <1>5, <2>1, <2>3, <3>1, <3>2
  <2> QED
    BY <2>2, <2>4
<1>6. ASSUME NEW i \in Slot
      PROVE  /\ High(s, len)[i] = s[i] \div P /\ High(s, len)[i] \in Nibble
             /\ Low(s, len, i) = s[i] % P
  BY <1>2, <1>3, <1>4 DEF High, Low, Nibble
<1>7. High(s, len) \in [Slot -> Nibble]
  BY <1>6 DEF High
<1>8. \A i \in 0 .. 2 : i \in Slot /\ i + 1 \in Slot
  BY DEF Slot
<1>9. Descending(High(s, len))
  <2> SUFFICES ASSUME NEW i \in 0 .. 2
               PROVE  High(s, len)[i] >= High(s, len)[i + 1]
    BY DEF Descending
  <2>1. s[i] >= s[i + 1]
    BY DEF Descending
  <2> QED
    BY <1>3, <1>5, <1>6, <1>8, <2>1
<1>10. \A i \in Slot : /\ Low(s, len, i) \in Nat /\ Low(s, len, i) < Power[len - 4]
                       /\ s[i] = Low(s, len, i) + High(s, len)[i] * Power[len - 4]
  <2> TAKE i \in Slot
  <2>1. s[i] % P \in Nat /\ s[i] % P < P /\ s[i] = (s[i] % P) + (s[i] \div P) * P
    BY <1>3, <1>4
  <2> QED
    BY <1>2, <1>6, <2>1, Zenon
<1> QED
  BY <1>7, <1>9, <1>10

\* Where the low bits of the slots are: one after the other, below the code.
LEMMA Places ==
  ASSUME NEW B \in Nat
  PROVE  /\ \A i \in Slot : (3 - i) * B \in Nat /\ (3 - i) * B + B <= 4 * B
         /\ \A i, j \in Slot : i # j => \/ (3 - i) * B + B <= (3 - j) * B
                                        \/ (3 - j) * B + B <= (3 - i) * B
<1>1. /\ (3 - 0) * B = 3 * B /\ (3 - 1) * B = 2 * B /\ (3 - 2) * B = B /\ (3 - 3) * B = 0
  OBVIOUS
<1>2. \A i \in Slot : \/ i = 0 /\ (3 - i) * B = 3 * B
                      \/ i = 1 /\ (3 - i) * B = 2 * B
                      \/ i = 2 /\ (3 - i) * B = B
                      \/ i = 3 /\ (3 - i) * B = 0
  BY <1>1, Slots, Zenon
<1> QED
  BY <1>2

\* The code of the high nibbles, which takes 12 bits.
Code(s, len) == encode_table(High(s, len))

\* Above the bits of the slots is the code.
LEMMA EncodedIs ==
  ASSUME NEW len \in 4 .. 16, NEW s \in Fingerprints(len), Descending(s)
  PROVE  /\ Encoded(s, len) \subseteq 0 .. bucket_length(len) - 1
         /\ ShiftRight(Encoded(s, len), 4 * (len - 4)) = Bits(Code(s, len))
         /\ \A i \in Slot : Field(Encoded(s, len), 3 - i, len) = Bits(Low(s, len, i))
<1>1. PICK B \in 0 .. 12 : B = len - 4 /\ bucket_length(len) = 4 * B + 12
  BY LengthIs
<1>2. len - 5 = B - 1 /\ B \in Nat /\ 4 * B \in Nat /\ B \in 0 .. 18 /\ 12 \in 0 .. 18
  BY <1>1
<1> DEFINE E == Encoded(s, len)
           C == Bits(Code(s, len))
           c(i) == (3 - i) * B
           b(i) == Bits(Low(s, len, i))
<1>3. C \subseteq 0 .. 11
  <2>1. Code(s, len) \in Nat /\ Code(s, len) < Power[12]
    BY Halves, TablesInverse DEF Code
  <2>2. C \subseteq 0 .. 12 - 1
    BY <1>2, <2>1, BitsLow, Zenon
  <2> QED
    BY <2>2
<1>4. \A i \in Slot : b(i) \subseteq 0 .. B - 1
  <2> TAKE i \in Slot
  <2>1. Low(s, len, i) \in Nat /\ Low(s, len, i) < Power[B]
    BY <1>1, Halves
  <2> QED
    BY <1>2, <2>1, BitsLow, Zenon
<1>5. /\ \A i \in Slot : c(i) \in Nat /\ c(i) + B <= 4 * B
      /\ \A i, j \in Slot : i # j => c(i) + B <= c(j) \/ c(j) + B <= c(i)
  BY <1>2, Places
<1>6. E = ShiftLeft(C, 4 * B) \cup UNION {ShiftLeft(b(i), c(i)) : i \in Slot}
  BY <1>1 DEF Encoded, Code, High, Low
<1> HIDE DEF E, C, b, c
<1>7. \A x \in 0 .. 63 :
        /\ x \in ShiftLeft(C, 4 * B) <=> x - 4 * B \in C
        /\ \A i \in Slot : x \in ShiftLeft(b(i), c(i)) <=> x - c(i) \in b(i)
  <2>1. \A x \in 0 .. 63 : x \in Int /\ x \in Unit
    BY DEF Unit
  <2>2. C \subseteq Int /\ \A i \in Slot : b(i) \subseteq Int
    BY <1>3, <1>4
  <2> QED
    BY <1>2, <1>5, <2>1, <2>2, ShiftLeftIs, Zenon
<1>8. E \subseteq Unit
  BY <1>6 DEF ShiftLeft
<1>9. ASSUME NEW x \in 0 .. 63
      PROVE  x \in E <=> x - 4 * B \in C \/ \E i \in Slot : x - c(i) \in b(i)
  BY <1>6, <1>7
<1>10. E \subseteq 0 .. (4 * B + 12) - 1
  <2> SUFFICES ASSUME NEW x \in E
               PROVE  x \in 0 .. (4 * B + 12) - 1
    OBVIOUS
  <2>1. x \in 0 .. 63
    BY <1>8 DEF Unit
  <2>2. CASE x - 4 * B \in C
    <3>1. x - 4 * B \in 0 .. 11
      BY <1>3, <2>2
    <3> QED
      BY <2>1, <3>1
  <2>3. ASSUME NEW i \in Slot, x - c(i) \in b(i)
        PROVE  x \in 0 .. (4 * B + 12) - 1
    <3>1. x - c(i) \in 0 .. B - 1
      BY <1>4, <2>3
    <3>2. c(i) \in Nat /\ c(i) + B <= 4 * B
      BY <1>5
    <3> QED
      BY <2>1, <3>1, <3>2
  <2> QED
    BY <1>9, <2>1, <2>2, <2>3
<1>11. E \subseteq Nat
  BY <1>10
<1>12. ShiftRight(E, 4 * B) = C
  <2>1. /\ ShiftRight(E, 4 * B) \subseteq Nat
        /\ \A y \in Nat : y \in ShiftRight(E, 4 * B) <=> y + 4 * B \in E
    BY <1>2, <1>11, ShiftRightIs, Zenon
  <2>2. ASSUME NEW y \in Nat
        PROVE  y + 4 * B \in E <=> y \in C
    <3>1. CASE y > 11
      <4>1. y + 4 * B \notin E
        BY <1>10, <3>1
      <4>2. y \notin C
        BY <1>3, <3>1
      <4> QED
        BY <4>1, <4>2
    <3>2. CASE y <= 11
      <4>1. y + 4 * B \in 0 .. 63 /\ (y + 4 * B) - 4 * B = y
        BY <3>2
      <4>2. ASSUME NEW i \in Slot, (y + 4 * B) - c(i) \in b(i)
            PROVE  FALSE
        <5>1. (y + 4 * B) - c(i) \in 0 .. B - 1
          BY <1>4, <4>2
        <5>2. c(i) \in Nat /\ c(i) + B <= 4 * B
          BY <1>5
        <5> QED
          BY <5>1, <5>2
      <4> QED
        BY <1>9, <4>1, <4>2
    <3> QED
      BY <3>1, <3>2
  <2>3. C \subseteq Nat
    BY <1>3
  <2> QED
    BY <2>1, <2>2, <2>3
<1>13. ASSUME NEW i \in Slot
       PROVE  Field(E, 3 - i, len) = b(i)
  <2>1. Field(E, 3 - i, len) = ShiftRight(E, c(i)) \cap 0 .. B - 1
    BY <1>1, <1>2 DEF Field, c
  <2>2. c(i) \in Nat /\ c(i) + B <= 4 * B
    BY <1>5
  <2>3. \A y \in Nat : y \in ShiftRight(E, c(i)) <=> y + c(i) \in E
    BY <1>11, <2>2, ShiftRightIs, Zenon
  <2>4. ASSUME NEW y \in 0 .. B - 1
        PROVE  y + c(i) \in E <=> y \in b(i)
    <3>1. y + c(i) \in 0 .. 63 /\ (y + c(i)) - c(i) = y
      BY <2>2
    <3>2. (y + c(i)) - 4 * B \notin C
      BY <1>3, <2>2
    <3>3. ASSUME NEW j \in Slot, (y + c(i)) - c(j) \in b(j), j # i
          PROVE  FALSE
      <4>1. (y + c(i)) - c(j) \in 0 .. B - 1
        BY <1>4, <3>3
      <4>2. c(j) \in Nat /\ (c(i) + B <= c(j) \/ c(j) + B <= c(i))
        BY <1>5, <3>3
      <4> QED
        BY <2>2, <4>1, <4>2
    <3>4. y + c(i) \in E <=> \E j \in Slot : (y + c(i)) - c(j) \in b(j)
      BY <1>9, <3>1, <3>2
    <3> QED
      BY <3>1, <3>3, <3>4
  <2>5. \A y \in 0 .. B - 1 : y \in Nat
    OBVIOUS
  <2>6. b(i) \subseteq 0 .. B - 1
    BY <1>4
  <2> QED
    BY <2>1, <2>3, <2>4, <2>5, <2>6
<1> QED
  BY <1>1, <1>10, <1>12, <1>13 DEF E, C, b

\* A bucket with these bits is read as the fingerprints that they are for.
LEMMA GetEncoded ==
  ASSUME NEW len \in 4 .. 16, NEW s \in Fingerprints(len), Descending(s),
         NEW t, NEW p, ReadBits(t, len, p) = Encoded(s, len)
  PROVE  get_bucket(t, len, p) = s
<1>1. Num(Bits(Code(s, len))) = Code(s, len) /\ decode_table(Code(s, len)) = High(s, len)
  <2>1. /\ Code(s, len) \in Nat /\ Code(s, len) < Power[12]
        /\ decode_table(Code(s, len)) = High(s, len)
    BY Halves, TablesInverse DEF Code
  <2>2. Code(s, len) < Power[18]
    BY <2>1, Powers
  <2> QED
    BY <2>1, <2>2, NumIs
<1>2. \A i \in Slot : Num(Bits(Low(s, len, i))) = Low(s, len, i)
  <2> TAKE i \in Slot
  <2>1. len - 4 \in 0 .. 18 /\ 18 \in 0 .. 18 /\ len - 4 <= 18
    OBVIOUS
  <2>2. Power[len - 4] <= Power[18] /\ Power[len - 4] \in Nat /\ Power[18] \in Nat
    BY <2>1, PowerIs
  <2>3. Low(s, len, i) \in Nat /\ Low(s, len, i) < Power[len - 4]
    BY Halves
  <2>4. Low(s, len, i) < Power[18]
    BY <2>2, <2>3
  <2> QED
    BY <2>3, <2>4, NumIs
<1>3. ShiftRight(ReadBits(t, len, p), 4 * (len - 4)) = Bits(Code(s, len))
  BY EncodedIs
<1>4. \A i \in Slot : Field(ReadBits(t, len, p), 3 - i, len) = Bits(Low(s, len, i))
  BY EncodedIs
<1>5. get_bucket(t, len, p)
        = [i \in Slot |-> Num(Field(ReadBits(t, len, p), 3 - i, len))
                            + High(s, len)[i] * Power[len - 4]]
  BY <1>1, <1>3 DEF get_bucket
<1>6. \A i \in Slot : Num(Field(ReadBits(t, len, p), 3 - i, len))
                        + High(s, len)[i] * Power[len - 4] = s[i]
  <2> TAKE i \in Slot
  <2>1. s[i] = Low(s, len, i) + High(s, len)[i] * Power[len - 4]
    BY Halves
  <2>2. Num(Field(ReadBits(t, len, p), 3 - i, len)) = Low(s, len, i)
    BY <1>2, <1>4
  <2> QED
    BY <2>1, <2>2
<1>7. s = [i \in Slot |-> s[i]]
  BY DEF Fingerprints
<1> HIDE DEF High
<1> QED
  BY <1>5, <1>6, <1>7

\* A bucket reads as it was written, sorted, and the others as before.
LEMMA SetBucketIs ==
  ASSUME NEW len \in 4 .. 16, NEW p \in Bucket, NEW t \in Memory(len), NEW ub,
         NEW s \in Fingerprints(len)
  PROVE  /\ get_bucket(set_bucket(t, len, p, s, ub), len, p) = Sort(s)
         /\ \A q \in Bucket : q # p =>
              get_bucket(set_bucket(t, len, p, s, ub), len, q) = get_bucket(t, len, q)
<1> DEFINE r == Sort(s)
           E == Encoded(r, len)
           W == WriteBits(t, len, p, E, ub)
           L == bucket_length(len)
<1>0. set_bucket(t, len, p, s, ub) = W
  BY DEF set_bucket
<1>1. r \in Fingerprints(len) /\ Descending(r)
  <2>1. len \in 0 .. 18
    OBVIOUS
  <2>3. Power[len] \in Nat
    BY <2>1, PowerPositive
  <2>2. 0 .. Power[len] - 1 \subseteq Nat
    OBVIOUS
  <2> QED
    BY <2>2, <2>3, SortIs DEF Fingerprints
<1>2. E \subseteq 0 .. L - 1
  <2> HIDE DEF r
  <2> QED
    BY <1>1, EncodedIs
<1> HIDE DEF E, r
<1>3. /\ W \in Memory(len)
      /\ \A x \in 0 .. L - 1 : Bit(W, Start(len, p) + x) <=> x \in E
      /\ \A b \in Nat :
           WordOf(b) \in Word(len) /\ (b < Start(len, p) \/ b >= Start(len, p) + L)
             => (Bit(W, b) <=> Bit(t, b))
  BY <1>2, WriteIs
<1> HIDE DEF W
<1>4. L \in 12 .. 60
  BY LengthIs
<1>5. ASSUME NEW q \in Bucket
      PROVE  /\ ReadBits(W, len, q) \subseteq 0 .. L - 1
             /\ \A x \in 0 .. L - 1 : x \in ReadBits(W, len, q) <=> Bit(W, Start(len, q) + x)
             /\ ReadBits(t, len, q) \subseteq 0 .. L - 1
             /\ \A x \in 0 .. L - 1 : x \in ReadBits(t, len, q) <=> Bit(t, Start(len, q) + x)
  BY <1>3, ReadIs
<1> HIDE DEF L
<1>6. ReadBits(W, len, p) = E
  BY <1>2, <1>3, <1>4, <1>5
<1>7. get_bucket(W, len, p) = r
  BY <1>1, <1>6, GetEncoded DEF E
<1>8. ASSUME NEW q \in Bucket, q # p
      PROVE  get_bucket(W, len, q) = get_bucket(t, len, q)
  <2>1. ASSUME NEW x \in 0 .. L - 1
        PROVE  Bit(W, Start(len, q) + x) <=> Bit(t, Start(len, q) + x)
    <3>0. PICK K \in 12 .. 60, w \in Nat, m \in 0 .. 63 : Where(len, q, K, w, m)
      BY BucketWhere
    <3>1. K = L
      BY <3>0 DEF Where, L
    <3>2. /\ w \in Word(len) /\ Start(len, q) = 64 * w + m
          /\ m + L > 64 => w + 1 \in Word(len)
      BY <3>0, <3>1 DEF Where
    <3>3. WordOf(Start(len, q) + x) \in Word(len)
      <4>1. CASE m + x <= 63
        <5>1. Start(len, q) + x = 64 * w + (m + x) /\ m + x \in 0 .. 63 /\ Start(len, q) + x \in Nat
          BY <1>4, <3>2, <4>1
        <5>2. WordOf(Start(len, q) + x) = w
          BY <5>1, WordIs DEF WordOf
        <5> QED
          BY <3>2, <5>2
      <4>2. CASE m + x > 63
        <5>1. /\ Start(len, q) + x = 64 * (w + 1) + (m + x - 64)
              /\ m + x - 64 \in 0 .. 63 /\ Start(len, q) + x \in Nat /\ w + 1 \in Nat
              /\ m + L > 64
          BY <1>4, <3>2, <4>2
        <5>2. WordOf(Start(len, q) + x) = w + 1
          BY <5>1, WordIs DEF WordOf
        <5> QED
          BY <3>2, <5>1, <5>2
      <4> QED
        BY <1>4, <4>1, <4>2
    <3>4. Start(len, p) \in Nat /\ Start(len, q) \in Nat
      BY BucketPlaced DEF Placed
    <3>5. Start(len, p) + L <= Start(len, q) \/ Start(len, q) + L <= Start(len, p)
      BY <1>8, BucketsApart DEF L
    <3>6. /\ Start(len, q) + x \in Nat
          /\ Start(len, q) + x < Start(len, p) \/ Start(len, q) + x >= Start(len, p) + L
      BY <1>4, <3>4, <3>5
    <3> QED
      BY <1>3, <3>3, <3>6, Zenon
  <2>2. ReadBits(W, len, q) = ReadBits(t, len, q)
    <3>1. /\ ReadBits(W, len, q) \subseteq 0 .. L - 1
          /\ ReadBits(t, len, q) \subseteq 0 .. L - 1
      BY <1>5, Zenon
    <3>2. \A x \in 0 .. L - 1 : x \in ReadBits(W, len, q) <=> x \in ReadBits(t, len, q)
      BY <1>5, <2>1, Zenon
    <3> QED
      BY <3>1, <3>2, Zenon
  <2> QED
    BY <2>2 DEF get_bucket
<1> QED
  BY <1>0, <1>7, <1>8 DEF r

\* A cleared memory reads as empty buckets.
LEMMA ZeroIs ==
  ASSUME NEW len \in 4 .. 16, NEW p \in Bucket
  PROVE  get_bucket(Zero(len), len, p) = [i \in Slot |-> 0]
<1> DEFINE s == [i \in Slot |-> 0]
<1>1. s \in Fingerprints(len) /\ Descending(s)
  <2>0. len \in 0 .. 18
    OBVIOUS
  <2>1. Power[len] \in Nat \ {0}
    BY <2>0, PowerPositive
  <2>2. \A i \in 0 .. 2 : i \in Slot /\ i + 1 \in Slot
    BY DEF Slot
  <2> QED
    BY <2>1, <2>2 DEF Fingerprints, Descending
<1>2. PICK P \in Nat \ {0} : P = Power[len - 4]
  <2>1. len - 4 \in 0 .. 18
    OBVIOUS
  <2> QED
    BY <2>1, PowerIs
<1>3. \A i \in Slot : High(s, len)[i] = 0 /\ Low(s, len, i) = 0
  BY <1>2 DEF High, Low
<1>4. Bits(0) = {}
  <2>1. ASSUME NEW i \in 0 .. 17
        PROVE  Power[i] \in Nat \ {0}
    <3>1. i \in 0 .. 18
      OBVIOUS
    <3> QED
      BY <3>1, PowerPositive, Zenon
  <2>2. \A x \in Nat \ {0} : 0 \div x = 0
    OBVIOUS
  <2> QED
    BY <2>1, <2>2 DEF Bits
<1>5. Code(s, len) = 0
  BY <1>3, Slots DEF Code, encode_table, Passes
<1>6. Encoded(s, len) = {}
  <2>2. Encoded(s, len) = ShiftLeft(Bits(Code(s, len)), 4 * (len - 4))
          \cup UNION {ShiftLeft(Bits(Low(s, len, i)), (3 - i) * (len - 4)) : i \in Slot}
    BY DEF Encoded, Code, High, Low
  <2> HIDE DEF s
  <2>3. \A k : ShiftLeft({}, k) = {}
    BY DEF ShiftLeft
  <2>4. \A i \in Slot : ShiftLeft(Bits(Low(s, len, i)), (3 - i) * (len - 4)) = {}
    BY <1>3, <1>4, <2>3, Zenon
  <2>5. UNION {ShiftLeft(Bits(Low(s, len, i)), (3 - i) * (len - 4)) : i \in Slot} = {}
    BY <2>4
  <2>6. Bits(Code(s, len)) = {}
    BY <1>4, <1>5
  <2>7. ShiftLeft(Bits(Code(s, len)), 4 * (len - 4)) = {}
    BY <2>3, <2>6
  <2> QED
    BY <2>2, <2>5, <2>7
<1>7. ReadBits(Zero(len), len, p) = {}
  <2>1. PICK L \in 12 .. 60, w \in Nat, m \in 0 .. 63 : Where(len, p, L, w, m)
    BY BucketWhere
  <2>2. /\ WordOf(Start(len, p)) = w /\ w \in Word(len)
        /\ Within(len, p) \/ w + 1 \in Word(len)
    BY <2>1 DEF Where
  <2>3. Zero(len)[w] = {} /\ (Within(len, p) \/ Zero(len)[w + 1] = {})
    BY <2>2 DEF Zero
  <2>4. \A k, S : ShiftLeft({} \cap S, k) = {} /\ ShiftRight({} \cap S, k) = {}
                 /\ ShiftRight({}, k) = {}
    BY DEF ShiftLeft, ShiftRight
  <2>5. CASE Within(len, p)
    BY <2>2, <2>3, <2>4, <2>5 DEF ReadBits
  <2>6. CASE ~Within(len, p)
    BY <2>2, <2>3, <2>4, <2>6 DEF ReadBits
  <2> QED
    BY <2>5, <2>6
<1> QED
  BY <1>1, <1>6, <1>7, GetEncoded

-----------------------------------------------------------------------------
(***************************************************************************)
(* The bag of a bucket's fingerprints.                                     *)
(***************************************************************************)
\* A set of slots has as many elements as it has slots.
LEMMA SlotCount ==
  ASSUME NEW U, U \subseteq Slot
  PROVE  Cardinality(U) = One(0 \in U) + One(1 \in U) + One(2 \in U) + One(3 \in U)
<1> DEFINE A == U \cap {0}
           B == U \cap {0, 1}
           C == U \cap {0, 1, 2}
<1>0. \A S, x : IsFiniteSet(S) =>
        /\ IsFiniteSet(S \cup {x})
        /\ Cardinality(S \cup {x}) = IF x \in S THEN Cardinality(S) ELSE Cardinality(S) + 1
  BY FS_AddElement
<1>1. IsFiniteSet({}) /\ Cardinality({}) = 0
  BY FS_EmptySet
<1>2. A = (IF 0 \in U THEN {} \cup {0} ELSE {}) /\ B = (IF 1 \in U THEN A \cup {1} ELSE A)
      /\ C = (IF 2 \in U THEN B \cup {2} ELSE B) /\ U = (IF 3 \in U THEN C \cup {3} ELSE C)
  BY Slots
<1>3. 0 \notin {} /\ 1 \notin A /\ 2 \notin B /\ 3 \notin C
  OBVIOUS
<1> HIDE DEF A, B, C
<1>4. IsFiniteSet(A) /\ Cardinality(A) = One(0 \in U)
  BY <1>0, <1>1, <1>2, <1>3 DEF One
<1>5. IsFiniteSet(B) /\ Cardinality(B) = Cardinality(A) + One(1 \in U)
  <2>1. Cardinality(A) + 0 = Cardinality(A)
    BY <1>4 DEF One
  <2> QED
    BY <1>0, <1>2, <1>3, <1>4, <2>1 DEF One
<1>6. IsFiniteSet(C) /\ Cardinality(C) = Cardinality(B) + One(2 \in U)
  <2>1. Cardinality(B) + 0 = Cardinality(B)
    BY <1>4, <1>5 DEF One
  <2> QED
    BY <1>0, <1>2, <1>3, <1>5, <2>1 DEF One
<1>7. Cardinality(U) = Cardinality(C) + One(3 \in U)
  <2>1. Cardinality(C) + 0 = Cardinality(C)
    BY <1>4, <1>5, <1>6 DEF One
  <2>2. CASE 3 \in U
    <3>1. U = C \cup {3}
      BY <1>2, <2>2
    <3>2. Cardinality(C \cup {3}) = Cardinality(C) + 1
      BY <1>0, <1>3, <1>6
    <3> QED
      BY <2>2, <3>1, <3>2 DEF One
  <2>3. CASE 3 \notin U
    <3>1. U = C
      BY <1>2, <2>3
    <3> QED
      BY <2>1, <2>3, <3>1 DEF One
  <2> QED
    BY <2>2, <2>3
<1> QED
  BY <1>4, <1>5, <1>6, <1>7

\* The copies of a fingerprint are the slots with it.
LEMMA CopiesAre ==
  ASSUME NEW s, NEW f
  PROVE  /\ Cardinality({i \in Slot : s[i] = f}) = Copies(s, f)
         /\ Copies(s, f) \in Nat
         /\ Copies(s, f) > 0 <=> \E i \in Slot : s[i] = f
<1>1. Cardinality({i \in Slot : s[i] = f}) = Copies(s, f)
  <2> DEFINE U == {i \in Slot : s[i] = f}
  <2>1. U \subseteq Slot
    OBVIOUS
  <2>2. /\ 0 \in U <=> s[0] = f
        /\ 1 \in U <=> s[1] = f
        /\ 2 \in U <=> s[2] = f
        /\ 3 \in U <=> s[3] = f
    BY Slots
  <2> HIDE DEF U
  <2>3. Cardinality(U) = One(0 \in U) + One(1 \in U) + One(2 \in U) + One(3 \in U)
    BY <2>1, SlotCount
  <2>4. /\ One(0 \in U) = One(s[0] = f)
        /\ One(1 \in U) = One(s[1] = f)
        /\ One(2 \in U) = One(s[2] = f)
        /\ One(3 \in U) = One(s[3] = f)
    BY <2>2 DEF One
  <2> QED
    BY <2>3, <2>4 DEF U, Copies
<1>2. Copies(s, f) \in Nat /\ (Copies(s, f) > 0 <=> s[0] = f \/ s[1] = f \/ s[2] = f \/ s[3] = f)
  BY DEF Copies, One
<1>3. (\E i \in Slot : s[i] = f) <=> s[0] = f \/ s[1] = f \/ s[2] = f \/ s[3] = f
  BY Slots
<1> QED
  BY <1>1, <1>2, <1>3

\* r has one f more and one e less than s.
Exchanged(s, r, e, f) == \A g : Copies(r, g) + One(e = g) = Copies(s, g) + One(f = g)

\* Slot i is overwritten.
LEMMA SlotSet ==
  ASSUME NEW S, NEW s \in [Slot -> S], NEW i \in Slot, NEW f
  PROVE  Exchanged(s, [s EXCEPT ![i] = f], s[i], f)
<1> SUFFICES ASSUME NEW g
             PROVE  Copies([s EXCEPT ![i] = f], g) + One(s[i] = g) = Copies(s, g) + One(f = g)
  BY DEF Exchanged
<1> DEFINE r == [s EXCEPT ![i] = f]
           x(j) == One(s[j] = g)
           y(j) == One(r[j] = g)
<1>1. \A j \in Slot : j # i => y(j) = x(j)
  OBVIOUS
<1>2. y(i) = One(f = g)
  OBVIOUS
<1>3. \A j \in Slot : x(j) \in {0, 1} /\ y(j) \in {0, 1}
  BY DEF One
<1>4. Copies(r, g) = y(0) + y(1) + y(2) + y(3) /\ Copies(s, g) = x(0) + x(1) + x(2) + x(3)
  BY DEF Copies
<1>5. One(s[i] = g) = x(i)
  OBVIOUS
<1> HIDE DEF x, y
<1>6. \/ i = 0 \/ i = 1 \/ i = 2 \/ i = 3
  BY Slots
<1> QED
  BY <1>1, <1>2, <1>3, <1>4, <1>5, <1>6, Slots

\* Bags, and how often something is in one.
IsBag(B) == B = [x \in DOMAIN B |-> B[x]] /\ \A x \in DOMAIN B : B[x] \in Nat \ {0}
Count(B, x) == IF x \in DOMAIN B THEN B[x] ELSE 0

\* Bags with the same counts are the same.
LEMMA BagsEqual ==
  ASSUME NEW B, NEW C, IsBag(B), IsBag(C), \A x : Count(B, x) = Count(C, x)
  PROVE  B = C
<1>1. \A x : x \in DOMAIN B <=> x \in DOMAIN C
  BY DEF IsBag, Count
<1>2. DOMAIN B = DOMAIN C
  BY <1>1
<1>3. \A x \in DOMAIN B : B[x] = C[x]
  BY <1>2 DEF Count
<1> QED
  BY <1>2, <1>3 DEF IsBag

\* Adding to a bag adds one to one count.
LEMMA BagAddIs ==
  ASSUME NEW B, IsBag(B), NEW e
  PROVE  IsBag(BagAdd(B, e)) /\ \A x : Count(BagAdd(B, e), x) = Count(B, x) + One(x = e)
<1>1. CASE e \in DOMAIN B
  <2>1. BagAdd(B, e) = [x \in DOMAIN B |-> IF x = e THEN B[x] + 1 ELSE B[x]]
    BY <1>1 DEF BagAdd
  <2>2. \A x \in DOMAIN B : B[x] + 0 = B[x] /\ B[x] + 1 \in Nat \ {0}
    BY DEF IsBag
  <2> QED
    BY <1>1, <2>1, <2>2 DEF IsBag, Count, One
<1>2. CASE e \notin DOMAIN B
  <2>1. BagAdd(B, e) = [x \in DOMAIN B \cup {e} |-> IF x = e THEN 1 ELSE B[x]]
    BY <1>2 DEF BagAdd
  <2>2. \A x \in DOMAIN B : B[x] + 0 = B[x]
    BY DEF IsBag
  <2> QED
    BY <1>2, <2>1, <2>2 DEF IsBag, Count, One
<1> QED
  BY <1>1, <1>2

\* Removing from a bag what it has takes one from one count.
LEMMA BagRemoveIs ==
  ASSUME NEW B, IsBag(B), NEW e, Count(B, e) > 0
  PROVE  IsBag(BagRemove(B, e)) /\ \A x : Count(BagRemove(B, e), x) + One(x = e) = Count(B, x)
<1>1. e \in DOMAIN B /\ \A x \in DOMAIN B : B[x] \in Nat \ {0} /\ B[x] + 0 = B[x]
  BY DEF Count, IsBag
<1>2. CASE B[e] = 1
  <2>1. BagRemove(B, e) = [x \in DOMAIN B \ {e} |-> B[x]]
    BY <1>1, <1>2 DEF BagRemove
  <2> QED
    BY <1>1, <1>2, <2>1 DEF IsBag, Count, One
<1>3. CASE B[e] # 1
  <2>1. BagRemove(B, e) = [x \in DOMAIN B |-> IF x = e THEN B[x] - 1 ELSE B[x]]
    BY <1>1, <1>3 DEF BagRemove
  <2>2. B[e] - 1 \in Nat \ {0} /\ (B[e] - 1) + 1 = B[e]
    BY <1>1, <1>3
  <2> QED
    BY <1>1, <1>3, <2>1, <2>2 DEF IsBag, Count, One
<1> QED
  BY <1>2, <1>3

\* A bucket holds every fingerprint as often as its slots do.
LEMMA HeldIs ==
  ASSUME NEW s
  PROVE  /\ IsBag(Held(s))
         /\ \A x : Count(Held(s), x) = IF x = 0 THEN 0 ELSE Copies(s, x)
<1>1. Held(s) = [f \in {s[i] : i \in Slot} \ {0} |-> Copies(s, f)]
  BY CopiesAre DEF Held
<1>2. \A x : x \in {s[i] : i \in Slot} \ {0} <=> x # 0 /\ Copies(s, x) > 0
  BY CopiesAre
<1>3. \A x : Copies(s, x) \in Nat
  BY CopiesAre
<1> QED
  BY <1>1, <1>2, <1>3 DEF IsBag, Count

\* The bag goes from that of one bucket to that of the next.
LEMMA HeldAfter ==
  ASSUME NEW s, NEW B, IsBag(B),
         \A x : x # 0 => Count(B, x) = Copies(s, x), Count(B, 0) = 0
  PROVE  Held(s) = B
BY HeldIs, BagsEqual

\* A bucket with a load below four has an empty slot, one with four has none.
LEMMA LoadIs ==
  ASSUME NEW s
  PROVE  /\ Load(s) < 4 => \E i \in Slot : s[i] = 0
         /\ Load(s) = 4 => \A i \in Slot : s[i] # 0
<1> DEFINE U == {i \in Slot : s[i] # 0}
<1>1. U \subseteq Slot /\ \A i \in Slot : i \in U <=> s[i] # 0
  OBVIOUS
<1>2. Load(s) = Cardinality(U)
  BY DEF Load
<1> HIDE DEF U
<1>3. Load(s) = One(0 \in U) + One(1 \in U) + One(2 \in U) + One(3 \in U)
  BY <1>1, <1>2, SlotCount
<1>4. /\ Load(s) < 4 => 0 \notin U \/ 1 \notin U \/ 2 \notin U \/ 3 \notin U
      /\ Load(s) = 4 => 0 \in U /\ 1 \in U /\ 2 \in U /\ 3 \in U
  BY <1>3 DEF One
<1> QED
  BY <1>1, <1>4, Slots

\* Of fingerprints in order the last is the smallest.
LEMMA LastIsEmpty ==
  ASSUME NEW S, S \subseteq Nat, NEW s \in [Slot -> S], Descending(s), Load(s) < 4
  PROVE  s[3] = 0
<1>1. PICK i \in Slot : s[i] = 0
  BY LoadIs
<1>2. s[0] >= s[1] /\ s[1] >= s[2] /\ s[2] >= s[3]
  <2>1. /\ 0 \in 0 .. 2 /\ 1 \in 0 .. 2 /\ 2 \in 0 .. 2
        /\ 0 + 1 = 1 /\ 1 + 1 = 2 /\ 2 + 1 = 3
    OBVIOUS
  <2> QED
    BY <2>1 DEF Descending
<1>3. s[0] \in Nat /\ s[1] \in Nat /\ s[2] \in Nat /\ s[3] \in Nat
  BY Slots
<1> QED
  BY <1>1, <1>2, <1>3, Slots

-----------------------------------------------------------------------------
(***************************************************************************)
(* The memory is always memory, at every length.                           *)
(***************************************************************************)
\* No write sets anything but the 64 bits of a word.
LEMMA WriteTyped ==
  ASSUME NEW len \in 4 .. 17, NEW p \in Bucket, NEW t \in Memory(len), NEW s,
         NEW ub \in Undefined
  PROVE  set_bucket(t, len, p, s, ub) \in Memory(len)
<1> DEFINE E == Encoded(Sort(s), len)
           w == WordOf(Start(len, p))
           lower == Start(len, p) % 64
           upper == End(len, p) % 64
<1>1. E \subseteq Unit
  BY DEF Encoded, ShiftLeft
<1> HIDE DEF E
<1>2. lower \in 0 .. 63
  <2>1. p \in Nat /\ bucket_length(len) \in Nat
    BY SemiSortAssumption DEF Bucket, bucket_length
  <2>2. Start(len, p) \in Nat
    BY <2>1 DEF Start
  <2> QED
    BY <2>2
<1> HIDE DEF lower
<1>3. ShiftRight(E, 64 - lower) \subseteq Unit
  BY <1>1, <1>2 DEF ShiftRight, Unit
<1>4. \A x, k : ShiftLeft(x, k) \subseteq Unit
  BY DEF ShiftLeft
<1> HIDE DEF w, upper
<1>5. ASSUME w \in Word(len)
      PROVE  t[w] \subseteq Unit
  BY <1>5 DEF Memory
<1>6. CASE Within(len, p)
  <2>1. PICK x : set_bucket(t, len, p, s, ub)
                   = [t EXCEPT ![w] = (t[w] \cap (0 .. lower - 1 \cup upper + 1 .. 63))
                                        \cup ShiftLeft(x, lower)]
    BY <1>6 DEF set_bucket, WriteBits, w, lower, upper
  <2> QED
    BY <1>4, <1>5, <2>1 DEF Memory
<1>7. CASE ~Within(len, p)
  <2>1. PICK x : set_bucket(t, len, p, s, ub)
                   = [t EXCEPT ![w] = (t[w] \cap 0 .. lower - 1) \cup ShiftLeft(x, lower),
                               ![w + 1] = (t[w + 1] \cap upper + 1 .. 63)
                                            \cup ShiftRight(E, 64 - lower)]
    <3>1. w # w + 1
      <4>1. p \in Nat /\ bucket_length(len) \in Nat
        BY SemiSortAssumption DEF Bucket, bucket_length
      <4>2. w \in Nat
        BY <4>1 DEF Start, WordOf, w
      <4> QED
        BY <4>2
    <3> QED
      BY <1>7, <3>1 DEF set_bucket, WriteBits, w, lower, upper, E
  <2>2. \A v \in Word(len) : t[v] \subseteq Unit
    BY DEF Memory
  <2> QED
    BY <1>3, <1>4, <2>1, <2>2, ZenonT(40) DEF Memory
<1> QED
  BY <1>6, <1>7

\* Setting a slot keeps the types.
LEMMA StepTyped ==
  ASSUME TypeOK, NEW pos \in Bucket, NEW i, NEW f, SetSlot(pos, i, f)
  PROVE  TypeOK'
<1>1. fp_len \in 4 .. 17 /\ T \in Memory(fp_len)
  BY SemiSortAssumption DEF TypeOK, Memory
<1>2. T' \in Memory(fp_len) /\ fp_len' = fp_len
  BY <1>1, WriteTyped DEF SetSlot
<1> QED
  BY <1>2 DEF TypeOK, Memory

\* A cleared memory is memory.
LEMMA ZeroTyped ==
  ASSUME NEW len
  PROVE  Zero(len) \in [Word(len) -> SUBSET Unit]
BY DEF Zero

\* What the instance stores, and where, is what the code can store.
LEMMA UsedAre ==
  ASSUME NEW len \in FpLen
  PROVE  Used(len) \subseteq Bucket /\ Sample(len) \subseteq 1 .. Power[len] - 1
BY SemiSortAssumption DEF Bucket

\* The memory has words for every bucket at every length, and only their 64
\* bits are ever set.
THEOREM TypeCorrect == Spec => []TypeOK
<1>1. Init => TypeOK
  BY ZeroTyped DEF Init, TypeOK
<1>2. TypeOK /\ [Next]_vars => TypeOK'
  <2> SUFFICES ASSUME TypeOK, [Next]_vars
               PROVE  TypeOK'
    OBVIOUS
  <2>1. fp_len \in FpLen
    BY DEF TypeOK
  <2>2. ASSUME NEW pos \in Used(fp_len), NEW f, Insert(pos, f)
        PROVE  TypeOK'
    BY <2>1, <2>2, UsedAre, StepTyped DEF Insert
  <2>3. ASSUME NEW pos \in Used(fp_len), NEW f, NEW rk, Evict(pos, rk, f)
        PROVE  TypeOK'
    BY <2>1, <2>3, UsedAre, StepTyped DEF Evict
  <2>4. ASSUME NEW pos \in Used(fp_len), NEW f, del_in_bucket(pos, f)
        PROVE  TypeOK'
    BY <2>1, <2>4, UsedAre, StepTyped DEF del_in_bucket
  <2>5. CASE clear
    BY <2>1, <2>5, ZeroTyped DEF clear, TypeOK
  <2>6. CASE Reinit
    BY <2>6, ZeroTyped DEF Reinit, TypeOK
  <2>7. CASE UNCHANGED vars
    BY <2>7 DEF vars, TypeOK
  <2> QED
    BY <2>2, <2>3, <2>4, <2>5, <2>6, <2>7 DEF Next
<1> QED
  BY <1>1, <1>2, PTL DEF Spec

-----------------------------------------------------------------------------
(***************************************************************************)
(* What the buckets hold.  The inductive invariant says of every bucket    *)
(* that fingerprints are read from it, in order, and that they are the     *)
(* ones put there.                                                         *)
(***************************************************************************)
InOrder(s) == s \in Fingerprints(fp_len) /\ Descending(s)

IInv ==
  /\ TypeOK
  /\ \A p \in Bucket : InOrder(Here(p))
  /\ stored = [p \in Bucket |-> Held(Here(p))]

\* Every bucket is shorter than a word.
Short == FpLen \subseteq 4 .. 16

\* Empty buckets are in order and hold nothing.
LEMMA ClearedInOrder ==
  ASSUME NEW len \in 4 .. 16
  PROVE  /\ [i \in Slot |-> 0] \in Fingerprints(len) /\ Descending([i \in Slot |-> 0])
         /\ Held([i \in Slot |-> 0]) = [f \in {} |-> 0]
<1>0. len \in 0 .. 18
  OBVIOUS
<1>1. Power[len] \in Nat \ {0}
  BY <1>0, PowerPositive
<1>2. \A i \in 0 .. 2 : i \in Slot /\ i + 1 \in Slot
  BY DEF Slot
<1> DEFINE s == [i \in Slot |-> 0]
<1>3. {s[i] : i \in Slot} \ {0} = {}
  OBVIOUS
<1>4. Held(s) = [f \in {} |-> 0]
  <2> HIDE DEF s
  <2> QED
    BY <1>3 DEF Held
<1> QED
  BY <1>1, <1>2, <1>4 DEF Fingerprints, Descending

\* The memory is cleared, at this length or at another.
LEMMA ClearKeeps ==
  ASSUME Short, fp_len' \in FpLen, T' = Zero(fp_len'), stored' = Nothing
  PROVE  IInv'
<1>1. fp_len' \in 4 .. 16
  BY DEF Short
<1>2. \A p \in Bucket : Here(p)' = [i \in Slot |-> 0]
  BY <1>1, ZeroIs DEF Here
<1>3. \A p \in Bucket : InOrder(Here(p))'
  BY <1>1, <1>2, ClearedInOrder DEF InOrder
<1>4. stored' = [p \in Bucket |-> Held(Here(p)')]
  BY <1>1, <1>2, ClearedInOrder DEF Nothing
<1>5. TypeOK'
  BY ZeroTyped DEF TypeOK
<1> QED
  BY <1>3, <1>4, <1>5 DEF IInv

\* A slot is set: the bucket is sorted, with one fingerprint for another.
LEMMA SlotStep ==
  ASSUME Short, IInv, NEW pos \in Bucket, NEW i \in Slot,
         NEW f \in 0 .. Power[fp_len] - 1, SetSlot(pos, i, f)
  PROVE  /\ TypeOK' /\ \A p \in Bucket : InOrder(Here(p))'
         /\ \A p \in Bucket : p # pos => Here(p)' = Here(p)
         /\ Exchanged(Here(pos), Here(pos)', Here(pos)[i], f)
<1>1. fp_len \in 4 .. 16 /\ T \in Memory(fp_len) /\ TypeOK
  BY DEF Short, IInv, TypeOK, Memory
<1> DEFINE h == Here(pos)
           s == [h EXCEPT ![i] = f]
<1>2. h \in Fingerprints(fp_len)
  BY DEF IInv, InOrder
<1> HIDE DEF h
<1>3. s \in Fingerprints(fp_len)
  BY <1>2 DEF Fingerprints
<1>4. Exchanged(h, s, h[i], f)
  <2>1. h \in [Slot -> 0 .. Power[fp_len] - 1]
    BY <1>2 DEF Fingerprints
  <2> QED
    BY <2>1, SlotSet, Zenon
<1> HIDE DEF s
<1>5. PICK ub \in Undefined : T' = set_bucket(T, fp_len, pos, s, ub) /\ fp_len' = fp_len
  BY DEF SetSlot, s, h
<1>6. /\ Here(pos)' = Sort(s)
      /\ \A p \in Bucket : p # pos => Here(p)' = Here(p)
  BY <1>1, <1>3, <1>5, SetBucketIs DEF Here
<1>7. /\ Sort(s) \in Fingerprints(fp_len) /\ Descending(Sort(s))
      /\ \A g : Copies(Sort(s), g) = Copies(s, g)
  <2>1. 0 .. Power[fp_len] - 1 \subseteq Nat
    OBVIOUS
  <2> QED
    BY <1>3, <2>1, SortIs DEF Fingerprints
<1>8. \A p \in Bucket : InOrder(Here(p))'
  BY <1>5, <1>6, <1>7 DEF IInv, InOrder
<1>9. TypeOK'
  BY <1>1, StepTyped
<1>10. Exchanged(h, Here(pos)', h[i], f)
  BY <1>4, <1>6, <1>7 DEF Exchanged
<1> QED
  BY <1>6, <1>8, <1>9, <1>10 DEF h

\* The history is of what the buckets hold, when it is of the one written.
LEMMA StoredStep ==
  ASSUME IInv, NEW pos \in Bucket, NEW B, TypeOK', \A p \in Bucket : InOrder(Here(p))',
         \A p \in Bucket : p # pos => Here(p)' = Here(p),
         stored' = [stored EXCEPT ![pos] = B],
         IsBag(B), Count(B, 0) = 0, \A x : x # 0 => Count(B, x) = Copies(Here(pos)', x)
  PROVE  IInv'
<1>1. Held(Here(pos)') = B
  <2> DEFINE s == Here(pos)'
  <2>1. \A x : x # 0 => Count(B, x) = Copies(s, x)
    OBVIOUS
  <2> HIDE DEF s
  <2>2. Held(s) = B
    BY <2>1, HeldAfter
  <2> QED
    BY <2>2 DEF s
<1>2. stored = [p \in Bucket |-> Held(Here(p))]
  BY DEF IInv
<1>3. stored' = [p \in Bucket |-> Held(Here(p)')]
  BY <1>1, <1>2
<1> QED
  BY <1>3 DEF IInv

\* The last slot, which is empty, takes the new fingerprint.
LEMMA InsertKeeps ==
  ASSUME Short, IInv, NEW pos \in Bucket, NEW f \in 1 .. Power[fp_len] - 1, Insert(pos, f)
  PROVE  IInv'
<1> DEFINE h == Here(pos)
           r == Here(pos)'
           B == Held(h)
<1>1. h \in Fingerprints(fp_len) /\ Descending(h) /\ stored[pos] = B
  BY DEF IInv, InOrder
<1>2. h[3] = 0
  <2>1. 0 .. Power[fp_len] - 1 \subseteq Nat
    OBVIOUS
  <2>2. Load(h) < 4
    BY DEF Insert
  <2> HIDE DEF h
  <2> QED
    BY <1>1, <2>1, <2>2, LastIsEmpty DEF Fingerprints
<1>3. /\ TypeOK' /\ \A p \in Bucket : InOrder(Here(p))'
      /\ \A p \in Bucket : p # pos => Here(p)' = Here(p)
      /\ Exchanged(h, r, h[3], f)
  <2>1. 3 \in Slot /\ f \in 0 .. Power[fp_len] - 1 /\ SetSlot(pos, 3, f)
    BY Slots DEF Insert
  <2> QED
    BY <2>1, SlotStep
<1> HIDE DEF h, r
<1>4. IsBag(B) /\ \A x : Count(B, x) = IF x = 0 THEN 0 ELSE Copies(h, x)
  BY HeldIs
<1> HIDE DEF B
<1>5. IsBag(BagAdd(B, f)) /\ \A x : Count(BagAdd(B, f), x) = Count(B, x) + One(x = f)
  BY <1>4, BagAddIs
<1>6. f # 0
  OBVIOUS
<1>7. \A x : Copies(r, x) \in Nat
  BY CopiesAre
<1>8. \A x : x # 0 => Count(BagAdd(B, f), x) = Copies(r, x)
  <2> SUFFICES ASSUME NEW x, x # 0
               PROVE  Count(BagAdd(B, f), x) = Copies(r, x)
    OBVIOUS
  <2>1. Copies(r, x) + One(0 = x) = Copies(h, x) + One(f = x)
    BY <1>2, <1>3 DEF Exchanged
  <2>2. One(0 = x) = 0 /\ One(f = x) = One(x = f)
    BY DEF One
  <2>3. Copies(r, x) + 0 = Copies(r, x)
    BY <1>7
  <2>4. Count(BagAdd(B, f), x) = Copies(h, x) + One(x = f)
    BY <1>4, <1>5
  <2> QED
    BY <2>1, <2>2, <2>3, <2>4
<1>9. Count(BagAdd(B, f), 0) = 0
  <2>1. Count(B, 0) = 0 /\ One(0 = f) = 0
    BY <1>4, <1>6 DEF One
  <2> QED
    BY <1>5, <2>1
<1>10. stored' = [stored EXCEPT ![pos] = BagAdd(B, f)]
  BY <1>1 DEF Insert
<1> QED
  BY <1>3, <1>5, <1>8, <1>9, <1>10, StoredStep DEF r

\* A new fingerprint takes the slot of one that moves on.
LEMMA EvictKeeps ==
  ASSUME Short, IInv, NEW pos \in Bucket, NEW f \in 1 .. Power[fp_len] - 1, NEW rk \in Slot,
         Evict(pos, rk, f)
  PROVE  IInv'
<1> DEFINE h == Here(pos)
           r == Here(pos)'
           B == Held(h)
           e == h[rk]
           C == BagRemove(B, e)
           D == BagAdd(C, f)
<1>1. h \in Fingerprints(fp_len) /\ Descending(h) /\ stored[pos] = B
  BY DEF IInv, InOrder
<1>2. e # 0
  <2>1. Load(h) = 4
    BY DEF Evict
  <2> HIDE DEF h
  <2> QED
    BY <2>1, LoadIs
<1>3. /\ TypeOK' /\ \A p \in Bucket : InOrder(Here(p))'
      /\ \A p \in Bucket : p # pos => Here(p)' = Here(p)
      /\ Exchanged(h, r, e, f)
  <2>1. f \in 0 .. Power[fp_len] - 1 /\ SetSlot(pos, rk, f)
    BY DEF Evict
  <2> QED
    BY <2>1, SlotStep
<1>4. stored' = [stored EXCEPT ![pos] = D]
  BY <1>1 DEF Evict
<1> HIDE DEF h, r
<1>5. Copies(h, e) > 0
  BY CopiesAre
<1> HIDE DEF e
<1>6. IsBag(B) /\ \A x : Count(B, x) = IF x = 0 THEN 0 ELSE Copies(h, x)
  BY HeldIs
<1> HIDE DEF B
<1>7. Count(B, e) > 0
  BY <1>2, <1>5, <1>6
<1>8. IsBag(C) /\ \A x : Count(C, x) + One(x = e) = Count(B, x)
  BY <1>6, <1>7, BagRemoveIs
<1>9. \A x : Count(C, x) \in Nat
  BY <1>8 DEF IsBag, Count
<1> HIDE DEF C
<1>10. IsBag(D) /\ \A x : Count(D, x) = Count(C, x) + One(x = f)
  BY <1>8, BagAddIs
<1> HIDE DEF D
<1>11. f # 0
  OBVIOUS
<1>12. \A x : Copies(r, x) \in Nat /\ Copies(h, x) \in Nat
  BY CopiesAre
<1>13. \A x : x # 0 => Count(D, x) = Copies(r, x)
  <2> SUFFICES ASSUME NEW x, x # 0
               PROVE  Count(D, x) = Copies(r, x)
    OBVIOUS
  <2>1. Copies(r, x) + One(e = x) = Copies(h, x) + One(f = x)
    BY <1>3 DEF Exchanged
  <2>2. One(e = x) = One(x = e) /\ One(f = x) = One(x = f) /\ One(x = e) \in Nat /\ One(x = f) \in Nat
    BY DEF One
  <2>3. Count(C, x) + One(x = e) = Copies(h, x)
    BY <1>6, <1>8
  <2>4. Count(D, x) = Count(C, x) + One(x = f) /\ Count(C, x) \in Nat
    BY <1>9, <1>10
  <2> QED
    BY <1>12, <2>1, <2>2, <2>3, <2>4
<1>14. Count(D, 0) = 0
  <2>1. Count(B, 0) = 0 /\ One(0 = f) = 0 /\ One(0 = e) = 0
    BY <1>2, <1>6, <1>11 DEF One
  <2> QED
    BY <1>8, <1>9, <1>10, <2>1
<1> QED
  BY <1>3, <1>4, <1>10, <1>13, <1>14, StoredStep DEF r

\* A slot with the fingerprint becomes empty.
LEMMA DelKeeps ==
  ASSUME Short, IInv, NEW pos \in Bucket, NEW f \in 1 .. Power[fp_len] - 1,
         del_in_bucket(pos, f)
  PROVE  IInv'
<1> DEFINE h == Here(pos)
           r == Here(pos)'
           B == Held(h)
           C == BagRemove(B, f)
<1>1. h \in Fingerprints(fp_len) /\ Descending(h) /\ stored[pos] = B
  BY DEF IInv, InOrder
<1>2. PICK i \in Slot : h[i] = f /\ SetSlot(pos, i, 0)
  BY DEF del_in_bucket
<1>3. /\ TypeOK' /\ \A p \in Bucket : InOrder(Here(p))'
      /\ \A p \in Bucket : p # pos => Here(p)' = Here(p)
      /\ Exchanged(h, r, f, 0)
  <2>1. 0 \in 0 .. Power[fp_len] - 1
    <3>1. Power[fp_len] \in Nat \ {0}
      <4>1. fp_len \in 0 .. 18
        BY DEF IInv, TypeOK, Short
      <4> QED
        BY <4>1, PowerIs
    <3> QED
      BY <3>1
  <2> QED
    BY <1>2, <2>1, SlotStep
<1>4. stored' = [stored EXCEPT ![pos] = C]
  BY <1>1 DEF del_in_bucket
<1> HIDE DEF h, r
<1>5. Copies(h, f) > 0
  BY <1>2, CopiesAre
<1>6. IsBag(B) /\ \A x : Count(B, x) = IF x = 0 THEN 0 ELSE Copies(h, x)
  BY HeldIs
<1> HIDE DEF B
<1>7. f # 0
  OBVIOUS
<1>8. Count(B, f) > 0
  BY <1>5, <1>6, <1>7
<1>9. IsBag(C) /\ \A x : Count(C, x) + One(x = f) = Count(B, x)
  BY <1>6, <1>8, BagRemoveIs
<1>10. \A x : Count(C, x) \in Nat
  BY <1>9 DEF IsBag, Count
<1> HIDE DEF C
<1>11. \A x : Copies(r, x) \in Nat /\ Copies(h, x) \in Nat
  BY CopiesAre
<1>12. \A x : x # 0 => Count(C, x) = Copies(r, x)
  <2> SUFFICES ASSUME NEW x, x # 0
               PROVE  Count(C, x) = Copies(r, x)
    OBVIOUS
  <2>1. Copies(r, x) + One(f = x) = Copies(h, x) + One(0 = x)
    BY <1>3 DEF Exchanged
  <2>2. One(f = x) = One(x = f) /\ One(0 = x) = 0 /\ One(x = f) \in Nat
    BY DEF One
  <2>3. Count(C, x) + One(x = f) = Copies(h, x) /\ Count(C, x) \in Nat
    BY <1>6, <1>9, <1>10
  <2> QED
    BY <1>11, <2>1, <2>2, <2>3
<1>13. Count(C, 0) = 0
  <2>1. Count(B, 0) = 0 /\ One(0 = f) = 0
    BY <1>6, <1>7 DEF One
  <2> QED
    BY <1>9, <1>10, <2>1
<1> QED
  BY <1>3, <1>4, <1>9, <1>12, <1>13, StoredStep DEF r

\* The invariant holds at every moment.
THEOREM Invariant ==
  ASSUME Short
  PROVE  Spec => []IInv
<1>1. Init => IInv
  <2> SUFFICES ASSUME Init
               PROVE  IInv
    OBVIOUS
  <2>1. fp_len \in 4 .. 16 /\ T = Zero(fp_len) /\ stored = Nothing
    BY DEF Init, Short
  <2>2. \A p \in Bucket : Here(p) = [i \in Slot |-> 0]
    BY <2>1, ZeroIs DEF Here
  <2>3. stored = [p \in Bucket |-> Held(Here(p))]
    BY <2>1, <2>2, ClearedInOrder DEF Nothing
  <2>4. TypeOK
    BY ZeroTyped DEF Init, TypeOK
  <2> QED
    BY <2>1, <2>2, <2>3, <2>4, ClearedInOrder DEF IInv, InOrder
<1>2. IInv /\ [Next]_vars => IInv'
  <2> SUFFICES ASSUME IInv, [Next]_vars
               PROVE  IInv'
    OBVIOUS
  <2>1. fp_len \in FpLen
    BY DEF IInv, TypeOK
  <2>2. \A pos \in Used(fp_len), f \in Sample(fp_len) : pos \in Bucket /\ f \in 1 .. Power[fp_len] - 1
    BY <2>1, UsedAre
  <2>3. ASSUME NEW pos \in Used(fp_len), NEW f \in Sample(fp_len), Insert(pos, f)
        PROVE  IInv'
    BY <2>2, <2>3, InsertKeeps
  <2>4. ASSUME NEW pos \in Used(fp_len), NEW f \in Sample(fp_len), NEW rk \in Slot,
               Evict(pos, rk, f)
        PROVE  IInv'
    BY <2>2, <2>4, EvictKeeps
  <2>5. ASSUME NEW pos \in Used(fp_len), NEW f \in Sample(fp_len), del_in_bucket(pos, f)
        PROVE  IInv'
    BY <2>2, <2>5, DelKeeps
  <2>6. CASE clear
    BY <2>1, <2>6, ClearKeeps DEF clear
  <2>7. CASE Reinit
    BY <2>7, ClearKeeps DEF Reinit
  <2>8. CASE UNCHANGED vars
    BY <2>8 DEF vars, IInv, TypeOK, InOrder, Here
  <2> QED
    BY <2>3, <2>4, <2>5, <2>6, <2>7, <2>8 DEF Next
<1> QED
  BY <1>1, <1>2, PTL DEF Spec

\* As long as no fingerprint is longer than 16 bits, what is read from any
\* bucket is sorted, so that insert_to_bucket, which fills the last slot of a
\* bucket that is not full, overwrites no fingerprint.
THEOREM SlotsStaySorted ==
  ASSUME Short
  PROVE  Spec => []SlotsInOrder
<1>1. IInv => SlotsInOrder
  BY DEF IInv, InOrder, SlotsInOrder
<1> QED
  BY <1>1, Invariant, PTL

\* And every bucket reads as the fingerprints that have been put into it:
\* get_bucket undoes set_bucket, and no write touches another bucket's bits.
THEOREM MemoryIsExact ==
  ASSUME Short
  PROVE  Spec => []MemoryExact
<1>1. IInv => MemoryExact
  BY DEF IInv, MemoryExact
<1> QED
  BY <1>1, Invariant, PTL

\* The assertion of test_bucket, at these lengths, whatever is in the memory.
THEOREM BucketsReadBack ==
  ASSUME Short
  PROVE  Spec => []TestBucket
<1>1. TypeOK => TestBucket
  <2> SUFFICES ASSUME TypeOK, NEW p \in Used(fp_len), NEW s \in [Slot -> {0} \cup Sample(fp_len)],
                      NEW ub \in Undefined
               PROVE  get_bucket(set_bucket(T, fp_len, p, s, ub), fp_len, p) = Sort(s)
    BY DEF TestBucket
  <2>1. fp_len \in 4 .. 16 /\ fp_len \in FpLen /\ T \in Memory(fp_len)
    BY DEF TypeOK, Short, Memory
  <2>2. p \in Bucket /\ Sample(fp_len) \subseteq 1 .. Power[fp_len] - 1
    BY <2>1, UsedAre
  <2>a. fp_len \in 0 .. 18
    BY <2>1
  <2>3. Power[fp_len] \in Nat \ {0}
    BY <2>a, PowerPositive
  <2>4. s \in Fingerprints(fp_len)
    BY <2>2, <2>3 DEF Fingerprints
  <2> QED
    BY <2>1, <2>2, <2>4, SetBucketIs
<1> QED
  BY <1>1, TypeCorrect, PTL
=============================================================================
