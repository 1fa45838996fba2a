--------------------------- MODULE Recursion_proofs ---------------------------
(***************************************************************************)
(* Induction over the natural numbers, and the functions that recursion    *)
(* defines.  The induction theorems of the library take an operator as a   *)
(* parameter; here the induction hypothesis is a set, and a step of the    *)
(* recursion a function.                                                   *)
(***************************************************************************)
EXTENDS Integers, FiniteSets, FiniteSetTheorems, TLAPS

\* A set with 0 and the successor of each of its numbers has every number:
\* moving the numbers outside it down by one would else map the n + 1 numbers
\* up to n into n places, no two to the same.
LEMMA Induct ==
  ASSUME NEW T, 0 \in T, \A n \in Nat : n \in T => n + 1 \in T
  PROVE  Nat \subseteq T
<1> SUFFICES ASSUME NEW n \in Nat, n \notin T
             PROVE  FALSE
  OBVIOUS
<1> DEFINE S == 0 .. n
           U == 0 .. n - 1
           down == [i \in S |-> IF i \in T THEN i ELSE i - 1]
<1>1. down \in [S -> U]
  OBVIOUS
<1>2. IsFiniteSet(S) /\ Cardinality(S) = n + 1
  BY FS_Interval
<1>3. IsFiniteSet(U) /\ Cardinality(U) = n
  <2>1. 0 \in Int /\ n - 1 \in Int /\ (IF 0 > n - 1 THEN 0 ELSE n - 1 - 0 + 1) = n
    OBVIOUS
  <2> QED
    BY <2>1, FS_Interval, Zenon
<1>4. Cardinality(U) < Cardinality(S)
  BY <1>2, <1>3
<1>5. \E i, j \in S : i # j /\ down[i] = down[j]
  <2> HIDE DEF down, S, U
  <2> QED
    BY <1>1, <1>2, <1>3, <1>4, FS_PigeonHole
<1> QED
  BY <1>5

\* The first values of the recursion that starts with s and goes on with step.
Begun(S, s, step, n) ==
  {f \in [0 .. n -> S] : /\ f[0] = s
                         /\ \A i \in 0 .. n - 1 : f[i + 1] = step[<<i, f[i]>>]}

\* However far two of them go, they agree.
LEMMA BegunAgree ==
  ASSUME NEW S, NEW s \in S, NEW step \in [Nat \X S -> S],
         NEW m \in Nat, NEW n \in Nat,
         NEW f \in Begun(S, s, step, m), NEW g \in Begun(S, s, step, n),
         NEW i \in 0 .. m, i \in 0 .. n
  PROVE  f[i] = g[i]
<1> DEFINE T == {j \in Nat : j <= i => f[j] = g[j]}
<1>1. 0 \in T
  BY DEF Begun
<1>2. ASSUME NEW j \in Nat, j \in T
      PROVE  j + 1 \in T
  <2> SUFFICES ASSUME j + 1 <= i
               PROVE  f[j + 1] = g[j + 1]
    OBVIOUS
  <2>1. f[j] = g[j]
    BY <1>2
  <2>2. j \in 0 .. m - 1 /\ j \in 0 .. n - 1
    OBVIOUS
  <2> QED
    BY <2>1, <2>2 DEF Begun
<1>3. Nat \subseteq T
  <2> HIDE DEF T
  <2> QED
    BY <1>1, <1>2, Induct
<1> QED
  BY <1>3

\* All of its values.
Recursive(S, s, step) ==
  {f \in [Nat -> S] : f[0] = s /\ \A n \in Nat : f[n + 1] = step[<<n, f[n]>>]}

\* A recursion over the natural numbers defines a function.
LEMMA Recursion ==
  ASSUME NEW S, NEW s \in S, NEW step \in [Nat \X S -> S]
  PROVE  Recursive(S, s, step) # {}
<1> DEFINE B(n) == Begun(S, s, step, n)
           T == {n \in Nat : B(n) # {}}
<1>1. 0 \in T
  <2>1. [i \in 0 .. 0 |-> s] \in B(0)
    BY DEF Begun
  <2> QED
    BY <2>1
<1>2. ASSUME NEW n \in Nat, n \in T
      PROVE  n + 1 \in T
  <2>1. PICK f \in B(n) : TRUE
    BY <1>2
  <2>2. f \in [0 .. n -> S] /\ f[0] = s
        /\ \A i \in 0 .. n - 1 : f[i + 1] = step[<<i, f[i]>>]
    BY <2>1 DEF Begun
  <2>3. step[<<n, f[n]>>] \in S
    BY <2>2
  <2> DEFINE g == [i \in 0 .. n + 1 |-> IF i <= n THEN f[i] ELSE step[<<n, f[n]>>]]
  <2>4. g \in [0 .. n + 1 -> S] /\ g[0] = s
    <3>1. \A i \in 0 .. n + 1 : i <= n => i \in 0 .. n
      OBVIOUS
    <3>2. \A i \in 0 .. n + 1 : (IF i <= n THEN f[i] ELSE step[<<n, f[n]>>]) \in S
      BY <2>2, <2>3, <3>1
    <3>3. 0 \in 0 .. n + 1 /\ 0 <= n
      OBVIOUS
    <3> QED
      BY <2>2, <3>2, <3>3
  <2>5. ASSUME NEW i \in 0 .. (n + 1) - 1
        PROVE  g[i + 1] = step[<<i, g[i]>>]
    <3>1. CASE i < n
      BY <3>1, <2>2
    <3>2. CASE i = n
      BY <3>2, SMTT(30)
    <3> QED
      BY <3>1, <3>2
  <2>6. g \in B(n + 1)
    BY <2>4, <2>5 DEF Begun
  <2> QED
    BY <2>6
<1>3. \A n \in Nat : B(n) # {}
  <2>1. Nat \subseteq T
    <3> HIDE DEF T
    <3> QED
      BY <1>1, <1>2, Induct
  <2> QED
    BY <2>1
<1> DEFINE h(n) == CHOOSE f \in B(n) : TRUE
           f == [n \in Nat |-> h(n)[n]]
<1>4. \A n \in Nat : h(n) \in B(n)
  BY <1>3
<1>5. f \in [Nat -> S] /\ f[0] = s
  <2>1. ASSUME NEW n \in Nat
        PROVE  h(n) \in [0 .. n -> S] /\ h(n)[0] = s
    <3> HIDE DEF h
    <3> QED
      BY <1>4 DEF Begun
  <2>2. \A n \in Nat : h(n)[n] \in S
    <3> HIDE DEF h
    <3> QED
      BY <2>1
  <2>3. h(0)[0] = s
    BY <2>1, Zenon
  <2> HIDE DEF h
  <2> QED
    BY <2>2, <2>3
<1>6. ASSUME NEW n \in Nat
      PROVE  f[n + 1] = step[<<n, f[n]>>]
  <2> HIDE DEF h
  <2>1. h(n + 1)[n + 1] = step[<<n, h(n + 1)[n]>>]
    <3>1. n + 1 \in Nat /\ n \in 0 .. (n + 1) - 1
      OBVIOUS
    <3>2. h(n + 1) \in B(n + 1)
      BY <1>4, <3>1, Zenon
    <3> QED
      BY <3>1, <3>2, Zenon DEF Begun
  <2>2. h(n + 1)[n] = h(n)[n]
    <3>1. n + 1 \in Nat /\ n \in 0 .. n /\ n \in 0 .. n + 1
      OBVIOUS
    <3>2. h(n + 1) \in B(n + 1) /\ h(n) \in B(n)
      BY <1>4, <3>1, Zenon
    <3>3. PICK u \in B(n + 1), v \in B(n) : u = h(n + 1) /\ v = h(n)
      BY <3>2, Zenon
    <3>4. u[n] = v[n]
      BY <3>1, BegunAgree, SMTT(30)
    <3> QED
      BY <3>3, <3>4, Zenon
  <2>3. f[n] = h(n)[n] /\ f[n + 1] = h(n + 1)[n + 1]
    OBVIOUS
  <2> QED
    BY <2>1, <2>2, <2>3, Zenon
<1>7. f \in Recursive(S, s, step)
  <2> HIDE DEF f
  <2> QED
    BY <1>5, <1>6 DEF Recursive
<1> QED
  BY <1>7
=============================================================================
