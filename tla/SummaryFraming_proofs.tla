------------------------- MODULE SummaryFraming_proofs -------------------------
(***************************************************************************)
(* Proofs about SummaryFraming: every update that the word does not occur  *)
(* in is decoded as what was encoded, whatever the pieces it arrives in,   *)
(* and when a message is not recognised depends on its length alone.       *)
(***************************************************************************)
EXTENDS SummaryFraming, Recursion_proofs

(***************************************************************************)
(* Where the parts of a sequence begin.                                    *)
(***************************************************************************)
\* b gives the end of each of n parts that have these lengths.
Bounds(n, len, b) ==
  /\ b \in [0 .. n -> Nat] /\ b[0] = 0
  /\ \A i \in 1 .. n : b[i] = b[i - 1] + len[i]

LEMMA BoundsExist ==
  ASSUME NEW n \in Nat, NEW len \in [1 .. n -> Nat]
  PROVE  \E b : Bounds(n, len, b)
<1> DEFINE step == [x \in Nat \X Nat |-> IF x[1] < n THEN x[2] + len[x[1] + 1] ELSE x[2]]
<1>1. step \in [Nat \X Nat -> Nat]
  <2> SUFFICES ASSUME NEW x \in Nat \X Nat
               PROVE  (IF x[1] < n THEN x[2] + len[x[1] + 1] ELSE x[2]) \in Nat
    OBVIOUS
  <2>1. x[1] < n => x[1] + 1 \in 1 .. n
    OBVIOUS
  <2> QED
    BY <2>1
<1>2. PICK f \in [Nat -> Nat] : f[0] = 0 /\ \A i \in Nat : f[i + 1] = step[<<i, f[i]>>]
  <2> HIDE DEF step
  <2>1. Recursive(Nat, 0, step) # {}
    BY <1>1, Recursion
  <2> QED
    BY <2>1 DEF Recursive
<1> DEFINE b == [i \in 0 .. n |-> f[i]]
<1>3. ASSUME NEW i \in 1 .. n
      PROVE  b[i] = b[i - 1] + len[i]
  <2>1. i - 1 \in Nat /\ (i - 1) + 1 = i /\ i - 1 < n
    OBVIOUS
  <2>2. f[i] = step[<<i - 1, f[i - 1]>>]
    <3> HIDE DEF step
    <3> QED
      BY <1>2, <2>1
  <2>3. f[i - 1] \in Nat /\ step[<<i - 1, f[i - 1]>>] = f[i - 1] + len[i]
    BY <1>2, <2>1
  <2> HIDE DEF step
  <2> QED
    BY <1>2, <2>2, <2>3
<1>4. b \in [0 .. n -> Nat] /\ b[0] = 0
  BY <1>2
<1> HIDE DEF b
<1> QED
  BY <1>3, <1>4 DEF Bounds

LEMMA BoundsRise ==
  ASSUME NEW n \in Nat, NEW len \in [1 .. n -> Nat], NEW b, Bounds(n, len, b),
         NEW i \in 0 .. n, NEW j \in i .. n
  PROVE  b[i] <= b[j]
<1> DEFINE T == {k \in Nat : i + k <= n => b[i] <= b[i + k]}
<1>1. 0 \in T
  BY DEF Bounds
<1>2. ASSUME NEW k \in Nat, k \in T
      PROVE  k + 1 \in T
  <2> SUFFICES ASSUME i + (k + 1) <= n
               PROVE  b[i] <= b[i + (k + 1)]
    OBVIOUS
  <2>1. i + (k + 1) \in 1 .. n /\ (i + (k + 1)) - 1 = i + k /\ i + k \in 0 .. n
    OBVIOUS
  <2>2. b[i + (k + 1)] = b[i + k] + len[i + (k + 1)] /\ b[i] <= b[i + k]
    BY <1>2, <2>1 DEF Bounds
  <2>3. b[i] \in Nat /\ b[i + k] \in Nat /\ len[i + (k + 1)] \in Nat
    BY <2>1 DEF Bounds
  <2> QED
    BY <2>2, <2>3
<1>3. Nat \subseteq T
  <2> HIDE DEF T
  <2> QED
    BY <1>1, <1>2, Induct
<1>4. j - i \in Nat /\ i + (j - i) = j
  OBVIOUS
<1>5. j - i \in T
  <2> HIDE DEF T
  <2> QED
    BY <1>3, <1>4
<1> QED
  BY <1>4, <1>5

\* Parts of the same length.
Even(n, len, w) == \A i \in 1 .. n : len[i] = w

LEMMA BoundsEven ==
  ASSUME NEW n \in Nat, NEW w \in Nat, NEW len \in [1 .. n -> Nat], Even(n, len, w),
         NEW b, Bounds(n, len, b), NEW i \in 0 .. n
  PROVE  b[i] = i * w
<1> DEFINE T == {k \in Nat : k <= n => b[k] = k * w}
<1>1. 0 \in T
  BY DEF Bounds
<1>2. ASSUME NEW k \in Nat, k \in T
      PROVE  k + 1 \in T
  <2> SUFFICES ASSUME k + 1 <= n
               PROVE  b[k + 1] = (k + 1) * w
    OBVIOUS
  <2>1. k + 1 \in 1 .. n /\ (k + 1) - 1 = k
    OBVIOUS
  <2>2. b[k + 1] = b[k] + w /\ b[k] = k * w
    BY <1>2, <2>1 DEF Bounds, Even
  <2>3. (k + 1) * w = k * w + w
    OBVIOUS
  <2> QED
    BY <2>2, <2>3
<1>3. Nat \subseteq T
  <2> HIDE DEF T
  <2> QED
    BY <1>1, <1>2, Induct
<1> QED
  BY <1>3

-----------------------------------------------------------------------------
(***************************************************************************)
(* Sequences in sequences.                                                 *)
(***************************************************************************)
\* s has t from position at on.
Carries(s, at, t) ==
  /\ at \in Nat \ {0} /\ at + Len(t) <= Len(s) + 1
  /\ \A j \in 1 .. Len(t) : s[at + j - 1] = t[j]

LEMMA CarriesBoth ==
  ASSUME NEW S, NEW s \in Seq(S), NEW t \in Seq(S), NEW u \in Seq(S), NEW at,
         Carries(s, at, t \o u)
  PROVE  Carries(s, at, t) /\ Carries(s, at + Len(t), u)
<1>1. t \o u \in Seq(S) /\ Len(t \o u) = Len(t) + Len(u)
  OBVIOUS
<1>2. \A j \in 1 .. Len(t) : j \in 1 .. Len(t \o u) /\ (t \o u)[j] = t[j]
  OBVIOUS
<1>3. ASSUME NEW j \in 1 .. Len(u)
      PROVE  Len(t) + j \in 1 .. Len(t \o u) /\ (t \o u)[Len(t) + j] = u[j]
  OBVIOUS
<1>4. at \in Nat \ {0} /\ Len(s) \in Nat /\ Len(t) \in Nat /\ Len(u) \in Nat
      /\ at + Len(t \o u) <= Len(s) + 1
      /\ \A j \in 1 .. Len(t \o u) : s[at + j - 1] = (t \o u)[j]
  BY DEF Carries
<1>5. Carries(s, at, t)
  BY <1>1, <1>2, <1>4 DEF Carries
<1>6. ASSUME NEW j \in 1 .. Len(u)
      PROVE  s[(at + Len(t)) + j - 1] = u[j]
  <2>1. (at + Len(t)) + j - 1 = at + (Len(t) + j) - 1
    BY <1>4
  <2> QED
    BY <1>3, <1>4, <2>1
<1>7. at + Len(t) \in Nat \ {0} /\ (at + Len(t)) + Len(u) <= Len(s) + 1
  BY <1>1, <1>4
<1> QED
  BY <1>5, <1>6, <1>7 DEF Carries

LEMMA CarriesAll ==
  ASSUME NEW S, NEW s \in Seq(S), NEW t \in Seq(S)
  PROVE  Carries(s \o t, 1, s)
BY DEF Carries

Lens(ss) == [i \in 1 .. Len(ss) |-> Len(ss[i])]

\* q is made of the first k parts.
Made(S, q, ss, b, k) ==
  /\ q \in Seq(S) /\ Len(q) = b[k]
  /\ \A i \in 1 .. k : \A j \in 1 .. Len(ss[i]) : q[b[i - 1] + j] = ss[i][j]

LEMMA ConcatIs ==
  ASSUME NEW S, NEW p \in Seq(S), NEW q \in Seq(S)
  PROVE  p \o q \in Seq(S) /\ Len(p \o q) = Len(p) + Len(q)
OBVIOUS

LEMMA MadeNext ==
  ASSUME NEW S, NEW q, NEW ss, NEW b, NEW m \in Nat, Made(S, q, ss, b, m),
         NEW r \in Seq(S), ss[m + 1] = r, b[m + 1] = b[m] + Len(r),
         \A i \in 1 .. m : /\ b[i - 1] \in Nat /\ Len(ss[i]) \in Nat
                           /\ b[i - 1] + Len(ss[i]) <= b[m]
  PROVE  Made(S, q \o r, ss, b, m + 1)
<1>1. q \in Seq(S) /\ Len(q) = b[m] /\ Len(q) \in Nat /\ Len(r) \in Nat
  BY DEF Made
<1>2. q \o r \in Seq(S) /\ Len(q \o r) = b[m + 1]
  <2>0. q \in Seq(S)
    BY <1>1, Zenon
  <2>1. q \o r \in Seq(S) /\ Len(q \o r) = Len(q) + Len(r)
    BY <2>0, ConcatIs
  <2> QED
    BY <1>1, <2>1, Zenon
<1>3. ASSUME NEW i \in 1 .. m, NEW j \in 1 .. Len(ss[i])
      PROVE  (q \o r)[b[i - 1] + j] = ss[i][j]
  <2>1. b[i - 1] + j \in 1 .. Len(q)
    <3>1. b[i - 1] \in Nat /\ Len(ss[i]) \in Nat /\ b[i - 1] + Len(ss[i]) <= Len(q)
      BY <1>1
    <3>2. PICK c \in Nat, l \in Nat, k \in Nat : c = b[i - 1] /\ l = Len(ss[i]) /\ k = Len(q)
      BY <1>1, <3>1, Zenon
    <3>3. c + l <= k /\ j \in 1 .. l
      BY <3>1, <3>2
    <3>4. c + j \in 1 .. k
      BY <3>3
    <3> QED
      BY <3>2, <3>4, Zenon
  <2>2. \A k \in 1 .. Len(q) : (q \o r)[k] = q[k]
    BY <1>1
  <2>3. q[b[i - 1] + j] = ss[i][j]
    BY DEF Made
  <2> QED
    BY <2>1, <2>2, <2>3
<1>4. ASSUME NEW j \in 1 .. Len(r)
      PROVE  (q \o r)[b[m] + j] = r[j]
  BY <1>1, SMTT(30)
<1>5. ASSUME NEW i \in 1 .. m + 1, NEW j \in 1 .. Len(ss[i])
      PROVE  (q \o r)[b[i - 1] + j] = ss[i][j]
  <2>1. CASE i \in 1 .. m
    BY <1>3, <2>1
  <2>2. CASE i = m + 1
    <3>1. i - 1 = m /\ ss[i] = r
      BY <2>2
    <3> QED
      BY <3>1, <1>4
  <2>3. i \in 1 .. m \/ i = m + 1
    OBVIOUS
  <2> QED
    BY <2>1, <2>2, <2>3
<1> QED
  BY <1>2, <1>5 DEF Made

\* f flattens the first parts, as FlattenSeq does.
Flattens(f, ss, n) == f = [i \in 1 .. n |-> IF i = 1 THEN ss[i] ELSE f[i - 1] \o ss[i]]

\* FlattenSeq puts the parts one after the other.
LEMMA FlattenMade ==
  ASSUME NEW S, NEW n \in Nat \ {0}, NEW ss \in [1 .. n -> Seq(S)],
         NEW b, Bounds(n, [i \in 1 .. n |-> Len(ss[i])], b), NEW f, Flattens(f, ss, n)
  PROVE  Made(S, f[n], ss, b, n)
<1> DEFINE len == [i \in 1 .. n |-> Len(ss[i])]
           T == {k \in Nat : k + 1 <= n => Made(S, f[k + 1], ss, b, k + 1)}
<1>1. len \in [1 .. n -> Nat]
  OBVIOUS
<1>2. /\ b[0] = 0 /\ \A i \in 0 .. n : b[i] \in Nat
      /\ \A i \in 1 .. n : b[i] = b[i - 1] + Len(ss[i]) /\ Len(ss[i]) \in Nat
  BY DEF Bounds
<1>3. f[1] = ss[1] /\ ss[1] \in Seq(S)
  <2>1. 1 \in 1 .. n
    OBVIOUS
  <2> QED
    BY <2>1 DEF Flattens
<1>4. 0 \in T
  <2>1. Len(ss[1]) = b[1] /\ b[1 - 1] = 0
    <3>1. 1 \in 1 .. n /\ 1 - 1 = 0
      OBVIOUS
    <3>2. b[1] = b[1 - 1] + Len(ss[1]) /\ Len(ss[1]) \in Nat
      BY <1>2, <3>1
    <3> QED
      BY <1>2, <3>1, <3>2
  <2>2. \A i \in 1 .. 1 : i = 1
    OBVIOUS
  <2>3. \A j \in 1 .. Len(ss[1]) : ss[1][b[1 - 1] + j] = ss[1][j]
    BY <2>1
  <2>4. Made(S, ss[1], ss, b, 1)
    BY <1>3, <2>1, <2>2, <2>3 DEF Made
  <2> QED
    BY <1>3, <2>4
<1>5. ASSUME NEW k \in Nat, k \in T
      PROVE  k + 1 \in T
  <2> SUFFICES ASSUME (k + 1) + 1 <= n
               PROVE  Made(S, f[(k + 1) + 1], ss, b, (k + 1) + 1)
    OBVIOUS
  <2>1. PICK m \in Nat : m = k + 1
    OBVIOUS
  <2>2. Made(S, f[m], ss, b, m)
    BY <1>5, <2>1
  <2>3. m \in 1 .. n /\ m + 1 \in 1 .. n /\ (m + 1) - 1 = m /\ m + 1 # 1
    BY <2>1
  <2>4. f[m + 1] = f[m] \o ss[m + 1] /\ ss[m + 1] \in Seq(S)
    BY <2>3 DEF Flattens
  <2>5. b[m + 1] = b[m] + Len(ss[m + 1])
    BY <1>2, <2>3
  <2>6. ASSUME NEW i \in 1 .. m
        PROVE  /\ b[i - 1] \in Nat /\ Len(ss[i]) \in Nat
               /\ b[i - 1] + Len(ss[i]) <= b[m]
    <3>1. i \in 1 .. n /\ i \in 0 .. n /\ i - 1 \in 0 .. n /\ m \in i .. n /\ n \in Nat
      BY <2>3
    <3>2. b[i] <= b[m]
      BY <3>1, <1>1, BoundsRise
    <3> QED
      BY <1>2, <3>1, <3>2
  <2>7. Made(S, f[m] \o ss[m + 1], ss, b, m + 1)
    BY <2>2, <2>4, <2>5, <2>6, MadeNext
  <2> QED
    BY <2>1, <2>4, <2>7
<1>6. Nat \subseteq T
  <2> HIDE DEF T
  <2> QED
    BY <1>4, <1>5, Induct
<1>7. n - 1 \in Nat /\ (n - 1) + 1 = n
  OBVIOUS
<1>8. n - 1 \in T
  <2> HIDE DEF T
  <2> QED
    BY <1>6, <1>7
<1> QED
  BY <1>7, <1>8

\* The recursion of FlattenSeq defines a function.
LEMMA FlattenDefined ==
  ASSUME NEW S, NEW n \in Nat \ {0}, NEW ss \in [1 .. n -> Seq(S)]
  PROVE  \E f : Flattens(f, ss, n)
<1> DEFINE step == [x \in Nat \X Seq(S) |->
                      IF x[1] + 2 <= n THEN x[2] \o ss[x[1] + 2] ELSE x[2]]
<1>1. step \in [Nat \X Seq(S) -> Seq(S)]
  <2> SUFFICES ASSUME NEW k \in Nat, NEW q \in Seq(S)
               PROVE  (IF k + 2 <= n THEN q \o ss[k + 2] ELSE q) \in Seq(S)
    OBVIOUS
  <2>1. CASE k + 2 <= n
    <3>1. k + 2 \in 1 .. n
      BY <2>1
    <3>2. ss[k + 2] \in Seq(S)
      BY <3>1
    <3> QED
      BY <2>1, <3>2
  <2>2. CASE ~(k + 2 <= n)
    BY <2>2
  <2> QED
    BY <2>1, <2>2
<1>2. \A k \in Nat, q \in Seq(S) : k + 2 <= n => step[<<k, q>>] = q \o ss[k + 2]
  OBVIOUS
<1>3. ss[1] \in Seq(S)
  <2>1. 1 \in 1 .. n
    OBVIOUS
  <2> QED
    BY <2>1
<1>4. PICK g \in [Nat -> Seq(S)] :
        g[0] = ss[1] /\ \A k \in Nat : g[k + 1] = step[<<k, g[k]>>]
  <2> HIDE DEF step
  <2>1. Recursive(Seq(S), ss[1], step) # {}
    BY <1>1, <1>3, Recursion
  <2> QED
    BY <2>1 DEF Recursive
<1> HIDE DEF step
<1> DEFINE h == [i \in 1 .. n |-> g[i - 1]]
<1>5. ASSUME NEW i \in 1 .. n
      PROVE  h[i] = IF i = 1 THEN ss[i] ELSE h[i - 1] \o ss[i]
  <2>1. CASE i = 1
    BY <1>4, <2>1
  <2>2. CASE i # 1
    <3>1. PICK k \in Nat : k = i - 2
      BY <2>2
    <3>2. k + 1 = i - 1 /\ k + 2 = i /\ i - 1 \in 1 .. n /\ (i - 1) - 1 = k /\ k + 2 <= n
      BY <3>1, <2>2
    <3>3. g[k + 1] = g[k] \o ss[k + 2]
      BY <1>2, <1>4, <3>2
    <3>4. h[i] = g[k + 1] /\ h[i - 1] = g[k]
      BY <3>2
    <3> QED
      BY <2>2, <3>2, <3>3, <3>4
  <2> QED
    BY <2>1, <2>2
<1>6. h = [i \in 1 .. n |-> h[i]]
  OBVIOUS
<1> HIDE DEF h
<1>7. Flattens(h, ss, n)
  BY <1>5, <1>6 DEF Flattens
<1> QED
  BY <1>7

LEMMA FlattenIs ==
  ASSUME NEW S, NEW ss \in Seq(Seq(S)), NEW b, Bounds(Len(ss), Lens(ss), b)
  PROVE  Made(S, FlattenSeq(ss), ss, b, Len(ss))
<1>1. PICK n \in Nat : n = Len(ss)
  OBVIOUS
<1>2. ss \in [1 .. n -> Seq(S)]
  BY <1>1
<1>3. CASE n = 0
  <2>1. Len(ss) = 0
    BY <1>1, <1>3
  <2>2. FlattenSeq(ss) = ss
    BY <2>1 DEF FlattenSeq
  <2>3. ss = << >> /\ << >> \in Seq(S)
    BY <2>1
  <2>4. b[0] = 0
    BY DEF Bounds
  <2> QED
    BY <2>1, <2>2, <2>3, <2>4 DEF Made
<1>4. CASE n # 0
  <2> DEFINE eqn(h) == [i \in 1 .. n |-> IF i = 1 THEN ss[i] ELSE h[i - 1] \o ss[i]]
             f == CHOOSE h : h = eqn(h)
  <2>1. FlattenSeq(ss) = f[n]
    BY <1>1, <1>4 DEF FlattenSeq
  <2>2. \E h : h = eqn(h)
    <3>1. n \in Nat \ {0}
      BY <1>4
    <3>2. PICK g : Flattens(g, ss, n)
      BY <1>2, <3>1, FlattenDefined, Zenon
    <3>3. g = eqn(g)
      BY <3>2 DEF Flattens
    <3> HIDE DEF eqn
    <3> QED
      BY <3>3
  <2>3. f = eqn(f)
    <3> HIDE DEF eqn
    <3> QED
      BY <2>2
  <2>4. Bounds(n, [i \in 1 .. n |-> Len(ss[i])], b)
    <3>1. Lens(ss) = [i \in 1 .. n |-> Len(ss[i])]
      BY <1>1, Zenon DEF Lens
    <3> QED
      BY <1>1, <3>1, Zenon
  <2>5. Flattens(f, ss, n)
    BY <2>3 DEF Flattens
  <2> HIDE DEF f
  <2>6. Made(S, f[n], ss, b, n)
    BY <1>2, <1>4, <2>4, <2>5, FlattenMade
  <2> QED
    BY <1>1, <2>1, <2>6
<1> QED
  BY <1>3, <1>4

LEMMA CarriesFlat ==
  ASSUME NEW S, NEW s \in Seq(S), NEW at, NEW ss \in Seq(Seq(S)),
         NEW b, Bounds(Len(ss), Lens(ss), b), Carries(s, at, FlattenSeq(ss)),
         NEW i \in 1 .. Len(ss)
  PROVE  Carries(s, at + b[i - 1], ss[i])
<1>1. PICK n \in Nat, f \in Seq(S), t \in Seq(S), o \in Nat :
        n = Len(ss) /\ f = FlattenSeq(ss) /\ t = ss[i] /\ o = b[i - 1]
  <2>1. FlattenSeq(ss) \in Seq(S)
    BY FlattenIs DEF Made
  <2>2. i - 1 \in 0 .. Len(ss) /\ ss[i] \in Seq(S) /\ Len(ss) \in Nat
    OBVIOUS
  <2>3. b[i - 1] \in Nat
    BY <2>2 DEF Bounds
  <2> QED
    BY <2>1, <2>2, <2>3, Zenon
<1>2. Len(f) = b[n] /\ \A j \in 1 .. Len(t) : f[o + j] = t[j]
  <2>1. Made(S, FlattenSeq(ss), ss, b, Len(ss))
    BY FlattenIs, Zenon
  <2>2. Made(S, f, ss, b, n)
    BY <1>1, <2>1, Zenon
  <2>3. i \in 1 .. n
    BY <1>1
  <2> QED
    BY <1>1, <2>2, <2>3, Zenon DEF Made
<1>3. i \in 0 .. n /\ n \in i .. n /\ Lens(ss) \in [1 .. n -> Nat] /\ Lens(ss)[i] = Len(t)
  BY <1>1 DEF Lens
<1>4. b[i] <= b[n]
  BY <1>1, <1>3, BoundsRise
<1>5. b[n] \in Nat /\ Len(t) \in Nat /\ b[i] = o + Len(t)
  <2>1. n \in 0 .. n /\ i \in 1 .. n
    BY <1>1
  <2>2. b \in [0 .. n -> Nat] /\ b[i] = b[i - 1] + Lens(ss)[i]
    BY <1>1, <2>1 DEF Bounds
  <2> QED
    BY <1>1, <1>3, <2>1, <2>2
<1>6. at \in Nat \ {0} /\ at + Len(f) <= Len(s) + 1 /\ Len(s) \in Nat
      /\ \A j \in 1 .. Len(f) : s[at + j - 1] = f[j]
  BY <1>1 DEF Carries
<1>7. at + o \in Nat \ {0} /\ (at + o) + Len(t) <= Len(s) + 1
  <2>1. Len(f) \in Nat /\ o + Len(t) <= Len(f)
    BY <1>2, <1>4, <1>5
  <2>2. PICK a \in Nat, x \in Nat, y \in Nat, z \in Nat :
          a = at /\ x = Len(f) /\ y = Len(t) /\ z = Len(s)
    BY <1>5, <1>6, <2>1
  <2>3. a # 0 /\ a + x <= z + 1 /\ o + y <= x
    BY <1>6, <2>1, <2>2
  <2>4. a + o \in Nat \ {0} /\ (a + o) + y <= z + 1
    BY <2>3
  <2> QED
    BY <2>2, <2>4
<1>8. ASSUME NEW j \in 1 .. Len(t)
      PROVE  s[(at + o) + j - 1] = t[j]
  <2>0. at \in Nat /\ o \in Nat /\ j \in Nat /\ 1 <= j /\ j <= Len(t) /\ Len(t) \in Nat
    BY <1>5, <1>6
  <2>1. o + j \in Nat /\ 1 <= o + j /\ o + j <= o + Len(t)
        /\ (at + o) + j - 1 = at + (o + j) - 1
    BY ONLY <2>0
  <2>2. o + j \in 1 .. Len(f)
    BY <1>2, <1>4, <1>5, <2>1, SMTT(30)
  <2>3. f[o + j] = t[j]
    BY <1>2, Zenon
  <2>4. s[at + (o + j) - 1] = f[o + j]
    BY <1>6, <2>2, Zenon
  <2> QED
    BY <2>1, <2>3, <2>4, Zenon
<1>9. Carries(s, at + o, t)
  BY <1>7, <1>8 DEF Carries
<1> QED
  BY <1>1, <1>9

-----------------------------------------------------------------------------
(***************************************************************************)
(* The integer codec.                                                      *)
(***************************************************************************)
LEMMA BaseIs == Base \in Nat \ {0} /\ \A y \in Nat : y % Base \in Byte
BY FramingAssumption DEF Byte

LEMMA ShiftedIs ==
  Shifted[0] = 1 /\ \A k \in Nat : /\ Shifted[k] \in Nat \ {0}
                                   /\ Shifted[k + 1] = Base * Shifted[k]
<1> DEFINE step == [x \in Nat \X Nat |-> Base * x[2]]
           eqn(f) == [bytes \in Nat |-> IF bytes = 0 THEN 1 ELSE Base * f[bytes - 1]]
<1>1. step \in [Nat \X Nat -> Nat]
  BY BaseIs
<1>2. PICK g \in [Nat -> Nat] : g[0] = 1 /\ \A k \in Nat : g[k + 1] = step[<<k, g[k]>>]
  <2> HIDE DEF step
  <2>1. Recursive(Nat, 1, step) # {}
    BY <1>1, Recursion
  <2> QED
    BY <2>1 DEF Recursive
<1>3. \A k \in Nat : g[k + 1] = Base * g[k]
  BY <1>2
<1>4. g = eqn(g)
  <2>1. ASSUME NEW k \in Nat
        PROVE  g[k] = IF k = 0 THEN 1 ELSE Base * g[k - 1]
    <3>1. CASE k = 0
      BY <1>2, <3>1
    <3>2. CASE k # 0
      <4>1. k - 1 \in Nat /\ (k - 1) + 1 = k
        BY <3>2
      <4> QED
        BY <1>3, <3>2, <4>1
    <3> QED
      BY <3>1, <3>2
  <2> QED
    BY <1>2, <2>1
<1> DEFINE h == CHOOSE f : f = eqn(f)
<1>5. h = eqn(h)
  <2> HIDE DEF eqn
  <2> QED
    BY <1>4
<1>6. Shifted = h
  BY DEF Shifted
<1> HIDE DEF h
<1>7. Shifted[0] = 1 /\ \A k \in Nat : Shifted[k + 1] = Base * Shifted[k]
  <2>1. ASSUME NEW k \in Nat
        PROVE  h[k + 1] = Base * h[k]
    <3>1. k + 1 \in Nat /\ k + 1 # 0 /\ (k + 1) - 1 = k
      OBVIOUS
    <3> QED
      BY <1>5, <3>1
  <2> QED
    BY <1>5, <1>6, <2>1
<1> DEFINE T == {k \in Nat : Shifted[k] \in Nat \ {0}}
<1>8. 0 \in T
  BY <1>7
<1>9. ASSUME NEW k \in Nat, k \in T
      PROVE  k + 1 \in T
  <2>1. \A a, b \in Nat \ {0} : a * b \in Nat \ {0}
    OBVIOUS
  <2>2. Shifted[k] \in Nat \ {0} /\ Shifted[k + 1] = Base * Shifted[k]
    BY <1>7, <1>9
  <2>3. Base * Shifted[k] \in Nat \ {0}
    BY ONLY <2>1, <2>2, BaseIs
  <2> QED
    BY <2>2, <2>3
<1>10. Nat \subseteq T
  <2> HIDE DEF T
  <2> QED
    BY <1>8, <1>9, Induct
<1> QED
  BY <1>7, <1>10

LEMMA SplitIs ==
  ASSUME NEW x \in Nat, NEW width \in Nat
  PROVE  /\ split_uint_t(x, width) \in Seq(Byte) /\ Len(split_uint_t(x, width)) = width
         /\ \A i \in 1 .. width :
              split_uint_t(x, width)[i] = (x \div Shifted[width - i]) % Base
<1> DEFINE byte(i) == (x \div Shifted[width - i]) % Base
<1>1. ASSUME NEW i \in 1 .. width
      PROVE  byte(i) \in Byte
  <2>1. width - i \in Nat
    OBVIOUS
  <2>2. Shifted[width - i] \in Nat \ {0}
    BY <2>1, ShiftedIs
  <2>3. x \div Shifted[width - i] \in Nat
    BY <2>2
  <2> QED
    BY <2>3, BaseIs
<1> HIDE DEF byte
<1>2. [i \in 1 .. width |-> byte(i)] \in Seq(Byte)
  BY <1>1
<1>3. split_uint_t(x, width) = [i \in 1 .. width |-> byte(i)]
  BY DEF split_uint_t, byte
<1> QED
  BY <1>2, <1>3 DEF byte

\* Two recursions that begin and go on alike are the same.
LEMMA SameValues ==
  ASSUME NEW n \in Nat, NEW f, NEW g, f[0] = g[0],
         \A i \in 1 .. n : f[i - 1] = g[i - 1] => f[i] = g[i]
  PROVE  f[n] = g[n]
<1> DEFINE T == {k \in Nat : k <= n => f[k] = g[k]}
<1>1. 0 \in T
  OBVIOUS
<1>2. ASSUME NEW k \in Nat, k \in T
      PROVE  k + 1 \in T
  <2> SUFFICES ASSUME k + 1 <= n
               PROVE  f[k + 1] = g[k + 1]
    OBVIOUS
  <2>1. k + 1 \in 1 .. n /\ (k + 1) - 1 = k
    OBVIOUS
  <2> QED
    BY <1>2, <2>1
<1>3. Nat \subseteq T
  <2> HIDE DEF T
  <2> QED
    BY <1>1, <1>2, Induct
<1> QED
  BY <1>3

LEMMA DivMod ==
  ASSUME NEW y \in Nat, NEW b \in Nat \ {0}
  PROVE  y = (y \div b) * b + (y % b) /\ y \div b \in Nat
OBVIOUS

LEMMA DivTwice ==
  ASSUME NEW x \in Nat, NEW b \in Nat \ {0}, NEW p \in Nat \ {0}
  PROVE  x \div (b * p) = (x \div p) \div b
OBVIOUS

\* Reading the bytes of an integer that fits its width gives the integer.
LEMMA CombineIs ==
  ASSUME NEW s, NEW at, NEW width \in Nat, NEW x \in Uint(width),
         Carries(s, at, split_uint_t(x, width))
  PROVE  combine_chars(s, at, width) = x
<1> DEFINE eqn(f) == [i \in 0 .. width |-> IF i = 0 THEN 0 ELSE f[i - 1] * Base + s[at + i - 1]]
           g == [i \in 0 .. width |-> x \div Shifted[width - i]]
<1>1. x \in Nat /\ x < Shifted[width] /\ Shifted[width] \in Nat
  BY ShiftedIs DEF Uint
<1>2. \A i \in 1 .. width : s[at + i - 1] = (x \div Shifted[width - i]) % Base
  BY <1>1, SplitIs DEF Carries
<1>3. g[0] = 0
  BY <1>1
<1>4. ASSUME NEW i \in 1 .. width
      PROVE  g[i] = g[i - 1] * Base + s[at + i - 1]
  <2>1. PICK k \in Nat : k = width - i
    OBVIOUS
  <2>2. k + 1 = width - (i - 1) /\ i \in 0 .. width /\ i - 1 \in 0 .. width
    BY <2>1
  <2>3. PICK p \in Nat \ {0} : p = Shifted[k]
    BY ShiftedIs
  <2>4. PICK y \in Nat : y = x \div p
    BY <1>1
  <2>5. g[i] = y
    BY <2>1, <2>2, <2>3, <2>4
  <2>6. g[i - 1] = x \div (Base * p)
    BY <2>2, <2>3, ShiftedIs
  <2>7. x \div (Base * p) = y \div Base
    BY <1>1, <2>4, BaseIs, DivTwice
  <2>8. s[at + i - 1] = y % Base
    BY <1>2, <2>1, <2>3, <2>4
  <2>9. y = (y \div Base) * Base + (y % Base)
    BY BaseIs, DivMod
  <2> QED
    BY <2>5, <2>6, <2>7, <2>8, <2>9
<1>5. g[width] = x
  <2>1. width - width = 0 /\ width \in 0 .. width
    OBVIOUS
  <2>2. x \div 1 = x
    BY <1>1
  <2> QED
    BY <2>1, <2>2, ShiftedIs
<1>6. g = eqn(g)
  <2>1. g = [i \in 0 .. width |-> g[i]]
    OBVIOUS
  <2>2. \A i \in 0 .. width : i = 0 \/ i \in 1 .. width
    OBVIOUS
  <2> HIDE DEF g
  <2> QED
    BY <1>3, <1>4, <2>1, <2>2
<1> HIDE DEF g
<1> DEFINE value == CHOOSE f : f = eqn(f)
<1>7. value = eqn(value)
  <2> HIDE DEF eqn
  <2> QED
    BY <1>6
<1>8. combine_chars(s, at, width) = value[width]
  BY DEF combine_chars
<1> HIDE DEF value
<1>9. value[0] = g[0]
  BY <1>3, <1>7
<1>10. ASSUME NEW i \in 1 .. width
       PROVE  value[i - 1] = g[i - 1] => value[i] = g[i]
  <2>1. i \in 0 .. width /\ i # 0
    OBVIOUS
  <2>2. value[i] = value[i - 1] * Base + s[at + i - 1]
    BY <1>7, <2>1
  <2> QED
    BY <1>4, <2>2
<1>11. value[width] = g[width]
  BY <1>9, <1>10, SameValues
<1> QED
  BY <1>5, <1>8, <1>11

\* Vectors of integers.
LEMMA SplitVectorIs ==
  ASSUME NEW width \in Nat, NEW xs \in Seq(Nat)
  PROVE  /\ split_uint_t_vector(xs, width) \in Seq(Byte)
         /\ Len(split_uint_t_vector(xs, width)) = Len(xs) * width
         /\ \A at : \A s \in Seq(Byte), i \in 1 .. Len(xs) :
              Carries(s, at, split_uint_t_vector(xs, width))
                => Carries(s, at + (i - 1) * width, split_uint_t(xs[i], width))
<1> DEFINE ss == [i \in DOMAIN xs |-> split_uint_t(xs[i], width)]
<1>1. PICK n \in Nat : n = Len(xs) /\ DOMAIN xs = 1 .. n
  OBVIOUS
<1>2. ASSUME NEW i \in 1 .. n
      PROVE  split_uint_t(xs[i], width) \in Seq(Byte) /\ Len(split_uint_t(xs[i], width)) = width
  <2>1. xs[i] \in Nat
    BY <1>1
  <2> QED
    BY <2>1, SplitIs
<1>3. ss \in Seq(Seq(Byte)) /\ Len(ss) = n
      /\ \A i \in 1 .. n : ss[i] = split_uint_t(xs[i], width)
  BY <1>1, <1>2
<1>4. split_uint_t_vector(xs, width) = FlattenSeq(ss)
  BY DEF split_uint_t_vector
<1> HIDE DEF ss
<1>5. /\ Lens(ss) \in [1 .. n -> Nat]
      /\ Even(n, Lens(ss), width)
  BY <1>1, <1>2, <1>3 DEF Lens, Even
<1>6. PICK b : Bounds(n, Lens(ss), b)
  BY <1>1, <1>5, BoundsExist
<1>7. ASSUME NEW i \in 0 .. n
      PROVE  b[i] = i * width
  BY <1>5, <1>6, BoundsEven, SMTT(30)
<1>8. Made(Byte, FlattenSeq(ss), ss, b, n)
  BY <1>3, <1>6, FlattenIs
<1>9. FlattenSeq(ss) \in Seq(Byte) /\ Len(FlattenSeq(ss)) = n * width
  BY <1>1, <1>7, <1>8 DEF Made
<1>10. ASSUME NEW s \in Seq(Byte), NEW at, NEW i \in 1 .. n,
              Carries(s, at, FlattenSeq(ss))
       PROVE  Carries(s, at + (i - 1) * width, ss[i])
  <2>1. Carries(s, at + b[i - 1], ss[i])
    BY <1>3, <1>6, <1>10, CarriesFlat
  <2>2. i - 1 \in 0 .. n
    BY <1>1
  <2> QED
    BY <1>7, <2>1, <2>2
<1> QED
  BY <1>1, <1>3, <1>4, <1>9, <1>10

LEMMA CombineVectorIs ==
  ASSUME NEW width \in Nat, NEW xs \in Seq(Uint(width)), NEW s \in Seq(Byte), NEW at,
         Carries(s, at, split_uint_t_vector(xs, width))
  PROVE  combine_vector(s, at, Len(xs), width) = xs
<1>1. Uint(width) \subseteq Nat
  BY ShiftedIs DEF Uint
<1>2. xs \in Seq(Nat)
  BY <1>1
<1>3. ASSUME NEW i \in 1 .. Len(xs)
      PROVE  combine_chars(s, at + (i - 1) * width, width) = xs[i]
  <2>1. xs[i] \in Uint(width)
    OBVIOUS
  <2>2. Carries(s, at + (i - 1) * width, split_uint_t(xs[i], width))
    BY <1>2, SplitVectorIs
  <2> QED
    BY <2>1, <2>2, CombineIs
<1>4. xs = [i \in 1 .. Len(xs) |-> xs[i]]
  OBVIOUS
<1> QED
  BY <1>3, <1>4 DEF combine_vector

-----------------------------------------------------------------------------
(***************************************************************************)
(* Delta updates.                                                          *)
(***************************************************************************)
LEMMA ByteSeq == ASSUME NEW x \in Byte
                 PROVE  << x >> \in Seq(Byte) /\ Len(<< x >>) = 1
OBVIOUS

LEMMA CarriesOne ==
  ASSUME NEW s, NEW at, NEW x, Carries(s, at, << x >>)
  PROVE  s[at] = x /\ at \in Nat \ {0} /\ at <= Len(s)
<1>1. Len(<< x >>) = 1 /\ << x >>[1] = x
  OBVIOUS
<1>2. at \in Nat \ {0} /\ at + 1 <= Len(s) + 1 /\ s[at + 1 - 1] = x
  BY <1>1 DEF Carries
<1> QED
  BY <1>2

LEMMA Widths == /\ Int32 \in Nat \ {0} /\ Int64 \in Nat \ {0} /\ Head32 \in Nat
                /\ Head32 = 2 + Int64 + Int32
                /\ \A w \in Nat : Uint(w) \subseteq Nat
BY FramingAssumption, ShiftedIs DEF Head32, Uint

LEMMA ModSmall ==
  ASSUME NEW b \in Nat \ {0}, NEW x \in Nat, x < b
  PROVE  x % b = x
OBVIOUS

LEMMA ActionIs ==
  ASSUME NEW a \in Action
  PROVE  /\ a = [action |-> a.action, key |-> a.key, value |-> a.value, flips |-> a.flips]
         /\ a.action \in Byte /\ a.key \in Uint(Int64) /\ a.value \in Uint(Int32)
         /\ a.flips \in Seq(Uint(Int32))
BY DEF Action

\* The bytes of an action, up to its indexes.
Header(a) == << a.action >> \o split_uint_t(a.key, Int64) \o split_uint_t(a.value, Int32)
             \o << Len(a.flips) % Base >>

LEMMA HeaderIs ==
  ASSUME NEW a \in Action
  PROVE  Header(a) \in Seq(Byte) /\ Len(Header(a)) = Head32
<1>1. a.action \in Byte /\ a.key \in Nat /\ a.value \in Nat /\ Len(a.flips) \in Nat
  BY ActionIs, Widths
<1>2. PICK x \in Byte, k \in Seq(Byte), v \in Seq(Byte), y \in Byte :
        /\ x = a.action /\ k = split_uint_t(a.key, Int64)
        /\ v = split_uint_t(a.value, Int32) /\ y = Len(a.flips) % Base
        /\ Len(k) = Int64 /\ Len(v) = Int32
  <2>1. Len(a.flips) % Base \in Byte
    BY <1>1, BaseIs
  <2>2. /\ split_uint_t(a.key, Int64) \in Seq(Byte)
        /\ Len(split_uint_t(a.key, Int64)) = Int64
    BY <1>1, Widths, SplitIs
  <2>3. /\ split_uint_t(a.value, Int32) \in Seq(Byte)
        /\ Len(split_uint_t(a.value, Int32)) = Int32
    BY <1>1, Widths, SplitIs
  <2> QED
    BY <1>1, <2>1, <2>2, <2>3
<1>3. Header(a) = << x >> \o k \o v \o << y >>
  BY <1>2 DEF Header
<1>4. << x >> \o k \o v \o << y >> \in Seq(Byte)
  OBVIOUS
<1>5. Len(<< x >> \o k \o v \o << y >>) = 1 + Len(k) + Len(v) + 1
  OBVIOUS
<1> QED
  BY <1>2, <1>3, <1>4, <1>5, Widths

LEMMA SummaryIs ==
  ASSUME NEW a \in Action
  PROVE  /\ encode_summary(a) = Header(a) \o split_uint_t_vector(a.flips, Int32)
         /\ encode_summary(a) \in Seq(Byte)
         /\ Len(encode_summary(a)) = Head32 + Len(a.flips) * Int32
<1>1. a.flips \in Seq(Nat)
  BY ActionIs, Widths
<1>2. /\ split_uint_t_vector(a.flips, Int32) \in Seq(Byte)
      /\ Len(split_uint_t_vector(a.flips, Int32)) = Len(a.flips) * Int32
  BY <1>1, Widths, SplitVectorIs
<1>3. encode_summary(a) = Header(a) \o split_uint_t_vector(a.flips, Int32)
  BY DEF encode_summary, Header
<1>4. \A h, f \in Seq(Byte) : h \o f \in Seq(Byte) /\ Len(h \o f) = Len(h) + Len(f)
  OBVIOUS
<1> QED
  BY <1>2, <1>3, <1>4, HeaderIs

\* Where an action is, it is read, if its indexes can be counted.
LEMMA ActionRead ==
  ASSUME NEW a \in Action, Len(a.flips) < Base, NEW s \in Seq(Byte), NEW at,
         Carries(s, at, encode_summary(a))
  PROVE  decode_sub_summary(s, at) = a /\ s[at + Head32 - 1] = Len(a.flips)
<1>1. PICK x \in Byte, k \in Seq(Byte), v \in Seq(Byte), y \in Byte, f \in Seq(Byte) :
        /\ x = a.action /\ k = split_uint_t(a.key, Int64)
        /\ v = split_uint_t(a.value, Int32) /\ y = Len(a.flips) % Base
        /\ f = split_uint_t_vector(a.flips, Int32)
        /\ Len(k) = Int64 /\ Len(v) = Int32
  <2>1. a.action \in Byte /\ a.key \in Nat /\ a.value \in Nat /\ Len(a.flips) \in Nat
        /\ a.flips \in Seq(Nat)
    BY ActionIs, Widths
  <2>2. Len(a.flips) % Base \in Byte
    BY <2>1, BaseIs
  <2>3. /\ split_uint_t(a.key, Int64) \in Seq(Byte)
        /\ Len(split_uint_t(a.key, Int64)) = Int64
    BY <2>1, Widths, SplitIs
  <2>4. /\ split_uint_t(a.value, Int32) \in Seq(Byte)
        /\ Len(split_uint_t(a.value, Int32)) = Int32
    BY <2>1, Widths, SplitIs
  <2>5. split_uint_t_vector(a.flips, Int32) \in Seq(Byte)
    BY <2>1, Widths, SplitVectorIs
  <2> QED
    BY <2>1, <2>2, <2>3, <2>4, <2>5
<1>2. PICK t1 \in Seq(Byte), t2 \in Seq(Byte), t3 \in Seq(Byte), t4 \in Seq(Byte) :
        /\ t1 = << x >> /\ t2 = t1 \o k /\ t3 = t2 \o v /\ t4 = t3 \o << y >>
        /\ Len(t1) = 1 /\ Len(t2) = 1 + Int64 /\ Len(t3) = 1 + Int64 + Int32
        /\ Len(t4) = 2 + Int64 + Int32
  <2>1. << x >> \in Seq(Byte) /\ << x >> \o k \in Seq(Byte) /\ << x >> \o k \o v \in Seq(Byte)
        /\ << x >> \o k \o v \o << y >> \in Seq(Byte)
    OBVIOUS
  <2>2. /\ Len(<< x >>) = 1 /\ Len(<< x >> \o k) = 1 + Int64
        /\ Len(<< x >> \o k \o v) = 1 + Int64 + Int32
        /\ Len(<< x >> \o k \o v \o << y >>) = 2 + Int64 + Int32
    <3>1. /\ Len(<< x >>) = 1 /\ Len(<< x >> \o k) = 1 + Len(k)
          /\ Len(<< x >> \o k \o v) = 1 + Len(k) + Len(v)
          /\ Len(<< x >> \o k \o v \o << y >>) = 1 + Len(k) + Len(v) + 1
      OBVIOUS
    <3>2. Len(k) = Int64 /\ Len(v) = Int32 /\ Int64 \in Nat /\ Int32 \in Nat
      BY <1>1, Widths
    <3>3. 1 + Int64 + Int32 + 1 = 2 + Int64 + Int32
      BY <3>2
    <3> QED
      BY <3>1, <3>2, <3>3
  <2> QED
    BY <2>1, <2>2
<1>3. Carries(s, at, t4 \o f)
  BY <1>1, <1>2, SummaryIs DEF Header
<1>4. Carries(s, at, t4) /\ Carries(s, at + Len(t4), f)
  BY <1>3, CarriesBoth
<1>5. << y >> \in Seq(Byte) /\ Carries(s, at, t3 \o << y >>)
  BY <1>2, <1>4
<1>6. Carries(s, at, t3) /\ Carries(s, at + Len(t3), << y >>)
  BY <1>5, CarriesBoth
<1>7. Carries(s, at, t2) /\ Carries(s, at + Len(t2), v)
  <2>1. Carries(s, at, t2 \o v)
    BY <1>2, <1>6
  <2> QED
    BY <2>1, CarriesBoth
<1>8. Carries(s, at, t1) /\ Carries(s, at + Len(t1), k)
  <2>1. Carries(s, at, t1 \o k)
    BY <1>2, <1>7
  <2> QED
    BY <2>1, CarriesBoth
<1>9. s[at] = a.action /\ at \in Nat \ {0}
  <2>1. Carries(s, at, << x >>)
    BY <1>2, <1>8, Zenon
  <2>2. s[at] = x /\ at \in Nat \ {0}
    BY <2>1, CarriesOne, Zenon
  <2> QED
    BY <1>1, <2>2, Zenon
<1> DEFINE i == Int64
           j == Int32
<1>w. /\ Len(t1) = 1 /\ Len(t2) = 1 + i /\ Len(t3) = 1 + i + j /\ Len(t4) = 2 + i + j
      /\ i \in Nat /\ j \in Nat /\ Head32 = 2 + i + j /\ at \in Nat
  BY <1>2, <1>9, Widths
<1> HIDE DEF i, j
<1>o. /\ at + Len(t2) = at + 1 + i /\ at + Len(t3) = at + Head32 - 1
      /\ at + Len(t4) = at + Head32
  BY ONLY <1>w
<1>10. combine_chars(s, at + 1, Int64) = a.key
  <2>1. Carries(s, at + 1, split_uint_t(a.key, Int64))
    BY <1>1, <1>2, <1>8
  <2> QED
    BY <2>1, ActionIs, Widths, CombineIs
<1>11. combine_chars(s, at + 1 + Int64, Int32) = a.value
  <2>1. at + Len(t2) = at + 1 + Int64
    BY <1>o DEF i
  <2>2. Carries(s, at + 1 + Int64, split_uint_t(a.value, Int32))
    BY <1>1, <1>7, <2>1
  <2> QED
    BY <2>2, ActionIs, Widths, CombineIs
<1>12. s[at + Head32 - 1] = Len(a.flips)
  <2>1. at + Len(t3) = at + Head32 - 1
    BY <1>o
  <2>2. s[at + Head32 - 1] = y
    BY <1>6, <2>1, CarriesOne
  <2>3. Len(a.flips) \in Nat /\ Base \in Nat \ {0}
    BY ActionIs, BaseIs
  <2>4. Len(a.flips) % Base = Len(a.flips)
    BY <2>3, ModSmall
  <2> QED
    BY <1>1, <2>2, <2>3, <2>4
<1>13. combine_vector(s, at + Head32, Len(a.flips), Int32) = a.flips
  <2>1. at + Len(t4) = at + Head32
    BY <1>o
  <2>2. Carries(s, at + Head32, split_uint_t_vector(a.flips, Int32))
    BY <1>1, <1>4, <2>1
  <2> QED
    BY <2>2, ActionIs, Widths, CombineVectorIs
<1> QED
  BY <1>9, <1>10, <1>11, <1>12, <1>13, ActionIs DEF decode_sub_summary

Summaries(acts) == [i \in DOMAIN acts |-> encode_summary(acts[i])]

LEMMA BatchIs ==
  ASSUME NEW acts \in Seq(Action)
  PROVE  /\ Summaries(acts) \in Seq(Seq(Byte)) /\ Len(Summaries(acts)) = Len(acts)
         /\ \A i \in 1 .. Len(acts) : Summaries(acts)[i] = encode_summary(acts[i]) /\ acts[i] \in Action
         /\ FlattenSeq(Summaries(acts)) \in Seq(Byte) /\ Len(acts) % Base \in Byte
         /\ encode_batch_summary(acts) = << Len(acts) % Base >> \o FlattenSeq(Summaries(acts))
         /\ encode_batch_summary(acts) \in Seq(Byte)
<1>1. PICK n \in Nat : n = Len(acts) /\ DOMAIN acts = 1 .. n
  OBVIOUS
<1>2. \A i \in 1 .. n : acts[i] \in Action
  BY <1>1
<1>3. \A i \in 1 .. n : encode_summary(acts[i]) \in Seq(Byte)
  BY <1>2, SummaryIs
<1>4. Summaries(acts) \in Seq(Seq(Byte)) /\ Len(Summaries(acts)) = n
      /\ \A i \in 1 .. n : Summaries(acts)[i] = encode_summary(acts[i])
  BY <1>1, <1>3 DEF Summaries
<1>5. Lens(Summaries(acts)) \in [1 .. n -> Nat]
  BY <1>4 DEF Lens
<1>6. PICK b : Bounds(n, Lens(Summaries(acts)), b)
  BY <1>5, BoundsExist
<1>7. FlattenSeq(Summaries(acts)) \in Seq(Byte)
  BY <1>4, <1>6, FlattenIs DEF Made
<1>8. n % Base \in Byte
  BY BaseIs
<1>9. encode_batch_summary(acts) = << Len(acts) % Base >> \o FlattenSeq(Summaries(acts))
  BY DEF encode_batch_summary, Summaries
<1>10. \A x \in Byte, q \in Seq(Byte) : << x >> \o q \in Seq(Byte)
  OBVIOUS
<1> QED
  BY <1>1, <1>2, <1>4, <1>7, <1>8, <1>9, <1>10

\* Where the actions of a batch begin, and the reader's recursion.
Offsets(s, g) ==
  g = [i \in 0 .. s[1] |->
         IF i = 0 THEN 2
         ELSE LET at   == g[i - 1]
                  next == at + Head32 + s[at + Head32 - 1] * Int32
              IN  IF at = 0 \/ at + Head32 - 1 > Len(s) THEN 0
                  ELSE IF next > Len(s) + 1 THEN 0 ELSE next]

LEMMA OffsetsAgree ==
  ASSUME NEW s, NEW f, NEW g, Offsets(s, f), Offsets(s, g), s[1] \in Nat
  PROVE  \A i \in 0 .. s[1] : f[i] = g[i]
<1> DEFINE T == {k \in Nat : k <= s[1] => f[k] = g[k]}
<1>1. 0 \in T
  BY DEF Offsets
<1>2. ASSUME NEW k \in Nat, k \in T
      PROVE  k + 1 \in T
  <2> SUFFICES ASSUME k + 1 <= s[1]
               PROVE  f[k + 1] = g[k + 1]
    OBVIOUS
  <2>1. k + 1 \in 0 .. s[1] /\ k + 1 # 0 /\ (k + 1) - 1 = k /\ f[k] = g[k]
    BY <1>2
  <2> QED
    BY <2>1 DEF Offsets
<1>3. Nat \subseteq T
  <2> HIDE DEF T
  <2> QED
    BY <1>1, <1>2, Induct
<1> QED
  BY <1>3

\* A batch whose counts fit their bytes is read.
LEMMA BatchRead ==
  ASSUME NEW acts \in Seq(Action), Len(acts) < Base,
         \A i \in 1 .. Len(acts) : Len(acts[i].flips) < Base,
         NEW s \in Seq(Byte), Carries(s, 1, encode_batch_summary(acts))
  PROVE  s[1] = Len(acts) /\ decode_batch_summary(s) = [kind |-> "batch", actions |-> acts]
<1>1. PICK n \in Nat, ss \in Seq(Seq(Byte)), y \in Byte, f \in Seq(Byte) :
        /\ n = Len(acts) /\ ss = Summaries(acts) /\ y = Len(acts) % Base /\ f = FlattenSeq(ss)
        /\ Len(ss) = n /\ \A i \in 1 .. n : ss[i] = encode_summary(acts[i]) /\ acts[i] \in Action
  <2>1. Len(acts) \in Nat
    OBVIOUS
  <2> QED
    BY <2>1, BatchIs, Zenon
<1>2. Carries(s, 1, << y >>) /\ Carries(s, 2, f)
  <2>1. PICK t \in Seq(Byte) : t = << y >> /\ Len(t) = 1
    BY ByteSeq, Zenon
  <2>2. Carries(s, 1, t \o f)
    BY <1>1, <2>1, BatchIs
  <2>3. Carries(s, 1, t) /\ Carries(s, 1 + Len(t), f)
    BY <2>2, CarriesBoth
  <2>4. 1 + Len(t) = 2
    BY <2>1
  <2> QED
    BY <2>1, <2>3, <2>4
<1>3. s[1] = n
  <2>1. s[1] = y
    BY <1>2, CarriesOne
  <2>2. n % Base = n
    BY <1>1, BaseIs, ModSmall
  <2> QED
    BY <1>1, <2>1, <2>2
<1>4. PICK b : Bounds(n, Lens(ss), b)
  <2>1. Lens(ss) \in [1 .. n -> Nat]
    BY <1>1 DEF Lens
  <2> QED
    BY <2>1, BoundsExist
<1>5. /\ b[0] = 0 /\ \A i \in 0 .. n : b[i] \in Nat
      /\ \A i \in 1 .. n : b[i] = b[i - 1] + Len(ss[i])
  BY <1>1, <1>4 DEF Bounds, Lens
<1>6. ASSUME NEW i \in 1 .. n
      PROVE  /\ Carries(s, 2 + b[i - 1], encode_summary(acts[i]))
             /\ decode_sub_summary(s, 2 + b[i - 1]) = acts[i]
             /\ s[(2 + b[i - 1]) + Head32 - 1] = Len(acts[i].flips)
             /\ Len(ss[i]) = Head32 + Len(acts[i].flips) * Int32
  <2>1. Carries(s, 2 + b[i - 1], ss[i])
    BY <1>1, <1>2, <1>4, CarriesFlat
  <2>2. acts[i] \in Action /\ ss[i] = encode_summary(acts[i]) /\ Len(acts[i].flips) < Base
    BY <1>1
  <2> QED
    BY <2>1, <2>2, ActionRead, SummaryIs, SMTT(30)
<1> DEFINE g == [i \in 0 .. s[1] |-> 2 + b[i]]
<1>o. ASSUME NEW i \in 0 .. n
      PROVE  g[i] = 2 + b[i] /\ g[i] \in Nat /\ b[i] \in Nat
  <2>1. i \in 0 .. s[1]
    BY <1>3
  <2>2. b[i] \in Nat
    BY <1>5, Zenon
  <2> QED
    BY <2>1, <2>2
<1>7. ASSUME NEW i \in 1 .. n
      PROVE  LET at   == g[i - 1]
                 next == at + Head32 + s[at + Head32 - 1] * Int32
             IN  /\ at # 0 /\ at + Head32 - 1 <= Len(s)
                 /\ next <= Len(s) + 1 /\ next = g[i]
  <2>1. PICK at \in Nat, l \in Nat, m \in Nat, L \in Nat, h \in Nat, w \in Nat :
          /\ at = 2 + b[i - 1] /\ l = Len(acts[i].flips) * Int32 /\ m = Len(ss[i])
          /\ L = Len(s) /\ h = Head32 /\ w = Len(acts[i].flips)
    <3>1. i - 1 \in 0 .. n /\ acts[i] \in Action /\ ss[i] \in Seq(Byte)
      BY <1>1
    <3>2. 2 + b[i - 1] \in Nat
      BY <1>5, <3>1
    <3>3. Len(acts[i].flips) \in Nat
      BY <3>1, ActionIs, SMTT(30)
    <3>4. Len(acts[i].flips) * Int32 \in Nat
      BY <3>3, Widths
    <3>5. Len(ss[i]) \in Nat /\ Len(s) \in Nat /\ Head32 \in Nat
      BY <3>1, Widths
    <3> QED
      BY <3>2, <3>3, <3>4, <3>5, Zenon
  <2>2. i - 1 \in 0 .. s[1] /\ i \in 0 .. s[1]
    BY <1>3
  <2>3. g[i - 1] = at /\ g[i] = 2 + b[i]
    BY <2>1, <2>2
  <2>4. m = h + l /\ s[at + h - 1] * Int32 = l /\ h >= 1
    <3>1. Head32 >= 1
      BY Widths
    <3> QED
      BY <1>6, <2>1, <3>1
  <2>5. at + m <= L + 1 /\ at # 0
    BY <1>6, <1>1, <2>1 DEF Carries
  <2>6. b[i] = b[i - 1] + m /\ b[i - 1] \in Nat
    BY <1>3, <1>5, <2>1, <2>2
  <2>7. at + h + l = 2 + b[i] /\ at + h - 1 <= L /\ at + h + l <= L + 1
    <3>1. PICK p \in Nat : p = b[i - 1]
      BY <2>6
    <3>2. b[i] = p + m /\ at = 2 + p /\ m = h + l /\ at + m <= L + 1
      BY <2>1, <2>4, <2>5, <2>6, <3>1
    <3> QED
      BY ONLY <3>2, at \in Nat, p \in Nat, m \in Nat, h \in Nat, l \in Nat, L \in Nat
  <2> HIDE DEF g
  <2> QED
    BY <2>1, <2>3, <2>4, <2>5, <2>7
<1>8. Offsets(s, g)
  <2>1. g[0] = 2
    BY <1>3, <1>5
  <2>2. g = [i \in 0 .. s[1] |-> g[i]]
    OBVIOUS
  <2>3. ASSUME NEW i \in 0 .. s[1]
        PROVE  g[i] = IF i = 0 THEN 2
                      ELSE LET at   == g[i - 1]
                               next == at + Head32 + s[at + Head32 - 1] * Int32
                           IN  IF at = 0 \/ at + Head32 - 1 > Len(s) THEN 0
                               ELSE IF next > Len(s) + 1 THEN 0 ELSE next
    <3> HIDE DEF g
    <3>1. CASE i = 0
      BY <2>1, <3>1
    <3>2. CASE i # 0
      <4>1. i \in 1 .. n /\ i - 1 \in 0 .. n /\ i \in 0 .. n
        BY <1>3, <3>2
      <4>2. g[i - 1] \in Nat /\ g[i] \in Nat
        BY <1>o, <4>1, Zenon
      <4>3. PICK at \in Nat, next \in Nat, L \in Nat, h \in Nat :
              /\ at = g[i - 1] /\ L = Len(s) /\ h = Head32 /\ next = g[i]
              /\ next = at + Head32 + s[at + Head32 - 1] * Int32
              /\ at # 0 /\ at + h - 1 <= L /\ next <= L + 1
        <5>1. Len(s) \in Nat /\ Head32 \in Nat
          BY Widths
        <5>2. /\ g[i] = g[i - 1] + Head32 + s[g[i - 1] + Head32 - 1] * Int32
              /\ g[i - 1] # 0 /\ g[i - 1] + Head32 - 1 <= Len(s) /\ g[i] <= Len(s) + 1
          BY <1>7, <4>1
        <5> QED
          BY <4>2, <5>1, <5>2, Zenon
      <4>4. ~(at + h - 1 > L) /\ ~(next > L + 1)
        BY <4>3
      <4> QED
        BY <3>2, <4>3, <4>4, SMTT(30)
    <3> QED
      BY <3>1, <3>2
  <2> HIDE DEF g
  <2> QED
    BY <2>2, <2>3 DEF Offsets
<1> DEFINE offset == CHOOSE h : Offsets(s, h)
<1>9. Offsets(s, offset)
  <2> HIDE DEF g
  <2> QED
    BY <1>8
<1>10. ASSUME NEW i \in 0 .. n
       PROVE  offset[i] = 2 + b[i] /\ offset[i] # 0
  <2> HIDE DEF offset, g
  <2>1. offset[i] = g[i]
    BY <1>3, <1>8, <1>9, OffsetsAgree, SMTT(30)
  <2>2. g[i] = 2 + b[i] /\ b[i] \in Nat
    BY <1>o, Zenon
  <2> QED
    BY <2>1, <2>2
<1>11. decode_batch_summary(s) =
         IF offset[s[1]] = 0 THEN Garbage
         ELSE [kind |-> "batch",
               actions |-> [i \in 1 .. s[1] |-> decode_sub_summary(s, offset[i - 1])]]
  BY DEF decode_batch_summary, Offsets
<1> HIDE DEF offset, g
<1>12. offset[s[1]] # 0
  BY <1>3, <1>10
<1>13. [i \in 1 .. s[1] |-> decode_sub_summary(s, offset[i - 1])] = acts
  <2>1. ASSUME NEW i \in 1 .. n
        PROVE  decode_sub_summary(s, offset[i - 1]) = acts[i]
    <3>1. i - 1 \in 0 .. n
      OBVIOUS
    <3> QED
      BY <1>6, <1>10, <3>1
  <2>2. acts = [i \in 1 .. n |-> acts[i]]
    BY <1>1
  <2> QED
    BY <1>3, <2>1, <2>2
<1> QED
  BY <1>1, <1>3, <1>11, <1>12, <1>13

-----------------------------------------------------------------------------
(***************************************************************************)
(* Full updates.                                                           *)
(***************************************************************************)
\* The names and widths of n fields.
Fields(fields, n) ==
  /\ Len(fields) = n /\ DOMAIN fields = 1 .. n
  /\ \A i \in 1 .. n : fields[i][2] \in Nat
  /\ \A i, j \in 1 .. n : fields[i][1] = fields[j][1] => i = j

LEMMA FieldsAre == Fields(OthelloFields, 4) /\ Fields(FilterFields, 12)
<1>1. Fields(OthelloFields, 4)
  <2>1. Len(OthelloFields) = 4 /\ DOMAIN OthelloFields = 1 .. 4
    BY DEF OthelloFields
  <2>2. /\ OthelloFields[1][1] = "ma" /\ OthelloFields[2][1] = "mb"
        /\ OthelloFields[3][1] = "hab" /\ OthelloFields[4][1] = "hd"
    BY DEF OthelloFields
  <2>3. \A i \in 1 .. 4 : i \in {1, 2, 3, 4}
    OBVIOUS
  <2>4. \A i \in 1 .. 4 : OthelloFields[i][2] \in {Int32, Int64}
    BY <2>3 DEF OthelloFields
  <2>5. \A i, j \in 1 .. 4 : OthelloFields[i][1] = OthelloFields[j][1] => i = j
    BY <2>2, <2>3
  <2> QED
    BY <2>1, <2>4, <2>5, Widths DEF Fields
<1>2. Fields(FilterFields, 12)
  <2>1. Len(FilterFields) = 12 /\ DOMAIN FilterFields = 1 .. 12
    BY DEF FilterFields
  <2>2. /\ FilterFields[1][1] = "n" /\ FilterFields[2][1] = "m"
        /\ FilterFields[3][1] = "filled_cell" /\ FilterFields[4][1] = "max_kick_steps"
        /\ FilterFields[5][1] = "max_2_power" /\ FilterFields[6][1] = "big_seg"
        /\ FilterFields[7][1] = "isSmall" /\ FilterFields[8][1] = "len0"
        /\ FilterFields[9][1] = "len1" /\ FilterFields[10][1] = "len2"
        /\ FilterFields[11][1] = "len3" /\ FilterFields[12][1] = "fp_len"
    BY DEF FilterFields
  <2>3. \A i \in 1 .. 12 : i \in {1, 2, 3, 4, 5, 6, 7, 8, 9, 10, 11, 12}
    OBVIOUS
  <2>4. \A i \in 1 .. 12 : FilterFields[i][2] \in {1, Int32, Int64}
    BY <2>3 DEF FilterFields
  <2>5. \A i, j \in 1 .. 12 : FilterFields[i][1] = FilterFields[j][1] => i = j
    BY <2>2, <2>3
  <2> QED
    BY <2>1, <2>4, <2>5, Widths DEF Fields
<1> QED
  BY <1>1, <1>2

FieldLens(fields, n) == [i \in 1 .. n |-> fields[i][2]]

LEMMA WidthIs ==
  ASSUME NEW fields, NEW n \in Nat, Fields(fields, n),
         NEW b, Bounds(n, FieldLens(fields, n), b), NEW m \in 0 .. n
  PROVE  Width(fields, m) = b[m]
<1> DEFINE eqn(f) == [i \in 0 .. m |-> IF i = 0 THEN 0 ELSE f[i - 1] + fields[i][2]]
           g == [i \in 0 .. m |-> b[i]]
<1>1. ASSUME NEW i \in 1 .. m
      PROVE  g[i] = g[i - 1] + fields[i][2]
  <2>1. i \in 1 .. n /\ i \in 0 .. m /\ i - 1 \in 0 .. m
    OBVIOUS
  <2> QED
    BY <2>1 DEF Bounds, FieldLens
<1>2. g[0] = 0
  BY DEF Bounds
<1>3. g = eqn(g)
  <2>1. g = [i \in 0 .. m |-> g[i]]
    OBVIOUS
  <2>2. \A i \in 0 .. m : i = 0 \/ i \in 1 .. m
    OBVIOUS
  <2> HIDE DEF g
  <2> QED
    BY <1>1, <1>2, <2>1, <2>2
<1>4. g[m] = b[m]
  OBVIOUS
<1> HIDE DEF g
<1> DEFINE width == CHOOSE f : f = eqn(f)
<1>5. width = eqn(width)
  <2> HIDE DEF eqn
  <2> QED
    BY <1>3
<1>6. Width(fields, m) = width[m]
  BY DEF Width
<1> HIDE DEF width
<1>7. width[0] = g[0]
  BY <1>2, <1>5
<1>8. ASSUME NEW i \in 1 .. m
      PROVE  width[i - 1] = g[i - 1] => width[i] = g[i]
  <2>1. i \in 0 .. m /\ i # 0
    OBVIOUS
  <2>2. width[i] = width[i - 1] + fields[i][2]
    BY <1>5, <2>1
  <2> QED
    BY <1>1, <2>2
<1>9. m \in Nat
  OBVIOUS
<1>10. width[m] = g[m]
  BY <1>7, <1>8, <1>9, SameValues
<1> QED
  BY <1>4, <1>6, <1>10

\* Fields are read by their names, wherever they are.
LEMMA FieldsIs ==
  ASSUME NEW fields, NEW n \in Nat, Fields(fields, n), NEW r, Filled(r, fields)
  PROVE  /\ EncodeFields(r, fields) \in Seq(Byte)
         /\ Len(EncodeFields(r, fields)) = Width(fields, n) /\ Width(fields, n) \in Nat
         /\ \A at : \A s \in Seq(Byte) :
              Carries(s, at, EncodeFields(r, fields)) => DecodeFields(s, at, fields) = r
<1> DEFINE part(i) == split_uint_t(r[fields[i][1]], fields[i][2])
           ss == [i \in DOMAIN fields |-> part(i)]
<1>1. DOMAIN fields = 1 .. n /\ \A i \in 1 .. n : fields[i][2] \in Nat
  BY DEF Fields
<1>2. \A i \in 1 .. n : /\ r[fields[i][1]] \in Uint(fields[i][2]) /\ r[fields[i][1]] \in Nat
  BY <1>1, Widths DEF Filled
<1>3. ASSUME NEW i \in 1 .. n
      PROVE  part(i) \in Seq(Byte) /\ Len(part(i)) = fields[i][2]
  BY <1>1, <1>2, SplitIs
<1> HIDE DEF part
<1>4. ss \in Seq(Seq(Byte)) /\ Len(ss) = n /\ \A i \in 1 .. n : ss[i] = part(i)
  BY <1>1, <1>3, SMTT(30)
<1>5. EncodeFields(r, fields) = FlattenSeq(ss)
  BY DEF EncodeFields, part
<1> HIDE DEF ss
<1>6. Lens(ss) = FieldLens(fields, n) /\ FieldLens(fields, n) \in [1 .. n -> Nat]
  BY <1>1, <1>3, <1>4 DEF Lens, FieldLens
<1>7. PICK b : Bounds(n, Lens(ss), b)
  BY <1>6, BoundsExist
<1>8. Made(Byte, FlattenSeq(ss), ss, b, n)
  BY <1>4, <1>7, FlattenIs
<1>9. FlattenSeq(ss) \in Seq(Byte) /\ Len(FlattenSeq(ss)) = b[n] /\ b[n] \in Nat
  BY <1>7, <1>8 DEF Made, Bounds
<1>10. \A i \in 0 .. n : Width(fields, i) = b[i]
  BY <1>6, <1>7, WidthIs
<1>11. ASSUME NEW s \in Seq(Byte), NEW at, Carries(s, at, FlattenSeq(ss))
       PROVE  DecodeFields(s, at, fields) = r
  <2> DEFINE index(name) == CHOOSE j \in DOMAIN fields : fields[j][1] = name
             value(i) == combine_chars(s, at + Width(fields, i - 1), fields[i][2])
  <2>1. ASSUME NEW i \in 1 .. n
        PROVE  value(i) = r[fields[i][1]]
    <3>1. Carries(s, at + b[i - 1], part(i))
      BY <1>4, <1>7, <1>11, CarriesFlat
    <3>2. i - 1 \in 0 .. n
      OBVIOUS
    <3>3. Carries(s, at + Width(fields, i - 1), part(i))
      BY <1>10, <3>1, <3>2
    <3> QED
      BY <1>1, <1>2, <3>3, CombineIs DEF part
  <2> HIDE DEF value
  <2>2. ASSUME NEW name \in Names(fields)
        PROVE  value(index(name)) = r[name]
    <3>1. \E j \in DOMAIN fields : fields[j][1] = name
      BY DEF Names
    <3>2. index(name) \in DOMAIN fields /\ fields[index(name)][1] = name
      BY <3>1
    <3> HIDE DEF index
    <3> QED
      BY <1>1, <2>1, <3>2
  <2>3. DecodeFields(s, at, fields) = [name \in Names(fields) |-> value(index(name))]
    BY DEF DecodeFields, value
  <2> HIDE DEF index
  <2>4. r = [name \in Names(fields) |-> r[name]]
    BY DEF Filled
  <2> QED
    BY <2>2, <2>3, <2>4
<1> QED
  BY <1>5, <1>9, <1>10, <1>11

\* Nine parts, one after the other.
Placed(s, p1, p2, p3, p4, p5, p6, p7, p8, p9) ==
  LET o2 == 1 + Len(p1)
      o3 == o2 + Len(p2)
      o4 == o3 + Len(p3)
      o5 == o4 + Len(p4)
      o6 == o5 + Len(p5)
      o7 == o6 + Len(p6)
      o8 == o7 + Len(p7)
      o9 == o8 + Len(p8)
  IN  /\ Carries(s, 1, p1) /\ Carries(s, o2, p2) /\ Carries(s, o3, p3)
      /\ Carries(s, o4, p4) /\ Carries(s, o5, p5) /\ Carries(s, o6, p6)
      /\ Carries(s, o7, p7) /\ Carries(s, o8, p8) /\ Carries(s, o9, p9)

LEMMA Pieces ==
  ASSUME NEW s \in Seq(Byte), NEW p1 \in Seq(Byte), NEW p2 \in Seq(Byte), NEW p3 \in Seq(Byte),
         NEW p4 \in Seq(Byte), NEW p5 \in Seq(Byte), NEW p6 \in Seq(Byte), NEW p7 \in Seq(Byte),
         NEW p8 \in Seq(Byte), NEW p9 \in Seq(Byte),
         Carries(s, 1, p1 \o p2 \o p3 \o p4 \o p5 \o p6 \o p7 \o p8 \o p9)
  PROVE  Placed(s, p1, p2, p3, p4, p5, p6, p7, p8, p9)
<1> DEFINE t2 == p1 \o p2
           t3 == t2 \o p3
           t4 == t3 \o p4
           t5 == t4 \o p5
           t6 == t5 \o p6
           t7 == t6 \o p7
           t8 == t7 \o p8
           t9 == t8 \o p9
<1>1. \A p, q \in Seq(Byte) : p \o q \in Seq(Byte) /\ Len(p \o q) = Len(p) + Len(q)
  OBVIOUS
<1>2. t2 \in Seq(Byte) /\ Len(t2) = Len(p1) + Len(p2)
  BY <1>1
<1>3. t3 \in Seq(Byte) /\ Len(t3) = Len(t2) + Len(p3)
  <2> HIDE DEF t2
  <2> QED
    BY <1>1, <1>2
<1>4. t4 \in Seq(Byte) /\ Len(t4) = Len(t3) + Len(p4)
  <2> HIDE DEF t3
  <2> QED
    BY <1>1, <1>3
<1>5. t5 \in Seq(Byte) /\ Len(t5) = Len(t4) + Len(p5)
  <2> HIDE DEF t4
  <2> QED
    BY <1>1, <1>4
<1>6. t6 \in Seq(Byte) /\ Len(t6) = Len(t5) + Len(p6)
  <2> HIDE DEF t5
  <2> QED
    BY <1>1, <1>5
<1>7. t7 \in Seq(Byte) /\ Len(t7) = Len(t6) + Len(p7)
  <2> HIDE DEF t6
  <2> QED
    BY <1>1, <1>6
<1>8. t8 \in Seq(Byte) /\ Len(t8) = Len(t7) + Len(p8)
  <2> HIDE DEF t7
  <2> QED
    BY <1>1, <1>7
<1>9. Carries(s, 1, t9)
  OBVIOUS
<1>10. Carries(s, 1, t8) /\ Carries(s, 1 + Len(t8), p9)
  <2> HIDE DEF t8
  <2> QED
    BY <1>8, <1>9, CarriesBoth
<1>11. Carries(s, 1, t7) /\ Carries(s, 1 + Len(t7), p8)
  <2> HIDE DEF t7
  <2> QED
    BY <1>7, <1>10, CarriesBoth
<1>12. Carries(s, 1, t6) /\ Carries(s, 1 + Len(t6), p7)
  <2> HIDE DEF t6
  <2> QED
    BY <1>6, <1>11, CarriesBoth
<1>13. Carries(s, 1, t5) /\ Carries(s, 1 + Len(t5), p6)
  <2> HIDE DEF t5
  <2> QED
    BY <1>5, <1>12, CarriesBoth
<1>14. Carries(s, 1, t4) /\ Carries(s, 1 + Len(t4), p5)
  <2> HIDE DEF t4
  <2> QED
    BY <1>4, <1>13, CarriesBoth
<1>15. Carries(s, 1, t3) /\ Carries(s, 1 + Len(t3), p4)
  <2> HIDE DEF t3
  <2> QED
    BY <1>3, <1>14, CarriesBoth
<1>16. Carries(s, 1, t2) /\ Carries(s, 1 + Len(t2), p3)
  <2> HIDE DEF t2
  <2> QED
    BY <1>2, <1>15, CarriesBoth
<1>17. Carries(s, 1, p1) /\ Carries(s, 1 + Len(p1), p2)
  BY <1>16, CarriesBoth
<1> DEFINE l1 == Len(p1)
           l2 == Len(t2)
           l3 == Len(t3)
           l4 == Len(t4)
           l5 == Len(t5)
           l6 == Len(t6)
           l7 == Len(t7)
           l8 == Len(t8)
<1>18. /\ l1 \in Nat /\ l2 \in Nat /\ l3 \in Nat /\ l4 \in Nat /\ l5 \in Nat /\ l6 \in Nat
       /\ l7 \in Nat /\ l8 \in Nat /\ Len(p2) \in Nat /\ Len(p3) \in Nat /\ Len(p4) \in Nat
       /\ Len(p5) \in Nat /\ Len(p6) \in Nat /\ Len(p7) \in Nat /\ Len(p8) \in Nat
  <2> HIDE DEF t2, t3, t4, t5, t6, t7, t8
  <2>1. \A p \in Seq(Byte) : Len(p) \in Nat
    OBVIOUS
  <2> QED
    BY <2>1, <1>2, <1>3, <1>4, <1>5, <1>6, <1>7, <1>8
<1>19. /\ l2 = l1 + Len(p2) /\ l3 = l2 + Len(p3) /\ l4 = l3 + Len(p4) /\ l5 = l4 + Len(p5)
       /\ l6 = l5 + Len(p6) /\ l7 = l6 + Len(p7) /\ l8 = l7 + Len(p8)
  <2> HIDE DEF t2, t3, t4, t5, t6, t7, t8
  <2> QED
    BY <1>2, <1>3, <1>4, <1>5, <1>6, <1>7, <1>8
<1>20. /\ Carries(s, 1, p1) /\ Carries(s, 1 + l1, p2) /\ Carries(s, 1 + l2, p3)
       /\ Carries(s, 1 + l3, p4) /\ Carries(s, 1 + l4, p5) /\ Carries(s, 1 + l5, p6)
       /\ Carries(s, 1 + l6, p7) /\ Carries(s, 1 + l7, p8) /\ Carries(s, 1 + l8, p9)
  <2> HIDE DEF t2, t3, t4, t5, t6, t7, t8
  <2> QED
    BY <1>10, <1>11, <1>12, <1>13, <1>14, <1>15, <1>16, <1>17
<1> DEFINE m1 == Len(p1)
           m2 == Len(p2)
           m3 == Len(p3)
           m4 == Len(p4)
           m5 == Len(p5)
           m6 == Len(p6)
           m7 == Len(p7)
           m8 == Len(p8)
<1>21. /\ m1 = l1 /\ m1 \in Nat /\ m2 \in Nat /\ m3 \in Nat /\ m4 \in Nat /\ m5 \in Nat
       /\ m6 \in Nat /\ m7 \in Nat /\ m8 \in Nat
       /\ l2 = l1 + m2 /\ l3 = l2 + m3 /\ l4 = l3 + m4 /\ l5 = l4 + m5
       /\ l6 = l5 + m6 /\ l7 = l6 + m7 /\ l8 = l7 + m8
  BY <1>18, <1>19
<1> HIDE DEF m1, m2, m3, m4, m5, m6, m7, m8, l1, l2, l3, l4, l5, l6, l7, l8
<1>22. /\ 1 + m1 = 1 + l1 /\ (1 + m1) + m2 = 1 + l2 /\ ((1 + m1) + m2) + m3 = 1 + l3
       /\ 1 + m1 + m2 + m3 + m4 = 1 + l4 /\ 1 + m1 + m2 + m3 + m4 + m5 = 1 + l5
       /\ 1 + m1 + m2 + m3 + m4 + m5 + m6 = 1 + l6
       /\ 1 + m1 + m2 + m3 + m4 + m5 + m6 + m7 = 1 + l7
       /\ 1 + m1 + m2 + m3 + m4 + m5 + m6 + m7 + m8 = 1 + l8
  BY ONLY <1>21
<1>23. /\ Carries(s, 1, p1) /\ Carries(s, 1 + m1, p2) /\ Carries(s, 1 + m1 + m2, p3)
       /\ Carries(s, 1 + m1 + m2 + m3, p4) /\ Carries(s, 1 + m1 + m2 + m3 + m4, p5)
       /\ Carries(s, 1 + m1 + m2 + m3 + m4 + m5, p6)
       /\ Carries(s, 1 + m1 + m2 + m3 + m4 + m5 + m6, p7)
       /\ Carries(s, 1 + m1 + m2 + m3 + m4 + m5 + m6 + m7, p8)
       /\ Carries(s, 1 + m1 + m2 + m3 + m4 + m5 + m6 + m7 + m8, p9)
  BY <1>20, <1>22
<1> QED
  BY ONLY <1>23 DEF Placed, m1, m2, m3, m4, m5, m6, m7, m8

LEMMA CarriesCut ==
  ASSUME NEW S, NEW s \in Seq(S), NEW t \in Seq(S), NEW at, Carries(s, at, t)
  PROVE  SubSeq(s, at, at + Len(t) - 1) = t
<1>1. PICK o \in Nat, n \in Nat : at = o /\ n = Len(t) /\ o # 0
  BY DEF Carries
<1>2. \A j \in 1 .. n : s[o + j - 1] = t[j]
  BY <1>1 DEF Carries
<1> DEFINE q == SubSeq(s, o, o + n - 1)
<1>3. Len(q) = n /\ DOMAIN q = 1 .. n /\ \A j \in 1 .. n : q[j] = s[o + j - 1]
  BY <1>1
<1>4. q \in Seq(S)
  <2>1. o + n - 1 <= Len(s)
    BY <1>1 DEF Carries
  <2> QED
    BY <1>1, <2>1
<1> HIDE DEF q
<1>5. q = t
  BY <1>1, <1>2, <1>3, <1>4, SMTT(30)
<1> QED
  BY <1>1, <1>5 DEF q

LEMMA FullIs ==
  ASSUME NEW u, Full(u)
  PROVE  /\ u = [kind |-> "full", mem |-> u.mem, othello |-> u.othello, e |-> u.e,
                 vf |-> u.vf, memory_consumption |-> u.memory_consumption, T |-> u.T]
         /\ u.mem \in Seq(Uint(Int64)) /\ u.mem \in Seq(Nat) /\ Len(u.mem) \in Uint(Int32)
         /\ u.e \in Seq(Byte) /\ Len(u.e) \in Uint(Int32)
         /\ u.memory_consumption \in Uint(Int64) /\ u.memory_consumption \in Nat
         /\ u.T \in Seq(Uint(Int32)) /\ u.T \in Seq(Nat)
         /\ Len(u.T) = u.memory_consumption \div Int32
         /\ SubSeq(u.T, 1, u.memory_consumption \div Int32) = u.T
         /\ Filled(u.othello, OthelloFields) /\ Filled(u.vf, FilterFields)
<1>1. SubSeq(u.T, 1, Len(u.T)) = u.T
  BY DEF Full
<1>2. u.mem \in Seq(Nat) /\ u.T \in Seq(Nat)
  BY Widths DEF Full
<1> QED
  BY <1>1, <1>2, Widths DEF Full

\* Every part of a full update is read where it was written.
LEMMA FullRead ==
  ASSUME NEW u, Full(u)
  PROVE  /\ encode_full(u) \in Seq(Byte)
         /\ \A s \in Seq(Byte) :
              Carries(s, 1, encode_full(u)) => s[1] = Marker /\ decode_full(s) = u
<1> DEFINE m  == u.memory_consumption
           p1 == << Marker >>
           p2 == split_uint_t(Len(u.mem), Int32)
           p3 == split_uint_t_vector(u.mem, Int64)
           p4 == EncodeFields(u.othello, OthelloFields)
           p5 == split_uint_t(m, Int64)
           p6 == split_uint_t(Len(u.e), Int32)
           p7 == u.e
           p8 == EncodeFields(u.vf, FilterFields)
           p9 == split_uint_t_vector(u.T, Int32)
           wo == Width(OthelloFields, 4)
           wf == Width(FilterFields, 12)
<1>1. p1 \in Seq(Byte) /\ Len(p1) = 1
  BY ByteSeq, FramingAssumption
<1>2. p2 \in Seq(Byte) /\ Len(p2) = Int32
  BY FullIs, SplitIs, Widths
<1>3. p3 \in Seq(Byte) /\ Len(p3) = Len(u.mem) * Int64
  BY FullIs, SplitVectorIs, Widths
<1>4. p4 \in Seq(Byte) /\ Len(p4) = wo /\ wo \in Nat
  BY FullIs, FieldsAre, FieldsIs
<1>5. p5 \in Seq(Byte) /\ Len(p5) = Int64
  BY FullIs, SplitIs, Widths
<1>6. p6 \in Seq(Byte) /\ Len(p6) = Int32
  BY FullIs, SplitIs, Widths
<1>7. p7 \in Seq(Byte) /\ Len(p7) = Len(u.e)
  BY FullIs
<1>8. p8 \in Seq(Byte) /\ Len(p8) = wf /\ wf \in Nat
  BY FullIs, FieldsAre, FieldsIs
<1>9. p9 \in Seq(Byte) /\ Len(p9) = Len(u.T) * Int32
  BY FullIs, SplitVectorIs, Widths
<1>10. encode_full(u) = p1 \o p2 \o p3 \o p4 \o p5 \o p6 \o p7 \o p8 \o p9
  BY FullIs DEF encode_full
<1>11. encode_full(u) \in Seq(Byte)
  <2>1. \A p, q \in Seq(Byte) : p \o q \in Seq(Byte)
    OBVIOUS
  <2> HIDE DEF p1, p2, p3, p4, p5, p6, p7, p8, p9
  <2> QED
    BY <1>1, <1>2, <1>3, <1>4, <1>5, <1>6, <1>7, <1>8, <1>9, <1>10, <2>1
<1>12. ASSUME NEW s \in Seq(Byte), Carries(s, 1, encode_full(u))
       PROVE  s[1] = Marker /\ decode_full(s) = u
  <2> DEFINE o2 == 1 + Len(p1)
             o3 == o2 + Len(p2)
             o4 == o3 + Len(p3)
             o5 == o4 + Len(p4)
             o6 == o5 + Len(p5)
             o7 == o6 + Len(p6)
             o8 == o7 + Len(p7)
             o9 == o8 + Len(p8)
  <2>1. /\ Carries(s, 1, p1) /\ Carries(s, o2, p2) /\ Carries(s, o3, p3)
        /\ Carries(s, o4, p4) /\ Carries(s, o5, p5) /\ Carries(s, o6, p6)
        /\ Carries(s, o7, p7) /\ Carries(s, o8, p8) /\ Carries(s, o9, p9)
    <3> HIDE DEF p1, p2, p3, p4, p5, p6, p7, p8, p9
    <3>1. Carries(s, 1, p1 \o p2 \o p3 \o p4 \o p5 \o p6 \o p7 \o p8 \o p9)
      BY <1>10, <1>12
    <3>2. /\ p1 \in Seq(Byte) /\ p2 \in Seq(Byte) /\ p3 \in Seq(Byte) /\ p4 \in Seq(Byte)
          /\ p5 \in Seq(Byte) /\ p6 \in Seq(Byte) /\ p7 \in Seq(Byte) /\ p8 \in Seq(Byte)
          /\ p9 \in Seq(Byte)
      BY <1>1, <1>2, <1>3, <1>4, <1>5, <1>6, <1>7, <1>8, <1>9
    <3>3. Placed(s, p1, p2, p3, p4, p5, p6, p7, p8, p9)
      BY <3>1, <3>2, Pieces, Zenon
    <3> QED
      BY <3>3 DEF Placed
  <2> DEFINE mem_size == combine_chars(s, 2, Int32)
             othello  == 2 + Int32 + mem_size * Int64
             memory   == othello + wo
             consumed == combine_chars(s, memory, Int64)
             e        == memory + Int64 + Int32
             ess      == combine_chars(s, memory + Int64, Int32)
             T        == e + ess + wf
             T_len    == consumed \div Int32
  <2>2. s[1] = Marker
    BY <2>1, CarriesOne
  <2>w. Int32 \in Nat /\ Int64 \in Nat
    BY Widths
  <2>3. o2 = 2 /\ mem_size = Len(u.mem)
    <3>1. o2 = 2
      BY <1>1
    <3>2. Carries(s, 2, split_uint_t(Len(u.mem), Int32))
      BY <2>1, <3>1
    <3>3. Len(u.mem) \in Uint(Int32)
      BY FullIs, Zenon
    <3>4. mem_size = Len(u.mem)
      BY <2>w, <3>2, <3>3, CombineIs, Zenon
    <3> QED
      BY <3>1, <3>4, Zenon
  <2>4. o3 = 2 + Int32
    BY <1>2, <2>3
  <2>5. combine_vector(s, 2 + Int32, mem_size, Int64) = u.mem
    <3>1. Carries(s, 2 + Int32, split_uint_t_vector(u.mem, Int64))
      BY <2>1, <2>4
    <3>2. u.mem \in Seq(Uint(Int64))
      BY FullIs, Zenon
    <3>3. combine_vector(s, 2 + Int32, Len(u.mem), Int64) = u.mem
      BY <2>w, <3>1, <3>2, CombineVectorIs, Zenon
    <3> QED
      BY <2>3, <3>3, Zenon
  <2>6. o4 = othello
    BY <1>3, <2>3, <2>4
  <2> HIDE DEF mem_size
  <2>7. DecodeFields(s, othello, OthelloFields) = u.othello
    <3>1. Filled(u.othello, OthelloFields) /\ Fields(OthelloFields, 4)
      BY FullIs, FieldsAre, Zenon
    <3>2. Carries(s, othello, EncodeFields(u.othello, OthelloFields))
      BY <2>1, <2>6
    <3>3. 4 \in Nat
      OBVIOUS
    <3> HIDE DEF othello
    <3> QED
      BY <3>1, <3>2, <3>3, FieldsIs, Zenon
  <2>8. o5 = memory
    BY <1>4, <2>6
  <2> HIDE DEF othello
  <2>9. consumed = m
    <3>1. Carries(s, memory, split_uint_t(m, Int64))
      BY <2>1, <2>8
    <3>2. m \in Uint(Int64)
      BY FullIs, Zenon
    <3> HIDE DEF memory
    <3> QED
      BY <2>w, <3>1, <3>2, CombineIs, Zenon
  <2>10. o6 = memory + Int64
    BY <1>5, <2>8
  <2>11. ess = Len(u.e)
    <3>1. Carries(s, memory + Int64, split_uint_t(Len(u.e), Int32))
      BY <2>1, <2>10
    <3>2. Len(u.e) \in Uint(Int32)
      BY FullIs, Zenon
    <3> HIDE DEF memory
    <3> QED
      BY <2>w, <3>1, <3>2, CombineIs, Zenon
  <2>12. o7 = e
    BY <1>6, <2>10
  <2> HIDE DEF memory, consumed
  <2>13. SubSeq(s, e, e + ess - 1) = u.e
    <3>1. Carries(s, e, u.e)
      BY <2>1, <2>12
    <3>2. u.e \in Seq(Byte)
      BY FullIs, Zenon
    <3> HIDE DEF e
    <3>3. SubSeq(s, e, e + Len(u.e) - 1) = u.e
      BY <3>1, <3>2, CarriesCut, Zenon
    <3> QED
      BY <2>11, <3>3, Zenon
  <2>14. o8 = e + ess
    BY <1>7, <2>11, <2>12
  <2> HIDE DEF ess, e
  <2>15. DecodeFields(s, e + ess, FilterFields) = u.vf
    <3>1. Filled(u.vf, FilterFields) /\ Fields(FilterFields, 12)
      BY FullIs, FieldsAre, Zenon
    <3>2. Carries(s, e + ess, EncodeFields(u.vf, FilterFields))
      BY <2>1, <2>14
    <3>3. 12 \in Nat
      OBVIOUS
    <3> QED
      BY <3>1, <3>2, <3>3, FieldsIs, Zenon
  <2>16. o9 = T
    BY <1>8, <2>14
  <2>17. T_len = Len(u.T)
    BY <2>9, FullIs
  <2> HIDE DEF T, T_len
  <2>18. combine_vector(s, T, T_len, Int32) = u.T
    <3>1. Carries(s, T, split_uint_t_vector(u.T, Int32))
      BY <2>1, <2>16
    <3> QED
      BY <2>17, <3>1, FullIs, Widths, CombineVectorIs
  <2>19. /\ o2 + Len(p2) <= Len(s) + 1 /\ o7 + Len(p7) <= Len(s) + 1
         /\ o8 + Len(p8) <= Len(s) + 1 /\ o9 + Len(p9) <= Len(s) + 1
         /\ o4 \in Nat /\ o7 \in Nat
    BY <2>1 DEF Carries
  <2> DEFINE Within(at, n) == at + n <= Len(s) + 1
  <2>20. /\ Within(2, Int32) /\ Within(othello, e - othello)
         /\ Within(e, ess + wf) /\ Within(T, T_len * Int32)
    <3>1. o2 + Len(p2) = 2 + Int32 /\ o9 + Len(p9) = T + T_len * Int32
      BY <1>2, <1>9, <2>3, <2>16, <2>17
    <3>2. o8 + Len(p8) = e + (ess + wf)
      <4>1. e \in Nat /\ ess \in Nat
        BY <1>7, <2>11, <2>12, <2>19
      <4>2. o8 + Len(p8) = (e + ess) + wf
        BY <1>8, <2>14
      <4> HIDE DEF o8, p8, wf
      <4> QED
        BY <1>8, <4>1, <4>2
    <3>3. othello + (e - othello) <= Len(s) + 1
      <4>1. PICK x \in Nat, y \in Nat : x = othello /\ y = e /\ y + Len(p7) <= Len(s) + 1
        BY <2>6, <2>12, <2>19
      <4>2. PICK l \in Nat : l = Len(p7)
        BY <1>7
      <4>3. y <= Len(s) + 1
        BY <4>1, <4>2
      <4> QED
        BY <4>1, <4>3
    <3> QED
      BY <2>19, <3>1, <3>2, <3>3
  <2>21. decode_full(s) =
           [kind |-> "full", mem |-> combine_vector(s, 2 + Int32, mem_size, Int64),
            othello |-> DecodeFields(s, othello, OthelloFields),
            memory_consumption |-> consumed, e |-> SubSeq(s, e, e + ess - 1),
            vf |-> DecodeFields(s, e + ess, FilterFields),
            T |-> combine_vector(s, T, T_len, Int32)]
    BY <2>20 DEF decode_full, mem_size, othello, memory, consumed, e, ess, T, T_len
  <2> QED
    BY <2>2, <2>5, <2>7, <2>9, <2>13, <2>15, <2>18, <2>21, FullIs
<1> QED
  BY <1>11, <1>12

-----------------------------------------------------------------------------
(***************************************************************************)
(* The end of a message.                                                   *)
(***************************************************************************)
LEMMA ReverseIs ==
  ASSUME NEW S, NEW w \in Seq(S)
  PROVE  /\ Reverse(w) \in Seq(S) /\ Len(Reverse(w)) = Len(w)
         /\ \A i \in 1 .. Len(w) : Reverse(w)[i] = w[Len(w) - i + 1]
<1>1. \A i \in 1 .. Len(w) : (Len(w) - i) + 1 \in 1 .. Len(w)
  OBVIOUS
<1> QED
  BY <1>1 DEF Reverse

LEMMA SuffixIs ==
  ASSUME NEW S, NEW w \in Seq(S), NEW p \in Seq(S)
  PROVE  IsSuffix(w, p) <=> /\ Len(w) <= Len(p)
                            /\ \A j \in 1 .. Len(w) : p[Len(p) - Len(w) + j] = w[j]
<1>1. PICK n \in Nat, m \in Nat : n = Len(w) /\ m = Len(p)
  OBVIOUS
<1> DEFINE a == Reverse(w)
           b == Reverse(p)
<1>2. a \in Seq(S) /\ Len(a) = n /\ \A i \in 1 .. n : a[i] = w[n - i + 1]
  BY <1>1, ReverseIs
<1>3. b \in Seq(S) /\ Len(b) = m /\ \A i \in 1 .. m : b[i] = p[m - i + 1]
  BY <1>1, ReverseIs
<1>4. IsSuffix(w, p) <=> n <= m /\ SubSeq(a, 1, n) = SubSeq(b, 1, n)
  BY <1>2, <1>3 DEF IsSuffix, IsPrefix
<1> HIDE DEF a, b
<1>5. CASE n <= m
  <2>1. Len(SubSeq(a, 1, n)) = n /\ \A i \in 1 .. n : SubSeq(a, 1, n)[i] = a[i]
    BY <1>2
  <2>2. Len(SubSeq(b, 1, n)) = n /\ \A i \in 1 .. n : SubSeq(b, 1, n)[i] = b[i]
    BY <1>3, <1>5
  <2>3. SubSeq(a, 1, n) \in Seq(S) /\ SubSeq(b, 1, n) \in Seq(S)
    BY <1>2, <1>3, <1>5
  <2>4. SubSeq(a, 1, n) = SubSeq(b, 1, n) <=> \A i \in 1 .. n : a[i] = b[i]
    BY <2>1, <2>2, <2>3
  <2>5. \A i \in 1 .. n : /\ i \in 1 .. m /\ n - i + 1 \in 1 .. n
                          /\ m - i + 1 = m - n + (n - i + 1)
                          /\ n - (n - i + 1) + 1 = i
    BY <1>5
  <2>6. (\A i \in 1 .. n : a[i] = b[i]) <=> \A i \in 1 .. n : w[n - i + 1] = p[m - i + 1]
    <3>1. \A i \in 1 .. n : a[i] = w[n - i + 1]
      BY <1>2
    <3>2. \A i \in 1 .. n : b[i] = p[m - i + 1]
      BY <1>3, <2>5
    <3>3. ASSUME \A i \in 1 .. n : a[i] = b[i], NEW i \in 1 .. n
          PROVE  w[n - i + 1] = p[m - i + 1]
      BY <3>1, <3>2, <3>3
    <3>4. ASSUME \A i \in 1 .. n : w[n - i + 1] = p[m - i + 1], NEW i \in 1 .. n
          PROVE  a[i] = b[i]
      BY <3>1, <3>2, <3>4
    <3> QED
      BY <3>3, <3>4
  <2>7. (\A i \in 1 .. n : w[n - i + 1] = p[m - i + 1])
          <=> \A j \in 1 .. n : p[m - n + j] = w[j]
    <3>1. ASSUME \A i \in 1 .. n : w[n - i + 1] = p[m - i + 1], NEW j \in 1 .. n
          PROVE  p[m - n + j] = w[j]
      <4>1. PICK i \in 1 .. n : i = n - j + 1
        BY <2>5
      <4>2. n - i + 1 = j /\ m - i + 1 = m - n + j
        BY <4>1
      <4> QED
        BY <3>1, <4>2
    <3>2. ASSUME \A j \in 1 .. n : p[m - n + j] = w[j], NEW i \in 1 .. n
          PROVE  w[n - i + 1] = p[m - i + 1]
      BY <2>5, <3>2
    <3> QED
      BY <3>1, <3>2
  <2> QED
    BY <1>1, <1>4, <1>5, <2>4, <2>6, <2>7
<1> QED
  BY <1>1, <1>4, <1>5

Sendable(u) == u \in [kind : {"batch"}, actions : Batches] \cup Fulls

LEMMA SentRead ==
  ASSUME NEW u, Sendable(u)
  PROVE  /\ Encoded(u) \in Seq(Byte) /\ Sent(u) \in Seq(Byte)
         /\ Sent(u) = Encoded(u) \o Word
         /\ Countable(u) => Dispatch(Sent(u)) = u
<1>1. Word \in Seq(Byte)
  BY FramingAssumption
<1>2. ASSUME Encoded(u) \in Seq(Byte)
      PROVE  Sent(u) \in Seq(Byte) /\ Carries(Sent(u), 1, Encoded(u))
  BY <1>1, <1>2, CarriesAll DEF Sent
<1>3. CASE u \in Fulls
  <2>1. Full(u) /\ u.kind = "full"
    BY <1>3, FramingAssumption DEF Full
  <2>2. Encoded(u) = encode_full(u)
    BY <2>1 DEF Encoded
  <2>3. Encoded(u) \in Seq(Byte)
    BY <2>1, <2>2, FullRead
  <2>4. Sent(u)[1] = Marker /\ decode_full(Sent(u)) = u
    BY <1>2, <2>1, <2>2, <2>3, FullRead
  <2> QED
    BY <1>2, <2>3, <2>4 DEF Dispatch, Sent
<1>4. CASE u \in [kind : {"batch"}, actions : Batches]
  <2>1. PICK acts \in Seq(Action) : u = [kind |-> "batch", actions |-> acts]
    BY <1>4, FramingAssumption
  <2>2. Encoded(u) = encode_batch_summary(acts)
    BY <2>1 DEF Encoded
  <2>3. Encoded(u) \in Seq(Byte)
    BY <2>2, BatchIs
  <2>4. ASSUME Countable(u)
        PROVE  Dispatch(Sent(u)) = u
    <3>1. /\ Len(acts) < Base /\ Len(acts) # Marker
          /\ \A i \in 1 .. Len(acts) : Len(acts[i].flips) < Base
      BY <2>1, <2>4 DEF Countable
    <3>2. Sent(u)[1] = Len(acts) /\ decode_batch_summary(Sent(u)) = u
      BY <1>2, <2>1, <2>2, <2>3, <3>1, BatchRead
    <3> QED
      BY <3>1, <3>2 DEF Dispatch
  <2> QED
    BY <1>2, <2>3, <2>4 DEF Sent
<1> QED
  BY <1>3, <1>4 DEF Sendable

LEMMA DispatchIs ==
  ASSUME NEW s
  PROVE  Dispatch(s).kind \in {"garbage", "batch", "full"} /\ Dispatch(s) # Nothing
<1>1. decode_full(s).kind \in {"garbage", "full"}
  BY DEF decode_full, Garbage
<1>2. decode_batch_summary(s).kind \in {"garbage", "batch"}
  BY DEF decode_batch_summary, Garbage
<1>3. Dispatch(s).kind \in {"garbage", "batch", "full"}
  BY <1>1, <1>2 DEF Dispatch
<1>4. Nothing.kind = "nothing"
  BY DEF Nothing
<1> QED
  BY <1>3, <1>4

\* The word before the end is the word in the data.
LEMMA FoundEarly ==
  ASSUME NEW u, NEW m \in Seq(Byte), NEW p \in Seq(Byte), NEW r \in Seq(Byte),
         (m \o p) \o r = Sent(u), IsSuffix(Word, p), r # << >>
  PROVE  Ambiguous(u)
<1>1. Word \in Seq(Byte) /\ Len(Word) \in Nat
  BY FramingAssumption
<1>2. PICK s \in Seq(Byte) : s = Sent(u) /\ s = (m \o p) \o r
  <2>1. \A x, y \in Seq(Byte) : x \o y \in Seq(Byte)
    OBVIOUS
  <2>2. (m \o p) \o r \in Seq(Byte)
    BY <2>1
  <2> QED
    BY <2>2
<1>3. PICK k \in Nat, l \in Nat, h \in Nat, w \in Nat :
        k = Len(m) /\ l = Len(p) /\ h = Len(r) /\ w = Len(Word)
  BY <1>1
<1>4. h # 0 /\ Len(s) = k + l + h
  BY <1>2, <1>3
<1>5. w <= l /\ \A j \in 1 .. w : p[l - w + j] = Word[j]
  BY <1>1, <1>3, SuffixIs
<1>6. \A j \in 1 .. l : s[k + j] = p[j]
  <2>1. PICK t \in Seq(Byte) : t = m \o p /\ Len(t) = k + l /\ \A j \in 1 .. l : t[k + j] = p[j]
    <3>1. m \o p \in Seq(Byte) /\ Len(m \o p) = Len(m) + Len(p)
      OBVIOUS
    <3>2. \A j \in 1 .. Len(p) : (m \o p)[Len(m) + j] = p[j]
      OBVIOUS
    <3>3. Len(m \o p) = k + l /\ \A j \in 1 .. l : (m \o p)[k + j] = p[j]
      BY <1>3, <3>1, <3>2
    <3> QED
      BY <3>1, <3>3, Zenon
  <2>2. s = t \o r
    BY <1>2, <2>1, Zenon
  <2>3. \A i \in 1 .. k + l : s[i] = t[i]
    <3>1. \A i \in 1 .. Len(t) : (t \o r)[i] = t[i]
      OBVIOUS
    <3> QED
      BY <2>1, <2>2, <3>1
  <2>4. \A j \in 1 .. l : k + j \in 1 .. k + l
    OBVIOUS
  <2> QED
    BY <2>1, <2>3, <2>4, Zenon
<1>7. PICK i \in Nat : i = k + (l - w) + 1
  BY <1>5
<1>8. i \in 1 .. Len(s) - w /\ i + w - 1 <= Len(s)
  BY <1>4, <1>5, <1>7
<1>9. \A j \in 1 .. w : s[i + j - 1] = Word[j]
  <2> SUFFICES ASSUME NEW j \in 1 .. w
               PROVE  s[i + j - 1] = Word[j]
    OBVIOUS
  <2>1. i + j - 1 = k + (l - w + j) /\ l - w + j \in 1 .. l
    BY <1>5, <1>7
  <2> QED
    BY <1>5, <1>6, <2>1
<1>10. Carries(s, i, Word)
  BY <1>3, <1>8, <1>9 DEF Carries
<1>11. SubSeq(s, i, i + Len(Word) - 1) = Word
  BY <1>1, <1>10, CarriesCut
<1> QED
  BY <1>2, <1>3, <1>8, <1>11 DEF Ambiguous

\* The last piece ends in the word exactly if the whole word is in it.
LEMMA FoundAtEnd ==
  ASSUME NEW u, Sendable(u), NEW m \in Seq(Byte), NEW p \in Seq(Byte), m \o p = Sent(u)
  PROVE  IsSuffix(Word, p) <=> Len(Word) <= Len(p)
<1>1. Word \in Seq(Byte) /\ Len(Word) \in Nat
  BY FramingAssumption
<1>2. PICK x \in Seq(Byte) : x = Encoded(u) /\ m \o p = x \o Word
  BY SentRead
<1>3. PICK k \in Nat, l \in Nat, h \in Nat, w \in Nat :
        k = Len(m) /\ l = Len(p) /\ h = Len(x) /\ w = Len(Word)
  BY <1>1
<1>4. k + l = h + w
  <2>1. Len(m \o p) = k + l /\ Len(x \o Word) = h + w
    BY <1>1, <1>3
  <2> QED
    BY <1>2, <2>1
<1>5. ASSUME w <= l, NEW j \in 1 .. w
      PROVE  p[l - w + j] = Word[j]
  <2>1. PICK i \in 1 .. l : i = l - w + j
    BY <1>5
  <2>2. (m \o p)[k + i] = p[i]
    BY <1>3
  <2>3. (x \o Word)[h + j] = Word[j]
    BY <1>1, <1>3
  <2>4. k + i = h + j
    BY <1>4, <2>1
  <2> QED
    BY <1>2, <2>1, <2>2, <2>3, <2>4
<1> QED
  BY <1>1, <1>3, <1>5, SuffixIs

LEMMA PieceIs ==
  ASSUME NEW l \in Seq(Byte), NEW n \in 1 .. Len(l), NEW m \in Seq(Byte)
  PROVE  /\ SubSeq(l, 1, n) \in Seq(Byte) /\ Len(SubSeq(l, 1, n)) = n
         /\ SubSeq(l, n + 1, Len(l)) \in Seq(Byte)
         /\ Len(SubSeq(l, n + 1, Len(l))) = Len(l) - n
         /\ (m \o SubSeq(l, 1, n)) \o SubSeq(l, n + 1, Len(l)) = m \o l
<1> DEFINE p == SubSeq(l, 1, n)
           r == SubSeq(l, n + 1, Len(l))
<1>1. p \in Seq(Byte) /\ Len(p) = n /\ \A i \in 1 .. n : p[i] = l[i]
  OBVIOUS
<1>2. /\ r \in Seq(Byte) /\ Len(r) = Len(l) - n
      /\ \A i \in 1 .. Len(l) - n : r[i] = l[n + i]
  OBVIOUS
<1> HIDE DEF p, r
<1>3. p \o r = l
  <2>1. p \o r \in Seq(Byte) /\ Len(p \o r) = Len(l)
    <3>1. \A x, y \in Seq(Byte) : x \o y \in Seq(Byte) /\ Len(x \o y) = Len(x) + Len(y)
      OBVIOUS
    <3>2. p \o r \in Seq(Byte) /\ Len(p \o r) = n + (Len(l) - n)
      BY <1>1, <1>2, <3>1, ZenonT(40)
    <3>3. n + (Len(l) - n) = Len(l)
      OBVIOUS
    <3> QED
      BY <3>2, <3>3
  <2>2. PICK h \in Nat : Len(l) = h /\ n <= h
    OBVIOUS
  <2>3. \A i \in 1 .. h : i \in 1 .. n \/ \E j \in 1 .. h - n : i = n + j
    <3> SUFFICES ASSUME NEW i \in 1 .. h, i > n
                 PROVE  \E j \in 1 .. h - n : i = n + j
      BY <2>2
    <3>1. i - n \in 1 .. h - n /\ i = n + (i - n)
      BY <2>2
    <3> QED
      BY <3>1
  <2>4. \A i \in 1 .. n : (p \o r)[i] = l[i]
    BY <1>1, <1>2
  <2>5. \A j \in 1 .. h - n : (p \o r)[n + j] = l[n + j]
    <3>1. \A j \in 1 .. Len(r) : (p \o r)[Len(p) + j] = r[j]
      BY <1>1, <1>2, SMTT(30)
    <3> QED
      BY <1>1, <1>2, <2>2, <3>1
  <2>6. \A i \in 1 .. h : (p \o r)[i] = l[i]
    <3> DEFINE f == p \o r
    <3>1. (\A i \in 1 .. n : f[i] = l[i]) /\ \A j \in 1 .. h - n : f[n + j] = l[n + j]
      BY <2>4, <2>5
    <3> HIDE DEF f
    <3>2. \A i \in 1 .. h : f[i] = l[i]
      BY <2>3, <3>1
    <3> QED
      BY <3>2 DEF f
  <2> QED
    BY <2>1, <2>2, <2>6
<1>4. (m \o p) \o r = m \o (p \o r)
  BY <1>1, <1>2, SMTT(30)
<1> QED
  BY <1>1, <1>2, <1>3, <1>4 DEF p, r

LEMMA ModIs ==
  ASSUME NEW b \in Nat \ {0}, NEW q \in Nat, NEW r \in 0 .. b - 1
  PROVE  (q * b + r) % b = r
<1>1. PICK x \in Nat : x = q * b + r
  OBVIOUS
<1>2. PICK d \in Nat, e \in 0 .. b - 1 : d = x \div b /\ e = x % b
  OBVIOUS
<1>3. d * b + e = q * b + r
  BY <1>1, <1>2, DivMod
<1>4. ~ (d < q)
  <2> SUFFICES ASSUME d < q
               PROVE  FALSE
    OBVIOUS
  <2>1. PICK k \in Nat : q = d + 1 + k
    <3>1. q - d - 1 \in Nat /\ q = d + 1 + (q - d - 1)
      OBVIOUS
    <3> QED
      BY <3>1
  <2>2. q * b = d * b + b + k * b /\ k * b >= 0
    BY <2>1
  <2> QED
    BY <1>3, <2>2
<1>5. ~ (q < d)
  <2> SUFFICES ASSUME q < d
               PROVE  FALSE
    OBVIOUS
  <2>1. PICK k \in Nat : d = q + 1 + k
    <3>1. d - q - 1 \in Nat /\ d = q + 1 + (d - q - 1)
      OBVIOUS
    <3> QED
      BY <3>1
  <2>2. d * b = q * b + b + k * b /\ k * b >= 0
    BY <2>1
  <2> QED
    BY <1>3, <2>2
<1>6. d = q
  BY <1>4, <1>5
<1> QED
  BY <1>1, <1>2, <1>3, <1>6

\* What is left over of m bytes that fill buffers and n of the next.
LeftIs(m, n, b) == (m + n) % b = IF n = b THEN 0 ELSE n

LEMMA LeftOver ==
  ASSUME NEW b \in Nat \ {0}, NEW m \in Nat, m % b = 0, NEW n \in 1 .. b
  PROVE  LeftIs(m, n, b)
<1>1. PICK q \in Nat : m = q * b
  <2>1. PICK q \in Nat : q = m \div b
    BY DivMod
  <2>2. m = q * b + 0
    BY <2>1, DivMod
  <2>3. q * b \in Nat
    OBVIOUS
  <2>4. m = q * b
    BY <2>2, <2>3
  <2> QED
    BY <2>4
<1>2. CASE n = b
  <2>1. m + n = (q + 1) * b + 0
    BY <1>1, <1>2
  <2>2. 0 \in 0 .. b - 1 /\ q + 1 \in Nat
    OBVIOUS
  <2> QED
    BY <1>2, <2>1, <2>2, ModIs DEF LeftIs
<1>3. CASE n # b
  <2>1. n \in 0 .. b - 1
    BY <1>3
  <2> QED
    BY <1>1, <1>3, <2>1, ModIs DEF LeftIs
<1> QED
  BY <1>2, <1>3

-----------------------------------------------------------------------------
(***************************************************************************)
(* The exchange.  Inv says that nothing is lost or reordered on the way,   *)
(* that what is decoded is what has been collected, and that a word which  *)
(* is found before the end is in the data.                                 *)
(***************************************************************************)
Whole == msg \o left = Sent(update)

ReadAtWord ==
  decoded # Nothing =>
    /\ decoded = Dispatch(msg)
    /\ left # << >> => Ambiguous(update)

\* While bytes are left, greedy pieces were as long as the buffer.
Buffers ==
  greedy /\ decoded = Nothing /\ left # << >> => Len(msg) % MAXRECV = 0

Inv == /\ TypeOK /\ Sendable(update) /\ Whole
       /\ ReadAtWord /\ Buffers /\ LengthDecides

LEMMA InitInv == Init => Inv
<1> SUFFICES ASSUME Init
             PROVE  Inv
  OBVIOUS
<1>1. Sendable(update)
  BY DEF Init, Sendable
<1>2. Sent(update) \in Seq(Byte) /\ Sent(update) = Encoded(update) \o Word
      /\ Encoded(update) \in Seq(Byte)
  BY <1>1, SentRead
<1>3. Sent(update) # << >>
  <2>1. Word \in Seq(Byte) /\ Word # << >>
    BY FramingAssumption
  <2> QED
    BY <1>2, <2>1
<1>4. TypeOK
  <2>1. left \in Seq(Byte) /\ msg \in Seq(Byte)
    BY <1>2 DEF Init
  <2>2. decoded.kind = "nothing"
    BY DEF Init, Nothing
  <2>3. cut \in BOOLEAN /\ greedy \in BOOLEAN
    BY DEF Init
  <2> QED
    BY <2>1, <2>2, <2>3 DEF TypeOK
<1>5. Whole
  BY <1>2 DEF Init, Whole
<1>6. Buffers
  <2>1. MAXRECV \in Nat \ {0}
    BY FramingAssumption
  <2>2. 0 % MAXRECV = 0
    BY <2>1
  <2> QED
    BY <2>2 DEF Init, Buffers
<1> QED
  BY <1>1, <1>3, <1>4, <1>5, <1>6 DEF Init, Inv, ReadAtWord, LengthDecides

LEMMA NextInv == Inv /\ [Next]_vars => Inv'
<1> SUFFICES ASSUME Inv, [Next]_vars
             PROVE  Inv'
  OBVIOUS
<1>1. CASE UNCHANGED vars
  BY <1>1 DEF vars, Inv, TypeOK, Sendable, Whole, ReadAtWord, Buffers, LengthDecides
<1>2. ASSUME NEW n \in 1 .. MAXRECV, n <= Len(left), Recv(n)
      PROVE  Inv'
  <2>1. PICK b \in Nat, w \in Nat : b = MAXRECV /\ w = Len(Word) /\ w < b /\ b # 0
    <3>1. Word \in Seq(Byte) /\ MAXRECV \in Nat /\ MAXRECV > Len(Word)
      BY FramingAssumption
    <3>2. Len(Word) \in Nat
      BY <3>1
    <3>3. MAXRECV # 0 /\ Len(Word) < MAXRECV
      BY <3>1, <3>2
    <3> QED
      BY <3>1, <3>2, <3>3
  <2>2. left \in Seq(Byte) /\ msg \in Seq(Byte) /\ n \in 1 .. Len(left) /\ n \in 1 .. b
    BY <1>2, <2>1 DEF Inv, TypeOK
  <2> DEFINE p == SubSeq(left, 1, n)
             r == SubSeq(left, n + 1, Len(left))
  <2>3. /\ p \in Seq(Byte) /\ Len(p) = n
        /\ r \in Seq(Byte) /\ Len(r) = Len(left) - n
        /\ (msg \o p) \o r = msg \o left
    BY <2>2, PieceIs
  <2>4. /\ decoded = Nothing /\ msg' = msg \o p /\ left' = r /\ update' = update
        /\ decoded' = IF IsSuffix(Word, p) THEN Dispatch(msg') ELSE Nothing
        /\ cut' = (cut \/ Len(left) - n \in 1 .. Len(Word) - 1)
        /\ greedy' = (greedy /\ n \in {b, Len(left)})
    BY <1>2, <2>1 DEF Recv, EndsInWord
  <2> HIDE DEF p, r
  <2>5. Sendable(update)' /\ Sent(update)' = Sent(update)
    <3>1. Sendable(update)'
      BY <2>4 DEF Inv, Sendable
    <3>2. Sent(update)' = Sent(update)
      BY <2>4 DEF Sent, Encoded
    <3> QED
      BY <3>1, <3>2
  <2>6. msg' \in Seq(Byte) /\ Len(msg') = Len(msg) + n
    <3>1. \A x, y \in Seq(Byte) : x \o y \in Seq(Byte) /\ Len(x \o y) = Len(x) + Len(y)
      OBVIOUS
    <3>2. msg \o p \in Seq(Byte) /\ Len(msg \o p) = Len(msg) + n
      BY <2>2, <2>3, <3>1
    <3> QED
      BY <2>4, <3>2
  <2>7. TypeOK'
    <3>1. decoded'.kind \in {"nothing", "garbage", "batch", "full"}
      BY <2>4, DispatchIs DEF Nothing
    <3>2. cut' \in BOOLEAN
      BY <2>4 DEF Inv, TypeOK
    <3>3. greedy' \in BOOLEAN
      BY <2>4 DEF Inv, TypeOK
    <3> QED
      BY <2>3, <2>4, <2>6, <3>1, <3>2, <3>3 DEF TypeOK
  <2>8. (msg \o p) \o r = Sent(update) /\ Whole'
    BY <2>3, <2>4, <2>5 DEF Inv, Whole
  <2>9. ReadAtWord'
    <3> SUFFICES ASSUME decoded' # Nothing
                 PROVE  decoded' = Dispatch(msg') /\ (left' # << >> => Ambiguous(update)')
      BY DEF ReadAtWord
    <3>1. IsSuffix(Word, p) /\ decoded' = Dispatch(msg')
      BY <2>4
    <3>2. r # << >> => Ambiguous(update)
      BY <2>2, <2>3, <2>8, <3>1, FoundEarly
    <3>3. Ambiguous(update)' <=> Ambiguous(update)
      BY <2>5 DEF Ambiguous
    <3> QED
      BY <2>4, <3>1, <3>2, <3>3
  <2>10. left # << >>
    BY <2>2
  <2>11. greedy => Len(msg) % b = 0
    BY <2>1, <2>4, <2>10 DEF Inv, Buffers
  <2>12. greedy => Len(msg') % b = IF n = b THEN 0 ELSE n
    <3> SUFFICES ASSUME greedy
                 PROVE  Len(msg') % b = IF n = b THEN 0 ELSE n
      OBVIOUS
    <3>1. PICK m \in Nat : m = Len(msg)
      BY <2>2
    <3>2. m % b = 0 /\ Len(msg') = m + n
      BY <2>6, <2>11, <3>1
    <3>3. b \in Nat \ {0} /\ n \in 1 .. b
      BY <2>1, <2>2
    <3>4. LeftIs(m, n, b)
      BY <3>2, <3>3, LeftOver
    <3> QED
      BY <3>2, <3>4 DEF LeftIs
  <2>13. Buffers'
    <3> SUFFICES ASSUME greedy', left' # << >>
                 PROVE  Len(msg') % b = 0
      BY <2>1 DEF Buffers
    <3>1. n # Len(left)
      BY <2>2, <2>3, <2>4
    <3> QED
      BY <2>4, <2>12, <3>1
  <2>14. LengthDecides'
    <3> SUFFICES ASSUME greedy', left' = << >>
                 PROVE  decoded' # Nothing
                          <=> Len(Sent(update)) % b \notin 1 .. w - 1
      BY <2>1, <2>5 DEF LengthDecides
    <3>1. msg \o p = Sent(update) /\ msg' = Sent(update)
      <4>1. \A x \in Seq(Byte) : x \o << >> = x
        OBVIOUS
      <4>2. msg \o p \in Seq(Byte) /\ r = << >>
        BY <2>4, <2>6
      <4> QED
        BY <2>4, <2>8, <4>1, <4>2
    <3>2. decoded' # Nothing <=> IsSuffix(Word, p)
      BY <2>4, DispatchIs
    <3>3. IsSuffix(Word, p) <=> w <= n
      BY <2>1, <2>2, <2>3, <3>1, FoundAtEnd DEF Inv
    <3>4. Len(Sent(update)) % b = IF n = b THEN 0 ELSE n
      BY <2>4, <2>12, <3>1
    <3>5. w <= n <=> (IF n = b THEN 0 ELSE n) \notin 1 .. w - 1
      BY <2>1, <2>2
    <3> QED
      BY <3>2, <3>3, <3>4, <3>5
  <2> QED
    BY <2>5, <2>7, <2>8, <2>9, <2>13, <2>14 DEF Inv
<1> QED
  BY <1>1, <1>2 DEF Next

LEMMA Invariance == Spec => []Inv
<1> QED
  BY InitInv, NextInv, PTL DEF Spec

\* The bytes on the way and those collected are bytes, and what is decoded is
\* one of the two kinds of update or garbage (TinyCRClient.h listenForUpdates).
THEOREM TypeCorrect == Spec => []TypeOK
<1>1. Inv => TypeOK
  BY DEF Inv
<1> QED
  BY <1>1, Invariance, PTL

\* However the network cuts an update into pieces, the device decodes what the
\* server has encoded, if the counts fit their bytes and the word is not in the
\* data (CRIoT.h encode_full, encode_batch_summary and their decoders,
\* TinyCRClient.h listenForUpdates): for every width, every size of the buffer,
\* every update.
THEOREM UpdatesAreRead == Spec => []RoundTrip
<1>1. Inv => RoundTrip
  <2> SUFFICES ASSUME Inv, decoded # Nothing, Countable(update), ~Ambiguous(update)
               PROVE  decoded = update
    BY DEF RoundTrip
  <2>1. decoded = Dispatch(msg) /\ left = << >>
    BY DEF Inv, ReadAtWord
  <2>2. msg = Sent(update)
    <3>1. \A x \in Seq(Byte) : x \o << >> = x
      OBVIOUS
    <3> QED
      BY <2>1, <3>1 DEF Inv, Whole, TypeOK
  <2> QED
    BY <2>1, <2>2, SentRead DEF Inv
<1> QED
  BY <1>1, Invariance, PTL

\* When the device reads as much as there is, an update whose length leaves a
\* part of the word over in the last piece is never recognised, and every other
\* is (TinyCRClient.h listenForUpdates, the last bytes of the piece).
THEOREM RecognisedByLength == Spec => []LengthDecides
<1>1. Inv => LengthDecides
  BY DEF Inv
<1> QED
  BY <1>1, Invariance, PTL

=============================================================================
