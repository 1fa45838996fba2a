--------------------------- MODULE EdgeLists_proofs ---------------------------
(***************************************************************************)
(* Proofs about EdgeLists: the linked lists and the disjoint set stay      *)
(* exact, every tree is filled from array A, and the lists and the array   *)
(* implement a forest of edges.                                            *)
(***************************************************************************)
EXTENDS EdgeLists, Recursion_proofs

(***************************************************************************)
(* The nodes that edges join.  E is any set that names edges, h gives the  *)
(* two ends of each.                                                       *)
(***************************************************************************)
Ends(E, h) == \A k \in E : h[k] \in NodeA \X NodeB

\* No edge leaves the set S.
Closed(S, E, h) == \A k \in E : h[k][1] \in S <=> h[k][2] \in S

LEMMA JoinedSelf ==
  ASSUME NEW E, NEW h, NEW n
  PROVE  n \in Abstract!Joined(n, E, h)
BY DEF Abstract!Joined

LEMMA JoinedClosed ==
  ASSUME NEW E, NEW h, NEW n
  PROVE  Closed(Abstract!Joined(n, E, h), E, h)
<1> SUFFICES ASSUME NEW k \in E
             PROVE  h[k][1] \in Abstract!Joined(n, E, h) <=> h[k][2] \in Abstract!Joined(n, E, h)
  BY DEF Closed
<1>1. /\ h[k][1] \in UNION {{h[j][1], h[j][2]} : j \in E}
      /\ h[k][2] \in UNION {{h[j][1], h[j][2]} : j \in E}
  OBVIOUS
<1> QED
  BY <1>1 DEF Abstract!Joined

\* A set that no edge leaves has the nodes joined to each of its nodes.
LEMMA JoinedLeast ==
  ASSUME NEW E, NEW h, NEW S, NEW n \in S, Closed(S, E, h)
  PROVE  Abstract!Joined(n, E, h) \subseteq S
<1> DEFINE U == (UNION {{h[j][1], h[j][2]} : j \in E}) \cup {n}
           T == S \cap U
<1>1. T \in SUBSET U /\ n \in T
  OBVIOUS
<1>2. \A k \in E : h[k][1] \in T <=> h[k][2] \in T
  BY DEF Closed
<1> HIDE DEF T
<1>3. Abstract!Joined(n, E, h) \subseteq T
  BY <1>1, <1>2 DEF Abstract!Joined
<1> QED
  BY <1>3 DEF T

LEMMA JoinedNodes ==
  ASSUME NEW E, NEW h, Ends(E, h), NEW n \in Node
  PROVE  Abstract!Joined(n, E, h) \subseteq Node
<1>1. \A k \in E : h[k][1] \in Node /\ h[k][2] \in Node
  BY DEF Ends, Node
<1>2. Closed(Node, E, h)
  BY <1>1 DEF Closed
<1> QED
  BY <1>2, JoinedLeast

\* Two nodes that are joined are joined to the same nodes.
LEMMA JoinedSame ==
  ASSUME NEW E, NEW h, NEW m, NEW n, m \in Abstract!Joined(n, E, h)
  PROVE  Abstract!Joined(m, E, h) = Abstract!Joined(n, E, h)
<1>1. Abstract!Joined(m, E, h) \subseteq Abstract!Joined(n, E, h)
  BY JoinedClosed, JoinedLeast
<1>2. n \in Abstract!Joined(m, E, h)
  <2> DEFINE S == Abstract!Joined(n, E, h) \ Abstract!Joined(m, E, h)
  <2>1. Closed(S, E, h)
    BY JoinedClosed DEF Closed
  <2>2. m \notin S
    BY JoinedSelf
  <2>3. n \in S => Abstract!Joined(n, E, h) \subseteq S
    <3> HIDE DEF S
    <3> QED
      BY <2>1, JoinedLeast
  <2> QED
    BY <2>2, <2>3, JoinedSelf
<1>3. Abstract!Joined(n, E, h) \subseteq Abstract!Joined(m, E, h)
  BY <1>2, JoinedClosed, JoinedLeast
<1> QED
  BY <1>1, <1>3

LEMMA JoinedEither ==
  ASSUME NEW E, NEW h, NEW m, NEW n
  PROVE  m \in Abstract!Joined(n, E, h) <=> n \in Abstract!Joined(m, E, h)
BY JoinedSame, JoinedSelf

EdgesOf(E, h) == {h[k] : k \in E}

\* What names the edges does not matter.
LEMMA JoinedNames ==
  ASSUME NEW E, NEW h, NEW F, NEW j, NEW n, EdgesOf(E, h) = EdgesOf(F, j)
  PROVE  Abstract!Joined(n, E, h) = Abstract!Joined(n, F, j)
<1>1. ASSUME NEW S
      PROVE  Closed(S, E, h) <=> Closed(S, F, j)
  <2>1. \A k \in E : \E i \in F : h[k] = j[i]
    BY DEF EdgesOf
  <2>2. \A k \in F : \E i \in E : j[k] = h[i]
    BY DEF EdgesOf
  <2> QED
    BY <2>1, <2>2 DEF Closed
<1>2. Abstract!Joined(n, E, h) \subseteq Abstract!Joined(n, F, j)
  BY <1>1, JoinedSelf, JoinedClosed, JoinedLeast
<1>3. Abstract!Joined(n, F, j) \subseteq Abstract!Joined(n, E, h)
  BY <1>1, JoinedSelf, JoinedClosed, JoinedLeast
<1> QED
  BY <1>2, <1>3

\* A new edge makes one tree of the trees at its ends.
LEMMA JoinedWith ==
  ASSUME NEW E, NEW h, NEW n, NEW k
  PROVE  IF \/ h[k][1] \in Abstract!Joined(n, E, h)
            \/ h[k][2] \in Abstract!Joined(n, E, h)
         THEN Abstract!Joined(n, E \cup {k}, h) =
                Abstract!Joined(h[k][1], E, h) \cup Abstract!Joined(h[k][2], E, h)
         ELSE Abstract!Joined(n, E \cup {k}, h) = Abstract!Joined(n, E, h)
<1> DEFINE T == Abstract!Joined(n, E \cup {k}, h)
           N == Abstract!Joined(n, E, h)
           A == Abstract!Joined(h[k][1], E, h)
           B == Abstract!Joined(h[k][2], E, h)
<1>1. Closed(T, E, h) /\ (h[k][1] \in T <=> h[k][2] \in T) /\ n \in T
  BY JoinedClosed, JoinedSelf DEF Closed
<1>2. N \subseteq T
  BY <1>1, JoinedLeast
<1>3. Closed(N, E, h) /\ n \in N /\ Closed(A \cup B, E, h) /\ h[k][1] \in A /\ h[k][2] \in B
  BY JoinedClosed, JoinedSelf DEF Closed
<1>4. CASE h[k][1] \in N \/ h[k][2] \in N
  <2>1. A \subseteq T /\ B \subseteq T
    BY <1>1, <1>2, <1>4, JoinedLeast
  <2>2. N = A \/ N = B
    BY <1>4, JoinedSame
  <2>3. Closed(A \cup B, E \cup {k}, h) /\ n \in A \cup B
    BY <1>3, <2>2 DEF Closed
  <2>4. T \subseteq A \cup B
    <3> HIDE DEF A, B
    <3> QED
      BY <2>3, JoinedLeast
  <2> QED
    BY <1>4, <2>1, <2>4
<1>5. CASE ~(h[k][1] \in N \/ h[k][2] \in N)
  <2>1. Closed(N, E \cup {k}, h)
    BY <1>3, <1>5 DEF Closed
  <2>2. T \subseteq N
    BY <1>3, <2>1, JoinedLeast
  <2> QED
    BY <1>2, <1>5, <2>2
<1> QED
  BY <1>4, <1>5

\* An edge that joins two trees leaves a forest a forest.
LEMMA ForestWith ==
  ASSUME NEW E, NEW h, NEW k, k \notin E,
         Abstract!Forest(E, h), ~Abstract!Closes(k, E, h)
  PROVE  Abstract!Forest(E \cup {k}, h)
<1> SUFFICES ASSUME NEW j \in E \cup {k}, Abstract!Closes(j, (E \cup {k}) \ {j}, h)
             PROVE  FALSE
  BY DEF Abstract!Forest
<1>1. CASE j = k
  <2>1. (E \cup {k}) \ {j} = E
    BY <1>1
  <2> QED
    BY <1>1, <2>1
<1>2. CASE j # k
  <2> DEFINE F == E \ {j}
             A == Abstract!Joined(h[j][1], F, h)
             B == Abstract!Joined(h[j][2], F, h)
  <2>1. j \in E /\ (E \cup {k}) \ {j} = F \cup {k} /\ E = F \cup {j}
    BY <1>2
  <2>2. h[j][2] \in Abstract!Joined(h[j][1], F \cup {k}, h) /\ h[j][2] \notin A
    BY <2>1 DEF Abstract!Closes, Abstract!Forest
  <2>3. \/ h[k][1] \in A /\ h[k][2] \in B
        \/ h[k][2] \in A /\ h[k][1] \in B
    <3>1. h[k][1] \in A \/ h[k][2] \in A
      <4> SUFFICES ASSUME ~(h[k][1] \in A \/ h[k][2] \in A)
                   PROVE  FALSE
        OBVIOUS
      <4>1. Abstract!Joined(h[j][1], F \cup {k}, h) = A
        <5> HIDE DEF F
        <5> QED
          BY JoinedWith
      <4> QED
        BY <2>2, <4>1
    <3>2. \/ h[j][2] \in Abstract!Joined(h[k][1], F, h)
          \/ h[j][2] \in Abstract!Joined(h[k][2], F, h)
      BY <2>2, <3>1, JoinedWith
    <3>3. h[k][1] \in B \/ h[k][2] \in B
      BY <3>2, JoinedEither
    <3>4. ASSUME NEW x, x \in A, x \in B
          PROVE  FALSE
      <4>1. A = B
        BY <3>4, JoinedSame
      <4> QED
        BY <2>2, <4>1, JoinedSelf
    <3> QED
      BY <3>1, <3>3, <3>4
  <2>4. \/ h[j][1] \in Abstract!Joined(h[k][1], F, h)
        \/ h[j][2] \in Abstract!Joined(h[k][1], F, h)
    BY <2>3, JoinedEither
  <2>5. Abstract!Joined(h[k][1], F \cup {j}, h) = A \cup B
    BY <2>4, JoinedWith
  <2>6. h[k][2] \in Abstract!Joined(h[k][1], E, h)
    BY <2>1, <2>3, <2>5
  <2> QED
    BY <2>6 DEF Abstract!Closes
<1> QED
  BY <1>1, <1>2

-----------------------------------------------------------------------------
(***************************************************************************)
(* The disjoint set.  The array p has the representatives r, and on the    *)
(* way to a representative the rank d falls.                               *)
(***************************************************************************)
Parents == [Node -> Node \cup {-1}]

IsRoot(p, n) == p[n] \in {-1, n}

Ranked(p, r, d) ==
  /\ p \in Parents /\ r \in [Node -> Node] /\ d \in [Node -> Nat]
  /\ \A n \in Node : IsRoot(p, r[n])
  /\ \A n \in Node : IF IsRoot(p, n) THEN r[n] = n
                     ELSE r[p[n]] = r[n] /\ d[p[n]] < d[n]

LEMMA NodeNat == Node \subseteq Nat /\ -1 \notin Node /\ IsFiniteSet(Node)
                 /\ Cardinality(Node) <= Ma + Mb
<1>1. Node \subseteq Nat
  BY ListsAssumption DEF Node, NodeA, NodeB
<1>2. Node \subseteq 0 .. Ma + Mb - 1
  BY ListsAssumption DEF Node, NodeA, NodeB
<1>3. IsFiniteSet(0 .. Ma + Mb - 1) /\ Cardinality(0 .. Ma + Mb - 1) = Ma + Mb
  <2> DEFINE b == Ma + Mb - 1
  <2>1. b \in Int /\ 0 \in Int /\ (IF 0 > b THEN 0 ELSE b - 0 + 1) = Ma + Mb
    BY ListsAssumption
  <2> HIDE DEF b
  <2>2. IsFiniteSet(0 .. b) /\ Cardinality(0 .. b) = Ma + Mb
    BY <2>1, FS_Interval, Zenon
  <2> QED
    BY <2>2 DEF b
<1>4. IsFiniteSet(Node) /\ Cardinality(Node) <= Cardinality(0 .. Ma + Mb - 1)
  BY <1>2, <1>3, FS_Subset
<1> QED
  BY <1>1, <1>3, <1>4

\* The recursion of representative.
LEMMA AscentStep ==
  ASSUME NEW p \in Parents, NEW n \in Node
  PROVE  Ascent(p, n) = IF IsRoot(p, n) THEN {n} ELSE {n} \cup Ascent(p, p[n])
<1> DEFINE Up(S) == \A x \in S : IsRoot(p, x) \/ p[x] \in S
           A(x) == {m \in Node : \A S \in SUBSET Node : x \in S /\ Up(S) => m \in S}
           step(up) == [m \in Node |-> IF p[m] \in {-1, m} THEN {m} ELSE {m} \cup up[p[m]]]
           f == [m \in Node |-> A(m)]
<1>1. ASSUME NEW x \in Node
      PROVE  A(x) = IF p[x] \in {-1, x} THEN {x} ELSE {x} \cup A(p[x])
  <2>1. CASE IsRoot(p, x)
    <3>1. Up({x})
      BY <2>1
    <3> QED
      BY <2>1, <3>1 DEF IsRoot
  <2>2. CASE ~IsRoot(p, x)
    <3>1. p[x] \in Node /\ p[x] # -1 /\ p[x] # x
      BY <2>2 DEF IsRoot, Parents
    <3>2. A(p[x]) \subseteq A(x)
      <4> SUFFICES ASSUME NEW m \in A(p[x]), NEW S \in SUBSET Node, x \in S, Up(S)
                   PROVE  m \in S
        OBVIOUS
      <4> QED
        BY <2>2, <3>1
    <3>3. ASSUME NEW y \in A(p[x]), ~IsRoot(p, y)
          PROVE  p[y] \in A(p[x])
      <4>1. y \in Node /\ p[y] \in Node
        BY <3>3 DEF IsRoot, Parents
      <4>2. ASSUME NEW S \in SUBSET Node, p[x] \in S, Up(S)
            PROVE  p[y] \in S
        BY <3>3, <4>2
      <4> QED
        BY <4>1, <4>2
    <3>4. A(x) \subseteq {x} \cup A(p[x])
      <4> DEFINE S == {x} \cup A(p[x])
      <4>1. S \in SUBSET Node /\ x \in S
        OBVIOUS
      <4>2. p[x] \in S
        BY <3>1
      <4>3. Up(S)
        <5> HIDE DEF A
        <5> QED
          BY <3>3, <4>2
      <4>4. A(x) \subseteq S
        <5> HIDE DEF S
        <5> QED
          BY <4>1, <4>3
      <4> QED
        BY <4>4 DEF S
    <3>5. x \in A(x)
      OBVIOUS
    <3> HIDE DEF A
    <3> QED
      BY <3>1, <3>2, <3>4, <3>5
  <2> QED
    BY <2>1, <2>2
<1>2. f = step(f)
  <2>1. \A m \in Node : p[m] \in {-1, m} \/ p[m] \in Node
    BY DEF Parents
  <2> HIDE DEF A
  <2>2. \A m \in Node : f[m] = step(f)[m]
    BY <1>1, <2>1
  <2> QED
    BY <2>2
<1> DEFINE up == CHOOSE g : g = step(g)
<1>3. up = step(up)
  <2> HIDE DEF step, f
  <2> QED
    BY <1>2
<1>4. \A m \in Node : Ascent(p, m) = up[m]
  BY DEF Ascent
<1>5. up[n] = IF p[n] \in {-1, n} THEN {n} ELSE {n} \cup up[p[n]]
  <2> HIDE DEF up
  <2> QED
    BY <1>3
<1>6. p[n] \in {-1, n} \/ p[n] \in Node
  BY DEF Parents
<1> HIDE DEF up
<1> QED
  BY <1>4, <1>5, <1>6 DEF IsRoot

\* The way up from n stays in n's set, and has one root.
LEMMA AscentFacts ==
  ASSUME NEW p, NEW r, NEW d, Ranked(p, r, d), NEW n \in Node
  PROVE  /\ Ascent(p, n) \subseteq Node
         /\ n \in Ascent(p, n) /\ r[n] \in Ascent(p, n)
         /\ \A m \in Ascent(p, n) : r[m] = r[n]
         /\ representative(p, n) = r[n]
<1> DEFINE Fact(x) == /\ Ascent(p, x) \subseteq Node
                      /\ x \in Ascent(p, x) /\ r[x] \in Ascent(p, x)
                      /\ \A m \in Ascent(p, x) : r[m] = r[x]
           T == {i \in Nat : \A x \in Node : d[x] < i => Fact(x)}
<1>1. 0 \in T
  BY DEF Ranked
<1>2. ASSUME NEW i \in Nat, i \in T
      PROVE  i + 1 \in T
  <2> SUFFICES ASSUME NEW x \in Node, d[x] < i + 1
               PROVE  Fact(x)
    OBVIOUS
  <2>1. Ascent(p, x) = IF IsRoot(p, x) THEN {x} ELSE {x} \cup Ascent(p, p[x])
    BY AscentStep DEF Ranked
  <2>2. CASE IsRoot(p, x)
    BY <2>1, <2>2 DEF Ranked
  <2>3. CASE ~IsRoot(p, x)
    <3>1. p[x] \in Node /\ r[p[x]] = r[x] /\ d[p[x]] < d[x] /\ d[x] \in Nat /\ d[p[x]] \in Nat
      BY <2>3 DEF Ranked, Parents, IsRoot
    <3>2. Fact(p[x])
      <4>1. d[p[x]] < i
        BY <3>1
      <4> HIDE DEF Fact
      <4> QED
        BY <1>2, <3>1, <4>1
    <3> QED
      BY <2>1, <2>3, <3>1, <3>2
  <2> QED
    BY <2>2, <2>3
<1>3. Fact(n)
  <2>1. Nat \subseteq T
    <3> HIDE DEF T
    <3> QED
      BY <1>1, <1>2, Induct
  <2>2. d[n] \in Nat /\ d[n] + 1 \in Nat /\ d[n] < d[n] + 1
    BY DEF Ranked
  <2>3. d[n] + 1 \in T
    BY <2>1, <2>2
  <2> HIDE DEF Fact
  <2> QED
    BY <2>2, <2>3
<1>4. representative(p, n) = r[n]
  <2>1. \A m \in Ascent(p, n) : p[m] \in {-1, m} <=> m = r[n]
    BY <1>3 DEF Ranked, IsRoot
  <2>2. r[n] \in Ascent(p, n)
    BY <1>3
  <2> QED
    BY <2>1, <2>2 DEF representative
<1> QED
  BY <1>3, <1>4

LEMMA SameSetIs ==
  ASSUME NEW p, NEW r, NEW d, Ranked(p, r, d), NEW m \in Node, NEW n \in Node
  PROVE  sameSet(p, m, n) <=> r[m] = r[n]
BY AscentFacts DEF sameSet

\* Path compression keeps the representatives.
LEMMA CompressRanked ==
  ASSUME NEW p, NEW r, NEW d, Ranked(p, r, d), NEW n \in Node
  PROVE  /\ Ranked(Compress(p, n), r, d)
         /\ Compress(p, n)[r[n]] = r[n]
         /\ \A m \in Node : Compress(p, n)[m] = -1 => p[m] = -1
         /\ \A m \in Node : Compress(p, n)[m] = m => p[m] = m \/ m = r[n]
         /\ Compress(p, n)[n] # -1
<1> DEFINE q == Compress(p, n)
           A == Ascent(p, n)
<1>1. q = [m \in Node |-> IF m \in A THEN r[n] ELSE p[m]]
  BY AscentFacts DEF Compress
<1>2. /\ A \subseteq Node /\ r[n] \in A /\ n \in A
      /\ \A m \in A : r[m] = r[n]
  BY AscentFacts
<1> HIDE DEF q, A
<1>3. /\ p \in Parents /\ r \in [Node -> Node] /\ d \in [Node -> Nat]
      /\ \A m \in Node : IsRoot(p, r[m])
      /\ \A m \in Node : IF IsRoot(p, m) THEN r[m] = m
                         ELSE r[p[m]] = r[m] /\ d[p[m]] < d[m]
  BY DEF Ranked
<1>4. q \in Parents
  BY <1>1, <1>3 DEF Parents
<1>5. \A m \in Node : r[m] \in Node /\ r[r[m]] = r[m]
  BY <1>3
<1>6. ASSUME NEW m \in Node
      PROVE  d[r[m]] <= d[m] /\ (r[m] # m => d[r[m]] < d[m])
  <2> DEFINE T == {i \in Nat : \A x \in Node : d[x] < i /\ r[x] # x => d[r[x]] < d[x]}
  <2>1. 0 \in T
    BY <1>3
  <2>2. ASSUME NEW i \in Nat, i \in T
        PROVE  i + 1 \in T
    <3> SUFFICES ASSUME NEW x \in Node, d[x] < i + 1, r[x] # x
                 PROVE  d[r[x]] < d[x]
      OBVIOUS
    <3>1. ~IsRoot(p, x) /\ p[x] \in Node /\ r[p[x]] = r[x] /\ d[p[x]] < d[x]
      BY <1>3 DEF IsRoot, Parents
    <3>2. d[p[x]] \in Nat /\ d[x] \in Nat /\ d[r[x]] \in Nat /\ d[p[x]] < i
      BY <1>3, <3>1
    <3>3. r[p[x]] # p[x] => d[r[p[x]]] < d[p[x]]
      BY <2>2, <3>1, <3>2
    <3> QED
      BY <3>1, <3>2, <3>3
  <2>3. Nat \subseteq T
    <3> HIDE DEF T
    <3> QED
      BY <2>1, <2>2, Induct
  <2>4. d[m] \in Nat /\ d[r[m]] \in Nat /\ d[m] + 1 \in T
    BY <1>3, <2>3
  <2>5. d[m] < d[m] + 1
    BY <2>4
  <2>6. r[m] # m => d[r[m]] < d[m]
    BY <2>4, <2>5
  <2>7. r[m] = m => d[r[m]] = d[m]
    OBVIOUS
  <2> QED
    BY <2>4, <2>6, <2>7
<1>7. ASSUME NEW m \in Node
      PROVE  IF IsRoot(q, m) THEN r[m] = m ELSE r[q[m]] = r[m] /\ d[q[m]] < d[m]
  <2>1. CASE m \in A
    <3>1. q[m] = r[n] /\ r[m] = r[n] /\ r[r[n]] = r[n]
      BY <1>1, <1>2, <1>5, <2>1
    <3>2. r[n] # -1
      BY <1>5, NodeNat
    <3> QED
      BY <1>6, <3>1, <3>2 DEF IsRoot
  <2>2. CASE m \notin A
    BY <1>1, <1>3, <2>2 DEF IsRoot
  <2> QED
    BY <2>1, <2>2
<1>8. ASSUME NEW m \in Node
      PROVE  IsRoot(q, r[m])
  <2>1. CASE r[m] \in A
    BY <1>1, <1>2, <1>5, <2>1 DEF IsRoot
  <2>2. CASE r[m] \notin A
    BY <1>1, <1>3, <1>5, <2>2 DEF IsRoot
  <2> QED
    BY <2>1, <2>2
<1>9. r[n] # -1
  BY <1>5, NodeNat
<1>10. /\ q[r[n]] = r[n]
       /\ \A m \in Node : q[m] = -1 => p[m] = -1
       /\ \A m \in Node : q[m] = m => p[m] = m \/ m = r[n]
       /\ q[n] # -1
  BY <1>1, <1>2, <1>9
<1> QED
  BY <1>3, <1>4, <1>7, <1>8, <1>10 DEF Ranked, q

LEMMA AskRanked ==
  ASSUME NEW p, NEW r, NEW d, Ranked(p, r, d), NEW x \in Node, NEW y \in Node
  PROVE  /\ Ranked(Ask(p, x, y), r, d)
         /\ \A m \in Node : Ask(p, x, y)[m] = -1 => p[m] = -1 /\ m \notin {x, y}
         /\ \A m \in Node : Ask(p, x, y)[m] = m => p[m] = m \/ m \in {r[x], r[y]}
<1> DEFINE q == Compress(p, x)
<1>1. /\ Ranked(q, r, d)
      /\ \A m \in Node : q[m] = -1 => p[m] = -1
      /\ \A m \in Node : q[m] = m => p[m] = m \/ m = r[x]
      /\ q[x] # -1
  BY CompressRanked
<1> HIDE DEF q
<1>2. /\ Ranked(Compress(q, y), r, d)
      /\ \A m \in Node : Compress(q, y)[m] = -1 => q[m] = -1
      /\ \A m \in Node : Compress(q, y)[m] = m => q[m] = m \/ m = r[y]
      /\ Compress(q, y)[y] # -1
  BY <1>1, CompressRanked
<1>3. Ask(p, x, y) = Compress(q, y)
  BY DEF Ask, q
<1> QED
  BY <1>1, <1>2, <1>3

\* The representatives after merge, and the ranks.
Joins(r, x, y) == [m \in Node |-> IF r[m] = r[y] THEN r[x] ELSE r[m]]

Deeper(r, d, x, y) ==
  [m \in Node |-> IF r[m] = r[y] /\ r[x] # r[y] THEN d[m] + d[r[x]] + 1 ELSE d[m]]

LEMMA MergeRanked ==
  ASSUME NEW p, NEW r, NEW d, Ranked(p, r, d), NEW x \in Node, NEW y \in Node
  PROVE  /\ Ranked(merge(p, x, y), Joins(r, x, y), Deeper(r, d, x, y))
         /\ \A m \in Node : merge(p, x, y)[m] = -1 => p[m] = -1 /\ m \notin {x, y}
         /\ \A m \in Node : merge(p, x, y)[m] = m => p[m] = m \/ m = r[x]
<1> DEFINE a == Ask(p, x, y)
           q == merge(p, x, y)
           s == Joins(r, x, y)
           e == Deeper(r, d, x, y)
<1>1. /\ Ranked(a, r, d)
      /\ \A m \in Node : a[m] = -1 => p[m] = -1 /\ m \notin {x, y}
      /\ \A m \in Node : a[m] = m => p[m] = m \/ m \in {r[x], r[y]}
  BY AskRanked
<1>2. q = [a EXCEPT ![r[y]] = r[x]]
  BY AscentFacts DEF merge
<1> HIDE DEF a, q
<1>3. /\ a \in Parents /\ r \in [Node -> Node] /\ d \in [Node -> Nat]
      /\ \A m \in Node : IsRoot(a, r[m])
      /\ \A m \in Node : IF IsRoot(a, m) THEN r[m] = m
                         ELSE r[a[m]] = r[m] /\ d[a[m]] < d[m]
  BY <1>1 DEF Ranked
<1>4. r[x] \in Node /\ r[y] \in Node /\ r[x] # -1 /\ r[r[x]] = r[x] /\ r[r[y]] = r[y]
  <2>1. r[x] \in Node /\ r[y] \in Node /\ IsRoot(a, r[x]) /\ IsRoot(a, r[y])
    BY <1>3
  <2> QED
    BY <1>3, <2>1, NodeNat
<1>5. q \in Parents
  BY <1>2, <1>3, <1>4 DEF Parents
<1>6. \A m \in Node : q[m] = IF m = r[y] THEN r[x] ELSE a[m]
  BY <1>2, <1>3 DEF Parents
<1>7. /\ s \in [Node -> Node] /\ e \in [Node -> Nat]
      /\ \A m \in Node : s[m] = IF r[m] = r[y] THEN r[x] ELSE r[m]
      /\ \A m \in Node : e[m] = IF r[m] = r[y] /\ r[x] # r[y] THEN d[m] + d[r[x]] + 1 ELSE d[m]
  BY <1>3, <1>4 DEF Joins, Deeper
<1> HIDE DEF s, e
<1>8. ASSUME NEW m \in Node
      PROVE  IsRoot(q, s[m])
  <2>1. r[m] \in Node /\ r[r[m]] = r[m] /\ IsRoot(a, r[m]) /\ IsRoot(a, r[x])
    BY <1>3
  <2> QED
    BY <1>4, <1>6, <1>7, <2>1 DEF IsRoot
<1>9. ASSUME NEW m \in Node
      PROVE  IF IsRoot(q, m) THEN s[m] = m ELSE s[q[m]] = s[m] /\ e[q[m]] < e[m]
  <2>1. CASE m = r[y]
    <3>1. q[m] = r[x] /\ r[m] = r[y] /\ s[m] = r[x]
      BY <1>4, <1>6, <1>7, <2>1
    <3>2. CASE r[x] = r[y]
      BY <1>4, <2>1, <3>1, <3>2 DEF IsRoot
    <3>3. CASE r[x] # r[y]
      <4>1. ~IsRoot(q, m) /\ s[r[x]] = r[x]
        BY <1>4, <1>7, <2>1, <3>1, <3>3 DEF IsRoot
      <4>2. e[r[x]] = d[r[x]] /\ e[m] = d[m] + d[r[x]] + 1
        BY <1>4, <1>7, <3>1, <3>3
      <4>3. d[m] \in Nat /\ d[r[x]] \in Nat
        BY <1>3, <1>4
      <4> QED
        BY <3>1, <4>1, <4>2, <4>3
    <3> QED
      BY <3>2, <3>3
  <2>2. CASE m # r[y] /\ IsRoot(a, m)
    BY <1>3, <1>6, <1>7, <2>2 DEF IsRoot
  <2>3. CASE m # r[y] /\ ~IsRoot(a, m)
    <3>1. q[m] = a[m] /\ a[m] \in Node /\ r[a[m]] = r[m] /\ d[a[m]] < d[m]
      BY <1>3, <1>6, <2>3 DEF IsRoot, Parents
    <3>2. ~IsRoot(q, m) /\ s[q[m]] = s[m]
      BY <1>7, <2>3, <3>1 DEF IsRoot
    <3>3. d[m] \in Nat /\ d[a[m]] \in Nat /\ d[r[x]] \in Nat
      BY <1>3, <1>4, <3>1
    <3>4. e[q[m]] < e[m]
      BY <1>7, <3>1, <3>3
    <3> QED
      BY <3>2, <3>4
  <2> QED
    BY <2>1, <2>2, <2>3
<1>10. \A m \in Node : q[m] = -1 => p[m] = -1 /\ m \notin {x, y}
  BY <1>1, <1>4, <1>6
<1>11. \A m \in Node : q[m] = m => p[m] = m \/ m = r[x]
  BY <1>1, <1>4, <1>6
<1> QED
  BY <1>5, <1>7, <1>8, <1>9, <1>10, <1>11 DEF Ranked, q, s, e

-----------------------------------------------------------------------------
(***************************************************************************)
(* The lists of one side: H is the array head, X the array next of side s, *)
(* I the positions of the keys that are linked and e gives their ends.  A  *)
(* key's rank q is higher than that of the keys behind it in its list.     *)
(***************************************************************************)
NodesOf(s) == IF s = "A" THEN NodeA ELSE NodeB

\* The end of key i that is on side s, and the other end.
At(e, s, i) == IF s = "A" THEN e[i][1] ELSE e[i][2]

Far(e, s, i) == IF s = "A" THEN e[i][2] ELSE e[i][1]

Named(e, s, i) == [keyId |-> i, nodeId |-> Far(e, s, i)]

Chained(H, X, s, I, e, q, N) ==
  /\ \A n \in NodesOf(s) :
       \/ H[n] = Nil
       \/ /\ H[n].keyId \in I /\ H[n] = Named(e, s, H[n].keyId)
          /\ At(e, s, H[n].keyId) = n
  /\ \A i \in I :
       \/ X[i] = Nil
       \/ /\ X[i].keyId \in I /\ X[i] = Named(e, s, X[i].keyId)
          /\ At(e, s, X[i].keyId) = At(e, s, i)
          /\ q[X[i].keyId] < q[i]
  /\ \A i \in I : H[At(e, s, i)].keyId = i \/ \E j \in I : X[j].keyId = i
  /\ \A i, j \in I : X[i].keyId = X[j].keyId => i = j \/ X[i] = Nil
  /\ \A i \in I : X[i].keyId = H[At(e, s, i)].keyId => X[i] = Nil
  /\ \A i \in I : q[i] \in Nat /\ q[i] < N

Ranks == [Id -> Nat]

Listed(g, s, I, e) ==
  \E q \in Ranks, N \in Nat : Chained(g.head, g.next[s], s, I, e, q, N)

LEMMA NilIs == Nil.keyId = -1 /\ -1 \notin Id /\ Id \subseteq Nat
BY DEF Nil, Id

LEMMA NamedIs ==
  ASSUME NEW e, NEW s, NEW i
  PROVE  Named(e, s, i).keyId = i /\ Named(e, s, i).nodeId = Far(e, s, i)
BY DEF Named

\* The lists depend only on the heads of the side's nodes and on the cells and
\* ends of the linked keys.
LEMMA ChainedSame ==
  ASSUME NEW H, NEW X, NEW s, NEW I, NEW e, NEW q, NEW N, Chained(H, X, s, I, e, q, N),
         NEW G, NEW Y, NEW f,
         \A i \in I : At(e, s, i) \in NodesOf(s),
         \A n \in NodesOf(s) : G[n] = H[n],
         \A i \in I : Y[i] = X[i] /\ f[i] = e[i]
  PROVE  Chained(G, Y, s, I, f, q, N)
<1>1. \A i \in I : /\ At(f, s, i) = At(e, s, i) /\ Far(f, s, i) = Far(e, s, i)
                   /\ Named(f, s, i) = Named(e, s, i)
  BY DEF At, Far, Named
<1>2. \A i \in I : H[At(e, s, i)] = G[At(f, s, i)]
  BY <1>1
<1> QED
  BY <1>1, <1>2 DEF Chained

\* In (G, Y), key i is in front of the list that its end leads to in (H, X).
Fronted(H, X, G, Y, s, I, f, i) ==
  /\ G[At(f, s, i)] = Named(f, s, i)
  /\ \A n \in NodesOf(s) \ {At(f, s, i)} : G[n] = H[n]
  /\ Y[i] = H[At(f, s, i)]
  /\ \A j \in I : Y[j] = X[j]

\* A key goes to the front of its list.
LEMMA ChainedFront ==
  ASSUME NEW H, NEW X, NEW s, NEW I \in SUBSET Id, NEW e, NEW q \in Ranks, NEW N \in Nat,
         Chained(H, X, s, I, e, q, N),
         NEW i \in Id, i \notin I,
         NEW f, \A j \in I : f[j] = e[j],
         \A j \in I \cup {i} : At(f, s, j) \in NodesOf(s),
         NEW G, NEW Y, Fronted(H, X, G, Y, s, I, f, i)
  PROVE  Chained(G, Y, s, I \cup {i}, f, [q EXCEPT ![i] = N], N + 1)
<1> DEFINE p == [q EXCEPT ![i] = N]
           n == At(f, s, i)
<1> USE DEF Fronted
<1>1. \A j \in I : /\ At(f, s, j) = At(e, s, j) /\ Far(f, s, j) = Far(e, s, j)
                   /\ Named(f, s, j) = Named(e, s, j)
  BY DEF At, Far, Named
<1>2. p[i] = N /\ \A j \in I : p[j] = q[j] /\ j # i /\ p[j] < N
  BY DEF Ranks, Chained
<1>3. Named(f, s, i).keyId = i /\ Named(f, s, i) # Nil /\ i # -1
  BY NamedIs, NilIs
<1> HIDE DEF p, n
<1>4. ASSUME NEW m \in NodesOf(s)
      PROVE  \/ G[m] = Nil
             \/ /\ G[m].keyId \in I \cup {i} /\ G[m] = Named(f, s, G[m].keyId)
                /\ At(f, s, G[m].keyId) = m
  BY <1>1, <1>3 DEF Chained, n
<1>5. ASSUME NEW j \in I \cup {i}
      PROVE  \/ Y[j] = Nil
             \/ /\ Y[j].keyId \in I \cup {i} /\ Y[j] = Named(f, s, Y[j].keyId)
                /\ At(f, s, Y[j].keyId) = At(f, s, j)
                /\ p[Y[j].keyId] < p[j]
  <2>1. CASE j = i
    BY <1>1, <1>2, <2>1 DEF Chained, n
  <2>2. CASE j \in I
    BY <1>1, <1>2, <2>2 DEF Chained
  <2> QED
    BY <2>1, <2>2
<1>6. ASSUME NEW j \in I \cup {i}
      PROVE  G[At(f, s, j)].keyId = j \/ \E k \in I \cup {i} : Y[k].keyId = j
  <2>1. CASE j = i
    BY <1>3, <2>1
  <2>2. CASE j \in I
    <3>1. H[At(e, s, j)].keyId = j \/ \E k \in I : X[k].keyId = j
      BY <2>2 DEF Chained
    <3>2. CASE H[At(e, s, j)].keyId = j
      <4>1. CASE At(f, s, j) = At(f, s, i)
        BY <1>1, <2>2, <3>2, <4>1
      <4>2. CASE At(f, s, j) # At(f, s, i)
        BY <1>1, <2>2, <3>2, <4>2
      <4> QED
        BY <4>1, <4>2
    <3>3. CASE \E k \in I : X[k].keyId = j
      BY <3>3
    <3> QED
      BY <3>1, <3>2, <3>3
  <2> QED
    BY <2>1, <2>2
<1>7. Y[i] = Nil \/ (Y[i].keyId \in I /\ At(e, s, Y[i].keyId) = At(f, s, i))
  BY DEF Chained
<1>8. ASSUME NEW j \in I, Y[j].keyId = Y[i].keyId
      PROVE  Y[j] = Nil /\ Y[i] = Nil
  <2>1. \/ X[j] = Nil
        \/ X[j].keyId \in I /\ At(e, s, X[j].keyId) = At(e, s, j)
    BY DEF Chained
  <2>2. CASE X[j] = Nil
    <3>1. Y[i].keyId = -1
      BY <1>8, <2>2, NilIs
    <3> QED
      BY <1>7, <2>2, <3>1, NilIs
  <2>3. CASE X[j] # Nil
    <3>1. X[j].keyId \in I /\ At(e, s, X[j].keyId) = At(e, s, j)
      BY <2>1, <2>3
    <3>2. X[j].keyId = Y[i].keyId
      BY <1>8
    <3>3. Y[i] # Nil
      BY <3>1, <3>2, NilIs
    <3>4. At(e, s, j) = At(f, s, i)
      BY <1>7, <3>1, <3>2, <3>3
    <3>5. X[j].keyId = H[At(e, s, j)].keyId
      BY <3>2, <3>4
    <3> QED
      BY <2>3, <3>5 DEF Chained
  <2> QED
    BY <2>2, <2>3
<1>9. ASSUME NEW j \in I \cup {i}, NEW k \in I \cup {i}, Y[j].keyId = Y[k].keyId
      PROVE  j = k \/ Y[j] = Nil
  <2>1. CASE j \in I /\ k \in I
    BY <1>9, <2>1 DEF Chained
  <2>2. CASE j = i \/ k = i
    BY <1>8, <1>9, <2>2
  <2> QED
    BY <2>1, <2>2
<1>10. ASSUME NEW j \in I \cup {i}, Y[j].keyId = G[At(f, s, j)].keyId
       PROVE  Y[j] = Nil
  <2>1. CASE At(f, s, j) = At(f, s, i)
    <3>1. Y[j].keyId = i
      BY <1>3, <1>10, <2>1
    <3>2. Y[j] = Nil \/ Y[j].keyId \in I
      BY <1>7 DEF Chained
    <3> QED
      BY <3>1, <3>2
  <2>2. CASE At(f, s, j) # At(f, s, i)
    <3>1. j \in I
      BY <2>2
    <3> QED
      BY <1>1, <1>10, <2>2, <3>1 DEF Chained
  <2> QED
    BY <2>1, <2>2
<1>11. \A j \in I \cup {i} : p[j] \in Nat /\ p[j] < N + 1
  BY <1>2 DEF Chained, Ranks, p
<1> QED
  BY <1>4, <1>5, <1>6, <1>9, <1>10, <1>11 DEF Chained, p

\* In (G, Y), the cell that names key i in (H, X), the first in its list or the
\* one behind key t, is c.
Renamed(H, X, G, Y, s, I, e, i, c) ==
  \/ /\ H[At(e, s, i)].keyId = i
     /\ G[At(e, s, i)] = c /\ \A n \in NodesOf(s) \ {At(e, s, i)} : G[n] = H[n]
     /\ \A j \in I \ {i} : Y[j] = X[j]
  \/ \E t \in I :
       /\ H[At(e, s, i)].keyId # i /\ X[t].keyId = i
       /\ \A n \in NodesOf(s) : G[n] = H[n]
       /\ Y[t] = c /\ \A j \in I \ {i, t} : Y[j] = X[j]

\* A key leaves its list: the cell that named it has the cell behind it.
LEMMA ChainedCut ==
  ASSUME NEW H, NEW X, NEW s, NEW I \in SUBSET Id, NEW e, NEW q, NEW N \in Nat,
         Chained(H, X, s, I, e, q, N),
         \A j \in I : At(e, s, j) \in NodesOf(s),
         NEW i \in I, NEW G, NEW Y, Renamed(H, X, G, Y, s, I, e, i, X[i])
  PROVE  Chained(G, Y, s, I \ {i}, e, q, N)
<1> DEFINE n == At(e, s, i)
           J == I \ {i}
<1>1. i # -1 /\ Nil.keyId = -1 /\ -1 \notin I /\ n \in NodesOf(s)
  BY NilIs
<1>2. X[i].keyId # i
  <2>1. q[i] \in Nat
    BY DEF Chained
  <2> QED
    BY <1>1, <2>1 DEF Chained
<1> HIDE DEF n
<1>3. CASE /\ H[n].keyId = i
           /\ G[n] = X[i] /\ \A m \in NodesOf(s) \ {n} : G[m] = H[m]
           /\ \A j \in J : Y[j] = X[j]
  <2>1. \A m \in NodesOf(s) \ {n} : H[m] = Nil \/ H[m].keyId # i
    BY DEF Chained, n
  <2>2. \A j \in I : X[j] = Nil \/ X[j].keyId # i
    <3> SUFFICES ASSUME NEW j \in I, X[j] # Nil, X[j].keyId = i
                 PROVE  FALSE
      OBVIOUS
    <3>1. At(e, s, j) = n
      BY DEF Chained, n
    <3> QED
      BY <1>3, <3>1 DEF Chained
  <2>3. \A m \in NodesOf(s) :
          \/ G[m] = Nil
          \/ /\ G[m].keyId \in J /\ G[m] = Named(e, s, G[m].keyId)
             /\ At(e, s, G[m].keyId) = m
    BY <1>2, <1>3, <2>1 DEF Chained, n
  <2>4. \A j \in J :
          \/ Y[j] = Nil
          \/ /\ Y[j].keyId \in J /\ Y[j] = Named(e, s, Y[j].keyId)
             /\ At(e, s, Y[j].keyId) = At(e, s, j)
             /\ q[Y[j].keyId] < q[j]
    BY <1>3, <2>2 DEF Chained
  <2>5. ASSUME NEW j \in J
        PROVE  G[At(e, s, j)].keyId = j \/ \E k \in J : Y[k].keyId = j
    <3>1. H[At(e, s, j)].keyId = j \/ \E k \in I : X[k].keyId = j
      BY DEF Chained
    <3>2. CASE H[At(e, s, j)].keyId = j
      <4>1. At(e, s, j) # n
        BY <1>3, <3>2
      <4> QED
        BY <1>3, <3>2, <4>1
    <3>3. CASE X[i].keyId = j
      <4>1. X[i] # Nil /\ At(e, s, j) = n
        BY <1>1, <3>3 DEF Chained, n
      <4> QED
        BY <1>3, <3>3, <4>1
    <3>4. CASE \E k \in J : X[k].keyId = j
      BY <1>3, <3>4
    <3> QED
      BY <3>1, <3>2, <3>3, <3>4
  <2>6. \A j, k \in J : Y[j].keyId = Y[k].keyId => j = k \/ Y[j] = Nil
    BY <1>3 DEF Chained
  <2>7. ASSUME NEW j \in J, Y[j].keyId = G[At(e, s, j)].keyId
        PROVE  Y[j] = Nil
    <3>1. CASE At(e, s, j) = n
      <4>1. X[j].keyId = X[i].keyId
        BY <1>3, <2>7, <3>1
      <4> QED
        BY <1>3, <4>1 DEF Chained
    <3>2. CASE At(e, s, j) # n
      BY <1>3, <2>7, <3>2 DEF Chained
    <3> QED
      BY <3>1, <3>2
  <2> QED
    BY <2>3, <2>4, <2>5, <2>6, <2>7 DEF Chained
<1>4. ASSUME NEW t \in I,
             H[n].keyId # i, X[t].keyId = i,
             \A m \in NodesOf(s) : G[m] = H[m],
             Y[t] = X[i], \A j \in J \ {t} : Y[j] = X[j]
      PROVE  Chained(G, Y, s, J, e, q, N)
  <2>1. t # i /\ X[t] # Nil /\ At(e, s, t) = n /\ q[i] < q[t]
    BY <1>1, <1>2, <1>4 DEF Chained, n
  <2>2. \A m \in NodesOf(s) : H[m] = Nil \/ H[m].keyId # i
    BY <1>4 DEF Chained, n
  <2>3. \A j \in I \ {t} : X[j].keyId # i
    BY <1>4, <2>1 DEF Chained
  <2>4. \A m \in NodesOf(s) :
          \/ G[m] = Nil
          \/ /\ G[m].keyId \in J /\ G[m] = Named(e, s, G[m].keyId)
             /\ At(e, s, G[m].keyId) = m
    BY <1>4, <2>2 DEF Chained
  <2>5. ASSUME NEW j \in J
        PROVE  \/ Y[j] = Nil
               \/ /\ Y[j].keyId \in J /\ Y[j] = Named(e, s, Y[j].keyId)
                  /\ At(e, s, Y[j].keyId) = At(e, s, j)
                  /\ q[Y[j].keyId] < q[j]
    <3>1. CASE j = t
      <4>1. \/ X[i] = Nil
            \/ /\ X[i].keyId \in J /\ X[i] = Named(e, s, X[i].keyId)
               /\ At(e, s, X[i].keyId) = n
               /\ q[X[i].keyId] < q[i]
        BY <1>2 DEF Chained, n
      <4>2. q[i] \in Nat /\ q[t] \in Nat /\ (X[i].keyId \in J => q[X[i].keyId] \in Nat)
        BY DEF Chained
      <4> QED
        BY <1>4, <2>1, <3>1, <4>1, <4>2
    <3>2. CASE j # t
      BY <1>4, <2>3, <3>2 DEF Chained
    <3> QED
      BY <3>1, <3>2
  <2>6. ASSUME NEW j \in J
        PROVE  G[At(e, s, j)].keyId = j \/ \E k \in J : Y[k].keyId = j
    <3>1. H[At(e, s, j)].keyId = j \/ \E k \in I : X[k].keyId = j
      BY DEF Chained
    <3>2. CASE H[At(e, s, j)].keyId = j
      BY <1>4, <3>2
    <3>3. ASSUME NEW k \in I, X[k].keyId = j
          PROVE  \E l \in J : Y[l].keyId = j
      <4>1. CASE k = i
        BY <1>4, <2>1, <3>3, <4>1
      <4>2. CASE k # i
        <5>1. k # t
          BY <1>4, <3>3
        <5> QED
          BY <1>4, <3>3, <4>2, <5>1
      <4> QED
        BY <4>1, <4>2
    <3> QED
      BY <3>1, <3>2, <3>3
  <2>7. \A j, k \in J : Y[j].keyId = Y[k].keyId => j = k \/ Y[j] = Nil
    <3> SUFFICES ASSUME NEW j \in J, NEW k \in J, Y[j].keyId = Y[k].keyId, j # k
                 PROVE  Y[j] = Nil
      OBVIOUS
    <3>1. CASE j # t /\ k # t
      BY <1>4, <3>1 DEF Chained
    <3>2. CASE j = t
      <4>1. X[i].keyId = X[k].keyId
        BY <1>4, <3>2
      <4> QED
        BY <1>4, <3>2, <4>1 DEF Chained
    <3>3. CASE k = t
      <4>1. X[j].keyId = X[i].keyId /\ j # i
        BY <1>4, <3>3
      <4> QED
        BY <1>4, <3>3, <4>1 DEF Chained
    <3> QED
      BY <3>1, <3>2, <3>3
  <2>8. ASSUME NEW j \in J, Y[j].keyId = G[At(e, s, j)].keyId
        PROVE  Y[j] = Nil
    <3>1. CASE j = t
      BY <1>1, <1>4, <2>1, <2>8, <3>1 DEF Chained, n
    <3>2. CASE j # t
      BY <1>4, <2>8, <3>2 DEF Chained
    <3> QED
      BY <3>1, <3>2
  <2> QED
    BY <2>4, <2>5, <2>6, <2>7, <2>8 DEF Chained
<1> QED
  BY <1>3, <1>4 DEF Renamed, n

\* A key goes by another position: the cell that named it names the new one.
LEMMA ChainedRename ==
  ASSUME NEW H, NEW X, NEW s, NEW I \in SUBSET Id, NEW e, NEW q \in Ranks, NEW N \in Nat,
         Chained(H, X, s, I, e, q, N),
         \A k \in I : At(e, s, k) \in NodesOf(s),
         NEW j \in I, NEW i \in Id, i \notin I,
         NEW f, f[i] = e[j], \A k \in I \ {j} : f[k] = e[k],
         NEW G, NEW Y, Y[i] = X[j], Renamed(H, X, G, Y, s, I, e, j, Named(f, s, i))
  PROVE  Chained(G, Y, s, (I \ {j}) \cup {i}, f, [q EXCEPT ![i] = q[j]], N)
<1> DEFINE n == At(e, s, j)
           J == (I \ {j}) \cup {i}
           p == [q EXCEPT ![i] = q[j]]
<1>1. /\ i # -1 /\ j # -1 /\ Nil.keyId = -1 /\ -1 \notin I /\ n \in NodesOf(s)
      /\ Named(f, s, i).keyId = i /\ Named(f, s, i) # Nil
  BY NilIs, NamedIs
<1>2. /\ \A k \in I \ {j} : /\ At(f, s, k) = At(e, s, k)
                            /\ Named(f, s, k) = Named(e, s, k)
      /\ At(f, s, i) = n
  BY DEF At, Far, Named
<1>3. p[i] = q[j] /\ \A k \in I : p[k] = q[k]
  BY DEF Ranks
<1>4. X[j].keyId # j
  <2>1. q[j] \in Nat
    BY DEF Chained
  <2> QED
    BY <1>1, <2>1 DEF Chained
<1>5. \A k \in J : p[k] \in Nat /\ p[k] < N
  BY <1>3 DEF Chained
<1> HIDE DEF n, p
\* What lies behind the new position.
<1>6. \/ Y[i] = Nil
      \/ /\ Y[i].keyId \in I \ {j} /\ Y[i] = Named(f, s, Y[i].keyId)
         /\ At(f, s, Y[i].keyId) = n /\ p[Y[i].keyId] < p[i]
  BY <1>2, <1>3, <1>4 DEF Chained, n
<1>7. CASE /\ H[n].keyId = j
           /\ G[n] = Named(f, s, i) /\ \A m \in NodesOf(s) \ {n} : G[m] = H[m]
           /\ \A k \in I \ {j} : Y[k] = X[k]
  <2>1. \A m \in NodesOf(s) \ {n} : H[m] = Nil \/ H[m].keyId # j
    BY DEF Chained, n
  <2>2. \A k \in I : X[k] = Nil \/ X[k].keyId # j
    <3> SUFFICES ASSUME NEW k \in I, X[k] # Nil, X[k].keyId = j
                 PROVE  FALSE
      OBVIOUS
    <3>1. At(e, s, k) = n
      BY DEF Chained, n
    <3> QED
      BY <1>7, <3>1 DEF Chained
  <2>3. \A m \in NodesOf(s) :
          \/ G[m] = Nil
          \/ /\ G[m].keyId \in J /\ G[m] = Named(f, s, G[m].keyId)
             /\ At(f, s, G[m].keyId) = m
    <3> SUFFICES ASSUME NEW m \in NodesOf(s), m # n, G[m] # Nil
                 PROVE  /\ G[m].keyId \in J /\ G[m] = Named(f, s, G[m].keyId)
                        /\ At(f, s, G[m].keyId) = m
      BY <1>1, <1>2, <1>7
    <3>1. G[m] = H[m] /\ H[m].keyId \in I \ {j}
      BY <1>7, <2>1 DEF Chained
    <3> QED
      BY <1>2, <3>1 DEF Chained
  <2>4. ASSUME NEW k \in J
        PROVE  \/ Y[k] = Nil
               \/ /\ Y[k].keyId \in J /\ Y[k] = Named(f, s, Y[k].keyId)
                  /\ At(f, s, Y[k].keyId) = At(f, s, k)
                  /\ p[Y[k].keyId] < p[k]
    <3>1. CASE k = i
      BY <1>2, <1>6, <3>1
    <3>2. CASE k \in I \ {j}
      <4>1. Y[k] = X[k] /\ (X[k] = Nil \/ X[k].keyId \in I \ {j})
        BY <1>7, <2>2, <3>2 DEF Chained
      <4> QED
        BY <1>2, <1>3, <3>2, <4>1 DEF Chained
    <3> QED
      BY <3>1, <3>2
  <2>5. ASSUME NEW k \in J
        PROVE  G[At(f, s, k)].keyId = k \/ \E l \in J : Y[l].keyId = k
    <3>1. CASE k = i
      BY <1>1, <1>2, <1>7, <3>1
    <3>2. CASE k \in I \ {j}
      <4>1. H[At(e, s, k)].keyId = k \/ \E l \in I : X[l].keyId = k
        BY <3>2 DEF Chained
      <4>2. CASE H[At(e, s, k)].keyId = k
        <5>1. At(e, s, k) # n
          BY <1>7, <3>2, <4>2
        <5> QED
          BY <1>2, <1>7, <3>2, <4>2, <5>1
      <4>3. ASSUME NEW l \in I, X[l].keyId = k
            PROVE  \E l2 \in J : Y[l2].keyId = k
        <5>1. CASE l = j
          BY <4>3, <5>1
        <5>2. CASE l # j
          BY <1>7, <4>3, <5>2
        <5> QED
          BY <5>1, <5>2
      <4> QED
        BY <4>1, <4>2, <4>3
    <3> QED
      BY <3>1, <3>2
  <2>6. ASSUME NEW k \in J, NEW l \in J, Y[k].keyId = Y[l].keyId, k # l
        PROVE  Y[k] = Nil
    <3>1. CASE k # i /\ l # i
      BY <1>7, <2>6, <3>1 DEF Chained
    <3>2. CASE k = i
      <4>1. X[j].keyId = X[l].keyId /\ l \in I \ {j}
        BY <1>7, <2>6, <3>2
      <4> QED
        BY <3>2, <4>1 DEF Chained
    <3>3. CASE l = i
      <4>1. X[k].keyId = X[j].keyId /\ k \in I \ {j} /\ Y[k] = X[k]
        BY <1>7, <2>6, <3>3
      <4> QED
        BY <4>1 DEF Chained
    <3> QED
      BY <3>1, <3>2, <3>3
  <2>7. ASSUME NEW k \in J, Y[k].keyId = G[At(f, s, k)].keyId
        PROVE  Y[k] = Nil
    <3>1. CASE At(f, s, k) = n
      <4>1. Y[k].keyId = i
        BY <1>1, <1>7, <2>7, <3>1
      <4>2. Y[k] = Nil \/ Y[k].keyId \in I
        BY <1>6, <1>7 DEF Chained
      <4> QED
        BY <4>1, <4>2
    <3>2. CASE At(f, s, k) # n
      <4>1. k \in I \ {j} /\ At(f, s, k) = At(e, s, k) /\ Y[k] = X[k]
        BY <1>2, <1>7, <3>2
      <4>2. G[At(f, s, k)] = H[At(e, s, k)]
        BY <1>7, <3>2, <4>1
      <4> QED
        BY <2>7, <4>1, <4>2 DEF Chained
    <3> QED
      BY <3>1, <3>2
  <2>8. Chained(G, Y, s, J, f, p, N)
    <3> HIDE DEF J
    <3> QED
      BY <1>5, <2>3, <2>4, <2>5, <2>6, <2>7 DEF Chained
  <2> QED
    BY <2>8 DEF p
<1>8. ASSUME NEW t \in I,
             H[n].keyId # j, X[t].keyId = j,
             \A m \in NodesOf(s) : G[m] = H[m],
             Y[t] = Named(f, s, i), \A k \in I \ {j, t} : Y[k] = X[k]
      PROVE  Chained(G, Y, s, J, f, p, N)
  <2>1. t # j /\ X[t] # Nil /\ At(e, s, t) = n /\ q[j] < q[t] /\ t \in J
    <3>1. t # j /\ X[t] # Nil
      BY <1>1, <1>4, <1>8
    <3>2. At(e, s, X[t].keyId) = At(e, s, t) /\ q[X[t].keyId] < q[t]
      BY <3>1 DEF Chained
    <3> QED
      BY <1>8, <3>1, <3>2 DEF n
  <2>2. \A m \in NodesOf(s) : H[m] = Nil \/ H[m].keyId # j
    BY <1>8 DEF Chained, n
  <2>3. \A k \in I \ {t} : X[k].keyId # j
    BY <1>8, <2>1 DEF Chained
  <2>4. \A m \in NodesOf(s) :
          \/ G[m] = Nil
          \/ /\ G[m].keyId \in J /\ G[m] = Named(f, s, G[m].keyId)
             /\ At(f, s, G[m].keyId) = m
    <3> SUFFICES ASSUME NEW m \in NodesOf(s), G[m] # Nil
                 PROVE  /\ G[m].keyId \in J /\ G[m] = Named(f, s, G[m].keyId)
                        /\ At(f, s, G[m].keyId) = m
      OBVIOUS
    <3>1. G[m] = H[m] /\ H[m].keyId \in I \ {j}
      BY <1>8, <2>2 DEF Chained
    <3> QED
      BY <1>2, <3>1 DEF Chained
  <2>5. ASSUME NEW k \in J
        PROVE  \/ Y[k] = Nil
               \/ /\ Y[k].keyId \in J /\ Y[k] = Named(f, s, Y[k].keyId)
                  /\ At(f, s, Y[k].keyId) = At(f, s, k)
                  /\ p[Y[k].keyId] < p[k]
    <3>1. CASE k = i
      BY <1>2, <1>6, <3>1
    <3>2. CASE k = t
      BY <1>1, <1>2, <1>3, <1>8, <2>1, <3>2
    <3>3. CASE k \in I \ {j, t}
      <4>1. Y[k] = X[k] /\ (X[k] = Nil \/ X[k].keyId \in I \ {j})
        BY <1>8, <2>3, <3>3 DEF Chained
      <4> QED
        BY <1>2, <1>3, <3>3, <4>1 DEF Chained
    <3> QED
      BY <3>1, <3>2, <3>3
  <2>6. ASSUME NEW k \in J
        PROVE  G[At(f, s, k)].keyId = k \/ \E l \in J : Y[l].keyId = k
    <3>1. CASE k = i
      BY <1>1, <1>8, <2>1, <3>1
    <3>2. CASE k \in I \ {j}
      <4>1. H[At(e, s, k)].keyId = k \/ \E l \in I : X[l].keyId = k
        BY <3>2 DEF Chained
      <4>2. CASE H[At(e, s, k)].keyId = k
        BY <1>2, <1>8, <3>2, <4>2
      <4>3. ASSUME NEW l \in I, X[l].keyId = k
            PROVE  \E l2 \in J : Y[l2].keyId = k
        <5>1. CASE l = j
          BY <4>3, <5>1
        <5>2. CASE l # j
          <6>1. l # t
            BY <1>8, <3>2, <4>3
          <6> QED
            BY <1>8, <4>3, <5>2, <6>1
        <5> QED
          BY <5>1, <5>2
      <4> QED
        BY <4>1, <4>2, <4>3
    <3> QED
      BY <3>1, <3>2
  <2>7. ASSUME NEW k \in J
        PROVE  IF k = t THEN Y[k].keyId = i
               ELSE Y[k].keyId # i /\ Y[k] = X[IF k = i THEN j ELSE k]
    <3>1. CASE k = t
      BY <1>1, <1>8, <3>1
    <3>2. CASE k = i
      BY <1>1, <1>6, <2>1, <3>2
    <3>3. CASE k \in I \ {j, t}
      <4>1. Y[k] = X[k] /\ (X[k] = Nil \/ X[k].keyId \in I)
        BY <1>8, <3>3 DEF Chained
      <4> QED
        BY <1>1, <3>3, <4>1
    <3> QED
      BY <3>1, <3>2, <3>3
  <2>8. ASSUME NEW k \in J, NEW l \in J, Y[k].keyId = Y[l].keyId, k # l
        PROVE  Y[k] = Nil
    <3>1. k # t /\ l # t
      BY <2>7, <2>8
    <3>2. /\ Y[k] = X[IF k = i THEN j ELSE k]
          /\ Y[l] = X[IF l = i THEN j ELSE l]
      BY <2>7, <3>1
    <3>3. PICK a \in I, b \in I : a # b /\ Y[k] = X[a] /\ Y[l] = X[b]
      BY <2>8, <3>2
    <3> QED
      BY <2>8, <3>3 DEF Chained
  <2>9. ASSUME NEW k \in J, Y[k].keyId = G[At(f, s, k)].keyId
        PROVE  Y[k] = Nil
    <3>1. At(f, s, k) \in NodesOf(s) /\ At(f, s, k) = At(e, s, IF k = i THEN j ELSE k)
      BY <1>1, <1>2 DEF n
    <3>2. G[At(f, s, k)].keyId # i
      <4>1. H[At(f, s, k)] = Nil \/ H[At(f, s, k)].keyId \in I
        BY <3>1 DEF Chained
      <4> QED
        BY <1>1, <1>8, <3>1, <4>1
    <3>3. k # t /\ Y[k] = X[IF k = i THEN j ELSE k]
      BY <2>7, <2>9, <3>2
    <3>4. PICK a \in I : Y[k] = X[a] /\ At(f, s, k) = At(e, s, a)
      BY <3>1, <3>3
    <3>5. X[a].keyId = H[At(e, s, a)].keyId
      BY <1>8, <2>9, <3>1, <3>4
    <3> QED
      BY <3>4, <3>5 DEF Chained
  <2> QED
    BY <1>5, <2>4, <2>5, <2>6, <2>8, <2>9 DEF Chained
<1> QED
  BY <1>7, <1>8 DEF Renamed, n, p

-----------------------------------------------------------------------------
(***************************************************************************)
(* Walking a list.                                                         *)
(***************************************************************************)
Sides == {"A", "B"}

LEMMA SideIs ==
  /\ \A n \in Node : Side(n) \in Sides /\ n \in NodesOf(Side(n))
  /\ \A s \in Sides : \A n \in NodesOf(s) : n \in Node /\ Side(n) = s
BY ListsAssumption DEF Side, Sides, NodesOf, Node, NodeA, NodeB

LEMMA EndsAt ==
  ASSUME NEW I, NEW e, Ends(I, e), NEW i \in I, NEW s \in Sides
  PROVE  /\ At(e, s, i) \in NodesOf(s) /\ At(e, s, i) \in Node /\ Far(e, s, i) \in Node
         /\ At(e, "A", i) = e[i][1] /\ At(e, "B", i) = e[i][2]
         /\ Far(e, "A", i) = e[i][2] /\ Far(e, "B", i) = e[i][1]
         /\ e[i][1] \in NodeA /\ e[i][2] \in NodeB
<1>1. e[i] \in NodeA \X NodeB
  BY DEF Ends
<1>2. e[i][1] \in NodeA /\ e[i][2] \in NodeB
  BY <1>1
<1> QED
  BY <1>2 DEF At, Far, NodesOf, Sides, Node

LEMMA IdFinite ==
  /\ Cardinality(Key) \in Nat /\ IsFiniteSet(Id) /\ Cardinality(Id) = Cardinality(Key)
  /\ \A I \in SUBSET Id : /\ IsFiniteSet(I) /\ Cardinality(I) \in Nat
                          /\ Cardinality(I) <= Cardinality(Key)
<1>1. Cardinality(Key) \in Nat
  BY ListsAssumption, FS_CardinalityType
<1>2. IsFiniteSet(Id) /\ Cardinality(Id) = Cardinality(Key)
  <2> DEFINE b == Cardinality(Key) - 1
  <2>1. b \in Int /\ 0 \in Int /\ (IF 0 > b THEN 0 ELSE b - 0 + 1) = Cardinality(Key)
    BY <1>1
  <2>2. Id = 0 .. b
    BY DEF Id
  <2> HIDE DEF b
  <2> QED
    BY <2>1, <2>2, FS_Interval, Zenon
<1>3. ASSUME NEW I \in SUBSET Id
      PROVE  /\ IsFiniteSet(I) /\ Cardinality(I) \in Nat
             /\ Cardinality(I) <= Cardinality(Key)
  <2>1. IsFiniteSet(I) /\ Cardinality(I) <= Cardinality(Id)
    BY <1>2, FS_Subset
  <2> QED
    BY <1>2, <2>1, FS_CardinalityType
<1> QED
  BY <1>1, <1>2, <1>3

LEMMA GraphIs ==
  ASSUME NEW g \in Graph, NEW s \in Sides
  PROVE  /\ g = [head |-> g.head, next |-> g.next, parent |-> g.parent]
         /\ g.head \in [Node -> Cell \cup {Nil}] /\ g.parent \in Parents
         /\ g.next \in [{"A", "B"} -> [Id -> Cell \cup {Nil}]]
         /\ g.next[s] \in [Id -> Cell \cup {Nil}]
         /\ \A c \in Cell : c.keyId \in Id /\ c.nodeId \in Node /\ c # Nil
BY NilIs DEF Graph, Parents, Sides, Cell

\* The recursion of Nth.
LEMMA NthIs ==
  ASSUME NEW g \in Graph, NEW n \in Node
  PROVE  /\ Nth(g, n) \in [Nat -> Cell \cup {Nil}]
         /\ Nth(g, n)[0] = g.head[n]
         /\ \A i \in Nat : Nth(g, n)[i + 1] = IF Nth(g, n)[i] = Nil THEN Nil
                                              ELSE g.next[Side(n)][Nth(g, n)[i].keyId]
<1> DEFINE S == Cell \cup {Nil}
           after(c) == IF c = Nil THEN Nil ELSE g.next[Side(n)][c.keyId]
           step == [x \in Nat \X S |-> after(x[2])]
           eqn(cell) == [i \in Nat |-> IF i = 0 THEN g.head[n]
                                       ELSE IF cell[i - 1] = Nil THEN Nil
                                       ELSE g.next[Side(n)][cell[i - 1].keyId]]
<1>1. \A c \in S : after(c) \in S
  BY GraphIs, SideIs
<1>2. g.head[n] \in S
  BY GraphIs, SideIs
<1>3. step \in [Nat \X S -> S] /\ \A i \in Nat, c \in S : step[<<i, c>>] = after(c)
  <2> HIDE DEF S, after
  <2> QED
    BY <1>1
<1>4. PICK f \in [Nat -> S] : /\ f[0] = g.head[n]
                              /\ \A i \in Nat : f[i + 1] = step[<<i, f[i]>>]
  <2> HIDE DEF step, S
  <2>1. Recursive(S, g.head[n], step) # {}
    BY <1>2, <1>3, Recursion
  <2> QED
    BY <2>1 DEF Recursive
<1>5. \A i \in Nat : f[i + 1] = after(f[i])
  <2> HIDE DEF step, S, after
  <2> QED
    BY <1>3, <1>4
<1>6. f = eqn(f)
  <2>1. ASSUME NEW i \in Nat
        PROVE  f[i] = eqn(f)[i]
    <3>1. CASE i = 0
      BY <1>4, <3>1
    <3>2. CASE i # 0
      <4>1. i - 1 \in Nat /\ (i - 1) + 1 = i
        BY <3>2
      <4>2. f[i] = after(f[i - 1])
        BY <1>5, <4>1
      <4> QED
        BY <3>2, <4>2
    <3> QED
      BY <3>1, <3>2
  <2> QED
    BY <1>4, <2>1
<1> DEFINE cell == CHOOSE h : h = eqn(h)
<1>7. cell = eqn(cell)
  <2> HIDE DEF eqn
  <2> QED
    BY <1>6
<1>8. Nth(g, n) = cell
  BY DEF Nth
<1> HIDE DEF cell
<1>9. cell[0] = g.head[n] /\ \A i \in Nat : cell[i + 1] = after(cell[i])
  <2>1. cell[0] = g.head[n]
    BY <1>7
  <2>2. ASSUME NEW i \in Nat
        PROVE  cell[i + 1] = after(cell[i])
    <3>1. i + 1 \in Nat /\ i + 1 # 0 /\ (i + 1) - 1 = i
      OBVIOUS
    <3>2. cell[i + 1] = eqn(cell)[i + 1]
      BY <1>7
    <3> QED
      BY <3>1, <3>2
  <2> QED
    BY <2>1, <2>2
<1>10. \A i \in Nat : cell[i] \in S
  <2> DEFINE T == {i \in Nat : cell[i] \in S}
  <2>1. 0 \in T
    BY <1>2, <1>9
  <2>2. \A i \in Nat : i \in T => i + 1 \in T
    <3> HIDE DEF after, S
    <3> QED
      BY <1>1, <1>9
  <2>3. Nat \subseteq T
    <3> HIDE DEF T
    <3> QED
      BY <2>1, <2>2, Induct
  <2> QED
    BY <2>3
<1>11. cell \in [Nat -> S]
  <2>1. cell = [i \in Nat |-> cell[i]]
    BY <1>7
  <2> HIDE DEF S
  <2> QED
    BY <1>10, <2>1
<1> QED
  BY <1>8, <1>9, <1>11

\* A list ends, and has the cells of the keys at its node.
LEMMA ListIs ==
  ASSUME NEW g \in Graph, NEW s \in Sides, NEW I \in SUBSET Id, NEW e, Ends(I, e),
         Listed(g, s, I, e), NEW n \in NodesOf(s)
  PROVE  /\ \A j \in Nat : j >= Cardinality(I) => Nth(g, n)[j] = Nil
         /\ Cells(g, n) = {Named(e, s, i) : i \in {k \in I : At(e, s, k) = n}}
<1> DEFINE H == g.head
           X == g.next[s]
           c == Nth(g, n)
<1>1. PICK q \in Ranks, N \in Nat : Chained(H, X, s, I, e, q, N)
  BY DEF Listed
<1>2. /\ c \in [Nat -> Cell \cup {Nil}] /\ c[0] = H[n]
      /\ \A i \in Nat : c[i + 1] = IF c[i] = Nil THEN Nil ELSE X[c[i].keyId]
  BY NthIs, SideIs
<1> HIDE DEF H, X, c
<1>3. \A j \in Nat : \/ c[j] = Nil
                     \/ /\ c[j].keyId \in I /\ c[j] = Named(e, s, c[j].keyId)
                        /\ At(e, s, c[j].keyId) = n
  <2> DEFINE T == {j \in Nat : \/ c[j] = Nil
                               \/ /\ c[j].keyId \in I /\ c[j] = Named(e, s, c[j].keyId)
                                  /\ At(e, s, c[j].keyId) = n}
  <2>1. 0 \in T
    BY <1>1, <1>2 DEF Chained
  <2>2. ASSUME NEW j \in Nat, j \in T
        PROVE  j + 1 \in T
    <3>1. CASE c[j] = Nil
      BY <1>2, <3>1
    <3>2. CASE c[j] # Nil
      BY <1>1, <1>2, <2>2, <3>2 DEF Chained
    <3> QED
      BY <3>1, <3>2
  <2>3. Nat \subseteq T
    <3> HIDE DEF T
    <3> QED
      BY <2>1, <2>2, Induct
  <2> QED
    BY <2>3
\* Nothing lies behind the end.
<1>4. ASSUME NEW i \in Nat, c[i] = Nil
      PROVE  \A j \in Nat : j >= i => c[j] = Nil
  <2> DEFINE T == {j \in Nat : j >= i => c[j] = Nil}
  <2>1. 0 \in T
    BY <1>4
  <2>2. ASSUME NEW j \in Nat, j \in T
        PROVE  j + 1 \in T
    <3>1. CASE j + 1 = i
      BY <1>4, <3>1
    <3>2. CASE j >= i
      BY <1>2, <2>2, <3>2
    <3> QED
      BY <3>1, <3>2
  <2>3. Nat \subseteq T
    <3> HIDE DEF T
    <3> QED
      BY <2>1, <2>2, Induct
  <2> QED
    BY <2>3
\* The ranks fall.
<1>5. ASSUME NEW i \in Nat
      PROVE  \A j \in Nat : j > i /\ c[j] # Nil => q[c[j].keyId] < q[c[i].keyId]
  <2> DEFINE T == {j \in Nat : j > i /\ c[j] # Nil => q[c[j].keyId] < q[c[i].keyId]}
  <2>1. 0 \in T
    OBVIOUS
  <2>2. ASSUME NEW j \in Nat, j \in T
        PROVE  j + 1 \in T
    <3> SUFFICES ASSUME j + 1 > i, c[j + 1] # Nil
                 PROVE  q[c[j + 1].keyId] < q[c[i].keyId]
      OBVIOUS
    <3>1. c[j] # Nil /\ c[i] # Nil /\ c[j + 1] = X[c[j].keyId]
      BY <1>2, <1>4
    <3>2. c[j].keyId \in I /\ c[i].keyId \in I /\ c[j + 1].keyId \in I
      BY <1>3, <3>1
    <3>3. q[c[j + 1].keyId] < q[c[j].keyId]
      BY <1>1, <3>1, <3>2 DEF Chained
    <3>4. q[c[j + 1].keyId] \in Nat /\ q[c[j].keyId] \in Nat /\ q[c[i].keyId] \in Nat
      BY <1>1, <3>2 DEF Chained
    <3>5. CASE j = i
      BY <3>3, <3>5
    <3>6. CASE j > i
      BY <2>2, <3>1, <3>3, <3>4, <3>6
    <3> QED
      BY <3>5, <3>6
  <2>3. Nat \subseteq T
    <3> HIDE DEF T
    <3> QED
      BY <2>1, <2>2, Induct
  <2> QED
    BY <2>3
<1>6. IsFiniteSet(I) /\ Cardinality(I) \in Nat /\ Cardinality(I) <= Cardinality(Key)
      /\ Cardinality(Key) \in Nat
  BY IdFinite
<1>7. c[Cardinality(I)] = Nil
  <2> SUFFICES ASSUME c[Cardinality(I)] # Nil
               PROVE  FALSE
    OBVIOUS
  <2> DEFINE C == Cardinality(I)
             S == 0 .. C
             f == [j \in S |-> c[j].keyId]
  <2>1. \A j \in S : c[j] # Nil /\ j \in Nat
    BY <1>4, <1>6
  <2>2. \A j \in S : c[j].keyId \in I
    <3> HIDE DEF S
    <3> QED
      BY <1>3, <2>1
  <2>3. f \in [S -> I]
    BY <2>2
  <2>4. IsFiniteSet(S) /\ Cardinality(S) = C + 1
    <3> HIDE DEF C
    <3>1. C \in Nat
      BY <1>6 DEF C
    <3> QED
      BY <3>1, FS_Interval
  <2>5. C < Cardinality(S)
    BY <1>6, <2>4
  <2>6. \E j, k \in S : j # k /\ f[j] = f[k]
    <3> HIDE DEF f, S
    <3> QED
      BY <1>6, <2>3, <2>4, <2>5, FS_PigeonHole
  <2>7. PICK j \in S, k \in S : j < k /\ c[j].keyId = c[k].keyId
    <3>1. PICK j \in S, k \in S : j # k /\ f[j] = f[k]
      BY <2>6
    <3>2. j < k \/ k < j
      BY <1>6, <3>1
    <3> QED
      BY <3>1, <3>2
  <2>8. q[c[k].keyId] < q[c[j].keyId] /\ q[c[k].keyId] \in Nat
    <3>1. q[c[k].keyId] < q[c[j].keyId]
      BY <1>5, <2>1, <2>7
    <3> QED
      BY <1>1, <2>2, <3>1 DEF Chained
  <2> QED
    BY <2>7, <2>8
<1>8. ASSUME NEW i \in I, At(e, s, i) = n
      PROVE  \E j \in Nat : c[j] = Named(e, s, i)
  <2> DEFINE T == {k \in Nat : \A l \in I : At(e, s, l) = n /\ N <= q[l] + k
                                 => \E j \in Nat : c[j] = Named(e, s, l)}
  <2>1. 0 \in T
    BY <1>1 DEF Chained
  <2>2. ASSUME NEW k \in Nat, k \in T
        PROVE  k + 1 \in T
    <3> SUFFICES ASSUME NEW l \in I, At(e, s, l) = n, N <= q[l] + (k + 1)
                 PROVE  \E j \in Nat : c[j] = Named(e, s, l)
      OBVIOUS
    <3>1. CASE H[n].keyId = l
      <4>1. H[n] = Named(e, s, l)
        BY <1>1, <3>1, NilIs DEF Chained
      <4> QED
        BY <1>2, <4>1
    <3>2. ASSUME NEW a \in I, X[a].keyId = l
          PROVE  \E j \in Nat : c[j] = Named(e, s, l)
      <4>1. X[a] # Nil
        BY <3>2, NilIs
      <4>2. X[a] = Named(e, s, l) /\ At(e, s, a) = n /\ q[l] < q[a]
        BY <1>1, <3>2, <4>1 DEF Chained
      <4>3. q[l] \in Nat /\ q[a] \in Nat
        BY <1>1 DEF Chained
      <4>4. N <= q[a] + k
        BY <4>2, <4>3
      <4>5. PICK j \in Nat : c[j] = Named(e, s, a)
        BY <2>2, <4>2, <4>4
      <4>6. c[j] # Nil /\ c[j].keyId = a
        BY <4>5, NilIs, NamedIs
      <4>7. c[j + 1] = Named(e, s, l)
        BY <1>2, <4>2, <4>6
      <4> QED
        BY <4>7
    <3>3. H[At(e, s, l)].keyId = l \/ \E a \in I : X[a].keyId = l
      BY <1>1 DEF Chained
    <3> QED
      BY <3>1, <3>2, <3>3
  <2>3. Nat \subseteq T
    <3> HIDE DEF T
    <3> QED
      BY <2>1, <2>2, Induct
  <2>4. N \in T /\ q[i] \in Nat
    BY <1>1, <2>3 DEF Chained
  <2>5. N <= q[i] + N
    BY <2>4
  <2> QED
    BY <1>8, <2>4, <2>5
<1>9. {c[i] : i \in Id} \ {Nil} = {Named(e, s, i) : i \in {k \in I : At(e, s, k) = n}}
  <2>1. ASSUME NEW i \in Id, c[i] # Nil
        PROVE  c[i] \in {Named(e, s, k) : k \in {k \in I : At(e, s, k) = n}}
    BY <1>3, <2>1, NilIs
  <2>2. ASSUME NEW i \in I, At(e, s, i) = n
        PROVE  Named(e, s, i) # Nil /\ \E j \in Id : c[j] = Named(e, s, i)
    <3>1. Named(e, s, i) # Nil
      BY NilIs, NamedIs
    <3>2. PICK j \in Nat : c[j] = Named(e, s, i)
      BY <1>8, <2>2
    <3>3. j < Cardinality(I)
      BY <1>4, <1>6, <1>7, <3>1, <3>2
    <3>4. j \in Id
      BY <1>6, <3>3 DEF Id
    <3> QED
      BY <3>1, <3>2, <3>4
  <2> QED
    BY <2>1, <2>2
<1>10. Cells(g, n) = {c[i] : i \in Id} \ {Nil}
  BY DEF Cells, c
<1> QED
  BY <1>4, <1>6, <1>7, <1>9, <1>10 DEF c

-----------------------------------------------------------------------------
(***************************************************************************)
(* What the operations on the graph do to the lists.                       *)
(***************************************************************************)
\* The lists of side s are the same in g and o.
Apart(g, o, s) ==
  o.next[s] = g.next[s] /\ \A n \in NodesOf(s) : o.head[n] = g.head[n]

LEMMA ListedApart ==
  ASSUME NEW g, NEW o, NEW s \in Sides, Apart(g, o, s),
         NEW I, NEW e, Ends(I, e), Listed(g, s, I, e),
         NEW f, \A i \in I : f[i] = e[i]
  PROVE  Listed(o, s, I, f)
<1>1. PICK q \in Ranks, N \in Nat : Chained(g.head, g.next[s], s, I, e, q, N)
  BY DEF Listed
<1>2. \A i \in I : At(e, s, i) \in NodesOf(s)
  BY EndsAt
<1>3. Chained(o.head, o.next[s], s, I, f, q, N)
  BY <1>1, <1>2, ChainedSame DEF Apart
<1> QED
  BY <1>3 DEF Listed

SetHead(g, n, c) == [g EXCEPT !.head[n] = c]

SetNext(g, s, t, c) == [g EXCEPT !.next[s][t] = c]

LEMMA ReplaceIs ==
  ASSUME NEW g \in Graph, NEW s \in Sides, NEW I \in SUBSET Id, NEW e, Ends(I, e),
         Listed(g, s, I, e), NEW i \in I, NEW c
  PROVE  LET n == At(e, s, i)
         IN  \/ /\ g.head[n].keyId = i
                /\ Replace(g, n, i, c) = SetHead(g, n, c)
             \/ \E t \in I : /\ g.head[n].keyId # i /\ g.next[s][t].keyId = i
                             /\ Replace(g, n, i, c) = SetNext(g, s, t, c)
<1> DEFINE n == At(e, s, i)
<1>1. n \in NodesOf(s) /\ Side(n) = s
  BY EndsAt, SideIs
<1>2. Cells(g, n) = {Named(e, s, k) : k \in {l \in I : At(e, s, l) = n}}
  BY <1>1, ListIs
<1>3. PICK q \in Ranks, N \in Nat : Chained(g.head, g.next[s], s, I, e, q, N)
  BY DEF Listed
<1> HIDE DEF n
<1>4. CASE g.head[n].keyId = i
  BY <1>4 DEF Replace, SetHead, n
<1>5. CASE g.head[n].keyId # i
  <2>1. PICK j \in I : g.next[s][j].keyId = i
    BY <1>3, <1>5 DEF Chained, n
  <2>2. At(e, s, j) = n
    BY <1>3, <2>1, NilIs DEF Chained, n
  <2>3. Named(e, s, j) \in Cells(g, n) /\ Named(e, s, j).keyId = j
    BY <1>2, <2>2, NamedIs
  <2> DEFINE t == CHOOSE d \in Cells(g, n) : g.next[s][d.keyId].keyId = i
  <2>4. t \in Cells(g, n) /\ g.next[s][t.keyId].keyId = i
    BY <2>1, <2>3
  <2>5. t.keyId \in I
    <3> HIDE DEF t
    <3> QED
      BY <1>2, <2>4, NamedIs
  <2>6. Replace(g, n, i, c) = SetNext(g, s, t.keyId, c)
    BY <1>1, <1>5 DEF Replace, SetNext
  <2> HIDE DEF t
  <2> QED
    BY <1>5, <2>4, <2>5, <2>6 DEF n
<1> QED
  BY <1>4, <1>5

LEMMA PutHead ==
  ASSUME NEW g \in Graph, NEW s \in Sides, NEW n \in NodesOf(s), NEW c \in Cell \cup {Nil},
         NEW o, o = SetHead(g, n, c)
  PROVE  /\ o \in Graph /\ o.parent = g.parent /\ o.next = g.next
         /\ o.head[n] = c /\ \A m \in Node \ {n} : o.head[m] = g.head[m]
         /\ \A r \in Sides \ {s} : Apart(g, o, r)
<1>1. n \in Node
  BY SideIs
<1>2. o = [head |-> [g.head EXCEPT ![n] = c], next |-> g.next, parent |-> g.parent]
  BY GraphIs DEF SetHead
<1>3. /\ g.head \in [Node -> Cell \cup {Nil}] /\ g.parent \in Parents
      /\ g.next \in [{"A", "B"} -> [Id -> Cell \cup {Nil}]]
  BY GraphIs
<1>4. /\ o.parent = g.parent /\ o.next = g.next /\ o.head = [g.head EXCEPT ![n] = c]
  BY <1>2
<1>5. o \in Graph
  <2>1. [g.head EXCEPT ![n] = c] \in [Node -> Cell \cup {Nil}]
    BY <1>3
  <2> QED
    BY <1>2, <1>3, <2>1 DEF Graph, Parents
<1>6. o.head[n] = c /\ \A m \in Node \ {n} : o.head[m] = g.head[m]
  BY <1>1, <1>3, <1>4
<1>7. ASSUME NEW r \in Sides \ {s}
      PROVE  Apart(g, o, r)
  <2>1. n \notin NodesOf(r) /\ NodesOf(r) \subseteq Node
    BY SideIs
  <2> QED
    BY <1>4, <1>6, <2>1 DEF Apart
<1> QED
  BY <1>4, <1>5, <1>6, <1>7

LEMMA PutNext ==
  ASSUME NEW g \in Graph, NEW s \in Sides, NEW t \in Id, NEW c \in Cell \cup {Nil},
         NEW o, o = SetNext(g, s, t, c)
  PROVE  /\ o \in Graph /\ o.parent = g.parent /\ o.head = g.head
         /\ o.next[s][t] = c /\ \A j \in Id \ {t} : o.next[s][j] = g.next[s][j]
         /\ \A r \in Sides \ {s} : Apart(g, o, r)
<1> DEFINE x == [g.next EXCEPT ![s] = [g.next[s] EXCEPT ![t] = c]]
<1>1. /\ g.head \in [Node -> Cell \cup {Nil}] /\ g.parent \in Parents
      /\ g.next \in [{"A", "B"} -> [Id -> Cell \cup {Nil}]]
      /\ g.next[s] \in [Id -> Cell \cup {Nil}]
  BY GraphIs
<1>2. o = [head |-> g.head, next |-> [g.next EXCEPT ![s][t] = c], parent |-> g.parent]
  <2>1. g = [head |-> g.head, next |-> g.next, parent |-> g.parent]
    BY DEF Graph
  <2>2. o = [g EXCEPT !.next[s][t] = c]
    BY DEF SetNext
  <2> QED
    BY <2>1, <2>2, SMTT(30)
<1>3. [g.next EXCEPT ![s][t] = c] = x
  BY <1>1
<1>4. o.parent = g.parent /\ o.head = g.head /\ o.next = x
  BY <1>2, <1>3
<1>5. [g.next[s] EXCEPT ![t] = c] \in [Id -> Cell \cup {Nil}]
  BY <1>1
<1>6. x \in [{"A", "B"} -> [Id -> Cell \cup {Nil}]]
  BY <1>1, <1>5
<1>7. o \in Graph
  <2>1. o = [head |-> g.head, next |-> x, parent |-> g.parent]
    BY <1>2, <1>3
  <2> HIDE DEF x
  <2> QED
    BY <1>1, <1>6, <2>1 DEF Graph, Parents
<1>8. x[s] = [g.next[s] EXCEPT ![t] = c] /\ \A r \in Sides \ {s} : x[r] = g.next[r]
  BY <1>1 DEF Sides
<1>9. o.next[s][t] = c /\ \A j \in Id \ {t} : o.next[s][j] = g.next[s][j]
  <2> HIDE DEF x
  <2> QED
    BY <1>1, <1>4, <1>8
<1>10. \A r \in Sides \ {s} : Apart(g, o, r)
  <2> HIDE DEF x
  <2> QED
    BY <1>4, <1>8 DEF Apart
<1> QED
  BY <1>4, <1>7, <1>9, <1>10

\* Key i leaves the list at its node on side s, for the graph o.
CutFrom(g, s, I, e, i, o) ==
  /\ g \in Graph /\ s \in Sides /\ I \in SUBSET Id /\ Ends(I, e)
  /\ Listed(g, s, I, e) /\ i \in I
  /\ o = Cut(g, At(e, s, i), i)

LEMMA CutListed ==
  ASSUME NEW g, NEW s, NEW I, NEW e, NEW i, NEW o, CutFrom(g, s, I, e, i, o)
  PROVE  /\ o \in Graph /\ o.parent = g.parent
         /\ Listed(o, s, I \ {i}, e)
         /\ \A r \in Sides \ {s} : Apart(g, o, r)
<1> DEFINE n == At(e, s, i)
           c == g.next[s][i]
<1>0. /\ g \in Graph /\ s \in Sides /\ I \in SUBSET Id /\ Ends(I, e)
      /\ Listed(g, s, I, e) /\ i \in I /\ o = Cut(g, At(e, s, i), i)
  BY DEF CutFrom
<1> USE <1>0
<1>1. n \in NodesOf(s) /\ Side(n) = s /\ n \in Node
  BY EndsAt, SideIs
<1>2. PICK q \in Ranks, N \in Nat : Chained(g.head, g.next[s], s, I, e, q, N)
  BY DEF Listed
<1>3. c \in Cell \cup {Nil} /\ o = Replace(g, n, i, c)
  BY <1>1, GraphIs DEF Cut
<1>4. \A j \in I : At(e, s, j) \in NodesOf(s)
  BY EndsAt
<1>5. NodesOf(s) \subseteq Node
  BY SideIs
<1> HIDE DEF c
<1>6. CASE g.head[n].keyId = i /\ o = SetHead(g, n, c)
  <2>1. /\ o \in Graph /\ o.parent = g.parent /\ o.next = g.next
        /\ o.head[n] = c /\ \A m \in Node \ {n} : o.head[m] = g.head[m]
        /\ \A r \in Sides \ {s} : Apart(g, o, r)
    BY <1>1, <1>3, <1>6, PutHead
  <2>2. Renamed(g.head, g.next[s], o.head, o.next[s], s, I, e, i, g.next[s][i])
    BY <1>1, <1>5, <1>6, <2>1 DEF Renamed, c
  <2>3. Chained(o.head, o.next[s], s, I \ {i}, e, q, N)
    BY <1>2, <1>4, <2>2, ChainedCut
  <2> QED
    BY <2>1, <2>3 DEF Listed
<1>7. ASSUME NEW t \in I, g.head[n].keyId # i, g.next[s][t].keyId = i,
             o = SetNext(g, s, t, c)
      PROVE  /\ o \in Graph /\ o.parent = g.parent
             /\ Listed(o, s, I \ {i}, e)
             /\ \A r \in Sides \ {s} : Apart(g, o, r)
  <2>1. /\ o \in Graph /\ o.parent = g.parent /\ o.head = g.head
        /\ o.next[s][t] = c /\ \A j \in Id \ {t} : o.next[s][j] = g.next[s][j]
        /\ \A r \in Sides \ {s} : Apart(g, o, r)
    BY <1>3, <1>7, PutNext
  <2>2. Renamed(g.head, g.next[s], o.head, o.next[s], s, I, e, i, g.next[s][i])
    BY <1>1, <1>5, <1>7, <2>1 DEF Renamed, c
  <2>3. Chained(o.head, o.next[s], s, I \ {i}, e, q, N)
    BY <1>2, <1>4, <2>2, ChainedCut
  <2> QED
    BY <2>1, <2>3 DEF Listed
<1>8. \/ g.head[n].keyId = i /\ Replace(g, n, i, c) = SetHead(g, n, c)
      \/ \E t \in I : /\ g.head[n].keyId # i /\ g.next[s][t].keyId = i
                      /\ Replace(g, n, i, c) = SetNext(g, s, t, c)
  BY <1>0, ReplaceIs
<1> QED
  BY <1>3, <1>6, <1>7, <1>8

\* In the list at its node on side s, key j goes by i, for the graph o and
\* the ends f.
RenameFrom(g, s, I, e, j, i, f, o) ==
  /\ g \in Graph /\ s \in Sides /\ I \in SUBSET Id /\ Ends(I, e)
  /\ Listed(g, s, I, e) /\ j \in I /\ i \in Id /\ i \notin I
  /\ f[i] = e[j] /\ \A k \in I \ {j} : f[k] = e[k]
  /\ o = Rename(g, At(e, s, j), Far(e, s, j), j, i)

LEMMA RenameListed ==
  ASSUME NEW g, NEW s, NEW I, NEW e, NEW j, NEW i, NEW f, NEW o,
         RenameFrom(g, s, I, e, j, i, f, o)
  PROVE  /\ o \in Graph /\ o.parent = g.parent
         /\ Listed(o, s, (I \ {j}) \cup {i}, f)
         /\ \A r \in Sides \ {s} : Apart(g, o, r)
<1> DEFINE n == At(e, s, j)
           a == SetNext(g, s, i, g.next[s][j])
           c == [keyId |-> i, nodeId |-> Far(e, s, j)]
           J == (I \ {j}) \cup {i}
<1>0. /\ g \in Graph /\ s \in Sides /\ I \in SUBSET Id /\ Ends(I, e)
      /\ Listed(g, s, I, e) /\ j \in I /\ i \in Id /\ i \notin I
      /\ f[i] = e[j] /\ (\A k \in I \ {j} : f[k] = e[k])
      /\ o = Rename(g, At(e, s, j), Far(e, s, j), j, i)
  BY DEF RenameFrom
<1> USE <1>0
<1>1. n \in NodesOf(s) /\ Side(n) = s /\ n \in Node /\ NodesOf(s) \subseteq Node
      /\ Far(e, s, j) \in Node
  BY EndsAt, SideIs
<1>2. PICK q \in Ranks, N \in Nat : Chained(g.head, g.next[s], s, I, e, q, N)
  BY DEF Listed
<1>3. c \in Cell \cup {Nil} /\ c = Named(f, s, i)
  BY <1>1 DEF Cell, Named, Far
<1>4. \A k \in I : At(e, s, k) \in NodesOf(s)
  BY EndsAt
<1>5. o = Replace(a, n, j, c)
  BY <1>1 DEF Rename, SetNext
<1>6. g.next[s][j] \in Cell \cup {Nil}
  BY GraphIs
<1> HIDE DEF a, c, n
<1>7. /\ a \in Graph /\ a.parent = g.parent /\ a.head = g.head
      /\ a.next[s][i] = g.next[s][j] /\ \A k \in Id \ {i} : a.next[s][k] = g.next[s][k]
      /\ \A r \in Sides \ {s} : Apart(g, a, r)
  BY <1>6, PutNext DEF a
<1>8. Listed(a, s, I, e)
  <2>1. Chained(a.head, a.next[s], s, I, e, q, N)
    BY <1>2, <1>4, <1>7, ChainedSame
  <2> QED
    BY <2>1 DEF Listed
<1> DEFINE p == [q EXCEPT ![i] = q[j]]
<1>9. p \in Ranks
  BY DEF Ranks
<1>10. CASE g.head[n].keyId = j /\ o = SetHead(a, n, c)
  <2>1. /\ o \in Graph /\ o.parent = a.parent /\ o.next = a.next
        /\ o.head[n] = c /\ \A m \in Node \ {n} : o.head[m] = a.head[m]
        /\ \A r \in Sides \ {s} : Apart(a, o, r)
    BY <1>1, <1>3, <1>7, <1>10, PutHead
  <2>2. Chained(o.head, o.next[s], s, J, f, p, N)
    <3>1. Renamed(g.head, g.next[s], o.head, o.next[s], s, I, e, j, Named(f, s, i))
      BY <1>1, <1>3, <1>7, <1>10, <2>1 DEF Renamed, n
    <3>2. o.next[s][i] = g.next[s][j]
      BY <1>7, <2>1
    <3> QED
      BY <1>2, <1>4, <3>1, <3>2, ChainedRename
  <2> QED
    BY <1>7, <1>9, <2>1, <2>2 DEF Listed, Apart
<1>11. ASSUME NEW t \in I, g.head[n].keyId # j, a.next[s][t].keyId = j,
              o = SetNext(a, s, t, c)
       PROVE  /\ o \in Graph /\ o.parent = g.parent
              /\ Listed(o, s, J, f)
              /\ \A r \in Sides \ {s} : Apart(g, o, r)
  <2>1. /\ o \in Graph /\ o.parent = a.parent /\ o.head = a.head
        /\ o.next[s][t] = c /\ \A k \in Id \ {t} : o.next[s][k] = a.next[s][k]
        /\ \A r \in Sides \ {s} : Apart(a, o, r)
    BY <1>3, <1>7, <1>11, PutNext
  <2>2. Chained(o.head, o.next[s], s, J, f, p, N)
    <3>1. Renamed(g.head, g.next[s], o.head, o.next[s], s, I, e, j, Named(f, s, i))
      BY <1>3, <1>7, <1>11, <2>1 DEF Renamed, n
    <3>2. o.next[s][i] = g.next[s][j]
      BY <1>7, <2>1
    <3> QED
      BY <1>2, <1>4, <3>1, <3>2, ChainedRename
  <2> QED
    BY <1>7, <1>9, <2>1, <2>2 DEF Listed, Apart
<1>12. \/ /\ a.head[n].keyId = j
          /\ Replace(a, n, j, c) = SetHead(a, n, c)
       \/ \E t \in I : /\ a.head[n].keyId # j /\ a.next[s][t].keyId = j
                       /\ Replace(a, n, j, c) = SetNext(a, s, t, c)
  <2>1. /\ a \in Graph /\ s \in Sides /\ I \in SUBSET Id /\ Ends(I, e)
        /\ Listed(a, s, I, e) /\ j \in I
    BY <1>7, <1>8
  <2>2. \/ /\ a.head[At(e, s, j)].keyId = j
           /\ Replace(a, At(e, s, j), j, c) = SetHead(a, At(e, s, j), c)
        \/ \E t \in I :
             /\ a.head[At(e, s, j)].keyId # j /\ a.next[s][t].keyId = j
             /\ Replace(a, At(e, s, j), j, c) = SetNext(a, s, t, c)
    BY ONLY <2>1, ReplaceIs
  <2> QED
    BY <2>2 DEF n
<1> QED
  BY <1>5, <1>7, <1>10, <1>11, <1>12

\* The positions I of the linked keys, and their ends.
Exact(g, I, e) ==
  /\ g \in Graph /\ I \in SUBSET Id /\ Ends(I, e)
  /\ \A s \in Sides : Listed(g, s, I, e)

LEMMA ExactEmpty ==
  ASSUME NEW e
  PROVE  Exact(Empty, {}, e)
<1>1. Empty \in Graph
  BY NodeNat DEF Empty, Graph
<1>2. ASSUME NEW s \in Sides
      PROVE  Listed(Empty, s, {}, e)
  <2>1. [i \in Id |-> 0] \in Ranks
    BY DEF Ranks
  <2>2. \A n \in NodesOf(s) : Empty.head[n] = Nil
    BY SideIs DEF Empty
  <2>3. Chained(Empty.head, Empty.next[s], s, {}, e, [i \in Id |-> 0], 0)
    BY <2>2 DEF Chained
  <2> QED
    BY <2>1, <2>3 DEF Listed
<1> QED
  BY <1>1, <1>2 DEF Exact, Ends

LEMMA ExactEdge ==
  ASSUME NEW g, NEW I, NEW e, Exact(g, I, e), NEW i \in Id, i \notin I,
         NEW f, \A j \in I : f[j] = e[j], f[i] \in NodeA \X NodeB,
         merge(g.parent, f[i][1], f[i][2]) \in Parents,
         NEW o, o = addEdge(g, i, f[i])
  PROVE  Exact(o, I \cup {i}, f) /\ o.parent = merge(g.parent, f[i][1], f[i][2])
<1> DEFINE x == f[i][1]
           y == f[i][2]
<1>1. /\ g \in Graph /\ I \in SUBSET Id /\ Ends(I, e)
      /\ \A s \in Sides : Listed(g, s, I, e)
  BY DEF Exact
<1>2. x \in NodeA /\ y \in NodeB /\ x \in Node /\ y \in Node /\ x # y
      /\ x \notin NodeB /\ y \notin NodeA
  <2>1. x \in NodeA /\ y \in NodeB
    OBVIOUS
  <2>2. NodeA \cap NodeB = {}
    BY ListsAssumption DEF NodeA, NodeB
  <2> QED
    BY <2>1, <2>2 DEF Node
<1>3. Ends(I \cup {i}, f)
  BY <1>1 DEF Ends
<1>4. /\ o.head = [g.head EXCEPT ![x] = [keyId |-> i, nodeId |-> y],
                                 ![y] = [keyId |-> i, nodeId |-> x]]
      /\ o.next = [g.next EXCEPT !["A"][i] = g.head[x], !["B"][i] = g.head[y]]
      /\ o.parent = merge(g.parent, x, y)
      /\ o = [head |-> o.head, next |-> o.next, parent |-> o.parent]
  BY DEF addEdge
<1> HIDE DEF x, y
<1>5. /\ g.head \in [Node -> Cell \cup {Nil}]
      /\ g.next \in [{"A", "B"} -> [Id -> Cell \cup {Nil}]]
      /\ g.next["A"] \in [Id -> Cell \cup {Nil}]
      /\ g.next["B"] \in [Id -> Cell \cup {Nil}]
  BY <1>1, GraphIs DEF Sides
<1>6. /\ [keyId |-> i, nodeId |-> y] \in Cell
      /\ [keyId |-> i, nodeId |-> x] \in Cell
  BY <1>2 DEF Cell
<1>7. /\ o.head \in [Node -> Cell \cup {Nil}]
      /\ o.head[x] = [keyId |-> i, nodeId |-> y]
      /\ o.head[y] = [keyId |-> i, nodeId |-> x]
      /\ \A n \in Node \ {x, y} : o.head[n] = g.head[n]
  BY <1>2, <1>4, <1>5, <1>6
<1>8. /\ o.next = [r \in {"A", "B"} |->
                     IF r = "A" THEN [g.next["A"] EXCEPT ![i] = g.head[x]]
                     ELSE [g.next["B"] EXCEPT ![i] = g.head[y]]]
  BY <1>4, <1>5
<1>9. /\ o.next["A"] = [g.next["A"] EXCEPT ![i] = g.head[x]]
      /\ o.next["B"] = [g.next["B"] EXCEPT ![i] = g.head[y]]
      /\ o.next \in [{"A", "B"} -> [Id -> Cell \cup {Nil}]]
  <2>1. /\ [g.next["A"] EXCEPT ![i] = g.head[x]] \in [Id -> Cell \cup {Nil}]
        /\ [g.next["B"] EXCEPT ![i] = g.head[y]] \in [Id -> Cell \cup {Nil}]
    BY <1>2, <1>5
  <2> QED
    BY <1>8, <2>1
<1>10. o \in Graph
  BY <1>4, <1>7, <1>9 DEF Graph, Parents, x, y
<1>11. ASSUME NEW s \in Sides
       PROVE  Listed(o, s, I \cup {i}, f)
  <2>1. PICK q \in Ranks, N \in Nat : Chained(g.head, g.next[s], s, I, e, q, N)
    BY <1>1 DEF Listed
  <2>2. \A j \in I \cup {i} : At(f, s, j) \in NodesOf(s)
    BY <1>3, EndsAt
  <2>3. Fronted(g.head, g.next[s], o.head, o.next[s], s, I, f, i)
    <3>1. CASE s = "A"
      <4>1. At(f, s, i) = x /\ Far(f, s, i) = y /\ NodesOf(s) = NodeA
        BY <3>1 DEF At, Far, NodesOf, x, y
      <4>2. \A n \in NodesOf(s) \ {x} : n \in Node \ {x, y}
        BY <1>2, <4>1 DEF Node
      <4> QED
        BY <1>1, <1>2, <1>5, <1>7, <1>9, <3>1, <4>1, <4>2 DEF Fronted, Named
    <3>2. CASE s = "B"
      <4>1. At(f, s, i) = y /\ Far(f, s, i) = x /\ NodesOf(s) = NodeB
        BY <3>2 DEF At, Far, NodesOf, x, y
      <4>2. \A n \in NodesOf(s) \ {y} : n \in Node \ {x, y}
        BY <1>2, <4>1 DEF Node
      <4> QED
        BY <1>1, <1>2, <1>5, <1>7, <1>9, <3>2, <4>1, <4>2 DEF Fronted, Named
    <3> QED
      BY <3>1, <3>2 DEF Sides
  <2> DEFINE p == [q EXCEPT ![i] = N]
  <2>4. Chained(o.head, o.next[s], s, I \cup {i}, f, p, N + 1)
    BY <1>1, <2>1, <2>2, <2>3, ChainedFront
  <2>5. p \in Ranks /\ N + 1 \in Nat
    BY DEF Ranks
  <2> QED
    BY <2>4, <2>5 DEF Listed
<1> QED
  BY <1>1, <1>3, <1>4, <1>10, <1>11 DEF Exact, x, y

-----------------------------------------------------------------------------
(***************************************************************************)
(* A walk over the lists comes to the nodes that the edges join.           *)
(***************************************************************************)
LEMMA WalkIs ==
  ASSUME NEW g, NEW I, NEW e, Exact(g, I, e), NEW S \in SUBSET Node
  PROVE  /\ S \subseteq Walk(g, S) /\ Walk(g, S) \subseteq Node
         /\ \A U : S \subseteq U /\ Closed(U, I, e) => Walk(g, S) \subseteq U
         /\ Walk(g, S) = S => Closed(S, I, e)
<1>1. g \in Graph /\ I \in SUBSET Id /\ Ends(I, e) /\ \A s \in Sides : Listed(g, s, I, e)
  BY DEF Exact
<1>2. ASSUME NEW n \in Node
      PROVE  Cells(g, n) = {Named(e, Side(n), i) : i \in {k \in I : At(e, Side(n), k) = n}}
  BY <1>1, SideIs, ListIs
<1>3. ASSUME NEW m
      PROVE  m \in Walk(g, S) <=>
               \/ m \in S
               \/ \E n \in S, i \in I : At(e, Side(n), i) = n /\ m = Far(e, Side(n), i)
  <2>1. m \in Walk(g, S) <=> m \in S \/ \E n \in S : \E c \in Cells(g, n) : m = c.nodeId
    BY DEF Walk
  <2>2. ASSUME NEW n \in S
        PROVE  (\E c \in Cells(g, n) : m = c.nodeId)
                 <=> \E i \in I : At(e, Side(n), i) = n /\ m = Far(e, Side(n), i)
    BY <1>2, NamedIs
  <2> QED
    BY <2>1, <2>2
<1>4. \A i \in I, s \in Sides : /\ At(e, s, i) \in Node /\ Far(e, s, i) \in Node
                               /\ Side(At(e, s, i)) = s
  BY <1>1, EndsAt, SideIs
<1>5. \A n \in S : Side(n) \in Sides
  BY SideIs
<1>6. Walk(g, S) \subseteq Node
  BY <1>3, <1>4, <1>5
<1>7. ASSUME NEW U, S \subseteq U, Closed(U, I, e)
      PROVE  Walk(g, S) \subseteq U
  <2> SUFFICES ASSUME NEW n \in S, NEW i \in I, At(e, Side(n), i) = n
               PROVE  Far(e, Side(n), i) \in U
    BY <1>3, <1>7
  <2>1. At(e, Side(n), i) \in U
    BY <1>7
  <2> QED
    BY <1>5, <1>7, <2>1 DEF Closed, At, Far, Sides
<1>8. ASSUME Walk(g, S) = S
      PROVE  Closed(S, I, e)
  <2> SUFFICES ASSUME NEW i \in I
               PROVE  e[i][1] \in S <=> e[i][2] \in S
    BY DEF Closed
  <2>1. /\ At(e, "A", i) = e[i][1] /\ At(e, "B", i) = e[i][2]
        /\ Far(e, "A", i) = e[i][2] /\ Far(e, "B", i) = e[i][1]
        /\ Side(e[i][1]) = "A" /\ Side(e[i][2]) = "B"
    BY <1>1, <1>4, EndsAt DEF Sides
  <2>2. e[i][1] \in S => e[i][2] \in Walk(g, S)
    BY <1>3, <2>1
  <2>3. e[i][2] \in S => e[i][1] \in Walk(g, S)
    BY <1>3, <2>1
  <2> QED
    BY <1>8, <2>2, <2>3
<1> QED
  BY <1>3, <1>6, <1>7, <1>8

LEMMA ReachedIs ==
  ASSUME NEW g, NEW I, NEW e, Exact(g, I, e), NEW n \in Node
  PROVE  Reached(g, n) = Abstract!Joined(n, I, e)
<1> DEFINE S == SUBSET Node
           first == {n}
           step == [x \in Nat \X S |-> Walk(g, x[2])]
           eqn(after) == [i \in Nat |-> IF i = 0 THEN {n} ELSE Walk(g, after[i - 1])]
<1>1. \A A \in S : Walk(g, A) \in S
  BY WalkIs
<1>2. step \in [Nat \X S -> S] /\ \A i \in Nat, A \in S : step[<<i, A>>] = Walk(g, A)
  <2> HIDE DEF S
  <2> QED
    BY <1>1
<1>3. PICK f \in [Nat -> S] : f[0] = {n} /\ \A i \in Nat : f[i + 1] = step[<<i, f[i]>>]
  <2>1. first \in S
    OBVIOUS
  <2>2. step \in [Nat \X S -> S]
    BY <1>2
  <2>3. Recursive(S, first, step) # {}
    <3> HIDE DEF step, S, first
    <3> QED
      BY <2>1, <2>2, Recursion
  <2>4. PICK f \in Recursive(S, first, step) : TRUE
    BY <2>3
  <2> HIDE DEF step, S
  <2> QED
    BY <2>4 DEF Recursive
<1>4. \A i \in Nat : f[i + 1] = Walk(g, f[i])
  <2> HIDE DEF step, S
  <2> QED
    BY <1>2, <1>3
<1>5. f = eqn(f)
  <2>1. ASSUME NEW i \in Nat
        PROVE  f[i] = eqn(f)[i]
    <3>1. CASE i = 0
      BY <1>3, <3>1
    <3>2. CASE i # 0
      <4>1. i - 1 \in Nat /\ (i - 1) + 1 = i
        BY <3>2
      <4>2. f[i] = Walk(g, f[i - 1])
        BY <1>4, <4>1
      <4> QED
        BY <3>2, <4>2
    <3> QED
      BY <3>1, <3>2
  <2> QED
    BY <1>3, <2>1
<1> DEFINE a == CHOOSE h : h = eqn(h)
<1>6. a = eqn(a)
  <2> HIDE DEF eqn
  <2> QED
    BY <1>5
<1>7. Reached(g, n) = a[Ma + Mb]
  BY DEF Reached
<1> HIDE DEF a
<1>8. a[0] = {n} /\ \A i \in Nat : a[i + 1] = Walk(g, a[i])
  <2>1. a[0] = {n}
    BY <1>6
  <2>2. ASSUME NEW i \in Nat
        PROVE  a[i + 1] = Walk(g, a[i])
    <3>1. i + 1 \in Nat /\ i + 1 # 0 /\ (i + 1) - 1 = i
      OBVIOUS
    <3>2. a[i + 1] = eqn(a)[i + 1]
      BY <1>6
    <3> QED
      BY <3>1, <3>2
  <2> QED
    BY <2>1, <2>2
<1> DEFINE J == Abstract!Joined(n, I, e)
<1>9. n \in J /\ J \subseteq Node /\ Closed(J, I, e)
  BY JoinedSelf, JoinedNodes, JoinedClosed DEF Exact
<1>10. \A i \in Nat : a[i] \subseteq J /\ n \in a[i]
  <2> DEFINE T == {i \in Nat : a[i] \subseteq J /\ n \in a[i]}
  <2>1. 0 \in T
    BY <1>8, <1>9
  <2>2. ASSUME NEW i \in Nat, i \in T
        PROVE  i + 1 \in T
    <3>1. a[i] \in SUBSET Node /\ a[i] \subseteq J /\ n \in a[i]
      BY <1>9, <2>2
    <3>2. Walk(g, a[i]) \subseteq J /\ a[i] \subseteq Walk(g, a[i])
      <4> HIDE DEF J
      <4> QED
        BY <1>9, <3>1, WalkIs
    <3> QED
      BY <1>8, <3>1, <3>2
  <2>3. Nat \subseteq T
    <3> HIDE DEF T
    <3> QED
      BY <2>1, <2>2, Induct
  <2> QED
    BY <2>3
\* While the walk has not come to an end, it grows.
<1>11. \A i \in Nat : Walk(g, a[i]) = a[i] \/ Cardinality(a[i]) >= i + 1
  <2> DEFINE T == {i \in Nat : Walk(g, a[i]) = a[i] \/ Cardinality(a[i]) >= i + 1}
  <2>1. 0 \in T
    <3>1. Cardinality({n}) = 1
      BY FS_Singleton
    <3>2. Cardinality(a[0]) = 1
      BY <1>8, <3>1, Zenon
    <3>3. Cardinality(a[0]) >= 0 + 1
      BY <3>2
    <3> QED
      BY <3>3
  <2>2. ASSUME NEW i \in Nat, i \in T
        PROVE  i + 1 \in T
    <3>1. a[i + 1] = Walk(g, a[i])
      BY <1>8
    <3>2. CASE Walk(g, a[i]) = a[i]
      BY <3>1, <3>2
    <3>3. CASE Walk(g, a[i]) # a[i]
      <4>1. a[i] \in SUBSET Node /\ a[i + 1] \in SUBSET Node /\ i + 1 \in Nat
        BY <1>9, <1>10
      <4>2. a[i] \subseteq a[i + 1]
        BY <3>1, <4>1, WalkIs
      <4>3. IsFiniteSet(a[i + 1])
        BY <4>1, NodeNat, FS_Subset
      <4>4. IsFiniteSet(a[i]) /\ Cardinality(a[i]) # Cardinality(a[i + 1])
            /\ Cardinality(a[i]) <= Cardinality(a[i + 1])
        BY <3>1, <3>3, <4>2, <4>3, FS_Subset
      <4>5. Cardinality(a[i]) \in Nat /\ Cardinality(a[i + 1]) \in Nat
        BY <4>3, <4>4, FS_CardinalityType
      <4>6. Cardinality(a[i]) >= i + 1
        BY <2>2, <3>3
      <4>7. Cardinality(a[i + 1]) >= (i + 1) + 1
        BY <4>4, <4>5, <4>6
      <4> QED
        BY <4>1, <4>7
    <3> QED
      BY <3>2, <3>3
  <2>3. Nat \subseteq T
    <3> HIDE DEF T
    <3> QED
      BY <2>1, <2>2, Induct
  <2> QED
    BY <2>3
<1>12. Ma + Mb \in Nat
  BY ListsAssumption
<1> DEFINE A == a[Ma + Mb]
<1>13. A \in SUBSET Node /\ A \subseteq J /\ n \in A
  BY <1>9, <1>10, <1>12
<1>14. Cardinality(A) <= Ma + Mb /\ Cardinality(A) \in Nat
  <2>1. IsFiniteSet(A) /\ Cardinality(A) <= Cardinality(Node)
    <3> HIDE DEF A
    <3> QED
      BY <1>13, NodeNat, FS_Subset
  <2>2. Cardinality(A) \in Nat /\ Cardinality(Node) \in Nat
    BY <2>1, NodeNat, FS_CardinalityType
  <2> HIDE DEF A
  <2> QED
    BY <1>12, <2>1, <2>2, NodeNat
<1>15. Walk(g, A) = A
  <2>1. Walk(g, A) = A \/ Cardinality(A) >= (Ma + Mb) + 1
    BY <1>11, <1>12
  <2> HIDE DEF A
  <2> QED
    BY <1>12, <1>14, <2>1
<1>16. J \subseteq A
  <2> HIDE DEF A
  <2>1. Closed(A, I, e)
    BY <1>13, <1>15, WalkIs
  <2> QED
    BY <1>13, <2>1, JoinedLeast
<1> QED
  BY <1>7, <1>13, <1>16

-----------------------------------------------------------------------------
(***************************************************************************)
(* The disjoint set and the edges.                                         *)
(***************************************************************************)
\* The representatives r are those of the trees that the edges make.
ByTrees(r, I, e) ==
  \A m, n \in Node : r[m] = r[n] <=> n \in Abstract!Joined(m, I, e)

SetExact(p, I, e) == \E r, d : Ranked(p, r, d) /\ ByTrees(r, I, e)

\* The nodes that fillValue starts from are in array A, and a node with an edge
\* is in a tree with such a node.
Rooted(p, I, e) ==
  /\ \A n \in Node : p[n] = n => n \in NodeA
  /\ \A i \in I : p[e[i][1]] # -1 /\ p[e[i][2]] # -1

LEMMA SetIs ==
  ASSUME NEW p, NEW I, NEW e, SetExact(p, I, e), NEW m \in Node, NEW n \in Node
  PROVE  sameSet(p, m, n) <=> n \in Abstract!Joined(m, I, e)
BY SameSetIs DEF SetExact, ByTrees

\* The names of the edges do not matter.
LEMMA SetNames ==
  ASSUME NEW p, NEW I, NEW e, SetExact(p, I, e), NEW J, NEW f,
         EdgesOf(I, e) = EdgesOf(J, f)
  PROVE  SetExact(p, J, f)
<1>1. \A m : Abstract!Joined(m, I, e) = Abstract!Joined(m, J, f)
  BY JoinedNames
<1> QED
  BY <1>1 DEF SetExact, ByTrees

LEMMA SetEmpty ==
  ASSUME NEW e
  PROVE  SetExact(Empty.parent, {}, e) /\ Rooted(Empty.parent, {}, e)
<1> DEFINE r == [n \in Node |-> n]
           d == [n \in Node |-> 0]
<1>1. Empty.parent = [n \in Node |-> -1]
  BY DEF Empty
<1>2. Ranked(Empty.parent, r, d)
  BY <1>1 DEF Ranked, Parents, IsRoot
<1>3. \A m \in Node : Abstract!Joined(m, {}, e) = {m}
  <2> SUFFICES ASSUME NEW m \in Node
               PROVE  Abstract!Joined(m, {}, e) = {m}
    OBVIOUS
  <2>1. m \in {m} /\ Closed({m}, {}, e)
    BY DEF Closed
  <2> QED
    BY <2>1, JoinedLeast, JoinedSelf
<1>4. ByTrees(r, {}, e)
  BY <1>3 DEF ByTrees
<1>5. Rooted(Empty.parent, {}, e)
  BY <1>1, NodeNat DEF Rooted
<1> HIDE DEF r, d
<1> QED
  BY <1>2, <1>4, <1>5 DEF SetExact

LEMMA SetParents ==
  ASSUME NEW p, NEW I, NEW e, SetExact(p, I, e), NEW x \in Node, NEW y \in Node
  PROVE  merge(p, x, y) \in Parents /\ Ask(p, x, y) \in Parents /\ p \in Parents
         /\ SetExact(Ask(p, x, y), I, e)
<1>1. PICK r, d : Ranked(p, r, d) /\ ByTrees(r, I, e)
  BY DEF SetExact
<1>2. Ranked(merge(p, x, y), Joins(r, x, y), Deeper(r, d, x, y))
  BY <1>1, MergeRanked
<1>3. Ranked(Ask(p, x, y), r, d)
  BY <1>1, AskRanked
<1> QED
  BY <1>1, <1>2, <1>3 DEF Ranked, SetExact

\* A key is linked: two trees are merged.
LEMMA SetEdge ==
  ASSUME NEW p, NEW I, NEW e, Ends(I, e), SetExact(p, I, e), NEW i,
         NEW f, \A j \in I : f[j] = e[j], f[i] \in NodeA \X NodeB,
         NEW q, q = merge(p, f[i][1], f[i][2])
  PROVE  /\ SetExact(q, I \cup {i}, f)
         /\ Rooted(p, I, e) => Rooted(q, I \cup {i}, f)
<1> DEFINE x == f[i][1]
           y == f[i][2]
           K(m) == Abstract!Joined(m, I, f)
<1>1. x \in NodeA /\ x \in Node /\ y \in Node
  <2>1. f[i][1] \in NodeA /\ f[i][2] \in NodeB
    OBVIOUS
  <2> QED
    BY <2>1 DEF Node
<1>2. SetExact(p, I, f)
  <2>1. EdgesOf(I, e) = EdgesOf(I, f)
    BY DEF EdgesOf
  <2> QED
    BY <2>1, SetNames
<1>3. PICK r, d : Ranked(p, r, d) /\ ByTrees(r, I, f)
  BY <1>2 DEF SetExact
<1>4. /\ \A m \in Node : r[m] \in Node
      /\ \A m, n \in Node : r[m] = r[n] <=> n \in K(m)
  BY <1>3 DEF Ranked, ByTrees
<1> DEFINE s == Joins(r, x, y)
<1>5. /\ Ranked(q, s, Deeper(r, d, x, y))
      /\ \A m \in Node : q[m] = -1 => p[m] = -1 /\ m \notin {x, y}
      /\ \A m \in Node : q[m] = m => p[m] = m \/ m = r[x]
  <2>1. q = merge(p, x, y)
    OBVIOUS
  <2>2. Ranked(p, r, d)
    BY <1>3
  <2> HIDE DEF x, y, K
  <2>3. /\ Ranked(merge(p, x, y), s, Deeper(r, d, x, y))
        /\ \A m \in Node : merge(p, x, y)[m] = -1 => p[m] = -1 /\ m \notin {x, y}
        /\ \A m \in Node : merge(p, x, y)[m] = m => p[m] = m \/ m = r[x]
    BY <1>1, <2>2, MergeRanked
  <2> QED
    BY <2>1, <2>3
<1>6. \A m \in Node : s[m] = IF r[m] = r[y] THEN r[x] ELSE r[m]
  BY DEF Joins
<1> HIDE DEF s, x, y
<1>7. ASSUME NEW m \in Node, NEW n \in Node
      PROVE  s[m] = s[n] <=> n \in Abstract!Joined(m, I \cup {i}, f)
  <2>1. CASE x \in K(m) \/ y \in K(m)
    <3>1. Abstract!Joined(m, I \cup {i}, f) = K(x) \cup K(y)
      BY <2>1, JoinedWith DEF x, y
    <3>2. n \in K(x) \cup K(y) <=> r[n] \in {r[x], r[y]}
      BY <1>1, <1>4
    <3>3. s[m] = r[x]
      BY <1>1, <1>4, <1>6, <2>1
    <3> QED
      BY <1>6, <3>1, <3>2, <3>3
  <2>2. CASE ~(x \in K(m) \/ y \in K(m))
    <3>1. Abstract!Joined(m, I \cup {i}, f) = K(m)
      BY <2>2, JoinedWith DEF x, y
    <3>2. r[m] # r[x] /\ r[m] # r[y]
      BY <1>1, <1>4, <2>2
    <3> QED
      BY <1>4, <1>6, <3>1, <3>2
  <2> QED
    BY <2>1, <2>2
<1>8. SetExact(q, I \cup {i}, f)
  BY <1>5, <1>7 DEF SetExact, ByTrees
<1>9. ASSUME Rooted(p, I, e)
      PROVE  Rooted(q, I \cup {i}, f)
  <2>1. \A j \in I : p[f[j][1]] # -1 /\ p[f[j][2]] # -1
    BY <1>9 DEF Rooted
  <2>2. r[x] \in NodeA
    <3>1. IsRoot(p, r[x]) /\ r[r[x]] = r[x] /\ r[x] \in Node
      BY <1>1, <1>3 DEF Ranked
    <3>2. CASE p[r[x]] = r[x]
      BY <1>9, <3>1, <3>2 DEF Rooted
    <3>3. CASE p[r[x]] = -1
      <4>1. Closed({r[x]}, I, f)
        BY <2>1, <3>3 DEF Closed
      <4>2. K(r[x]) \subseteq {r[x]}
        BY <4>1, JoinedLeast
      <4>3. x \in K(r[x])
        BY <1>1, <1>4, <3>1
      <4> QED
        BY <1>1, <4>2, <4>3
    <3> QED
      BY <3>1, <3>2, <3>3 DEF IsRoot
  <2>3. \A n \in Node : q[n] = n => n \in NodeA
    BY <1>5, <1>9, <2>2 DEF Rooted
  <2>4. ASSUME NEW j \in I \cup {i}
        PROVE  q[f[j][1]] # -1 /\ q[f[j][2]] # -1
    <3>1. CASE j = i
      BY <1>1, <1>5, <3>1 DEF x, y
    <3>2. CASE j \in I
      <4>1. f[j][1] \in Node /\ f[j][2] \in Node
        BY <3>2 DEF Ends, Node
      <4> QED
        BY <1>5, <2>1, <3>2, <4>1
    <3> QED
      BY <3>1, <3>2
  <2> QED
    BY <2>3, <2>4 DEF Rooted
<1> QED
  BY <1>8, <1>9

\* Only the disjoint set is not the same in o.
LEMMA ExactParent ==
  ASSUME NEW g, NEW I, NEW e, Exact(g, I, e), NEW p \in Parents,
         NEW o, o = [g EXCEPT !.parent = p]
  PROVE  Exact(o, I, e) /\ o.parent = p
<1>1. g \in Graph /\ I \in SUBSET Id /\ Ends(I, e) /\ \A s \in Sides : Listed(g, s, I, e)
  BY DEF Exact
<1>2. o \in Graph /\ o.parent = p /\ o.head = g.head /\ o.next = g.next
  BY <1>1 DEF Graph, Parents
<1>3. \A s \in Sides : Apart(g, o, s)
  BY <1>2 DEF Apart
<1>4. \A s \in Sides : Listed(o, s, I, e)
  BY <1>1, <1>3, ListedApart
<1> QED
  BY <1>1, <1>2, <1>4 DEF Exact

\* A key has left the lists: the walks from its two ends repair the disjoint set.
LEMMA SetRepair ==
  ASSUME NEW g, NEW J, NEW f, Exact(g, J, f),
         NEW I, NEW e, Ends(I, e), NEW i \in I, SetExact(g.parent, I, e),
         EdgesOf(J, f) = EdgesOf(I \ {i}, e),
         NEW o, o = Repair(g, e[i])
  PROVE  Exact(o, J, f) /\ SetExact(o.parent, J, f)
<1> DEFINE x == e[i][1]
           y == e[i][2]
           p == g.parent
           K(m) == Abstract!Joined(m, J, f)
<1>1. x \in Node /\ y \in Node /\ x # y
  <2>1. x \in NodeA /\ y \in NodeB
    BY DEF Ends
  <2>2. NodeA \cap NodeB = {}
    BY ListsAssumption DEF NodeA, NodeB
  <2> QED
    BY <2>1, <2>2 DEF Node
<1>2. PICK r, d : Ranked(p, r, d) /\ ByTrees(r, I, e)
  BY DEF SetExact
<1>3. /\ p \in Parents /\ r \in [Node -> Node] /\ d \in [Node -> Nat]
      /\ \A n \in Node : IsRoot(p, r[n])
      /\ \A n \in Node : IF IsRoot(p, n) THEN r[n] = n
                         ELSE r[p[n]] = r[n] /\ d[p[n]] < d[n]
  BY <1>2 DEF Ranked
<1> DEFINE q == [m \in Node |-> IF m \in K(x) THEN x ELSE p[m]]
           c == connectBFS(g, x)
           w == [m \in Node |-> IF m \in K(y) THEN y ELSE q[m]]
<1> HIDE DEF x, y, p
<1>4. Exact(c, J, f) /\ c.parent = q
  <2>1. Reached(g, x) = K(x)
    BY <1>1, ReachedIs
  <2>2. c = [g EXCEPT !.parent = q]
    <3> HIDE DEF K
    <3> QED
      BY <2>1 DEF connectBFS, p
  <2>3. q \in Parents
    <3> HIDE DEF K
    <3> QED
      BY <1>1, <1>3 DEF Parents
  <2> HIDE DEF q, c
  <2> QED
    BY <2>2, <2>3, ExactParent
<1>5. Exact(o, J, f) /\ o.parent = w
  <2>1. Reached(c, y) = K(y)
    <3> HIDE DEF c
    <3> QED
      BY <1>1, <1>4, ReachedIs
  <2>2. o = connectBFS(c, y)
    BY DEF Repair, x, y
  <2>3. o = [c EXCEPT !.parent = w]
    <3> HIDE DEF K, c, q
    <3> QED
      BY <1>4, <2>1, <2>2 DEF connectBFS
  <2>4. w \in Parents
    <3> HIDE DEF K
    <3> QED
      BY <1>1, <1>3 DEF Parents
  <2> HIDE DEF w, c
  <2> QED
    BY <1>4, <2>3, <2>4, ExactParent
<1> HIDE DEF c
<1>6. \A m \in Node : w[m] = IF m \in K(y) THEN y ELSE IF m \in K(x) THEN x ELSE p[m]
  OBVIOUS
<1> HIDE DEF q, w
\* The erased key's tree was the two trees that are left.
<1>7. ASSUME NEW m
      PROVE  IF x \in K(m) \/ y \in K(m)
             THEN Abstract!Joined(m, I, e) = K(x) \cup K(y)
             ELSE Abstract!Joined(m, I, e) = K(m)
  <2> DEFINE L == I \ {i}
  <2>1. ASSUME NEW n
        PROVE  Abstract!Joined(n, L, e) = K(n)
    BY JoinedNames
  <2>2. I = L \cup {i}
    OBVIOUS
  <2> HIDE DEF L
  <2>3. IF x \in Abstract!Joined(m, L, e) \/ y \in Abstract!Joined(m, L, e)
        THEN Abstract!Joined(m, I, e) = Abstract!Joined(x, L, e) \cup Abstract!Joined(y, L, e)
        ELSE Abstract!Joined(m, I, e) = Abstract!Joined(m, L, e)
    BY <2>2, JoinedWith DEF x, y
  <2> HIDE DEF K
  <2> QED
    BY <2>1, <2>3
<1>8. /\ \A m, n : m \in K(n) <=> n \in K(m)
      /\ \A m, n : m \in K(n) => K(m) = K(n)
      /\ \A m : m \in K(m)
  BY JoinedEither, JoinedSame, JoinedSelf
<1> DEFINE C == K(x) \cup K(y)
<1> HIDE DEF K
\* The other trees are as they were.
<1>9. ASSUME NEW m \in Node, m \notin C
      PROVE  /\ \A n \in Node : r[m] = r[n] <=> n \in K(m)
             /\ \A n \in Node : r[m] = r[n] => n \notin C
  <2>1. ~(x \in K(m) \/ y \in K(m))
    BY <1>8, <1>9
  <2>2. Abstract!Joined(m, I, e) = K(m)
    BY <1>7, <2>1
  <2>3. \A n \in Node : r[m] = r[n] <=> n \in K(m)
    BY <1>2, <2>2 DEF ByTrees
  <2>4. \A n \in C : n \notin K(m)
    BY <1>8, <1>9
  <2> QED
    BY <2>3, <2>4
<1> DEFINE s == [m \in Node |-> IF m \in K(y) THEN y ELSE IF m \in K(x) THEN x ELSE r[m]]
           b == [m \in Node |-> IF m = y THEN 0 ELSE IF m \in K(y) THEN 1
                                ELSE IF m = x THEN 0 ELSE IF m \in K(x) THEN 1 ELSE d[m]]
<1>10. /\ s \in [Node -> Node] /\ b \in [Node -> Nat] /\ w \in Parents
       /\ \A m \in Node : s[m] = IF m \in K(y) THEN y ELSE IF m \in K(x) THEN x ELSE r[m]
       /\ \A m \in Node : b[m] = IF m = y THEN 0 ELSE IF m \in K(y) THEN 1
                                 ELSE IF m = x THEN 0 ELSE IF m \in K(x) THEN 1 ELSE d[m]
  <2>1. w \in Parents
    BY <1>5 DEF Exact, Graph, Parents
  <2> QED
    BY <1>1, <1>3, <2>1
<1> HIDE DEF s, b
<1>11. x \in K(x) /\ y \in K(y) /\ x # -1 /\ y # -1
  BY <1>1, <1>8, NodeNat
<1>12. ASSUME NEW m \in Node
       PROVE  /\ IsRoot(w, s[m])
              /\ IF IsRoot(w, m) THEN s[m] = m ELSE s[w[m]] = s[m] /\ b[w[m]] < b[m]
  <2>1. CASE m \in K(y)
    <3>1. w[m] = y /\ s[m] = y /\ w[y] = y /\ s[y] = y /\ b[y] = 0 /\ (m # y => b[m] = 1)
      BY <1>1, <1>6, <1>10, <1>11, <2>1
    <3> QED
      BY <1>11, <3>1 DEF IsRoot
  <2>2. CASE m \notin K(y) /\ m \in K(x)
    <3>1. x \notin K(y)
      BY <1>8, <2>2
    <3>2. /\ w[m] = x /\ s[m] = x /\ w[x] = x /\ s[x] = x /\ b[x] = 0
          /\ m # x => b[m] = 1
      BY <1>1, <1>6, <1>10, <1>11, <2>2, <3>1
    <3> QED
      BY <1>11, <3>2 DEF IsRoot
  <2>3. CASE m \notin C
    <3>1. /\ w[m] = p[m] /\ s[m] = r[m] /\ b[m] = d[m]
      BY <1>6, <1>10, <1>11, <2>3
    <3>2. r[m] \in Node /\ r[r[m]] = r[m] /\ IsRoot(p, r[m])
      BY <1>3
    <3>3. r[m] \notin C
      BY <1>9, <2>3, <3>2
    <3>4. IsRoot(w, s[m])
      BY <1>6, <3>1, <3>2, <3>3 DEF IsRoot
    <3>5. CASE IsRoot(p, m)
      BY <1>3, <3>1, <3>4, <3>5 DEF IsRoot
    <3>6. CASE ~IsRoot(p, m)
      <4>1. p[m] \in Node /\ r[p[m]] = r[m] /\ d[p[m]] < d[m]
        BY <1>3, <3>6 DEF IsRoot, Parents
      <4>2. p[m] \notin C
        BY <1>9, <2>3, <4>1
      <4>3. s[p[m]] = r[p[m]] /\ b[p[m]] = d[p[m]]
        BY <1>10, <1>11, <4>1, <4>2
      <4> QED
        BY <3>1, <3>4, <3>6, <4>1, <4>3 DEF IsRoot
    <3> QED
      BY <3>5, <3>6
  <2> QED
    BY <2>1, <2>2, <2>3
<1>13. Ranked(w, s, b)
  BY <1>10, <1>12 DEF Ranked
<1>14. ASSUME NEW m \in Node, NEW n \in Node
       PROVE  s[m] = s[n] <=> n \in K(m)
  <2>1. ASSUME NEW a \in Node, a \notin C
        PROVE  s[a] = r[a] /\ s[a] \in Node /\ s[a] \notin C
    <3>1. r[a] \in Node /\ r[r[a]] = r[a]
      BY <1>3
    <3> QED
      BY <1>9, <1>10, <2>1, <3>1
  <2>2. CASE m \notin C
    <3>1. CASE n \notin C
      BY <1>9, <2>1, <2>2, <3>1
    <3>2. CASE n \in C
      BY <1>8, <1>10, <1>11, <2>1, <2>2, <3>2
    <3> QED
      BY <3>1, <3>2
  <2>3. CASE m \in K(y)
    <3>1. s[m] = y /\ K(m) = K(y)
      BY <1>8, <1>10, <2>3
    <3>2. n \in K(y) <=> s[n] = y
      <4>1. CASE n \in C
        BY <1>1, <1>10, <4>1
      <4>2. CASE n \notin C
        BY <1>11, <2>1, <4>2
      <4> QED
        BY <4>1, <4>2
    <3> QED
      BY <3>1, <3>2
  <2>4. CASE m \notin K(y) /\ m \in K(x)
    <3>1. s[m] = x /\ K(m) = K(x)
      BY <1>8, <1>10, <2>4
    <3>2. \A a : a \in K(y) => a \notin K(x)
      BY <1>8, <2>4
    <3>3. n \in K(x) <=> s[n] = x
      <4>1. CASE n \in C
        BY <1>1, <1>10, <3>2, <4>1
      <4>2. CASE n \notin C
        BY <1>11, <2>1, <4>2
      <4> QED
        BY <4>1, <4>2
    <3> QED
      BY <3>1, <3>3
  <2> QED
    BY <2>2, <2>3, <2>4
<1>15. ByTrees(s, J, f)
  BY <1>14 DEF ByTrees, K
<1> QED
  BY <1>5, <1>13, <1>15 DEF SetExact
-----------------------------------------------------------------------------
(***************************************************************************)
(* Erasing a key.                                                          *)
(***************************************************************************)

\* The disjoint set is left as it is.
SameSets(g, o) == o.parent = g.parent

\* Without the key, both of its lists name what is left.
LEMMA CutExact ==
  ASSUME NEW g, NEW I, NEW e, Exact(g, I, e), NEW i \in I,
         NEW o, o = Cut(Cut(g, e[i][1], i), e[i][2], i)
  PROVE  Exact(o, I \ {i}, e) /\ SameSets(g, o)
<1>1. PICK a : a = Cut(g, e[i][1], i)
  OBVIOUS
<1>2. /\ I \in SUBSET Id /\ Ends(I, e) /\ "A" \in Sides \ {"B"} /\ "B" \in Sides \ {"A"}
      /\ Listed(g, "B", I, e)
  BY DEF Exact, Sides
<1>3. I \ {i} \in SUBSET Id /\ Ends(I \ {i}, e)
  BY <1>2 DEF Ends
<1>4. CutFrom(g, "A", I, e, i, a)
  BY <1>1 DEF CutFrom, Exact, Sides, At
<1>5. /\ a \in Graph /\ a.parent = g.parent /\ Listed(a, "A", I \ {i}, e)
      /\ Apart(g, a, "B")
  BY <1>2, <1>4, CutListed
<1>6. Listed(a, "B", I, e)
  BY <1>2, <1>5, ListedApart
<1>7. CutFrom(a, "B", I, e, i, o)
  BY <1>1, <1>2, <1>5, <1>6 DEF CutFrom, At
<1>8. /\ o \in Graph /\ o.parent = a.parent /\ Listed(o, "B", I \ {i}, e)
      /\ Apart(a, o, "A")
  BY <1>2, <1>7, CutListed
<1>9. Listed(o, "A", I \ {i}, e)
  BY <1>2, <1>3, <1>5, <1>8, ListedApart
<1> QED  BY <1>3, <1>5, <1>8, <1>9 DEF Exact, Sides, SameSets

\* With the key at position j renamed, both of its lists name it by i.
LEMMA RenamedExact ==
  ASSUME NEW g, NEW I, NEW e, Exact(g, I, e), NEW j \in I, NEW i \in Id, i \notin I,
         NEW f, f[i] = e[j], \A k \in I \ {j} : f[k] = e[k],
         NEW o, o = Rename(Rename(g, e[j][1], e[j][2], j, i), e[j][2], e[j][1], j, i)
  PROVE  Exact(o, (I \ {j}) \cup {i}, f) /\ SameSets(g, o)
<1> DEFINE J == (I \ {j}) \cup {i}
<1>1. PICK a : a = Rename(g, e[j][1], e[j][2], j, i)
  OBVIOUS
<1>2. /\ I \in SUBSET Id /\ Ends(I, e) /\ "A" \in Sides \ {"B"} /\ "B" \in Sides \ {"A"}
      /\ Listed(g, "B", I, e)
  BY DEF Exact, Sides
<1>3. J \in SUBSET Id /\ Ends(J, f)
  BY <1>2 DEF Ends
<1>4. RenameFrom(g, "A", I, e, j, i, f, a)
  BY <1>1 DEF RenameFrom, Exact, Sides, At, Far
<1>5. /\ a \in Graph /\ a.parent = g.parent /\ Listed(a, "A", J, f)
      /\ Apart(g, a, "B")
  BY ONLY <1>2, <1>4, RenameListed, ZenonT(40)
<1>6. Listed(a, "B", I, e)
  BY <1>2, <1>5, ListedApart
<1>7. RenameFrom(a, "B", I, e, j, i, f, o)
  BY <1>1, <1>2, <1>5, <1>6 DEF RenameFrom, At, Far
<1>8. /\ o \in Graph /\ o.parent = a.parent /\ Listed(o, "B", J, f)
      /\ Apart(a, o, "A")
  BY ONLY <1>2, <1>7, RenameListed, ZenonT(40)
<1> HIDE DEF J
<1>9. Listed(o, "A", J, f)
  BY <1>2, <1>3, <1>5, <1>8, ListedApart
<1>10. Exact(o, J, f) /\ o.parent = g.parent
  BY <1>3, <1>5, <1>8, <1>9 DEF Exact, Sides
<1> QED  BY <1>10 DEF J, SameSets

\* erase: the key leaves, the last key moves to its position, and the disjoint
\* set is repaired; lists and set are exact for the keys that are left.
LEMMA EraseExact ==
  ASSUME NEW g, NEW n \in Nat, NEW e, Exact(g, 0 .. n - 1, e),
         SetExact(g.parent, 0 .. n - 1, e), NEW i \in 0 .. n - 1,
         NEW f, \A k \in 0 .. n - 2 : f[k] = IF k = i THEN e[n - 1] ELSE e[k],
         NEW o, o = Repair(Moved(Cut(Cut(g, e[i][1], i), e[i][2], i), e[n - 1], n - 1, i),
                           e[i])
  PROVE  Exact(o, 0 .. n - 2, f) /\ SetExact(o.parent, 0 .. n - 2, f)
<1> DEFINE I == 0 .. n - 1
           J == 0 .. n - 2
           c == Cut(Cut(g, e[i][1], i), e[i][2], i)
           m == Moved(c, e[n - 1], n - 1, i)
<1>1. I \in SUBSET Id /\ Ends(I, e)
  BY DEF Exact
<1>2. Exact(c, I \ {i}, e) /\ c.parent = g.parent
  <2>1. Exact(g, I, e) /\ i \in I /\ c = Cut(Cut(g, e[i][1], i), e[i][2], i)
    OBVIOUS
  <2> HIDE DEF c, I
  <2>2. Exact(c, I \ {i}, e) /\ SameSets(g, c)
    BY ONLY <2>1, CutExact
  <2> QED
    BY <2>2 DEF SameSets
<1> HIDE DEF c
<1>3. Exact(m, J, f) /\ m.parent = g.parent
  <2>1. CASE i = n - 1
    <3>1. m = c /\ I \ {i} = J
      BY <2>1 DEF Moved
    <3>2. \A s \in Sides : Listed(c, s, J, e)
      BY <1>2, <3>1 DEF Exact
    <3>3. Ends(J, e) /\ \A k \in J : f[k] = e[k]
      BY <1>1, <2>1 DEF Ends
    <3>4. Ends(J, f)
      BY <3>3 DEF Ends
    <3>5. ASSUME NEW s \in Sides PROVE Listed(c, s, J, f)
      <4>1. Apart(c, c, s)
        BY DEF Apart
      <4> HIDE DEF J
      <4> QED  BY <3>2, <3>3, <4>1, ListedApart
    <3> QED  BY <1>2, <3>1, <3>4, <3>5 DEF Exact
  <2>2. CASE i # n - 1
    <3>1. /\ n - 1 \in I \ {i} /\ i \in Id /\ i \notin I \ {i}
          /\ f[i] = e[n - 1] /\ \A k \in (I \ {i}) \ {n - 1} : f[k] = e[k]
          /\ ((I \ {i}) \ {n - 1}) \cup {i} = J
      BY <1>1, <2>2
    <3>2. m = Rename(Rename(c, e[n - 1][1], e[n - 1][2], n - 1, i),
                     e[n - 1][2], e[n - 1][1], n - 1, i)
      BY <2>2 DEF Moved
    <3> DEFINE K == I \ {i}
               l == n - 1
    <3>3. /\ Exact(c, K, e) /\ l \in K /\ i \in Id /\ i \notin K
          /\ f[i] = e[l] /\ \A k \in K \ {l} : f[k] = e[k]
          /\ m = Rename(Rename(c, e[l][1], e[l][2], l, i), e[l][2], e[l][1], l, i)
          /\ (K \ {l}) \cup {i} = J
      BY <1>2, <3>1, <3>2
    <3> HIDE DEF K, l, m, J
    <3>4. Exact(m, (K \ {l}) \cup {i}, f) /\ m.parent = c.parent
      <4>1. \A k \in K \ {l} : f[k] = e[k]
        BY <3>3
      <4>2. Exact(c, K, e) /\ l \in K /\ i \in Id /\ i \notin K /\ f[i] = e[l]
        BY <3>3
      <4>3. m = Rename(Rename(c, e[l][1], e[l][2], l, i), e[l][2], e[l][1], l, i)
        BY <3>3
      <4>4. Exact(m, (K \ {l}) \cup {i}, f) /\ SameSets(c, m)
        BY ONLY <4>1, <4>2, <4>3, RenamedExact
      <4> QED
        BY <4>4 DEF SameSets
    <3> QED  BY <1>2, <3>3, <3>4
  <2> QED  BY <2>1, <2>2
<1>4. EdgesOf(J, f) = EdgesOf(I \ {i}, e)
  <2>1. \A k \in J : f[k] \in EdgesOf(I \ {i}, e)
    BY DEF EdgesOf
  <2>2. ASSUME NEW k \in I \ {i} PROVE e[k] \in EdgesOf(J, f)
    <3>1. CASE k = n - 1
      <4>1. i \in J /\ f[i] = e[k]
        BY <3>1
      <4> QED  BY <4>1 DEF EdgesOf
    <3>2. CASE k # n - 1
      <4>1. k \in J /\ f[k] = e[k]
        BY <3>2
      <4> QED  BY <4>1 DEF EdgesOf
    <3> QED  BY <3>1, <3>2
  <2> HIDE DEF I, J
  <2> QED  BY <2>1, <2>2 DEF EdgesOf
<1>5. o = Repair(m, e[i]) /\ SetExact(m.parent, I, e)
  BY <1>3 DEF c
<1> HIDE DEF I, J, m
<1>6. i \in I
  BY DEF I
<1>7. Exact(o, J, f) /\ SetExact(o.parent, J, f)
  BY <1>1, <1>3, <1>4, <1>5, <1>6, SetRepair
<1> QED  BY <1>7 DEF J

-----------------------------------------------------------------------------
(***************************************************************************)
(* testHash.                                                               *)
(***************************************************************************)
\* The graph fits the keys at the positions I with the ends e, and all of it
\* has been merged since it was made.
Built(g, I, e) ==
  Exact(g, I, e) /\ SetExact(g.parent, I, e) /\ Rooted(g.parent, I, e)

\* A new key at position i, with the ends f of all keys then, for the graph o.
EdgeFrom(g, I, e, i, f, o) ==
  /\ Exact(g, I, e) /\ SetExact(g.parent, I, e)
  /\ i \in Id /\ i \notin I
  /\ f[i] \in NodeA \X NodeB /\ \A j \in I : f[j] = e[j]
  /\ o = addEdge(g, i, f[i])

LEMMA EdgeIs ==
  ASSUME NEW g, NEW I, NEW e, NEW i, NEW f, NEW o, EdgeFrom(g, I, e, i, f, o)
  PROVE  /\ Exact(o, I \cup {i}, f) /\ SetExact(o.parent, I \cup {i}, f)
         /\ Rooted(g.parent, I, e) => Rooted(o.parent, I \cup {i}, f)
<1>1. /\ Exact(g, I, e) /\ SetExact(g.parent, I, e) /\ Ends(I, e)
      /\ i \in Id /\ i \notin I /\ f[i] \in NodeA \X NodeB
      /\ f[i][1] \in Node /\ f[i][2] \in Node
      /\ o = addEdge(g, i, f[i])
  BY DEF EdgeFrom, Exact, Node
<1>2. \A j \in I : f[j] = e[j]
  BY DEF EdgeFrom
<1>3. merge(g.parent, f[i][1], f[i][2]) \in Parents
  BY <1>1, SetParents
<1>4. Exact(o, I \cup {i}, f) /\ o.parent = merge(g.parent, f[i][1], f[i][2])
  BY <1>1, <1>2, <1>3, ExactEdge
<1>5. /\ SetExact(o.parent, I \cup {i}, f)
      /\ Rooted(g.parent, I, e) => Rooted(o.parent, I \cup {i}, f)
  BY <1>1, <1>2, <1>4, SetEdge
<1> QED
  BY <1>4, <1>5

LEMMA BuiltEdge ==
  ASSUME NEW i \in Id, NEW e, NEW g, Built(g, 0 .. i - 1, e), e[i] \in NodeA \X NodeB
  PROVE  Built(addEdge(g, i, e[i]), 0 .. i, e)
<1> DEFINE I == 0 .. i - 1
<1>1. PICK o : o = addEdge(g, i, e[i])
  OBVIOUS
<1>2. i \notin I /\ I \cup {i} = 0 .. i
  BY DEF Id
<1> HIDE DEF I
<1>3. EdgeFrom(g, I, e, i, e, o)
  BY <1>1, <1>2 DEF Built, EdgeFrom, I
<1> QED
  BY <1>1, <1>2, <1>3, EdgeIs DEF Built, I

\* What the recursion of testHash comes to.
LEMMA BuiltAll ==
  ASSUME NEW n \in 0 .. Cardinality(Key), NEW e, \A i \in 0 .. n - 1 : e[i] \in NodeA \X NodeB,
         NEW f, f[0] = Empty,
         \A i \in 0 .. n - 1 : addEdge(f[i], i, e[i]) \in Graph
                                 => f[i + 1] = addEdge(f[i], i, e[i])
  PROVE  \A i \in 0 .. n : Built(f[i], 0 .. i - 1, e)
<1> DEFINE T == {i \in Nat : i <= n => Built(f[i], 0 .. i - 1, e)}
<1>1. 0 \in T
  <2>1. 0 .. 0 - 1 = {}
    OBVIOUS
  <2>2. Built(Empty, {}, e)
    BY ExactEmpty, SetEmpty DEF Built
  <2> QED
    BY <2>1, <2>2
<1>2. ASSUME NEW i \in Nat, i \in T
      PROVE  i + 1 \in T
  <2> SUFFICES ASSUME i + 1 <= n
               PROVE  Built(f[i + 1], 0 .. (i + 1) - 1, e)
    OBVIOUS
  <2>1. i \in Id /\ i \in 0 .. n - 1 /\ (i + 1) - 1 = i
    BY IdFinite DEF Id
  <2>2. Built(f[i], 0 .. i - 1, e)
    BY <1>2
  <2>3. Built(addEdge(f[i], i, e[i]), 0 .. i, e)
    BY <2>1, <2>2, BuiltEdge
  <2>4. f[i + 1] = addEdge(f[i], i, e[i])
    <3>1. addEdge(f[i], i, e[i]) \in Graph
      BY <2>3 DEF Built, Exact
    <3> QED
      BY <2>1, <3>1
  <2> QED
    BY <2>1, <2>3, <2>4
<1>3. Nat \subseteq T
  <2> HIDE DEF T
  <2> QED
    BY <1>1, <1>2, Induct
<1> QED
  BY <1>3

\* A try that succeeds has linked all keys, and they make a forest.
LEMMA TestHashIs ==
  ASSUME NEW n \in 0 .. Cardinality(Key), NEW ks, NEW h,
         NEW e, \A i \in 0 .. n - 1 : e[i] = h[ks[i]] /\ e[i] \in NodeA \X NodeB
  PROVE  /\ Built(testHash(ks, n, h).graph, 0 .. n - 1, e)
         /\ testHash(ks, n, h).succ => Abstract!Forest(0 .. n - 1, e)
<1> DEFINE add(g, i) == addEdge(g, i, e[i])
           step == [x \in Nat \X Graph |->
                      IF add(x[2], x[1]) \in Graph THEN add(x[2], x[1]) ELSE x[2]]
           eqn(l) == [i \in 0 .. n |->
                        IF i = 0 THEN Empty ELSE addEdge(l[i - 1], i - 1, h[ks[i - 1]])]
<1>1. Empty \in Graph
  BY ExactEmpty DEF Exact
<1>2. step \in [Nat \X Graph -> Graph]
      /\ \A i \in Nat, g \in Graph :
           step[<<i, g>>] = IF add(g, i) \in Graph THEN add(g, i) ELSE g
  <2> HIDE DEF add
  <2> QED
    OBVIOUS
<1>3. PICK f \in [Nat -> Graph] :
        f[0] = Empty /\ \A i \in Nat : f[i + 1] = step[<<i, f[i]>>]
  <2>1. Recursive(Graph, Empty, step) # {}
    <3> HIDE DEF step
    <3> QED
      BY <1>1, <1>2, Recursion
  <2>2. PICK f \in Recursive(Graph, Empty, step) : TRUE
    BY <2>1
  <2> HIDE DEF step
  <2> QED
    BY <2>2 DEF Recursive
<1>4. \A i \in Nat : add(f[i], i) \in Graph => f[i + 1] = add(f[i], i)
  <2> HIDE DEF step, add
  <2> QED
    BY <1>2, <1>3
<1>5. \A i \in 0 .. n : Built(f[i], 0 .. i - 1, e)
  <2>1. \A i \in 0 .. n - 1 : addEdge(f[i], i, e[i]) \in Graph
                                 => f[i + 1] = addEdge(f[i], i, e[i])
    BY <1>4
  <2>2. f[0] = Empty /\ \A i \in 0 .. n - 1 : e[i] \in NodeA \X NodeB
    BY <1>3
  <2> QED
    BY ONLY <2>1, <2>2, n \in 0 .. Cardinality(Key), BuiltAll
<1>6. \A i \in 0 .. n - 1 : f[i + 1] = add(f[i], i)
  <2> SUFFICES ASSUME NEW i \in 0 .. n - 1
               PROVE  f[i + 1] = add(f[i], i)
    OBVIOUS
  <2>1. i \in Id /\ i \in 0 .. n
    BY IdFinite DEF Id
  <2>2. Built(add(f[i], i), 0 .. i, e)
    BY <1>5, <2>1, BuiltEdge
  <2>3. add(f[i], i) \in Graph
    BY <2>2 DEF Built, Exact
  <2> HIDE DEF add
  <2> QED
    BY <1>4, <2>3
<1> DEFINE fn == [i \in 0 .. n |-> f[i]]
<1>7. fn = eqn(fn)
  <2>1. ASSUME NEW i \in 0 .. n
        PROVE  fn[i] = eqn(fn)[i]
    <3>1. CASE i = 0
      BY <1>3, <3>1
    <3>2. CASE i # 0
      <4>1. i - 1 \in 0 .. n - 1 /\ i - 1 \in 0 .. n /\ (i - 1) + 1 = i
        BY <3>2
      <4>2. f[i] = addEdge(f[i - 1], i - 1, h[ks[i - 1]])
        BY <1>6, <4>1
      <4> QED
        BY <3>2, <4>1, <4>2
    <3> QED
      BY <3>1, <3>2
  <2> QED
    BY <2>1
<1> DEFINE l == CHOOSE g : g = eqn(g)
<1>8. l = eqn(l)
  <2> HIDE DEF eqn, fn
  <2> QED
    BY <1>7
<1>9. /\ testHash(ks, n, h).graph = l[n]
      /\ testHash(ks, n, h).succ = \A i \in 0 .. n - 1 :
                                     ~sameSet(l[i].parent, h[ks[i]][1], h[ks[i]][2])
  BY DEF testHash
<1> HIDE DEF l
<1>10. l[0] = Empty /\ \A i \in 0 .. n - 1 : l[i + 1] = addEdge(l[i], i, e[i])
  <2>1. l[0] = Empty
    BY <1>8
  <2>2. ASSUME NEW i \in 0 .. n - 1
        PROVE  l[i + 1] = addEdge(l[i], i, e[i])
    <3>1. i + 1 \in 0 .. n /\ i + 1 # 0 /\ (i + 1) - 1 = i
      OBVIOUS
    <3>2. l[i + 1] = eqn(l)[i + 1]
      BY <1>8
    <3> QED
      BY <3>1, <3>2
  <2> QED
    BY <2>1, <2>2
<1>11. \A i \in 0 .. n : Built(l[i], 0 .. i - 1, e)
  BY <1>10, BuiltAll
<1>12. ASSUME testHash(ks, n, h).succ
       PROVE  Abstract!Forest(0 .. n - 1, e)
  <2> DEFINE T == {i \in Nat : i <= n => Abstract!Forest(0 .. i - 1, e)}
  <2>1. 0 \in T
    <3>1. 0 .. 0 - 1 = {}
      OBVIOUS
    <3>2. Abstract!Forest({}, e)
      BY DEF Abstract!Forest
    <3> QED
      BY <3>1, <3>2
  <2>2. ASSUME NEW i \in Nat, i \in T
        PROVE  i + 1 \in T
    <3> SUFFICES ASSUME i + 1 <= n
                 PROVE  Abstract!Forest(0 .. (i + 1) - 1, e)
      OBVIOUS
    <3> DEFINE I == 0 .. i - 1
    <3>1. i \notin I /\ 0 .. (i + 1) - 1 = I \cup {i} /\ i \in 0 .. n - 1 /\ i \in 0 .. n
      OBVIOUS
    <3>2. Abstract!Forest(I, e) /\ SetExact(l[i].parent, I, e)
      BY <1>11, <2>2, <3>1 DEF Built
    <3>3. ~sameSet(l[i].parent, e[i][1], e[i][2]) /\ e[i][1] \in Node /\ e[i][2] \in Node
      BY <1>9, <1>12, <3>1 DEF Node
    <3> HIDE DEF I
    <3>4. ~Abstract!Closes(i, I, e)
      BY <3>2, <3>3, SetIs DEF Abstract!Closes
    <3>5. Abstract!Forest(I \cup {i}, e)
      BY <3>1, <3>2, <3>4, ForestWith
    <3> QED
      BY <3>1, <3>5
  <2>3. Nat \subseteq T
    <3> HIDE DEF T
    <3> QED
      BY <2>1, <2>2, Induct
  <2> QED
    BY <2>3
<1> QED
  BY <1>9, <1>11, <1>12

-----------------------------------------------------------------------------
(***************************************************************************)
(* The inductive invariant.                                                *)
(***************************************************************************)
\* The ends of the first n of the keys ks.
EndsBy(ks, n, h) == [i \in 0 .. n - 1 |-> h[ks[i]]]

\* The lists and the disjoint set fit these keys.
Fits(g, ks, n, h) ==
  /\ Exact(g, 0 .. n - 1, EndsBy(ks, n, h))
  /\ SetExact(g.parent, 0 .. n - 1, EndsBy(ks, n, h))

\* Every tree that has an edge has a root that names itself, in array A.
SelfRooted(g, ks, n, h) == Rooted(g.parent, 0 .. n - 1, EndsBy(ks, n, h))

\* The last key is counted and not linked once an insertion has been refused.
Linked == IF phase = "rebuild" THEN keyCnt - 1 ELSE keyCnt

Distinct(ks, n) == \A i, j \in 0 .. n - 1 : ks[i] = ks[j] => i = j

IInv ==
  /\ TypeOK
  /\ Distinct(keys, keyCnt)
  /\ phase = "rebuild" => keyCnt > 0
  /\ Fits(graph, keys, Linked, hab)
  /\ phase \in {"building", "filled"} => SelfRooted(graph, keys, keyCnt, hab)

LEMMA HabIs ==
  ASSUME NEW h \in Hash, NEW n \in Nat, NEW ks \in [0 .. n - 1 -> Key]
  PROVE  \A i \in 0 .. n - 1 :
           /\ EndsBy(ks, n, h)[i] = h[ks[i]] /\ ks[i] \in Key
           /\ h[ks[i]] \in NodeA \X NodeB
           /\ h[ks[i]][1] \in Node /\ h[ks[i]][2] \in Node
<1>1. h \in [Key -> NodeA \X NodeB]
  BY ListsAssumption
<1>2. \A k \in Key : h[k] \in NodeA \X NodeB /\ h[k][1] \in Node /\ h[k][2] \in Node
  BY <1>1 DEF Node
<1> QED
  BY <1>2 DEF EndsBy

LEMMA FitsEmpty ==
  ASSUME NEW ks, NEW h
  PROVE  Fits(Empty, ks, 0, h) /\ SelfRooted(Empty, ks, 0, h)
<1>1. 0 .. 0 - 1 = {}
  OBVIOUS
<1> QED
  BY <1>1, ExactEmpty, SetEmpty DEF Fits, SelfRooted

\* There are no more positions than keys, since no key is stored twice.
LEMMA AppendIs ==
  ASSUME TypeOK, Distinct(keys, keyCnt), NEW k \in Key, Append(k)
  PROVE  /\ keyCnt \in Nat /\ keyCnt \in Id /\ keyCnt' = keyCnt + 1
         /\ keyCnt' \in 0 .. Cardinality(Key)
         /\ keys' \in [0 .. keyCnt' - 1 -> Key]
         /\ Distinct(keys', keyCnt')
         /\ keys'[keyCnt] = k /\ \A i \in 0 .. keyCnt - 1 : keys'[i] = keys[i] /\ keys[i] # k
<1>1. keyCnt \in Nat /\ keys \in [0 .. keyCnt - 1 -> Key] /\ keyCnt' = keyCnt + 1
  BY IdFinite DEF TypeOK, Append
<1>2. keys' = [i \in 0 .. keyCnt |-> IF i < keyCnt THEN keys[i] ELSE k]
  BY DEF Append
<1>3. keyCnt' - 1 = keyCnt
  BY <1>1
<1>4. keys' \in [0 .. keyCnt' - 1 -> Key]
  BY <1>1, <1>2, <1>3
<1>5. keys'[keyCnt] = k /\ \A i \in 0 .. keyCnt - 1 : keys'[i] = keys[i] /\ keys[i] # k
  BY <1>1, <1>2 DEF Append
<1>6. Distinct(keys', keyCnt')
  <2> SUFFICES ASSUME NEW i \in 0 .. keyCnt, NEW j \in 0 .. keyCnt, keys'[i] = keys'[j]
               PROVE  i = j
    BY <1>3 DEF Distinct
  <2>1. CASE i = keyCnt
    BY <1>1, <1>5, <2>1
  <2>2. CASE j = keyCnt
    BY <1>1, <1>5, <2>2
  <2>3. CASE i # keyCnt /\ j # keyCnt
    <3>1. i \in 0 .. keyCnt - 1 /\ j \in 0 .. keyCnt - 1
      BY <1>1, <2>3
    <3> QED
      BY <1>5, <3>1 DEF Distinct
  <2> QED
    BY <2>1, <2>2, <2>3
<1>7. keyCnt + 1 <= Cardinality(Key)
  <2> DEFINE S == 0 .. keyCnt
  <2>1. IsFiniteSet(S) /\ Cardinality(S) = keyCnt + 1
    BY <1>1, FS_Interval
  <2>2. keys' \in [S -> Key]
    BY <1>1, <1>4
  <2>3. \A i, j \in S : keys'[i] = keys'[j] => i = j
    BY <1>3, <1>6 DEF Distinct
  <2>4. IsFiniteSet(Key) /\ Cardinality(Key) \in Nat
    BY ListsAssumption, IdFinite
  <2>5. ASSUME Cardinality(Key) < Cardinality(S)
        PROVE  FALSE
    <3>1. \E i, j \in S : i # j /\ keys'[i] = keys'[j]
      <4> HIDE DEF S
      <4> QED
        BY <2>1, <2>2, <2>4, <2>5, FS_PigeonHole
    <3> QED
      BY <2>3, <3>1
  <2> QED
    BY <1>1, <2>1, <2>4, <2>5
<1> QED
  BY <1>1, <1>4, <1>5, <1>6, <1>7, IdFinite DEF Id

\* A key that is linked.
LEMMA LinkFits ==
  ASSUME IInv, phase # "rebuild", NEW k \in Key, Link(k)
  PROVE  /\ keyCnt' \in 0 .. Cardinality(Key) /\ keys' \in [0 .. keyCnt' - 1 -> Key]
         /\ Distinct(keys', keyCnt') /\ hab' = hab /\ graph' \in Graph
         /\ Fits(graph', keys', keyCnt', hab')
         /\ SelfRooted(graph, keys, keyCnt, hab) => SelfRooted(graph', keys', keyCnt', hab')
<1>1. /\ TypeOK /\ Distinct(keys, keyCnt) /\ Append(k) /\ hab' = hab /\ hab \in Hash
      /\ graph' = addEdge(graph, keyCnt, hab[k])
  BY DEF IInv, TypeOK, Link
<1>2. Fits(graph, keys, keyCnt, hab)
  BY DEF IInv, Linked
<1>3. /\ keyCnt \in Nat /\ keyCnt \in Id /\ keyCnt' = keyCnt + 1
      /\ keyCnt' \in 0 .. Cardinality(Key)
      /\ keys' \in [0 .. keyCnt' - 1 -> Key]
      /\ Distinct(keys', keyCnt')
      /\ keys'[keyCnt] = k /\ \A i \in 0 .. keyCnt - 1 : keys'[i] = keys[i]
  BY <1>1, AppendIs
<1> DEFINE I == 0 .. keyCnt - 1
           e == EndsBy(keys, keyCnt, hab)
           f == EndsBy(keys', keyCnt', hab)
<1>4. keyCnt \notin I /\ I \cup {keyCnt} = 0 .. keyCnt' - 1
  BY <1>3
<1>5. f[keyCnt] = hab[k] /\ f[keyCnt] \in NodeA \X NodeB
  BY <1>1, <1>3, HabIs
<1>6. \A j \in I : f[j] = e[j]
  BY <1>3 DEF EndsBy
<1>7. EdgeFrom(graph, I, e, keyCnt, f, graph')
  <2>1. Exact(graph, I, e) /\ SetExact(graph.parent, I, e)
    BY <1>2 DEF Fits
  <2> HIDE DEF I, e, f
  <2> QED
    BY <1>1, <1>3, <1>4, <1>5, <1>6, <2>1 DEF EdgeFrom
<1>8. /\ Exact(graph', I \cup {keyCnt}, f) /\ SetExact(graph'.parent, I \cup {keyCnt}, f)
      /\ Rooted(graph.parent, I, e) => Rooted(graph'.parent, I \cup {keyCnt}, f)
  <2> HIDE DEF I, e, f
  <2> QED
    BY <1>7, EdgeIs
<1>9. graph' \in Graph
  BY <1>8 DEF Exact
<1> QED
  BY <1>1, <1>3, <1>4, <1>8, <1>9 DEF Fits, SelfRooted

LEMMA InitIInv ==
  ASSUME Init
  PROVE  IInv
<1>1. TypeOK
  <2>1. Empty \in Graph
    BY ExactEmpty DEF Exact
  <2>2. << >> \in [0 .. 0 - 1 -> Key]
    OBVIOUS
  <2> QED
    BY <2>1, <2>2, IdFinite DEF Init, TypeOK
<1>2. Fits(graph, keys, Linked, hab) /\ SelfRooted(graph, keys, keyCnt, hab)
  BY FitsEmpty DEF Init, Linked
<1> QED
  BY <1>1, <1>2 DEF Init, IInv, Distinct

LEMMA ConstructIInv ==
  ASSUME IInv, Construct
  PROVE  IInv'
<1>1. /\ hab' \in Hash /\ keyCnt' = 0 /\ keys' = << >> /\ graph' = Empty
      /\ phase' = "building"
  BY DEF Construct
<1>2. TypeOK'
  <2>1. Empty \in Graph
    BY ExactEmpty DEF Exact
  <2>2. << >> \in [0 .. 0 - 1 -> Key]
    OBVIOUS
  <2> QED
    BY <1>1, <2>1, <2>2, IdFinite DEF TypeOK
<1>3. Fits(graph', keys', Linked', hab') /\ SelfRooted(graph', keys', keyCnt', hab')
  <2>1. Linked' = 0
    BY <1>1 DEF Linked
  <2> QED
    BY <1>1, <2>1, FitsEmpty
<1> QED
  BY <1>1, <1>2, <1>3 DEF IInv, Distinct

LEMMA InsertIInv ==
  ASSUME IInv, NEW k \in Key, Insert(k)
  PROVE  IInv'
<1>1. phase \in {"building", "filled"} /\ phase # "rebuild" /\ Link(k) /\ phase' = "building"
  BY DEF Insert
<1>2. SelfRooted(graph, keys, keyCnt, hab) /\ hab \in Hash
  BY <1>1 DEF IInv, TypeOK
<1>3. /\ keyCnt' \in 0 .. Cardinality(Key) /\ keys' \in [0 .. keyCnt' - 1 -> Key]
      /\ Distinct(keys', keyCnt') /\ hab' = hab /\ graph' \in Graph
      /\ Fits(graph', keys', keyCnt', hab')
      /\ SelfRooted(graph', keys', keyCnt', hab')
  BY <1>1, <1>2, LinkFits
<1> QED
  BY <1>1, <1>2, <1>3 DEF IInv, TypeOK, Linked

LEMMA InsertOnDemandIInv ==
  ASSUME IInv, NEW k \in Key, InsertOnDemand(k)
  PROVE  IInv'
<1>1. phase = "ready" /\ phase # "rebuild" /\ Link(k) /\ phase' = "ready"
  BY DEF InsertOnDemand
<1>2. /\ keyCnt' \in 0 .. Cardinality(Key) /\ keys' \in [0 .. keyCnt' - 1 -> Key]
      /\ Distinct(keys', keyCnt') /\ hab' = hab /\ graph' \in Graph
      /\ Fits(graph', keys', keyCnt', hab')
  BY <1>1, LinkFits
<1> QED
  BY <1>1, <1>2 DEF IInv, TypeOK, Linked

\* Every try of build starts from an empty graph.
LEMMA BuildFits ==
  ASSUME IInv, NEW k \in Key, Append(k),
         NEW h \in Hash, testHash(keys', keyCnt', h).succ
  PROVE  /\ testHash(keys', keyCnt', h).graph \in Graph
         /\ Fits(testHash(keys', keyCnt', h).graph, keys', keyCnt', h)
         /\ SelfRooted(testHash(keys', keyCnt', h).graph, keys', keyCnt', h)
         /\ Abstract!Forest(0 .. keyCnt' - 1, EndsBy(keys', keyCnt', h))
<1> DEFINE n == keyCnt'
           ks == keys'
           e == EndsBy(ks, n, h)
<1>1. TypeOK /\ Distinct(keys, keyCnt)
  BY DEF IInv
<1>2. n \in 0 .. Cardinality(Key) /\ n \in Nat /\ ks \in [0 .. n - 1 -> Key]
  BY <1>1, AppendIs
<1>3. \A i \in 0 .. n - 1 : e[i] = h[ks[i]] /\ e[i] \in NodeA \X NodeB
  <2> HIDE DEF n, ks
  <2> QED
    BY <1>2, HabIs
<1>4. Built(testHash(ks, n, h).graph, 0 .. n - 1, e) /\ Abstract!Forest(0 .. n - 1, e)
  <2>1. testHash(ks, n, h).succ
    OBVIOUS
  <2> HIDE DEF n, ks, e
  <2> QED
    BY <1>2, <1>3, <2>1, TestHashIs
<1> QED
  BY <1>4 DEF Built, Exact, Fits, SelfRooted

LEMMA BuildIInv ==
  ASSUME IInv, NEW k \in Key, Build(k)
  PROVE  IInv'
<1>1. phase # "rebuild" /\ Append(k) /\ phase' = "filled" /\ TypeOK /\ Distinct(keys, keyCnt)
  BY DEF Build, Connected, IInv
<1>2. PICK h \in Hash : /\ testHash(keys', keyCnt', h).succ
                        /\ hab' = h
                        /\ graph' = testHash(keys', keyCnt', h).graph
  BY DEF Build
<1>3. /\ keyCnt' \in 0 .. Cardinality(Key) /\ keys' \in [0 .. keyCnt' - 1 -> Key]
      /\ Distinct(keys', keyCnt')
  BY <1>1, AppendIs
<1>4. /\ graph' \in Graph
      /\ Fits(graph', keys', keyCnt', hab') /\ SelfRooted(graph', keys', keyCnt', hab')
  BY <1>1, <1>2, BuildFits
<1>5. Linked' = keyCnt'
  BY <1>1 DEF Linked
<1> QED
  BY <1>1, <1>2, <1>3, <1>4, <1>5 DEF IInv, TypeOK

LEMMA InstallIInv ==
  ASSUME IInv, Install
  PROVE  IInv'
BY DEF Install, IInv, TypeOK, Linked, Distinct, Fits

\* The refused key is not linked, and paths are shorter.
LEMMA InsertRefusedIInv ==
  ASSUME IInv, NEW k \in Key, InsertRefused(k)
  PROVE  IInv'
<1>1. /\ phase = "ready" /\ Append(k) /\ phase' = "rebuild" /\ hab' = hab
      /\ TypeOK /\ Distinct(keys, keyCnt) /\ hab \in Hash
      /\ graph' = [graph EXCEPT !.parent = Ask(@, hab[k][1], hab[k][2])]
  BY DEF InsertRefused, Connected, IInv, TypeOK
<1>2. Fits(graph, keys, keyCnt, hab) /\ graph \in Graph
  BY <1>1 DEF IInv, TypeOK, Linked
<1>3. /\ keyCnt \in Nat /\ keyCnt' = keyCnt + 1
      /\ keyCnt' \in 0 .. Cardinality(Key)
      /\ keys' \in [0 .. keyCnt' - 1 -> Key]
      /\ Distinct(keys', keyCnt')
      /\ \A i \in 0 .. keyCnt - 1 : keys'[i] = keys[i]
  BY <1>1, AppendIs
<1> DEFINE I == 0 .. keyCnt - 1
           e == EndsBy(keys, keyCnt, hab)
           p == Ask(graph.parent, hab[k][1], hab[k][2])
<1>4. EndsBy(keys', keyCnt, hab') = e
  BY <1>1, <1>3 DEF EndsBy
<1>5. Linked' = keyCnt /\ keyCnt' > 0
  BY <1>1, <1>3 DEF Linked
<1>6. hab[k][1] \in Node /\ hab[k][2] \in Node
  BY <1>1, ListsAssumption DEF Node
<1>7. Exact(graph, I, e) /\ SetExact(graph.parent, I, e)
  BY <1>2 DEF Fits
<1>8. p \in Parents /\ SetExact(p, I, e)
  <2> HIDE DEF I, e
  <2> QED
    BY <1>6, <1>7, SetParents
<1>9. graph' = [graph EXCEPT !.parent = p]
  BY <1>1
<1>10. Exact(graph', I, e) /\ graph'.parent = p
  <2> HIDE DEF I, e, p
  <2> QED
    BY <1>7, <1>8, <1>9, ExactParent
<1>11. Fits(graph', keys', Linked', hab') /\ graph' \in Graph
  <2>1. graph' \in Graph
    BY <1>10 DEF Exact
  <2>2. Fits(graph', keys', keyCnt, hab')
    <3> HIDE DEF e, p
    <3> QED
      BY <1>4, <1>8, <1>10 DEF Fits
  <2> QED
    BY <1>5, <2>1, <2>2
<1> QED
  BY <1>1, <1>3, <1>5, <1>11 DEF IInv, TypeOK

LEMMA EraseIInv ==
  ASSUME IInv, NEW i \in Id, Erase(i)
  PROVE  IInv'
<1> DEFINE n == keyCnt
           e == EndsBy(keys, n, hab)
           f == EndsBy(keys', n - 1, hab)
<1>1. /\ phase = "ready" /\ phase' = "ready" /\ hab' = hab /\ hab \in Hash
      /\ i \in 0 .. n - 1 /\ n' = n - 1 /\ keys' = MoveLast(i)
      /\ TypeOK /\ Distinct(keys, n)
  BY DEF Erase, IInv, TypeOK
<1>2. n \in 0 .. Cardinality(Key) /\ n \in Nat /\ n # 0 /\ keys \in [0 .. n - 1 -> Key]
  BY <1>1, IdFinite DEF TypeOK
<1>3. \A k \in 0 .. n - 2 : keys'[k] = IF k = i THEN keys[n - 1] ELSE keys[k]
  BY <1>1 DEF MoveLast
<1>4. keys' \in [0 .. n' - 1 -> Key] /\ n' \in 0 .. Cardinality(Key) /\ n' - 1 = n - 2
  <2>1. n' - 1 = n - 2 /\ n' \in 0 .. Cardinality(Key)
    BY <1>1, <1>2, IdFinite
  <2>2. keys' = [k \in 0 .. n - 2 |-> IF k = i THEN keys[n - 1] ELSE keys[k]]
    BY <1>1 DEF MoveLast
  <2>3. \A k \in 0 .. n - 2 : (IF k = i THEN keys[n - 1] ELSE keys[k]) \in Key
    BY <1>2
  <2> QED
    BY <2>1, <2>2, <2>3
<1>5. Distinct(keys', n')
  <2> SUFFICES ASSUME NEW a \in 0 .. n - 2, NEW b \in 0 .. n - 2, keys'[a] = keys'[b]
               PROVE  a = b
    BY <1>4 DEF Distinct
  <2> DEFINE src(k) == IF k = i THEN n - 1 ELSE k
  <2>1. src(a) \in 0 .. n - 1 /\ src(b) \in 0 .. n - 1 /\ keys[src(a)] = keys[src(b)]
    BY <1>2, <1>3
  <2>2. src(a) = src(b)
    <3> HIDE DEF src
    <3> QED
      BY <1>1, <2>1 DEF Distinct
  <2> QED
    BY <1>2, <2>2
<1>6. Fits(graph, keys, n, hab)
  BY <1>1 DEF IInv, Linked
<1>7. \A k \in 0 .. n - 2 : f[k] = IF k = i THEN e[n - 1] ELSE e[k]
  <2>1. \A k \in 0 .. n - 2 : f[k] = hab[keys'[k]]
    BY <1>2 DEF EndsBy
  <2>2. \A k \in 0 .. n - 1 : e[k] = hab[keys[k]]
    BY DEF EndsBy
  <2> HIDE DEF e, f
  <2> QED
    BY <1>2, <1>3, <2>1, <2>2
<1>8. graph' = Repair(Moved(Cut(Cut(graph, e[i][1], i), e[i][2], i), e[n - 1], n - 1, i),
                      e[i])
  <2>1. e[i] = hab[keys[i]] /\ e[n - 1] = hab[keys[n - 1]]
    BY <1>1, <1>2 DEF EndsBy
  <2> HIDE DEF e
  <2> QED
    BY <2>1 DEF Erase
<1>9. Exact(graph', 0 .. n - 2, f) /\ SetExact(graph'.parent, 0 .. n - 2, f)
  <2>1. Exact(graph, 0 .. n - 1, e) /\ SetExact(graph.parent, 0 .. n - 1, e)
    BY <1>6 DEF Fits
  <2>2. n \in Nat /\ i \in 0 .. n - 1
    BY <1>1, <1>2
  <2> HIDE DEF e, f
  <2> QED
    BY ONLY <1>7, <1>8, <2>1, <2>2, EraseExact
<1>10. Linked' = n - 1 /\ (n - 1) - 1 = n - 2
  BY <1>1, <1>2 DEF Linked
<1>11. Fits(graph', keys', Linked', hab') /\ graph' \in Graph
  BY <1>1, <1>9, <1>10 DEF Fits, Exact
<1> QED
  BY <1>1, <1>4, <1>5, <1>11 DEF IInv, TypeOK

\* For every set of keys, all sizes of the arrays and all hash functions.
THEOREM Invariant == Spec => []IInv
<1>1. Init => IInv
  BY InitIInv
<1>2. IInv /\ [Next]_vars => IInv'
  <2> SUFFICES ASSUME IInv, [Next]_vars
               PROVE  IInv'
    OBVIOUS
  <2>1. CASE Construct
    BY <2>1, ConstructIInv
  <2>2. ASSUME NEW k \in Key, Insert(k) PROVE IInv'
    BY <2>2, InsertIInv
  <2>3. ASSUME NEW k \in Key, Build(k) PROVE IInv'
    BY <2>3, BuildIInv
  <2>4. CASE Install
    BY <2>4, InstallIInv
  <2>5. ASSUME NEW k \in Key, InsertOnDemand(k) PROVE IInv'
    BY <2>5, InsertOnDemandIInv
  <2>6. ASSUME NEW k \in Key, InsertRefused(k) PROVE IInv'
    BY <2>6, InsertRefusedIInv
  <2>7. ASSUME NEW i \in Id, Erase(i) PROVE IInv'
    BY <2>7, EraseIInv
  <2>8. CASE UNCHANGED vars
    BY <2>8 DEF vars, IInv, TypeOK, Linked, Distinct, Fits, SelfRooted
  <2> QED
    BY <2>1, <2>2, <2>3, <2>4, <2>5, <2>6, <2>7, <2>8 DEF Next
<1> QED
  BY <1>1, <1>2, PTL DEF Spec

-----------------------------------------------------------------------------
(***************************************************************************)
(* The properties.                                                         *)
(***************************************************************************)
\* Positions within the array, keys that occur once, and cells that name
\* positions and nodes: no step of a walk over the lists leaves its array.
THEOREM TypeCorrect == Spec => []TypeOK
<1>1. IInv => TypeOK
  BY DEF IInv
<1> QED
  BY <1>1, Invariant, PTL

\* The positions and the keys give the same edges.
LEMMA LinkedIs ==
  ASSUME IInv
  PROVE  /\ LinkedIds = 0 .. Linked - 1 /\ Linked \in Nat /\ Linked <= keyCnt
         /\ LinkedIds \subseteq 0 .. keyCnt - 1
         /\ Exact(graph, LinkedIds, EndsBy(keys, Linked, hab))
         /\ SetExact(graph.parent, LinkedIds, EndsBy(keys, Linked, hab))
         /\ \A i \in LinkedIds : /\ EndsBy(keys, Linked, hab)[i] = hab[keys[i]]
                                 /\ keys[i] \in Key /\ keys[i] \in Edges
                                 /\ hab[keys[i]] \in NodeA \X NodeB
         /\ EdgesOf(Edges, hab) = EdgesOf(LinkedIds, EndsBy(keys, Linked, hab))
<1>1. /\ TypeOK /\ keyCnt \in Nat /\ keys \in [0 .. keyCnt - 1 -> Key] /\ hab \in Hash
      /\ Fits(graph, keys, Linked, hab) /\ (phase = "rebuild" => keyCnt > 0)
  BY IdFinite DEF IInv, TypeOK
<1>2. LinkedIds = 0 .. Linked - 1 /\ Linked \in Nat /\ Linked <= keyCnt
  BY <1>1 DEF LinkedIds, Linked
<1>3. LinkedIds \subseteq 0 .. keyCnt - 1
  BY <1>1, <1>2
<1>4. \A i \in LinkedIds : /\ EndsBy(keys, Linked, hab)[i] = hab[keys[i]]
                           /\ keys[i] \in Key /\ keys[i] \in Edges
                           /\ hab[keys[i]] \in NodeA \X NodeB
  <2>1. hab \in [Key -> NodeA \X NodeB]
    BY <1>1, ListsAssumption
  <2> QED
    BY <1>1, <1>2, <1>3, <2>1 DEF EndsBy, Edges
<1>5. EdgesOf(Edges, hab) = EdgesOf(LinkedIds, EndsBy(keys, Linked, hab))
  BY <1>4 DEF EdgesOf, Edges
<1> QED
  BY <1>1, <1>2, <1>3, <1>4, <1>5 DEF Fits

\* The lists, at every node, are what the walks of fix and repair rely on.
THEOREM ListsAreExact == Spec => []ListsExact
<1>1. ASSUME IInv
      PROVE  ListsExact
  <2> SUFFICES ASSUME NEW n \in Node
               PROVE  /\ Nth(graph, n)[keyCnt] = Nil
                      /\ Cells(graph, n) =
                           UNION {{[keyId |-> i, nodeId |-> hab[keys[i]][3 - s]] :
                                     s \in {t \in {1, 2} : hab[keys[i]][t] = n}} :
                                  i \in LinkedIds}
    BY DEF ListsExact
  <2> DEFINE s == Side(n)
             I == LinkedIds
             e == EndsBy(keys, Linked, hab)
             cell(i, t) == [keyId |-> i, nodeId |-> hab[keys[i]][3 - t]]
             here(i) == {cell(i, t) : t \in {u \in {1, 2} : hab[keys[i]][u] = n}}
  <2>1. /\ I = 0 .. Linked - 1 /\ Linked \in Nat /\ Linked <= keyCnt
        /\ Exact(graph, I, e) /\ keyCnt \in Nat
        /\ \A i \in I : e[i] = hab[keys[i]] /\ hab[keys[i]] \in NodeA \X NodeB
    BY <1>1, LinkedIs, IdFinite DEF IInv, TypeOK
  <2>2. s \in Sides /\ n \in NodesOf(s)
    BY SideIs
  <2>3. graph \in Graph /\ I \in SUBSET Id /\ Ends(I, e) /\ Listed(graph, s, I, e)
    BY <2>1, <2>2 DEF Exact
  <2>4. Cardinality(I) = Linked
    <3>1. CASE Linked = 0
      <4>1. I = {}
        BY <2>1, <3>1
      <4> QED
        BY <3>1, <4>1, FS_EmptySet
    <3>2. CASE Linked > 0
      <4>1. 0 \in Int /\ Linked - 1 \in Int /\ 0 <= Linked - 1
            /\ Linked - 1 - 0 + 1 = Linked
        BY <2>1, <3>2
      <4>2. Cardinality(0 .. Linked - 1) = Linked
        BY <4>1, FS_Interval
      <4> QED
        BY <2>1, <4>2
    <3> QED
      BY <2>1, <3>1, <3>2
  <2>5. /\ \A j \in Nat : j >= Cardinality(I) => Nth(graph, n)[j] = Nil
        /\ Cells(graph, n) = {Named(e, s, i) : i \in {k \in I : At(e, s, k) = n}}
    <3> HIDE DEF I, e, s
    <3> QED
      BY <2>2, <2>3, ListIs
  <2>6. ASSUME NEW i \in I
        PROVE  here(i) = IF At(e, s, i) = n THEN {Named(e, s, i)} ELSE {}
    <3>1. /\ hab[keys[i]][1] \in NodeA /\ hab[keys[i]][2] \in NodeB
          /\ hab[keys[i]][1] \notin NodeB /\ hab[keys[i]][2] \notin NodeA
      <4>1. NodeA \cap NodeB = {}
        BY ListsAssumption DEF NodeA, NodeB
      <4> QED
        BY <2>1, <4>1
    <3>2. here(i) = (IF hab[keys[i]][1] = n THEN {cell(i, 1)} ELSE {})
                      \cup (IF hab[keys[i]][2] = n THEN {cell(i, 2)} ELSE {})
      <4> HIDE DEF cell
      <4> QED
        OBVIOUS
    <3>3. /\ cell(i, 1) = [keyId |-> i, nodeId |-> hab[keys[i]][2]]
          /\ cell(i, 2) = [keyId |-> i, nodeId |-> hab[keys[i]][1]]
      OBVIOUS
    <3> HIDE DEF here, cell
    <3>4. CASE s = "A"
      <4>1. n \in NodeA /\ hab[keys[i]][2] # n
        BY <2>2, <3>1, <3>4 DEF NodesOf
      <4>2. At(e, s, i) = hab[keys[i]][1] /\ Named(e, s, i) = cell(i, 1)
        BY <2>1, <3>3, <3>4 DEF At, Named, Far
      <4> HIDE DEF s, e
      <4> QED
        BY <3>2, <4>1, <4>2
    <3>5. CASE s = "B"
      <4>1. n \in NodeB /\ hab[keys[i]][1] # n
        BY <2>2, <3>1, <3>5 DEF NodesOf
      <4>2. At(e, s, i) = hab[keys[i]][2] /\ Named(e, s, i) = cell(i, 2)
        BY <2>1, <3>3, <3>5 DEF At, Named, Far
      <4> HIDE DEF s, e
      <4> QED
        BY <3>2, <4>1, <4>2
    <3> QED
      BY <2>2, <3>4, <3>5 DEF Sides
  <2>7. Cells(graph, n) = UNION {here(i) : i \in I}
    <3> HIDE DEF here, I, e, s
    <3> QED
      BY <2>5, <2>6
  <2>8. Nth(graph, n)[keyCnt] = Nil
    <3> HIDE DEF I, e, s
    <3> QED
      BY <2>1, <2>4, <2>5
  <2> QED
    BY <2>7, <2>8
<1> QED
  BY <1>1, Invariant, PTL

LEMMA SetExactNow ==
  ASSUME IInv
  PROVE  DisjointSetExact
<1> SUFFICES ASSUME NEW m \in Node, NEW n \in Node
             PROVE  sameSet(graph.parent, m, n) <=> n \in Abstract!Joined(m, Edges, hab)
  BY DEF DisjointSetExact
<1> DEFINE e == EndsBy(keys, Linked, hab)
<1>1. SetExact(graph.parent, LinkedIds, e) /\ EdgesOf(Edges, hab) = EdgesOf(LinkedIds, e)
  BY LinkedIs
<1> HIDE DEF e
<1>2. sameSet(graph.parent, m, n) <=> n \in Abstract!Joined(m, LinkedIds, e)
  BY <1>1, SetIs
<1>3. Abstract!Joined(m, Edges, hab) = Abstract!Joined(m, LinkedIds, e)
  BY <1>1, JoinedNames
<1> QED
  BY <1>2, <1>3

\* isConnectedDFS answers by the disjoint set what its name asks of the graph,
\* after erasures too.
THEOREM DisjointSetIsExact == Spec => []DisjointSetExact
  BY SetExactNow, Invariant, PTL

\* Every end in a tree with an edge has been merged since the set was made.
LEMMA JoinedEnd ==
  ASSUME NEW I, NEW e, NEW i \in I, NEW m \in Abstract!Joined(e[i][1], I, e)
  PROVE  \E j \in I : m \in {e[j][1], e[j][2]}
BY DEF Abstract!Joined

\* fillValue reaches each edge from a root in array A.
THEOREM EveryTreeIsFilled == Spec => []FillsEveryTree
<1>1. ASSUME IInv
      PROVE  FillsEveryTree
  <2> SUFFICES ASSUME phase = "filled"
               PROVE  LET roots == {n \in Node : graph.parent[n] = n}
                      IN  /\ roots \subseteq NodeA
                          /\ \A k \in Edges :
                               hab[k][1] \in UNION {Reached(graph, r) : r \in roots}
    BY DEF FillsEveryTree
  <2> DEFINE I == LinkedIds
             e == EndsBy(keys, Linked, hab)
             p == graph.parent
             roots == {n \in Node : p[n] = n}
  <2>1. Rooted(p, I, e)
    <3>1. Linked = keyCnt /\ I = 0 .. keyCnt - 1
      BY <1>1, LinkedIs DEF Linked
    <3> QED
      BY <1>1, <3>1 DEF IInv, SelfRooted
  <2>2. /\ Exact(graph, I, e) /\ SetExact(p, I, e) /\ Ends(I, e)
        /\ \A i \in I : e[i] = hab[keys[i]]
    BY <1>1, LinkedIs DEF Exact
  <2>3. roots \subseteq NodeA
    BY <2>1 DEF Rooted
  <2>4. ASSUME NEW i \in I
        PROVE  \E q \in roots : e[i][1] \in Reached(graph, q)
    <3>1. PICK r, d : Ranked(p, r, d) /\ ByTrees(r, I, e)
      BY <2>2 DEF SetExact
    <3> DEFINE x == e[i][1]
               q == r[x]
    <3> HIDE DEF I, e, p
    <3>2. x \in Node
      BY <2>2 DEF Ends, Node
    <3>3. q \in Node /\ IsRoot(p, q) /\ r[q] = q
      BY <3>1, <3>2 DEF Ranked
    <3>4. q \in Abstract!Joined(x, I, e) /\ x \in Abstract!Joined(q, I, e)
      BY <3>1, <3>2, <3>3 DEF ByTrees
    <3>5. PICK j \in I : q \in {e[j][1], e[j][2]}
      BY <3>4, JoinedEnd
    <3>6. p[q] # -1
      BY <2>1, <3>5 DEF Rooted
    <3>7. q \in roots
      BY <3>3, <3>6 DEF IsRoot
    <3>8. x \in Reached(graph, q)
      BY <2>2, <3>3, <3>4, ReachedIs
    <3> QED
      BY <3>7, <3>8
  <2>5. ASSUME NEW k \in Edges
        PROVE  \E q \in roots : hab[k][1] \in Reached(graph, q)
    <3>1. PICK i \in I : k = keys[i]
      BY DEF Edges
    <3>2. e[i] = hab[k]
      BY <2>2, <3>1
    <3> HIDE DEF I, e, roots
    <3> QED
      BY <2>4, <3>1, <3>2
  <2> QED
    BY <2>3, <2>5
<1> QED
  BY <1>1, Invariant, PTL

-----------------------------------------------------------------------------
(***************************************************************************)
(* The lists and the disjoint set implement the forest of edges.           *)
(***************************************************************************)
Stored(ks, n) == {ks[i] : i \in 0 .. n - 1}

\* Keys by their positions make a forest exactly if they do by their names.
LEMMA ForestNames ==
  ASSUME NEW h, NEW n \in Nat, NEW ks, Distinct(ks, n),
         Abstract!Forest(0 .. n - 1, EndsBy(ks, n, h))
  PROVE  Abstract!Forest(Stored(ks, n), h)
<1> DEFINE I == 0 .. n - 1
           e == EndsBy(ks, n, h)
           E == Stored(ks, n)
<1> SUFFICES ASSUME NEW k \in E
             PROVE  ~Abstract!Closes(k, E \ {k}, h)
  BY DEF Abstract!Forest
<1>1. PICK i \in I : k = ks[i]
  BY DEF Stored
<1>2. \A j \in I : e[j] = h[ks[j]]
  BY DEF EndsBy
<1>3. \A j \in I : ks[j] \in E \ {k} <=> j \in I \ {i}
  BY <1>1 DEF Distinct, Stored
<1>4. \A x \in E : \E j \in I : x = ks[j]
  BY DEF Stored
<1>5. EdgesOf(E \ {k}, h) = EdgesOf(I \ {i}, e)
  <2> HIDE DEF I, e, E
  <2>1. \A x \in E \ {k} : h[x] \in EdgesOf(I \ {i}, e)
    BY <1>2, <1>3, <1>4 DEF EdgesOf
  <2>2. \A j \in I \ {i} : e[j] \in EdgesOf(E \ {k}, h)
    BY <1>2, <1>3 DEF EdgesOf
  <2> QED
    BY <2>1, <2>2 DEF EdgesOf
<1>6. ~Abstract!Closes(i, I \ {i}, e)
  BY <1>1 DEF Abstract!Forest
<1>7. e[i] = h[k]
  BY <1>1, <1>2
<1> HIDE DEF I, e, E
<1>8. Abstract!Joined(h[k][1], E \ {k}, h) = Abstract!Joined(h[k][1], I \ {i}, e)
  BY <1>5, JoinedNames
<1> QED
  BY <1>6, <1>7, <1>8 DEF Abstract!Closes

LEMMA EdgesStored ==
  ASSUME IInv
  PROVE  Edges = Stored(keys, Linked)
BY LinkedIs DEF Edges, Stored

\* The question isConnectedDFS asks of the ends of a key is the right one.
LEMMA ConnectedCloses ==
  ASSUME IInv, NEW k \in Key
  PROVE  sameSet(graph.parent, hab[k][1], hab[k][2]) <=> Abstract!Closes(k, Edges, hab)
<1>1. hab[k][1] \in Node /\ hab[k][2] \in Node
  <2>1. hab \in [Key -> NodeA \X NodeB]
    BY ListsAssumption DEF IInv, TypeOK
  <2> QED
    BY <2>1 DEF Node
<1> QED
  BY <1>1, SetExactNow DEF DisjointSetExact, Abstract!Closes

LEMMA NewEdge ==
  ASSUME IInv, phase # "rebuild", NEW k \in Key, Append(k)
  PROVE  /\ k \notin Edges /\ Edges = Stored(keys, keyCnt)
         /\ Stored(keys', keyCnt') = Edges \cup {k}
         /\ Stored(keys', keyCnt) = Edges
<1>1. /\ keyCnt \in Nat /\ keyCnt' = keyCnt + 1 /\ keys'[keyCnt] = k
      /\ \A i \in 0 .. keyCnt - 1 : keys'[i] = keys[i] /\ keys[i] # k
  BY AppendIs DEF IInv
<1>2. Edges = Stored(keys, keyCnt)
  BY EdgesStored DEF Linked
<1>3. keyCnt' - 1 = keyCnt /\ 0 .. keyCnt = (0 .. keyCnt - 1) \cup {keyCnt}
  BY <1>1
<1>4. Stored(keys', keyCnt') = Stored(keys, keyCnt) \cup {k}
  <2> DEFINE I == 0 .. keyCnt - 1
  <2>1. Stored(keys', keyCnt') = {keys'[i] : i \in I \cup {keyCnt}}
    BY <1>3 DEF Stored
  <2>2. Stored(keys, keyCnt) = {keys[i] : i \in I}
    BY DEF Stored
  <2> HIDE DEF I
  <2> QED
    BY <1>1, <2>1, <2>2 DEF I
<1>5. Stored(keys', keyCnt) = Stored(keys, keyCnt)
  BY <1>1 DEF Stored
<1>6. k \notin Stored(keys, keyCnt)
  BY <1>1 DEF Stored
<1> QED
  BY <1>2, <1>4, <1>5, <1>6

LEMMA LinkStep ==
  ASSUME IInv, phase # "rebuild", phase' # "rebuild", NEW k \in Key, Link(k)
  PROVE  Abstract!Link(k)
<1>1. Append(k) /\ ~sameSet(graph.parent, hab[k][1], hab[k][2]) /\ hab' = hab
  BY DEF Link
<1>2. k \notin Edges /\ Stored(keys', keyCnt') = Edges \cup {k}
  BY <1>1, NewEdge
<1>3. Edges' = Stored(keys', keyCnt')
  BY DEF Edges, LinkedIds, Stored
<1>4. ~Abstract!Closes(k, Edges, hab)
  BY <1>1, ConnectedCloses
<1> QED
  BY <1>1, <1>2, <1>3, <1>4 DEF Abstract!Link

LEMMA BuildStep ==
  ASSUME IInv, NEW k \in Key, Build(k)
  PROVE  Abstract!Rehash(k)
<1>1. /\ phase # "rebuild" /\ phase' = "filled" /\ Append(k)
      /\ sameSet(graph.parent, hab[k][1], hab[k][2])
  BY DEF Build, Connected
<1>2. PICK h \in Hash : testHash(keys', keyCnt', h).succ /\ hab' = h
  BY DEF Build
<1>3. k \notin Edges /\ Stored(keys', keyCnt') = Edges \cup {k}
  BY <1>1, NewEdge
<1>4. Edges' = Stored(keys', keyCnt')
  BY <1>1 DEF Edges, LinkedIds, Stored
<1>5. Abstract!Closes(k, Edges, hab)
  BY <1>1, ConnectedCloses
<1>6. keyCnt' \in Nat /\ Distinct(keys', keyCnt')
  BY <1>1, AppendIs DEF IInv
<1>7. Abstract!Forest(0 .. keyCnt' - 1, EndsBy(keys', keyCnt', h))
  BY <1>1, <1>2, BuildFits
<1>8. Abstract!Forest(Stored(keys', keyCnt'), h)
  <2> DEFINE ks == keys'
             n == keyCnt'
  <2>1. Distinct(ks, n) /\ n \in Nat /\ Abstract!Forest(0 .. n - 1, EndsBy(ks, n, h))
    BY <1>6, <1>7
  <2> HIDE DEF ks, n
  <2>2. Abstract!Forest(Stored(ks, n), h)
    BY <2>1, ForestNames
  <2> QED
    BY <2>2 DEF ks, n
<1> QED
  BY <1>1, <1>2, <1>3, <1>4, <1>5, <1>8 DEF Abstract!Rehash

LEMMA RefuseStep ==
  ASSUME IInv, NEW k \in Key, InsertRefused(k)
  PROVE  Abstract!Refuse(k)
<1>1. /\ phase = "ready" /\ phase' = "rebuild" /\ Append(k) /\ hab' = hab
      /\ sameSet(graph.parent, hab[k][1], hab[k][2])
  BY DEF InsertRefused, Connected
<1>2. k \notin Edges /\ Stored(keys', keyCnt) = Edges
  BY <1>1, NewEdge
<1>3. Edges' = Stored(keys', keyCnt)
  <2>1. keyCnt \in Nat /\ keyCnt' = keyCnt + 1
    BY <1>1, AppendIs DEF IInv
  <2>2. keyCnt' - 2 = keyCnt - 1
    BY <2>1
  <2> QED
    BY <1>1, <2>2 DEF Edges, LinkedIds, Stored
<1>4. Abstract!Closes(k, Edges, hab)
  BY <1>1, ConnectedCloses
<1> QED
  BY <1>1, <1>2, <1>3, <1>4 DEF Abstract!Refuse

\* The last key is still stored, at the position of the key that went.
LEMMA EraseStep ==
  ASSUME IInv, NEW i \in Id, Erase(i)
  PROVE  Abstract!Unlink(keys[i]) /\ keys[i] \in Key
<1> DEFINE n == keyCnt
<1>1. /\ phase = "ready" /\ phase' = "ready" /\ hab' = hab
      /\ i \in 0 .. n - 1 /\ n' = n - 1 /\ keys' = MoveLast(i)
      /\ TypeOK /\ Distinct(keys, n)
  BY DEF Erase, IInv
<1>2. n \in Nat /\ n # 0 /\ keys \in [0 .. n - 1 -> Key] /\ keys[i] \in Key
  BY <1>1, IdFinite DEF TypeOK
<1>3. \A k \in 0 .. n - 2 : keys'[k] = IF k = i THEN keys[n - 1] ELSE keys[k]
  BY <1>1 DEF MoveLast
<1>4. Edges = Stored(keys, n)
  BY <1>1, EdgesStored DEF Linked
<1>5. Edges' = Stored(keys', n - 1)
  BY <1>1 DEF Edges, LinkedIds, Stored
<1>6. (n - 1) - 1 = n - 2
  BY <1>2
<1>7. ASSUME NEW k \in 0 .. n - 2
      PROVE  keys'[k] \in Edges \ {keys[i]}
  <2>1. CASE k = i
    <3>1. keys'[k] = keys[n - 1] /\ n - 1 \in 0 .. n - 1 /\ n - 1 # i
      BY <1>2, <1>3, <2>1
    <3> QED
      BY <1>1, <1>4, <3>1 DEF Distinct, Stored
  <2>2. CASE k # i
    <3>1. keys'[k] = keys[k] /\ k \in 0 .. n - 1
      BY <1>2, <1>3, <2>2
    <3> QED
      BY <1>1, <1>4, <2>2, <3>1 DEF Distinct, Stored
  <2> QED
    BY <2>1, <2>2
<1>8. ASSUME NEW k \in 0 .. n - 1, keys[k] # keys[i]
      PROVE  keys[k] \in Edges'
  <2>1. CASE k = n - 1
    <3>1. i \in 0 .. n - 2 /\ keys'[i] = keys[k]
      BY <1>1, <1>2, <1>3, <1>8, <2>1
    <3> QED
      BY <1>5, <1>6, <3>1 DEF Stored
  <2>2. CASE k # n - 1
    <3>1. k \in 0 .. n - 2 /\ keys'[k] = keys[k]
      BY <1>2, <1>3, <1>8, <2>2
    <3> QED
      BY <1>5, <1>6, <3>1 DEF Stored
  <2> QED
    BY <2>1, <2>2
<1>9. Edges' = Edges \ {keys[i]}
  <2>1. \A x \in Edges : \E k \in 0 .. n - 1 : x = keys[k]
    BY <1>4 DEF Stored
  <2>2. \A x \in Edges' : \E k \in 0 .. n - 2 : x = keys'[k]
    BY <1>5, <1>6 DEF Stored
  <2> DEFINE F == Edges'
  <2> HIDE DEF F, n
  <2>3. \A x \in F : x \in Edges \ {keys[i]}
    BY <1>7, <2>2 DEF F
  <2>4. \A x \in Edges \ {keys[i]} : x \in F
    BY <1>8, <2>1 DEF F
  <2> QED
    BY <2>3, <2>4 DEF F
<1>10. keys[i] \in Edges
  BY <1>1, <1>4 DEF Stored
<1> QED
  BY <1>1, <1>2, <1>9, <1>10 DEF Abstract!Unlink

\* Every step is one of the forest's, or none: a key is linked exactly if it
\* closes no cycle, however the lists and the disjoint set came about.
THEOREM ListsImplementForest == Spec => ImplementsForest
<1>1. Init => Abstract!Init
  <2>1. 0 .. 0 - 1 = {}
    OBVIOUS
  <2> QED
    BY <2>1 DEF Init, Abstract!Init, Edges, LinkedIds
<1>2. IInv /\ [Next]_vars => [Abstract!Next]_<<hab, Edges, phase = "rebuild">>
  <2> SUFFICES ASSUME IInv, [Next]_vars
               PROVE  \/ Abstract!Next
                      \/ UNCHANGED <<hab, Edges, phase = "rebuild">>
    OBVIOUS
  <2>1. CASE Construct
    <3>1. /\ hab' \in Hash /\ keyCnt' = 0 /\ phase' = "building"
      BY <2>1 DEF Construct
    <3>2. 0 .. 0 - 1 = {}
      OBVIOUS
    <3>3. Edges' = {}
      BY <3>1, <3>2 DEF Edges, LinkedIds
    <3>4. Abstract!Construct
      BY <3>1, <3>3 DEF Abstract!Construct
    <3> QED
      BY <3>4 DEF Abstract!Next
  <2>2. ASSUME NEW k \in Key, Insert(k)
        PROVE  Abstract!Next
    BY <2>2, LinkStep DEF Insert, Abstract!Next
  <2>3. ASSUME NEW k \in Key, Build(k)
        PROVE  Abstract!Next
    BY <2>3, BuildStep DEF Abstract!Next
  <2>4. CASE Install
    <3>1. LinkedIds' = LinkedIds /\ keys' = keys /\ hab' = hab
          /\ (phase = "rebuild")' = (phase = "rebuild")
      BY <2>4 DEF Install, LinkedIds
    <3> QED
      BY <3>1 DEF Edges
  <2>5. ASSUME NEW k \in Key, InsertOnDemand(k)
        PROVE  Abstract!Next
    BY <2>5, LinkStep DEF InsertOnDemand, Abstract!Next
  <2>6. ASSUME NEW k \in Key, InsertRefused(k)
        PROVE  Abstract!Next
    BY <2>6, RefuseStep DEF Abstract!Next
  <2>7. ASSUME NEW i \in Id, Erase(i)
        PROVE  Abstract!Next
    BY <2>7, EraseStep DEF Abstract!Next
  <2>8. CASE UNCHANGED vars
    BY <2>8 DEF vars, Edges, LinkedIds
  <2> QED
    BY <2>1, <2>2, <2>3, <2>4, <2>5, <2>6, <2>7, <2>8 DEF Next
<1> QED
  BY <1>1, <1>2, Invariant, PTL DEF Spec, ImplementsForest, Abstract!Spec
=============================================================================
