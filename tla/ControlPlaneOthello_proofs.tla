--------------------- MODULE ControlPlaneOthello_proofs ---------------------
(***************************************************************************)
(* The Othello's invariants, for any keys, arrays, hash functions and      *)
(* index width.                                                            *)
(***************************************************************************)
EXTENDS ControlPlaneOthello, TLAPS, FiniteSetTheorems

-----------------------------------------------------------------------------
(***************************************************************************)
(* The trees of the graph: what a walk over a set of edges reaches, and    *)
(* what adding an edge changes.  Nothing here depends on the state.        *)
(***************************************************************************)
Graph == [Key -> NodeA \X NodeB]

\* The two ends of an edge are nodes, one of each array (getIndices).
LEMMA Ends ==
  ASSUME NEW h \in Graph, NEW k \in Key
  PROVE  /\ h[k][1] \in NodeA /\ h[k][2] \in NodeB
         /\ h[k][1] \in Node /\ h[k][2] \in Node
BY DEF Graph, Node

\* A walk does not leave a set of nodes that no edge leaves.
LEMMA TreeLeast ==
  ASSUME NEW h \in Graph, NEW E \in SUBSET Key, NEW S, NEW n \in S,
         Closed(S, E, h)
  PROVE  Tree(n, E, h) \subseteq S
<1> DEFINE F == {k \in E : h[k][1] \in S /\ h[k][2] \in S}
           T == Span(n, F, h)
<1>1. T \subseteq S
  BY DEF Span
<1>2. Closed(T, E, h)
  <2> SUFFICES ASSUME NEW k \in E
               PROVE  h[k][1] \in T <=> h[k][2] \in T
    BY DEF Closed
  <2>1. h[k][1] \in S <=> h[k][2] \in S
    BY DEF Closed
  <2>2. k \in F => h[k][1] \in T /\ h[k][2] \in T
    BY DEF Span
  <2> QED
    BY <1>1, <2>1, <2>2
<1>3. F \in SUBSET E
  OBVIOUS
<1> QED
  BY <1>1, <1>2, <1>3 DEF Tree

\* A walk reaches nodes only, and the one it starts from.
LEMMA TreeNodes ==
  ASSUME NEW h \in Graph, NEW E \in SUBSET Key, NEW n \in Node
  PROVE  Tree(n, E, h) \subseteq Node /\ n \in Tree(n, E, h)
BY DEF Tree, Span

\* No edge leaves a tree.
LEMMA TreeClosed ==
  ASSUME NEW h \in Graph, NEW E \in SUBSET Key, NEW n \in Node
  PROVE  Closed(Tree(n, E, h), E, h)
<1> SUFFICES ASSUME NEW k \in E
             PROVE  h[k][1] \in Tree(n, E, h) <=> h[k][2] \in Tree(n, E, h)
  BY DEF Closed
<1>1. h[k][1] \in Node /\ h[k][2] \in Node
  BY Ends
<1>2. ASSUME NEW S, Closed(S, E, h)
      PROVE  h[k][1] \in S <=> h[k][2] \in S
  BY <1>2 DEF Closed
<1> DEFINE C == {S \in {Span(n, F, h) : F \in SUBSET E} : Closed(S, E, h)}
<1>3. \A S \in C : h[k][1] \in S <=> h[k][2] \in S
  BY <1>2
<1>4. Tree(n, E, h) = {m \in Node : \A S \in C : m \in S}
  BY DEF Tree
<1> HIDE DEF C
<1> QED
  BY <1>1, <1>3, <1>4

\* With fewer edges a walk does not get further.
LEMMA TreeMonotone ==
  ASSUME NEW h \in Graph, NEW E \in SUBSET Key, NEW D \in SUBSET E,
         NEW n \in Node
  PROVE  Tree(n, D, h) \subseteq Tree(n, E, h)
<1>1. Closed(Tree(n, E, h), D, h)
  BY TreeClosed DEF Closed
<1>2. n \in Tree(n, E, h)
  BY TreeNodes
<1>3. D \in SUBSET Key
  OBVIOUS
<1> QED
  BY <1>1, <1>2, <1>3, TreeLeast

\* A tree is the same from each of its nodes.
LEMMA TreeSame ==
  ASSUME NEW h \in Graph, NEW E \in SUBSET Key, NEW n \in Node, NEW m \in Tree(n, E, h)
  PROVE  m \in Node /\ Tree(m, E, h) = Tree(n, E, h)
<1>1. m \in Node
  BY TreeNodes
<1>2. Tree(m, E, h) \subseteq Tree(n, E, h)
  BY TreeClosed, TreeLeast
<1>3. n \in Tree(m, E, h)
  <2> DEFINE S == Tree(n, E, h) \ Tree(m, E, h)
  <2> SUFFICES ASSUME n \notin Tree(m, E, h) PROVE FALSE
    OBVIOUS
  <2>1. n \in S
    BY TreeNodes
  <2>2. Closed(S, E, h)
    BY <1>1, TreeClosed DEF Closed
  <2>3. Tree(n, E, h) \subseteq S
    BY <2>1, <2>2, TreeLeast
  <2> QED
    BY <1>1, <2>3, TreeNodes
<1>4. Tree(n, E, h) \subseteq Tree(m, E, h)
  BY <1>1, <1>3, TreeClosed, TreeLeast
<1> QED
  BY <1>1, <1>2, <1>4

\* Two trees are the same or have no node in common.
LEMMA TreesDisjoint ==
  ASSUME NEW h \in Graph, NEW E \in SUBSET Key, NEW n \in Node, NEW m \in Node,
         NEW x \in Tree(n, E, h), x \in Tree(m, E, h)
  PROVE  Tree(n, E, h) = Tree(m, E, h)
BY TreeSame

\* The trees of the two ends of k.
Joined(k, E, h) == Tree(h[k][1], E, h) \cup Tree(h[k][2], E, h)

\* An edge joins the trees of its two ends and changes no other tree
\* (connectivityForest.merge against fillTreeDFS).
LEMMA TreeWithEdge ==
  ASSUME NEW h \in Graph, NEW E \in SUBSET Key, NEW k \in Key, NEW n \in Node
  PROVE  Tree(n, E \cup {k}, h) = IF n \in Joined(k, E, h) THEN Joined(k, E, h)
                                  ELSE Tree(n, E, h)
<1> DEFINE a == h[k][1]
           b == h[k][2]
           J == Joined(k, E, h)
           D == E \cup {k}
<1>0. a \in Node /\ b \in Node /\ D \in SUBSET Key /\ E \in SUBSET D
  BY Ends
<1>a. J = Tree(a, E, h) \cup Tree(b, E, h)
  BY DEF Joined
<1> HIDE DEF J
<1>1. Closed(J, D, h)
  <2>1. a \in J /\ b \in J
    BY <1>0, <1>a, TreeNodes
  <2>2. Closed(J, E, h)
    BY <1>0, <1>a, TreeClosed DEF Closed
  <2> QED
    BY <2>1, <2>2 DEF Closed
<1>2. CASE n \in J
  <2>1. Tree(n, D, h) \subseteq J
    BY <1>0, <1>1, <1>2, TreeLeast
  <2>2. Tree(a, E, h) \subseteq Tree(a, D, h) /\ Tree(b, E, h) \subseteq Tree(b, D, h)
    BY <1>0, TreeMonotone
  <2>3. Tree(a, D, h) = Tree(b, D, h)
    <3>1. a \in Tree(a, D, h) /\ Closed(Tree(a, D, h), D, h)
      BY <1>0, TreeNodes, TreeClosed
    <3>2. b \in Tree(a, D, h)
      BY <3>1 DEF Closed
    <3> QED
      BY <1>0, <3>2, TreeSame
  <2>4. n \in Tree(a, D, h)
    BY <1>a, <1>2, <2>2, <2>3
  <2>5. Tree(n, D, h) = Tree(a, D, h)
    BY <1>0, <2>4, TreeSame
  <2> QED
    BY <1>a, <1>2, <2>1, <2>2, <2>3, <2>5 DEF J
<1>3. CASE n \notin J
  <2> DEFINE T == Tree(n, E, h)
  <2>1. a \notin T /\ b \notin T
    <3>1. ASSUME NEW c \in {a, b}, c \in T PROVE FALSE
      <4>1. n \in Tree(c, E, h)
        BY <1>0, <3>1, TreeSame, TreeNodes
      <4> QED
        BY <1>a, <1>3, <4>1
    <3> QED
      BY <3>1
  <2>2. Closed(T, D, h)
    BY <2>1, TreeClosed DEF Closed
  <2>3. Tree(n, D, h) \subseteq T
    BY <1>0, <2>2, TreeNodes, TreeLeast
  <2>4. T \subseteq Tree(n, D, h)
    BY <1>0, TreeMonotone
  <2> QED
    BY <1>3, <2>3, <2>4 DEF J
<1> QED
  BY <1>2, <1>3

-----------------------------------------------------------------------------
(***************************************************************************)
(* Bits and index words.                                                   *)
(***************************************************************************)
\* Flipping a set of bits keeps the xor of two nodes that are both in it or
\* both outside, and inverts the xor of two that it separates.
LEMMA FlipXor ==
  ASSUME NEW m \in [Node -> Bit], NEW S, NEW a \in Node, NEW b \in Node
  PROVE  /\ Flip(m, S) \in [Node -> Bit]
         /\ (a \in S <=> b \in S) =>
              Flip(m, S)[a] (+) Flip(m, S)[b] = m[a] (+) m[b]
         /\ ~ (a \in S <=> b \in S) =>
              Flip(m, S)[a] (+) Flip(m, S)[b] = 1 (+) (m[a] (+) m[b])
BY DEF Flip, (+), Bit

\* The same for index words.
LEMMA FlipWordsDelta ==
  ASSUME NEW w \in [Node -> SUBSET BitPos], NEW S, NEW x \in SUBSET BitPos,
         NEW a \in Node, NEW b \in Node
  PROVE  /\ FlipWords(w, S, x) \in [Node -> SUBSET BitPos]
         /\ (a \in S <=> b \in S) =>
              Delta(FlipWords(w, S, x)[a], FlipWords(w, S, x)[b]) = Delta(w[a], w[b])
         /\ ~ (a \in S <=> b \in S) =>
              Delta(FlipWords(w, S, x)[a], FlipWords(w, S, x)[b])
                = Delta(Delta(w[a], w[b]), x)
<1>1. FlipWords(w, S, x) \in [Node -> SUBSET BitPos]
  BY DEF FlipWords, Delta
<1>2. ASSUME NEW n \in Node
      PROVE  FlipWords(w, S, x)[n] = IF n \in S THEN Delta(w[n], x) ELSE w[n]
  BY DEF FlipWords
<1>3. (a \in S <=> b \in S) =>
        Delta(FlipWords(w, S, x)[a], FlipWords(w, S, x)[b]) = Delta(w[a], w[b])
  BY <1>2 DEF Delta
<1>4. ~ (a \in S <=> b \in S) =>
        Delta(FlipWords(w, S, x)[a], FlipWords(w, S, x)[b])
          = Delta(Delta(w[a], w[b]), x)
  BY <1>2 DEF Delta
<1> QED
  BY <1>1, <1>3, <1>4

\* The correction that fixSingle and fixHalfTreeDFS apply is the right one.
LEMMA DeltaFix ==
  ASSUME NEW q, NEW i
  PROVE  Delta(q, Delta(i, q)) = i
BY DEF Delta

\* A position's bits fit an entry of indMem.
LEMMA BitsType ==
  ASSUME NEW i
  PROVE  Bits(i) \in SUBSET BitPos
BY DEF Bits

-----------------------------------------------------------------------------
(***************************************************************************)
(* The inductive invariant.  ForestExact alone does not survive an erase:  *)
(* connectBFS makes the two nodes of the key representatives, and no other *)
(* tree may be using them, which RepInTree says.  Integrity alone does not *)
(* survive a walk that flips half a tree: KeysAcyclic says that the walk   *)
(* does not reach the other node of its key, and KeysDistinct that no two  *)
(* positions want the same key to have different index words.              *)
(***************************************************************************)
KeysDistinct ==
  \A i, j \in 0 .. keyCnt - 1 : keys[i] = keys[j] => i = j

\* A representative is a node of the tree it stands for.
RepInTree == \A n \in Node : forest[n] \in Tree(n, Linked, hab)

IInv ==
  /\ TypeOK
  /\ KeysDistinct
  /\ RepInTree
  /\ ForestExact
  /\ KeysAcyclic
  /\ Integrity

-----------------------------------------------------------------------------
(***************************************************************************)
(* What the invariant says of the current state.                           *)
(***************************************************************************)
\* The linked keys are keys, at the first positions of the vectors.
LEMMA LinkedType ==
  ASSUME TypeOK
  PROVE  /\ hab \in Graph
         /\ LinkedCnt \in Nat /\ LinkedCnt <= keyCnt
         /\ Linked \in SUBSET Key
<1>1. hab \in Graph
  BY OthelloAssumption DEF TypeOK, Graph
<1>2. LinkedCnt \in Nat /\ LinkedCnt <= keyCnt
  BY DEF TypeOK, LinkedCnt
<1>3. Linked \in SUBSET Key
  BY <1>2 DEF TypeOK, Linked
<1> QED
  BY <1>1, <1>2, <1>3

\* The walk of fixHalfTreeDFS reaches one node of its key, not the other.
LEMMA HalfTreeOneEnd ==
  ASSUME TypeOK, NEW k \in Key, NEW E \in SUBSET Key,
         Hb(k) \notin Tree(Ha(k), E \ {k}, hab)
  PROVE  /\ Ha(k) \in Node /\ Hb(k) \in Node
         /\ Ha(k) \in HalfTree(k, E) /\ Hb(k) \notin HalfTree(k, E)
<1>1. Ha(k) \in Node /\ Hb(k) \in Node
  BY LinkedType, Ends DEF Ha, Hb
<1>2. Ha(k) \in Tree(Ha(k), E \ {k}, hab)
  BY <1>1, LinkedType, TreeNodes
<1> QED
  BY <1>1, <1>2 DEF HalfTree

\* It reaches both nodes of every other key, or neither.
LEMMA HalfTreeOthers ==
  ASSUME TypeOK, NEW k \in Key, NEW E \in SUBSET Key, NEW e \in E \ {k}
  PROVE  /\ Ha(e) \in Node /\ Hb(e) \in Node
         /\ Ha(e) \in HalfTree(k, E) <=> Hb(e) \in HalfTree(k, E)
<1>1. Ha(k) \in Node
  BY LinkedType, Ends DEF Ha
<1>2. Closed(HalfTree(k, E), E \ {k}, hab)
  BY <1>1, LinkedType, TreeClosed DEF HalfTree
<1>3. Ha(e) \in Node /\ Hb(e) \in Node
  BY LinkedType, Ends DEF Ha, Hb
<1> QED
  BY <1>2, <1>3 DEF Closed, Ha, Hb

\* A key whose two nodes the disjoint set tells apart is not linked, and its
\* nodes are in different trees.
LEMMA ApartIsApart ==
  ASSUME TypeOK, ForestExact, NEW k \in Key, ~isConnected(k)
  PROVE  /\ Hb(k) \notin Tree(Ha(k), Linked, hab)
         /\ k \notin Linked
<1>1. Ha(k) \in Node /\ Hb(k) \in Node
  BY LinkedType, Ends DEF Ha, Hb
<1>2. Hb(k) \notin Tree(Ha(k), Linked, hab)
  BY <1>1 DEF ForestExact, isConnected
<1>3. Ha(k) \in Tree(Ha(k), Linked, hab) /\ Closed(Tree(Ha(k), Linked, hab), Linked, hab)
  BY <1>1, LinkedType, TreeNodes, TreeClosed
<1> QED
  BY <1>2, <1>3 DEF Closed, Ha, Hb

\* A linked key is found where it is stored.
LEMMA StoredIsMember ==
  ASSUME IInv, phase # "rebuild", NEW i \in 0 .. keyCnt - 1
  PROVE  At(keys[i], i)
BY DEF IInv, Integrity, LinkedCnt, At

\* A key that isMember denies is not linked.
LEMMA NotMemberNotLinked ==
  ASSUME IInv, phase # "rebuild", NEW k, ~isMember(k)
  PROVE  k \notin Linked
BY StoredIsMember DEF Linked, LinkedCnt, isMember

\* The position of a member is a position, and the only one.
LEMMA MemberPosition ==
  ASSUME IInv, phase # "rebuild", NEW k, isMember(k)
  PROVE  /\ IndexOf(k) \in 0 .. keyCnt - 1
         /\ keys[IndexOf(k)] = k
         /\ k \in Linked
<1>1. PICK i \in 0 .. keyCnt - 1 : At(k, i)
  BY DEF isMember
<1>2. IndexOf(k) \in 0 .. keyCnt - 1 /\ At(k, IndexOf(k))
  BY <1>1 DEF IndexOf
<1> QED
  BY <1>2 DEF At, Linked, LinkedCnt

-----------------------------------------------------------------------------
(***************************************************************************)
(* Inserting.                                                              *)
(***************************************************************************)
\* The append: a new key at the end, the positions before it as they were.
LEMMA AppendKey ==
  ASSUME IInv, phase # "rebuild", NEW k \in Key, NEW v \in Bit, Append(k, v)
  PROVE  /\ keyCnt' \in Nat /\ keyCnt' > 0
         /\ keys' \in [0 .. keyCnt' - 1 -> Key]
         /\ values' \in [0 .. keyCnt' - 1 -> Bit]
         /\ k \notin Linked
         /\ KeysDistinct'
         /\ keys'[keyCnt] = k /\ values'[keyCnt] = v
         /\ \A i \in 0 .. keyCnt - 1 : keys'[i] = keys[i] /\ values'[i] = values[i]
         /\ {keys'[i] : i \in 0 .. keyCnt} = Linked \cup {k}
<1>1. keyCnt \in Nat /\ keys \in [0 .. keyCnt - 1 -> Key]
        /\ values \in [0 .. keyCnt - 1 -> Bit]
  BY DEF IInv, TypeOK
<1>2. keyCnt' = keyCnt + 1
  BY DEF Append
<1>3. keys' = [i \in 0 .. keyCnt |-> IF i < keyCnt THEN keys[i] ELSE k]
  BY DEF Append, Extend
<1>4. values' = [i \in 0 .. keyCnt |-> IF i < keyCnt THEN values[i] ELSE v]
  BY DEF Append, Extend
<1>5. k \notin Linked
  BY NotMemberNotLinked DEF Append
<1>6. Linked = {keys[i] : i \in 0 .. keyCnt - 1}
  BY DEF Linked, LinkedCnt
<1>7. keys'[keyCnt] = k /\ values'[keyCnt] = v
  BY <1>1, <1>3, <1>4
<1>8. \A i \in 0 .. keyCnt - 1 : keys'[i] = keys[i] /\ values'[i] = values[i]
  BY <1>1, <1>3, <1>4
<1>9. KeysDistinct'
  BY <1>1, <1>2, <1>5, <1>6, <1>7, <1>8 DEF IInv, KeysDistinct
<1>10. {keys'[i] : i \in 0 .. keyCnt} = Linked \cup {k}
  BY <1>1, <1>6, <1>7, <1>8
<1>11. keys' \in [0 .. keyCnt' - 1 -> Key] /\ values' \in [0 .. keyCnt' - 1 -> Bit]
  BY <1>1, <1>2, <1>3, <1>4
<1> QED
  BY <1>1, <1>2, <1>5, <1>7, <1>8, <1>9, <1>10, <1>11

\* Joining the trees of an acyclic key (addEdge) leaves the graph acyclic.
LEMMA AcyclicWithEdge ==
  ASSUME NEW h \in Graph, NEW E \in SUBSET Key, NEW k \in Key, Acyclic(E, h),
         h[k][2] \notin Tree(h[k][1], E, h)
  PROVE  Acyclic(E \cup {k}, h)
<1> SUFFICES ASSUME NEW e \in E \cup {k},
                    h[e][2] \in Tree(h[e][1], (E \cup {k}) \ {e}, h)
             PROVE  FALSE
  BY DEF Acyclic
<1> DEFINE a == h[k][1]
           b == h[k][2]
           x == h[e][1]
           y == h[e][2]
           D == E \ {e}
<1>1. a \in Node /\ b \in Node /\ x \in Node /\ y \in Node /\ e \in Key
  BY Ends
<1>2. e # k
  <2> SUFFICES ASSUME e = k PROVE FALSE
    OBVIOUS
  <2>1. (E \cup {k}) \ {e} \in SUBSET E
    OBVIOUS
  <2>2. y \in Tree(x, E, h)
    BY <1>1, <2>1, TreeMonotone
  <2> QED
    BY <2>2
<1>3. e \in E /\ (E \cup {k}) \ {e} = D \cup {k} /\ D \in SUBSET Key
  BY <1>2
<1>4. y \notin Tree(x, D, h)
  BY <1>3 DEF Acyclic
<1>5. Tree(x, D \cup {k}, h) =
        IF x \in Joined(k, D, h) THEN Joined(k, D, h) ELSE Tree(x, D, h)
  BY <1>1, <1>3, TreeWithEdge
<1>6. y \in Tree(x, D \cup {k}, h)
  BY <1>3
<1>7. /\ x \in Tree(a, D, h) \cup Tree(b, D, h)
      /\ y \in Tree(a, D, h) \cup Tree(b, D, h)
  BY <1>1, <1>4, <1>5, <1>6 DEF Joined
<1>8. \/ x \in Tree(a, D, h) /\ y \in Tree(b, D, h)
      \/ x \in Tree(b, D, h) /\ y \in Tree(a, D, h)
  BY <1>1, <1>3, <1>4, <1>7, TreeSame
<1>9. \/ x \in Tree(a, E, h) /\ y \in Tree(b, E, h)
      \/ x \in Tree(b, E, h) /\ y \in Tree(a, E, h)
  BY <1>1, <1>3, <1>8, TreeMonotone
<1>10. x \in Tree(x, E, h) /\ y \in Tree(x, E, h)
  BY <1>1, <1>3, TreeNodes, TreeClosed DEF Closed
<1>11. Tree(a, E, h) = Tree(b, E, h)
  BY <1>1, <1>9, <1>10, TreesDisjoint
<1> QED
  BY <1>1, <1>11, TreeNodes

\* Merging two trees keeps the disjoint set exact.
LEMMA MergeExact ==
  ASSUME TypeOK, RepInTree, ForestExact, NEW k \in Key, ~isConnected(k)
  PROVE  /\ Merge(k) \in [Node -> Node]
         /\ \A n \in Node : Merge(k)[n] \in Tree(n, Linked \cup {k}, hab)
         /\ \A m, n \in Node :
              Merge(k)[m] = Merge(k)[n] <=> n \in Tree(m, Linked \cup {k}, hab)
<1> DEFINE T(n) == Tree(n, Linked, hab)
           U(n) == Tree(n, Linked \cup {k}, hab)
           J == T(Ha(k)) \cup T(Hb(k))
<1>1. Ha(k) \in Node /\ Hb(k) \in Node
  BY LinkedType, Ends DEF Ha, Hb
<1>2. \A n \in Node : U(n) = IF n \in J THEN J ELSE T(n)
  BY LinkedType, TreeWithEdge DEF Ha, Hb, Joined
<1>3. \A m, n \in Node : forest[m] = forest[n] <=> n \in T(m)
  BY DEF ForestExact
<1>4. forest \in [Node -> Node] /\ \A n \in Node : forest[n] \in T(n)
  BY DEF TypeOK, RepInTree
<1>5. \A n \in Node : Merge(k)[n] =
        IF forest[n] = forest[Hb(k)] THEN forest[Ha(k)] ELSE forest[n]
  BY DEF Merge
<1>6. \A n \in Node : n \in J <=> forest[n] \in {forest[Ha(k)], forest[Hb(k)]}
  BY <1>1, <1>3
<1>7. Merge(k) \in [Node -> Node]
  BY <1>1, <1>4 DEF Merge
<1> HIDE DEF T, U
<1>8. ASSUME NEW n \in Node PROVE Merge(k)[n] \in U(n)
  BY <1>1, <1>2, <1>4, <1>5, <1>6
<1>9. ASSUME NEW m \in Node, NEW n \in Node
      PROVE  Merge(k)[m] = Merge(k)[n] <=> n \in U(m)
  BY <1>1, <1>2, <1>3, <1>5, <1>6
<1> QED
  BY <1>7, <1>8, <1>9 DEF U

\* The bits that fixHalfTreeDFS changes for a key whose two nodes are apart:
\* that key gets the value v, every other key of E keeps its own.
LEMMA ValueFixed ==
  ASSUME TypeOK, NEW k \in Key, NEW v \in Bit, NEW E \in SUBSET Key,
         Hb(k) \notin Tree(Ha(k), E \ {k}, hab),
         NEW m, m = Flip(mem, ValueFix(k, E, v))
  PROVE  /\ m \in [Node -> Bit]
         /\ m[Ha(k)] (+) m[Hb(k)] = v
         /\ \A e \in E \ {k} : m[Ha(e)] (+) m[Hb(e)] = query(e)
<1> DEFINE S == ValueFix(k, E, v)
<1>0. m = Flip(mem, S)
  OBVIOUS
<1>1. mem \in [Node -> Bit]
  BY DEF TypeOK
<1>2. m \in [Node -> Bit] /\ m[Ha(k)] (+) m[Hb(k)] = v
  <2>1. Ha(k) \in Node /\ Hb(k) \in Node
    BY HalfTreeOneEnd
  <2>2. CASE query(k) = v
    <3>1. S = {}
      BY <2>2 DEF ValueFix
    <3> HIDE DEF S
    <3> QED
      BY <1>0, <1>1, <2>1, <2>2, <3>1, FlipXor DEF query
  <2>3. CASE query(k) # v
    <3>1. Ha(k) \in S /\ Hb(k) \notin S
      BY <2>3, HalfTreeOneEnd DEF ValueFix
    <3> HIDE DEF S
    <3>2. m[Ha(k)] (+) m[Hb(k)] = 1 (+) query(k)
      BY <1>0, <1>1, <2>1, <3>1, FlipXor DEF query
    <3>3. query(k) \in Bit
      BY DEF query, (+), Bit
    <3> QED
      BY <1>0, <1>1, <2>1, <2>3, <3>2, <3>3, FlipXor DEF (+), Bit
  <2> QED
    BY <2>2, <2>3
<1>3. ASSUME NEW e \in E \ {k}
      PROVE  m[Ha(e)] (+) m[Hb(e)] = query(e)
  <2>1. Ha(e) \in Node /\ Hb(e) \in Node /\ (Ha(e) \in S <=> Hb(e) \in S)
    BY HalfTreeOthers DEF ValueFix
  <2> HIDE DEF S
  <2> QED
    BY <1>0, <1>1, <2>1, FlipXor DEF query
<1> QED
  BY <1>2, <1>3

\* The walk flips nodes only.
LEMMA FixInNode ==
  ASSUME TypeOK, NEW k \in Key, NEW v
  PROVE  ValueFix(k, Linked, v) \in SUBSET Node
<1>1. Ha(k) \in Node /\ Linked \ {k} \in SUBSET Key /\ hab \in Graph
  BY LinkedType, Ends DEF Ha
<1> QED
  BY <1>1, TreeNodes DEF ValueFix, HalfTree

\* The same for the index words.
LEMMA IndexFixed ==
  ASSUME TypeOK, NEW k \in Key, NEW i, NEW E \in SUBSET Key,
         Hb(k) \notin Tree(Ha(k), E \ {k}, hab),
         NEW w, w = IndexFix(k, E, i)
  PROVE  /\ w \in [Node -> SUBSET BitPos]
         /\ Delta(w[Ha(k)], w[Hb(k)]) = Bits(i)
         /\ \A e \in E \ {k} : Delta(w[Ha(e)], w[Hb(e)]) = queryIndex(e)
<1> DEFINE S == HalfTree(k, E)
           x == Delta(Bits(i), queryIndex(k))
<1>0. w = FlipWords(indMem, S, x)
  BY DEF IndexFix
<1>1. indMem \in [Node -> SUBSET BitPos]
  BY DEF TypeOK
<1>2. Ha(k) \in Node /\ Hb(k) \in Node /\ Ha(k) \in S /\ Hb(k) \notin S
  BY HalfTreeOneEnd
<1>3. x \in SUBSET BitPos
  BY <1>1, <1>2, BitsType DEF Delta, queryIndex
<1> HIDE DEF S
<1>4. w \in [Node -> SUBSET BitPos]
  BY <1>1, <1>2, <1>3, <1>0, FlipWordsDelta
<1>5. Delta(w[Ha(k)], w[Hb(k)]) = Bits(i)
  <2>1. Delta(w[Ha(k)], w[Hb(k)]) = Delta(queryIndex(k), x)
    <3> HIDE DEF x
    <3> QED
      BY <1>1, <1>2, <1>3, <1>0, FlipWordsDelta DEF queryIndex
  <2> QED
    BY <2>1, DeltaFix
<1>6. ASSUME NEW e \in E \ {k}
      PROVE  Delta(w[Ha(e)], w[Hb(e)]) = queryIndex(e)
  <2>1. Ha(e) \in Node /\ Hb(e) \in Node /\ (Ha(e) \in S <=> Hb(e) \in S)
    BY HalfTreeOthers DEF S
  <2> HIDE DEF x
  <2> QED
    BY <1>1, <1>3, <2>1, <1>0, FlipWordsDelta DEF queryIndex
<1> QED
  BY <1>4, <1>5, <1>6

\* addEdge and fixHalfTreeDFS keep everything in order.
LEMMA AddEdgeStep ==
  ASSUME IInv, phase # "rebuild", phase' = phase,
         NEW k \in Key, NEW v \in Bit, Append(k, v), AddEdge(k, v, Linked)
  PROVE  /\ hab' = hab /\ Linked' = Linked \cup {k}
         /\ keyCnt' \in Nat
         /\ keys' \in [0 .. keyCnt' - 1 -> Key]
         /\ values' \in [0 .. keyCnt' - 1 -> Bit]
         /\ mem' \in [Node -> Bit] /\ indMem' \in [Node -> SUBSET BitPos]
         /\ forest' \in [Node -> Node]
         /\ KeysDistinct' /\ RepInTree' /\ ForestExact' /\ KeysAcyclic' /\ Integrity'
<1> USE DEF IInv
<1>0. keyCnt \in Nat /\ Linked \in SUBSET Key /\ hab \in Graph
  BY LinkedType DEF TypeOK
<1>1. /\ k \notin Linked
      /\ Hb(k) \notin Tree(Ha(k), Linked, hab)
      /\ Linked \ {k} = Linked
  BY ApartIsApart DEF AddEdge
<1>2. hab' = hab /\ keyCnt' = keyCnt + 1
  BY DEF AddEdge, Append
<1>3. LinkedCnt' = keyCnt + 1 /\ LinkedCnt = keyCnt
  BY <1>2 DEF LinkedCnt
<1>4. Linked' = Linked \cup {k}
  <2>1. Linked' = {keys'[i] : i \in 0 .. keyCnt}
    BY <1>0, <1>3 DEF Linked
  <2> QED
    BY <2>1, AppendKey
<1>5. forest' = Merge(k)
  BY DEF AddEdge
<1>6. forest' \in [Node -> Node] /\ RepInTree' /\ ForestExact'
  <2>1. ~isConnected(k)
    BY DEF AddEdge
  <2>2. /\ Merge(k) \in [Node -> Node]
        /\ \A n \in Node : Merge(k)[n] \in Tree(n, Linked \cup {k}, hab)
        /\ \A m, n \in Node :
             Merge(k)[m] = Merge(k)[n] <=> n \in Tree(m, Linked \cup {k}, hab)
    BY <2>1, MergeExact
  <2> QED
    BY <1>2, <1>4, <1>5, <2>2 DEF RepInTree, ForestExact
<1>7. KeysAcyclic'
  BY <1>0, <1>1, <1>2, <1>4, AcyclicWithEdge DEF KeysAcyclic, Ha, Hb
<1>8. /\ mem' \in [Node -> Bit]
      /\ mem'[Ha(k)] (+) mem'[Hb(k)] = v
      /\ \A e \in Linked : mem'[Ha(e)] (+) mem'[Hb(e)] = query(e)
  BY <1>0, <1>1, ValueFixed DEF AddEdge
<1>9. /\ indMem' \in [Node -> SUBSET BitPos]
      /\ Delta(indMem'[Ha(k)], indMem'[Hb(k)]) = Bits(keyCnt)
      /\ \A e \in Linked : Delta(indMem'[Ha(e)], indMem'[Hb(e)]) = queryIndex(e)
  BY <1>0, <1>1, IndexFixed DEF AddEdge
<1>10. Integrity'
  <2> SUFFICES ASSUME NEW i \in 0 .. keyCnt
               PROVE  (query(keys[i]) = values[i] /\ queryIndex(keys[i]) = Bits(i))'
    BY <1>0, <1>3 DEF Integrity
  <2>1. \A e : Ha(e)' = Ha(e) /\ Hb(e)' = Hb(e)
    BY <1>2 DEF Ha, Hb
  <2>2. CASE i = keyCnt
    BY <1>8, <1>9, <2>1, <2>2, AppendKey DEF query, queryIndex
  <2>3. CASE i # keyCnt
    <3>1. i \in 0 .. keyCnt - 1
      BY <1>0, <2>3
    <3>2. keys'[i] = keys[i] /\ values'[i] = values[i]
      BY <3>1, AppendKey
    <3>3. keys[i] \in Linked
      BY <1>3, <3>1 DEF Linked
    <3>4. query(keys[i]) = values[i] /\ queryIndex(keys[i]) = Bits(i)
      BY <1>3, <3>1 DEF Integrity
    <3>5. /\ mem'[Ha(keys[i])] (+) mem'[Hb(keys[i])] = values[i]
          /\ Delta(indMem'[Ha(keys[i])], indMem'[Hb(keys[i])]) = Bits(i)
      BY <1>8, <1>9, <3>3, <3>4
    <3> QED
      BY <2>1, <3>2, <3>5 DEF query, queryIndex
  <2> QED
    BY <2>2, <2>3
<1> QED
  BY <1>2, <1>4, <1>6, <1>7, <1>8, <1>9, <1>10, AppendKey

-----------------------------------------------------------------------------
(***************************************************************************)
(* Filling an Othello whose hash function testHash has accepted.           *)
(***************************************************************************)
\* Every tree has one representative, and it is one of its nodes.
LEMMA RootFacts ==
  ASSUME NEW h \in Graph, NEW E \in SUBSET Key, NEW n \in Node
  PROVE  /\ Root(n, E, h) \in Tree(n, E, h)
         /\ \A m \in Tree(n, E, h) : Root(m, E, h) = Root(n, E, h)
<1> DEFINE T == Tree(n, E, h)
<1>1. n \in T /\ T \subseteq Node /\ Closed(T, E, h)
  BY TreeNodes, TreeClosed
<1>2. \A m \in T : m \in Node /\ Tree(m, E, h) = T
  BY TreeSame
<1>3. CASE T = {n}
  BY <1>1, <1>3 DEF Root
<1>4. CASE T # {n}
  <2>1. \E r \in NodeA : r \in T
    <3> SUFFICES ASSUME \A r \in NodeA : r \notin T PROVE FALSE
      OBVIOUS
    <3>1. \A k \in E : h[k][1] \notin {n} /\ h[k][2] \notin {n}
      <4> SUFFICES ASSUME NEW k \in E PROVE h[k][1] # n /\ h[k][2] # n
        OBVIOUS
      <4>1. h[k][1] \in NodeA
        BY Ends
      <4>2. h[k][1] \in T <=> h[k][2] \in T
        BY <1>1 DEF Closed
      <4> QED
        BY <1>1, <4>1, <4>2
    <3>2. Closed({n}, E, h)
      BY <3>1 DEF Closed
    <3>3. T \subseteq {n}
      BY <3>2, TreeLeast
    <3> QED
      BY <1>1, <1>4, <3>3
  <2>2. \A m \in T : Tree(m, E, h) # {m}
    BY <1>1, <1>2, <1>4
  <2>3. \A m \in T : Root(m, E, h) = CHOOSE r \in NodeA : r \in T
    BY <1>2, <2>2 DEF Root
  <2> QED
    BY <1>1, <2>1, <2>3
<1> QED
  BY <1>3, <1>4

\* The paths of the two nodes of a key differ in that key only.
LEMMA PathsOfEnds ==
  ASSUME NEW h \in Graph, NEW E \in SUBSET Key, Acyclic(E, h), NEW e \in E,
         NEW a, NEW b, a = h[e][1], b = h[e][2]
  PROVE  /\ a \in Node /\ b \in Node
         /\ Root(a, E, h) = Root(b, E, h)
         /\ Path(a, E, h) \subseteq E /\ Path(b, E, h) \subseteq E
         /\ \A k \in E \ {e} : k \in Path(a, E, h) <=> k \in Path(b, E, h)
         /\ e \in Path(a, E, h) <=> e \notin Path(b, E, h)
<1> DEFINE r == Root(a, E, h)
           D == E \ {e}
<1>1. a \in Node /\ b \in Node /\ e \in Key
  BY Ends
<1>2. a \in Tree(a, E, h) /\ b \in Tree(a, E, h)
  BY <1>1, TreeNodes, TreeClosed DEF Closed
<1>3. Root(b, E, h) = r /\ r \in Tree(a, E, h)
  BY <1>1, <1>2, RootFacts
<1>4. r \in Node
  BY <1>1, <1>3, TreeNodes
<1>5. /\ Path(a, E, h) = {k \in E : a \notin Tree(r, E \ {k}, h)}
      /\ Path(b, E, h) = {k \in E : b \notin Tree(r, E \ {k}, h)}
  BY <1>3 DEF Path
<1> HIDE DEF r
<1>6. ASSUME NEW k \in E \ {e}
      PROVE  a \in Tree(r, E \ {k}, h) <=> b \in Tree(r, E \ {k}, h)
  <2>1. Closed(Tree(r, E \ {k}, h), E \ {k}, h)
    BY <1>4, TreeClosed
  <2> QED
    BY <2>1 DEF Closed
<1>7. b \notin Tree(a, D, h)
  BY DEF Acyclic
<1>8. ~ (a \in Tree(r, D, h) /\ b \in Tree(r, D, h))
  BY <1>1, <1>4, <1>7, TreeSame
<1>9. a \in Tree(r, D, h) \/ b \in Tree(r, D, h)
  <2>1. D \in SUBSET Key /\ E = D \cup {e}
    OBVIOUS
  <2> HIDE DEF D
  <2>2. Tree(a, E, h) = Joined(e, D, h)
    <3>1. Tree(a, D \cup {e}, h) =
            IF a \in Joined(e, D, h) THEN Joined(e, D, h) ELSE Tree(a, D, h)
      BY <1>1, <2>1, TreeWithEdge
    <3>2. a \in Joined(e, D, h)
      BY <1>1, <2>1, TreeNodes DEF Joined
    <3> QED
      BY <2>1, <3>1, <3>2
  <2>3. r \in Tree(a, D, h) \/ r \in Tree(b, D, h)
    BY <1>3, <2>2 DEF Joined
  <2> QED
    BY <1>1, <2>1, <2>3, TreeSame, TreeNodes
<1>10. e \in Path(a, E, h) <=> e \notin Path(b, E, h)
  BY <1>5, <1>8, <1>9
<1>11. \A k \in E \ {e} : k \in Path(a, E, h) <=> k \in Path(b, E, h)
  BY <1>5, <1>6
<1>12. Root(a, E, h) = Root(b, E, h)
  BY <1>3 DEF r
<1> QED
  BY <1>1, <1>5, <1>10, <1>11, <1>12

\* Two sets of keys that differ in one key have sizes of different parity.
LEMMA Parity ==
  ASSUME NEW P, NEW Q, NEW e, IsFiniteSet(Q), e \notin Q, P = Q \cup {e}
  PROVE  /\ Cardinality(P) % 2 \in Bit /\ Cardinality(Q) % 2 \in Bit
         /\ Cardinality(P) % 2 # Cardinality(Q) % 2
<1>1. Cardinality(Q) \in Nat
  BY FS_CardinalityType
<1>2. Cardinality(P) = Cardinality(Q) + 1
  BY FS_AddElement
<1> QED
  BY <1>1, <1>2 DEF Bit

\* Of two sets of keys that differ in e at most, one of the two sizes is odd
\* exactly if one of the sets has e.
LEMMA ParityOfPaths ==
  ASSUME NEW P \in SUBSET Key, NEW Q \in SUBSET Key, NEW e,
         \A k : k # e => (k \in P <=> k \in Q)
  PROVE  /\ Cardinality(P) % 2 \in Bit /\ Cardinality(Q) % 2 \in Bit
         /\ Cardinality(P) % 2 = Cardinality(Q) % 2 <=> (e \in P <=> e \in Q)
<1>1. IsFiniteSet(P) /\ IsFiniteSet(Q)
  BY OthelloAssumption, FS_Subset
<1>2. Cardinality(P) \in Nat /\ Cardinality(Q) \in Nat
  BY <1>1, FS_CardinalityType
<1>3. CASE e \in P <=> e \in Q
  <2>1. P = Q
    BY <1>3
  <2> QED
    BY <1>2, <1>3, <2>1 DEF Bit
<1>4. CASE e \in P /\ e \notin Q
  <2>1. P = Q \cup {e}
    BY <1>4
  <2> QED
    BY <1>1, <1>4, <2>1, Parity
<1>5. CASE e \notin P /\ e \in Q
  <2>1. Q = P \cup {e}
    BY <1>5
  <2> QED
    BY <1>1, <1>5, <2>1, Parity
<1> QED
  BY <1>3, <1>4, <1>5

\* fillValue gives every key its value and its position.
LEMMA Filled ==
  ASSUME TypeOK, NEW h \in Graph, NEW E \in SUBSET Key, Acyclic(E, h),
         NEW val \in [E -> Bit], NEW pos,
         NEW m, m = FillMem(E, h, val), NEW w, w = FillInd(E, h, pos)
  PROVE  /\ m \in [Node -> Bit] /\ w \in [Node -> SUBSET BitPos]
         /\ \A e \in E : /\ m[h[e][1]] (+) m[h[e][2]] = val[e]
                        /\ Delta(w[h[e][1]], w[h[e][2]]) = Bits(pos[e])
<1> DEFINE O(n) == {k \in Path(n, E, h) : val[k] = 1}
           I(n, p) == {k \in Path(n, E, h) : p \in Bits(pos[k])}
           X(n) == {p \in BitPos : Cardinality(I(n, p)) % 2 = 1}
<1>1. \A n : Path(n, E, h) \in SUBSET Key
  BY DEF Path
<1>2. \A n : O(n) \in SUBSET Key /\ \A p : I(n, p) \in SUBSET Key
  BY <1>1
<1>3. m = [n \in Node |-> Cardinality(O(n)) % 2]
  BY DEF FillMem
<1>4. w = [n \in Node |-> Delta(indMem[Root(n, E, h)], X(n))]
  BY DEF FillInd
<1>5. m \in [Node -> Bit]
  <2> HIDE DEF O
  <2>1. \A n : Cardinality(O(n)) % 2 \in Bit
    BY <1>2, ParityOfPaths
  <2> QED
    BY <1>3, <2>1
<1>6. w \in [Node -> SUBSET BitPos]
  <2>1. indMem \in [Node -> SUBSET BitPos]
    BY DEF TypeOK
  <2>2. \A n \in Node : Root(n, E, h) \in Node
    BY RootFacts, TreeNodes
  <2>3. \A n : X(n) \in SUBSET BitPos
    OBVIOUS
  <2> HIDE DEF X
  <2> QED
    BY <1>4, <2>1, <2>2, <2>3 DEF Delta
<1>7. ASSUME NEW e \in E, NEW a, NEW b, a = h[e][1], b = h[e][2]
      PROVE  m[a] (+) m[b] = val[e] /\ Delta(w[a], w[b]) = Bits(pos[e])
  <2>1. a \in Node /\ b \in Node /\ Root(a, E, h) = Root(b, E, h)
    BY <1>7, PathsOfEnds
  <2>2. /\ \A k : k # e => (k \in Path(a, E, h) <=> k \in Path(b, E, h))
        /\ e \in Path(a, E, h) <=> e \notin Path(b, E, h)
    BY <1>7, PathsOfEnds
  <2>3. m[a] (+) m[b] = val[e]
    <3>1. /\ \A k : k # e => (k \in O(a) <=> k \in O(b))
          /\ (e \in O(a) <=> e \in O(b)) <=> val[e] # 1
      BY <2>2
    <3> HIDE DEF O
    <3>2. m[a] \in Bit /\ m[b] \in Bit /\ (m[a] = m[b] <=> val[e] # 1)
      BY <1>2, <1>3, <2>1, <3>1, ParityOfPaths
    <3>3. val[e] \in Bit
      OBVIOUS
    <3> QED
      BY <3>2, <3>3 DEF (+), Bit
  <2>4. Delta(X(a), X(b)) = Bits(pos[e])
    <3>1. ASSUME NEW p \in BitPos
          PROVE  (p \in X(a) <=> p \in X(b)) <=> p \notin Bits(pos[e])
      <4>1. /\ \A k : k # e => (k \in I(a, p) <=> k \in I(b, p))
            /\ (e \in I(a, p) <=> e \in I(b, p)) <=> p \notin Bits(pos[e])
        BY <2>2
      <4> HIDE DEF I
      <4>2. /\ Cardinality(I(a, p)) % 2 \in Bit /\ Cardinality(I(b, p)) % 2 \in Bit
            /\ Cardinality(I(a, p)) % 2 = Cardinality(I(b, p)) % 2
                 <=> p \notin Bits(pos[e])
        BY <1>2, <4>1, ParityOfPaths, SMTT(30)
      <4> QED
        BY <4>2 DEF Bit
    <3>2. X(a) \in SUBSET BitPos /\ X(b) \in SUBSET BitPos
      OBVIOUS
    <3> HIDE DEF X
    <3> QED
      BY <3>1, <3>2, BitsType DEF Delta
  <2>5. Delta(w[a], w[b]) = Delta(X(a), X(b))
    <3> HIDE DEF X
    <3> QED
      BY <1>4, <2>1 DEF Delta
  <2> QED
    BY <2>3, <2>4, <2>5
<1> QED
  BY <1>5, <1>6, <1>7

\* A batch insert that looked for another seed leaves everything in order.
LEMMA InsertCyclicStep ==
  ASSUME IInv, NEW k \in Key, NEW v \in Bit, InsertCyclic(k, v)
  PROVE  IInv'
<1>1. phase = "building" /\ phase' = phase /\ Append(k, v)
  BY DEF InsertCyclic
<1>2. TypeOK /\ keyCnt \in Nat /\ Linked \in SUBSET Key
  BY LinkedType DEF IInv, TypeOK
<1> DEFINE E == Linked \cup {k}
           pos == [e \in E |-> CHOOSE i \in 0 .. keyCnt : keys'[i] = e]
           val == [e \in E |-> values'[pos[e]]]
<1>3. PICK h \in Hash :
        /\ Acyclic(E, h)
        /\ hab' = h
        /\ forest' = FillForest(E, h)
        /\ mem' = FillMem(E, h, val)
        /\ indMem' = FillInd(E, h, pos)
  BY DEF InsertCyclic
<1>4. h \in Graph /\ E \in SUBSET Key
  BY <1>2, OthelloAssumption DEF Graph
<1>5. keyCnt' = keyCnt + 1
  BY <1>1 DEF Append
<1>6. LinkedCnt' = keyCnt + 1
  BY <1>1, <1>5 DEF LinkedCnt
<1>7. {keys'[i] : i \in 0 .. keyCnt} = E /\ KeysDistinct'
  BY <1>1, AppendKey
<1>8. Linked' = E
  <2>1. Linked' = {keys'[i] : i \in 0 .. keyCnt}
    BY <1>2, <1>6 DEF Linked
  <2> QED
    BY <2>1, <1>7
<1>9. \A i \in 0 .. keyCnt : keys'[i] \in E /\ pos[keys'[i]] = i
  <2> SUFFICES ASSUME NEW i \in 0 .. keyCnt
               PROVE  keys'[i] \in E /\ pos[keys'[i]] = i
    OBVIOUS
  <2>1. keys'[i] \in E
    BY <1>7
  <2>2. \A j \in 0 .. keyCnt : keys'[j] = keys'[i] => j = i
    BY <1>2, <1>5, <1>7 DEF KeysDistinct
  <2> QED
    BY <2>1, <2>2
<1>10. \A e \in E : pos[e] \in 0 .. keyCnt
  BY <1>7
<1>11. val \in [E -> Bit]
  <2>1. values' \in [0 .. keyCnt -> Bit]
    BY <1>1, <1>2, <1>5, AppendKey
  <2> HIDE DEF pos
  <2> QED
    BY <1>10, <2>1
<1>12. /\ mem' \in [Node -> Bit] /\ indMem' \in [Node -> SUBSET BitPos]
       /\ \A e \in E : /\ mem'[h[e][1]] (+) mem'[h[e][2]] = val[e]
                      /\ Delta(indMem'[h[e][1]], indMem'[h[e][2]]) = Bits(pos[e])
  <2> HIDE DEF E, pos, val
  <2> QED
    BY <1>2, <1>3, <1>4, <1>11, Filled
<1>13. Integrity'
  <2> SUFFICES ASSUME NEW i \in 0 .. keyCnt
               PROVE  (query(keys[i]) = values[i] /\ queryIndex(keys[i]) = Bits(i))'
    BY <1>2, <1>6 DEF Integrity
  <2>1. keys'[i] \in E /\ pos[keys'[i]] = i /\ val[keys'[i]] = values'[i]
    BY <1>9
  <2> HIDE DEF E, pos, val
  <2>2. /\ query(keys[i])' = mem'[h[keys'[i]][1]] (+) mem'[h[keys'[i]][2]]
        /\ queryIndex(keys[i])' = Delta(indMem'[h[keys'[i]][1]], indMem'[h[keys'[i]][2]])
    BY <1>3 DEF query, queryIndex, Ha, Hb
  <2> QED
    BY <1>12, <2>1, <2>2
<1>14. forest' \in [Node -> Node] /\ RepInTree' /\ ForestExact'
  <2> HIDE DEF E
  <2>1. forest' = [n \in Node |-> Root(n, E, h)]
    BY <1>3 DEF FillForest
  <2>2. \A n \in Node : Root(n, E, h) \in Tree(n, E, h)
    BY <1>4, RootFacts
  <2>3. \A n \in Node : Root(n, E, h) \in Node
    BY <1>4, <2>2, TreeNodes
  <2>4. ASSUME NEW m \in Node, NEW n \in Node
        PROVE  Root(m, E, h) = Root(n, E, h) <=> n \in Tree(m, E, h)
    <3>1. ASSUME n \in Tree(m, E, h) PROVE Root(m, E, h) = Root(n, E, h)
      BY <1>4, <3>1, RootFacts
    <3>2. ASSUME Root(m, E, h) = Root(n, E, h) PROVE n \in Tree(m, E, h)
      <4>1. Tree(n, E, h) = Tree(m, E, h)
        BY <1>4, <2>2, <3>2, TreesDisjoint
      <4> QED
        BY <1>4, <4>1, TreeNodes
    <3> QED
      BY <3>1, <3>2
  <2> QED
    BY <1>3, <1>8, <2>1, <2>2, <2>3, <2>4 DEF RepInTree, ForestExact
<1>15. KeysAcyclic'
  BY <1>3, <1>8 DEF KeysAcyclic
<1>16. TypeOK'
  <2>1. /\ keyCnt' \in Nat
        /\ keys' \in [0 .. keyCnt' - 1 -> Key] /\ values' \in [0 .. keyCnt' - 1 -> Bit]
    BY <1>1, AppendKey
  <2>2. UNCHANGED <<phase, flipped, dp>>
    BY DEF InsertCyclic
  <2> QED
    BY <1>1, <1>2, <1>3, <1>12, <1>14, <2>1, <2>2 DEF TypeOK
<1> QED
  BY <1>7, <1>13, <1>14, <1>15, <1>16 DEF IInv

-----------------------------------------------------------------------------
(***************************************************************************)
(* Changing a value, and erasing.                                          *)
(***************************************************************************)
\* valueFlip_on_demand changes one value and disturbs no other.
LEMMA ValueFlipStep ==
  ASSUME IInv, NEW k \in Key, NEW v \in Bit, ValueFlip(k, v)
  PROVE  IInv'
<1>1. /\ phase = "ready" /\ isMember(k)
      /\ values' = [values EXCEPT ![IndexOf(k)] = v]
      /\ mem' = Flip(mem, ValueFix(k, Linked, v))
      /\ flipped' = Delta(flipped, ValueFix(k, Linked, v))
      /\ UNCHANGED <<hab, keyCnt, keys, indMem, forest, phase, dp>>
  BY DEF ValueFlip
<1>2. /\ keyCnt \in Nat /\ LinkedCnt = keyCnt /\ Linked \in SUBSET Key
      /\ values \in [0 .. keyCnt - 1 -> Bit]
  BY <1>1, LinkedType DEF IInv, TypeOK, LinkedCnt
<1>3. IndexOf(k) \in 0 .. keyCnt - 1 /\ keys[IndexOf(k)] = k /\ k \in Linked
  BY <1>1, MemberPosition
<1>4. Hb(k) \notin Tree(Ha(k), Linked \ {k}, hab)
  BY <1>3 DEF IInv, KeysAcyclic, Acyclic, Ha, Hb
<1>5. /\ mem' \in [Node -> Bit]
      /\ mem'[Ha(k)] (+) mem'[Hb(k)] = v
      /\ \A e \in Linked \ {k} : mem'[Ha(e)] (+) mem'[Hb(e)] = query(e)
  BY <1>1, <1>2, <1>4, ValueFixed DEF IInv
<1>6. Linked' = Linked /\ LinkedCnt' = LinkedCnt
  BY <1>1 DEF Linked, LinkedCnt
<1>7. TypeOK'
  <2>1. ValueFix(k, Linked, v) \in SUBSET Node
    BY FixInNode DEF IInv
  <2> QED
    BY <1>1, <1>2, <1>5, <2>1 DEF IInv, TypeOK, Delta
<1>8. KeysDistinct' /\ RepInTree' /\ ForestExact' /\ KeysAcyclic'
  BY <1>1, <1>6 DEF IInv, KeysDistinct, RepInTree, ForestExact, KeysAcyclic
<1>9. Integrity'
  <2> SUFFICES ASSUME NEW i \in 0 .. keyCnt - 1
               PROVE  (query(keys[i]) = values[i] /\ queryIndex(keys[i]) = Bits(i))'
    BY <1>2, <1>6 DEF Integrity
  <2>1. /\ query(keys[i])' = mem'[Ha(keys[i])] (+) mem'[Hb(keys[i])]
        /\ queryIndex(keys[i])' = queryIndex(keys[i])
    BY <1>1 DEF query, queryIndex, Ha, Hb
  <2>2. query(keys[i]) = values[i] /\ queryIndex(keys[i]) = Bits(i)
    BY <1>2 DEF IInv, Integrity
  <2>3. CASE i = IndexOf(k)
    BY <1>1, <1>2, <1>3, <1>5, <2>1, <2>2, <2>3
  <2>4. CASE i # IndexOf(k)
    <3>1. keys[i] # k
      BY <1>3, <2>4 DEF IInv, KeysDistinct
    <3>2. keys[i] \in Linked
      BY <1>2 DEF Linked
    <3> QED
      BY <1>1, <1>2, <1>5, <2>1, <2>2, <2>4, <3>1, <3>2
  <2> QED
    BY <2>3, <2>4
<1> QED
  BY <1>7, <1>8, <1>9 DEF IInv

\* connectBFS at both nodes of an erased key keeps the disjoint set exact.
LEMMA SplitExact ==
  ASSUME TypeOK, RepInTree, ForestExact, KeysAcyclic, NEW k \in Linked,
         NEW E, E = Linked \ {k}
  PROVE  /\ Split(k, E) \in [Node -> Node]
         /\ \A n \in Node : Split(k, E)[n] \in Tree(n, E, hab)
         /\ \A m, n \in Node : Split(k, E)[m] = Split(k, E)[n] <=> n \in Tree(m, E, hab)
<1> DEFINE T(n) == Tree(n, Linked, hab)
           U(n) == Tree(n, E, hab)
           a == Ha(k)
           b == Hb(k)
<1>1. E \in SUBSET Key /\ k \in Key /\ Linked = E \cup {k} /\ hab \in Graph
  BY LinkedType
<1>2. a \in Node /\ b \in Node
  BY <1>1, Ends DEF Ha, Hb
<1>3. b \notin U(a)
  BY DEF KeysAcyclic, Acyclic, Ha, Hb
<1>4. \A n \in Node : T(n) = IF n \in U(a) \cup U(b) THEN U(a) \cup U(b) ELSE U(n)
  <2> DEFINE J == Joined(k, E, hab)
  <2>1. J = U(a) \cup U(b)
    BY DEF Joined, Ha, Hb
  <2>2. ASSUME NEW n \in Node
        PROVE  Tree(n, E \cup {k}, hab) = IF n \in J THEN J ELSE Tree(n, E, hab)
    BY <1>1, TreeWithEdge
  <2> HIDE DEF J
  <2> QED
    BY <1>1, <2>1, <2>2
<1>5. forest \in [Node -> Node] /\ \A n \in Node : forest[n] \in T(n)
  BY DEF TypeOK, RepInTree
<1>6. \A m, n \in Node : forest[m] = forest[n] <=> n \in T(m)
  BY DEF ForestExact
<1>7. \A n \in Node : n \in U(n) /\ U(n) \subseteq Node
  BY <1>1, TreeNodes
<1>8. \A m, n \in Node : n \in U(m) => U(n) = U(m)
  BY <1>1, TreeSame
<1>9. \A n \in Node : Split(k, E)[n] =
        CASE n \in U(b) -> b [] n \in U(a) -> a [] OTHER -> forest[n]
  BY DEF Split
<1>10. Split(k, E) \in [Node -> Node]
  <2>1. \A n \in Node :
          (CASE n \in U(b) -> b [] n \in U(a) -> a [] OTHER -> forest[n]) \in Node
    BY <1>2, <1>5
  <2>2. Split(k, E) =
          [n \in Node |-> CASE n \in U(b) -> b [] n \in U(a) -> a [] OTHER -> forest[n]]
    BY DEF Split
  <2> HIDE DEF U
  <2> QED
    BY <2>1, <2>2
<1> HIDE DEF T, U, a, b
<1>11. \A n \in U(a) : n \in Node /\ n \notin U(b) /\ Split(k, E)[n] = a
  BY <1>2, <1>3, <1>7, <1>8, <1>9
<1>12. \A n \in U(b) : n \in Node /\ n \notin U(a) /\ Split(k, E)[n] = b
  BY <1>2, <1>7, <1>9, <1>11
<1>13. \A n \in Node \ (U(a) \cup U(b)) :
         /\ Split(k, E)[n] = forest[n] /\ U(n) = T(n)
         /\ forest[n] \notin U(a) \cup U(b)
  <2> SUFFICES ASSUME NEW n \in Node, n \notin U(a) \cup U(b)
               PROVE  /\ Split(k, E)[n] = forest[n] /\ U(n) = T(n)
                      /\ forest[n] \notin U(a) \cup U(b)
    OBVIOUS
  <2>1. Split(k, E)[n] = forest[n]
    BY <1>9
  <2>2. U(n) = T(n)
    BY <1>4
  <2>3. forest[n] \in U(n) /\ forest[n] \in Node
    BY <1>5, <2>2
  <2>4. U(forest[n]) = U(n)
    BY <1>8, <2>3
  <2>5. ASSUME NEW c \in {a, b}, forest[n] \in U(c) PROVE FALSE
    <3>1. U(forest[n]) = U(c)
      BY <1>2, <1>8, <2>3, <2>5
    <3> QED
      BY <1>7, <2>4, <2>5, <3>1
  <2> QED
    BY <2>1, <2>2, <2>5
<1>14. ASSUME NEW n \in Node PROVE Split(k, E)[n] \in U(n)
  <2>1. CASE n \in U(a)
    BY <1>2, <1>7, <1>8, <1>11, <2>1
  <2>2. CASE n \in U(b)
    BY <1>2, <1>7, <1>8, <1>12, <2>2
  <2>3. CASE n \notin U(a) \cup U(b)
    BY <1>5, <1>13, <2>3
  <2> QED
    BY <2>1, <2>2, <2>3
<1>15. ASSUME NEW m \in Node, NEW n \in Node
       PROVE  Split(k, E)[m] = Split(k, E)[n] <=> n \in U(m)
  <2>1. ASSUME n \in U(m) PROVE Split(k, E)[m] = Split(k, E)[n]
    <3>1. U(n) = U(m) /\ m \in U(n)
      BY <1>7, <1>8, <2>1
    <3>2. \A c \in {a, b} : m \in U(c) <=> n \in U(c)
      BY <1>2, <1>7, <1>8, <2>1, <3>1
    <3> QED
      BY <1>6, <1>11, <1>12, <1>13, <2>1, <3>2
  <2>2. ASSUME Split(k, E)[m] = Split(k, E)[n] PROVE n \in U(m)
    <3> DEFINE s == Split(k, E)[n]
    <3>1. s \in U(n) /\ s \in U(m)
      BY <1>14, <2>2
    <3>2. s \in Node
      BY <1>7, <3>1
    <3>3. U(s) = U(n) /\ U(s) = U(m)
      BY <1>8, <3>1, <3>2
    <3> QED
      BY <1>7, <3>3
  <2> QED
    BY <2>1, <2>2
<1> QED
  BY <1>10, <1>14, <1>15 DEF U

\* Erasing a key: the last key takes its position, the disjoint set is split,
\* and no other key loses its value or its index.
LEMMA UnlinkStep ==
  ASSUME IInv, NEW k \in Key, Unlink(k), NEW E, E = Linked \ {k}
  PROVE  /\ hab' = hab /\ Linked' = E
         /\ \A e \in E : query(e)' = query(e)
         /\ keyCnt' \in Nat
         /\ keys' \in [0 .. keyCnt' - 1 -> Key]
         /\ values' \in [0 .. keyCnt' - 1 -> Bit]
         /\ mem' \in [Node -> Bit] /\ indMem' \in [Node -> SUBSET BitPos]
         /\ forest' \in [Node -> Node]
         /\ KeysDistinct' /\ RepInTree' /\ ForestExact' /\ KeysAcyclic' /\ Integrity'
<1> DEFINE i == IndexOf(k)
           n == keyCnt - 1
           last == keys[n]
<1>1. /\ phase = "ready" /\ phase' = phase /\ isMember(k) /\ hab' = hab
      /\ keyCnt' = n
      /\ keys' = MoveLast(keys, i) /\ values' = MoveLast(values, i)
      /\ indMem' = IF last = k THEN indMem ELSE IndexFix(last, E, i)
      /\ forest' = Split(k, E)
      /\ mem' = Flip(mem, Cleared(k, E))
  BY DEF Unlink
<1>2. /\ keyCnt \in Nat /\ keys \in [0 .. n -> Key] /\ values \in [0 .. n -> Bit]
      /\ mem \in [Node -> Bit] /\ indMem \in [Node -> SUBSET BitPos]
      /\ hab \in Graph /\ Linked \in SUBSET Key
  BY LinkedType DEF IInv, TypeOK
<1>3. i \in 0 .. n /\ keys[i] = k /\ k \in Linked
  BY <1>1, MemberPosition
<1>4. LinkedCnt = n + 1 /\ LinkedCnt' = n /\ n \in Nat
  BY <1>1, <1>2, <1>3 DEF LinkedCnt
<1>5. \A j, l \in 0 .. n : keys[j] = keys[l] => j = l
  BY DEF IInv, KeysDistinct
<1>6. Linked = {keys[j] : j \in 0 .. n}
  BY <1>4 DEF Linked
<1> HIDE DEF i, n
<1>7. /\ keys' = [j \in 0 .. n - 1 |-> IF j = i THEN keys[n] ELSE keys[j]]
      /\ values' = [j \in 0 .. n - 1 |-> IF j = i THEN values[n] ELSE values[j]]
  BY <1>1, <1>2 DEF MoveLast, n
<1>8. keys' \in [0 .. n - 1 -> Key] /\ values' \in [0 .. n - 1 -> Bit]
  BY <1>2, <1>4, <1>7
<1>9. \A j \in 0 .. n - 1 : keys'[j] = IF j = i THEN keys[n] ELSE keys[j]
  BY <1>7
<1>10. KeysDistinct'
  BY <1>1, <1>3, <1>4, <1>5, <1>9 DEF KeysDistinct
<1>11. Linked' = E
  <2>1. Linked' = {keys'[j] : j \in 0 .. n - 1}
    BY <1>4 DEF Linked
  <2>2. ASSUME NEW j \in 0 .. n - 1 PROVE keys'[j] \in Linked /\ keys'[j] # k
    BY <1>3, <1>4, <1>5, <1>6, <1>9
  <2>3. ASSUME NEW j \in 0 .. n, keys[j] # k
        PROVE  \E l \in 0 .. n - 1 : keys'[l] = keys[j]
    <3>1. CASE j = n
      <4>1. i \in 0 .. n - 1
        BY <1>3, <1>4, <2>3, <3>1
      <4> QED
        BY <1>9, <3>1, <4>1
    <3>2. CASE j # n
      <4>1. j \in 0 .. n - 1 /\ j # i
        BY <1>3, <1>4, <2>3, <3>2
      <4> QED
        BY <1>9, <4>1
    <3> QED
      BY <3>1, <3>2
  <2> QED
    BY <1>6, <2>1, <2>2, <2>3
<1>12. E \in SUBSET Key /\ KeysAcyclic'
  <2>1. E \in SUBSET Key
    BY <1>2
  <2>2. ASSUME NEW e \in E PROVE hab[e][2] \notin Tree(hab[e][1], E \ {e}, hab)
    <3>1. hab[e][2] \notin Tree(hab[e][1], Linked \ {e}, hab)
      BY DEF IInv, KeysAcyclic, Acyclic
    <3>2. E \ {e} \in SUBSET (Linked \ {e}) /\ Linked \ {e} \in SUBSET Key
      BY <1>2
    <3>3. hab[e][1] \in Node
      BY <1>2, <2>1, Ends
    <3> QED
      BY <1>2, <3>1, <3>2, <3>3, TreeMonotone
  <2> QED
    BY <1>1, <1>11, <2>1, <2>2 DEF KeysAcyclic, Acyclic
<1>13. forest' \in [Node -> Node] /\ RepInTree' /\ ForestExact'
  <2>1. /\ Split(k, E) \in [Node -> Node]
        /\ \A m \in Node : Split(k, E)[m] \in Tree(m, E, hab)
        /\ \A l, m \in Node : Split(k, E)[l] = Split(k, E)[m] <=> m \in Tree(l, E, hab)
    BY <1>3, SplitExact DEF IInv
  <2> QED
    BY <1>1, <1>11, <2>1 DEF RepInTree, ForestExact
<1>14. mem' \in [Node -> Bit] /\ \A e \in E : mem'[Ha(e)] (+) mem'[Hb(e)] = query(e)
  <2>1. \A e \in E : Ha(e) \in Node /\ Hb(e) \in Node
    BY <1>2, <1>12, Ends DEF Ha, Hb
  <2>2. \A e \in E : Ha(e) \notin Cleared(k, E) /\ Hb(e) \notin Cleared(k, E)
    BY DEF Cleared
  <2>3. mem' \in [Node -> Bit]
    BY <1>1, <1>2 DEF Flip, (+), Bit
  <2>4. ASSUME NEW e \in E PROVE mem'[Ha(e)] (+) mem'[Hb(e)] = query(e)
    <3> DEFINE S == Cleared(k, E)
    <3>1. Ha(e) \in Node /\ Hb(e) \in Node /\ (Ha(e) \in S <=> Hb(e) \in S)
      BY <2>1, <2>2
    <3>2. mem' = Flip(mem, S)
      BY <1>1
    <3> HIDE DEF S
    <3> QED
      BY <1>2, <3>1, <3>2, FlipXor DEF query
  <2> QED
    BY <2>3, <2>4
<1>15. /\ indMem' \in [Node -> SUBSET BitPos]
       /\ \A e \in E \ {last} : Delta(indMem'[Ha(e)], indMem'[Hb(e)]) = queryIndex(e)
       /\ last # k => Delta(indMem'[Ha(last)], indMem'[Hb(last)]) = Bits(i)
  <2>1. CASE last = k
    BY <1>1, <1>2, <2>1 DEF queryIndex
  <2>2. CASE last # k
    <3>1. last \in E
      BY <1>4, <1>6, <2>2
    <3>2. Hb(last) \notin Tree(Ha(last), E \ {last}, hab)
      BY <1>1, <1>11, <1>12, <3>1 DEF KeysAcyclic, Acyclic, Ha, Hb
    <3>3. indMem' = IndexFix(last, E, i) /\ last \in Key
      BY <1>1, <1>12, <2>2, <3>1
    <3> HIDE DEF last
    <3> QED
      BY <1>12, <3>2, <3>3, IndexFixed DEF IInv
  <2> QED
    BY <2>1, <2>2
<1>16. Integrity'
  <2> SUFFICES ASSUME NEW j \in 0 .. n - 1
               PROVE  (query(keys[j]) = values[j] /\ queryIndex(keys[j]) = Bits(j))'
    BY <1>4 DEF Integrity
  <2>1. /\ query(keys[j])' = mem'[Ha(keys'[j])] (+) mem'[Hb(keys'[j])]
        /\ queryIndex(keys[j])' = Delta(indMem'[Ha(keys'[j])], indMem'[Hb(keys'[j])])
    BY <1>1 DEF query, queryIndex, Ha, Hb
  <2>2. keys'[j] \in E
    BY <1>4, <1>11 DEF Linked
  <2>3. \A l \in 0 .. n : query(keys[l]) = values[l] /\ queryIndex(keys[l]) = Bits(l)
    BY <1>4 DEF IInv, Integrity
  <2>4. query(keys[j])' = query(keys'[j])
    BY <1>14, <2>1, <2>2
  <2>5. CASE j = i
    <3>1. keys'[j] = last /\ values'[j] = values[n] /\ last # k
      BY <1>3, <1>4, <1>5, <1>7, <2>5
    <3> QED
      BY <1>4, <1>15, <2>1, <2>3, <2>4, <2>5, <3>1
  <2>6. CASE j # i
    <3>1. keys'[j] = keys[j] /\ values'[j] = values[j] /\ j \in 0 .. n
      BY <1>4, <1>7, <2>6
    <3>2. keys[j] # last
      BY <1>4, <1>5, <3>1
    <3> QED
      BY <1>15, <2>1, <2>2, <2>3, <2>4, <3>1, <3>2
  <2> QED
    BY <2>5, <2>6
<1>17. \A e \in E : query(e)' = query(e)
  BY <1>1, <1>14 DEF query, Ha, Hb
<1> QED
  BY <1>1, <1>4, <1>8, <1>10, <1>11, <1>12, <1>13, <1>14, <1>15, <1>16, <1>17

-----------------------------------------------------------------------------
(***************************************************************************)
(* The invariant of the specification.                                     *)
(***************************************************************************)
\* What the constructor leaves: no keys, and every node a tree of its own.
Fresh ==
  /\ hab \in Hash
  /\ keyCnt = 0 /\ keys = << >> /\ values = << >>
  /\ mem = [n \in Node |-> 0] /\ indMem = [n \in Node |-> {}]
  /\ forest = [n \in Node |-> n]
  /\ phase = "building"
  /\ flipped \in SUBSET Node /\ dp \in [Node -> Bit]

\* An Othello that has just been constructed satisfies the invariant.
LEMMA FreshIInv == Fresh => IInv
<1> SUFFICES ASSUME Fresh PROVE IInv
  OBVIOUS
<1> USE DEF Fresh
<1>1. LinkedCnt = 0 /\ Linked = {}
  BY DEF LinkedCnt, Linked
<1>2. hab \in Graph
  BY OthelloAssumption DEF Graph
<1>3. \A n \in Node : Tree(n, {}, hab) = {n}
  <2> SUFFICES ASSUME NEW n \in Node PROVE Tree(n, {}, hab) = {n}
    OBVIOUS
  <2>1. Closed({n}, {}, hab) /\ {} \in SUBSET Key
    BY DEF Closed
  <2>2. Tree(n, {}, hab) \subseteq {n}
    BY <1>2, <2>1, TreeLeast
  <2>3. n \in Tree(n, {}, hab)
    BY <1>2, <2>1, TreeNodes
  <2> QED
    BY <2>2, <2>3
<1>4. keys \in [0 .. keyCnt - 1 -> Key] /\ values \in [0 .. keyCnt - 1 -> Bit]
  BY 0 .. 0 - 1 = {}
<1>5. TypeOK
  BY <1>4 DEF TypeOK, Bit
<1>6. KeysDistinct /\ Integrity
  BY <1>1 DEF KeysDistinct, Integrity
<1>7. RepInTree /\ ForestExact
  BY <1>1, <1>3 DEF RepInTree, ForestExact
<1>8. KeysAcyclic
  BY <1>1 DEF KeysAcyclic, Acyclic
<1> QED
  BY <1>5, <1>6, <1>7, <1>8 DEF IInv

\* The same of the one that the tracker's rebuild constructs.
LEMMA FreshIInvNext == Fresh' => IInv'
BY FreshIInv, PTL

\* The first one is constructed too.
LEMMA InitIInv == Init => IInv
<1>1. Init => Fresh
  BY DEF Init, Fresh, Bit
<1> QED
  BY <1>1, FreshIInv

\* Every operation keeps it.
LEMMA NextIInv == IInv /\ [Next]_vars => IInv'
<1> SUFFICES ASSUME IInv, [Next]_vars PROVE IInv'
  OBVIOUS
<1>0. TypeOK
  BY DEF IInv
<1>1. CASE Construct
  <2>1. Fresh'
    BY <1>0, <1>1 DEF Construct, Fresh, TypeOK
  <2> QED
    BY <2>1, FreshIInvNext
<1>2. ASSUME NEW k \in Key, NEW v \in Bit, InsertAcyclic(k, v) PROVE IInv'
  <2>1. /\ phase = "building" /\ UNCHANGED <<phase, flipped, dp>>
        /\ Append(k, v) /\ AddEdge(k, v, Linked)
    BY <1>2 DEF InsertAcyclic
  <2>2. TypeOK'
    BY <1>0, <2>1, AddEdgeStep DEF TypeOK
  <2> QED
    BY <2>1, <2>2, AddEdgeStep DEF IInv
<1>3. ASSUME NEW k \in Key, NEW v \in Bit, InsertCyclic(k, v) PROVE IInv'
  BY <1>3, InsertCyclicStep
<1>4. ASSUME NEW k \in Key, BuildFails(k) PROVE IInv'
  <2>1. /\ phase = "building" /\ phase' = "failed"
        /\ UNCHANGED <<hab, keyCnt, keys, values, mem, indMem, forest, flipped, dp>>
    BY <1>4 DEF BuildFails
  <2>2. Linked' = Linked /\ LinkedCnt' = LinkedCnt
    BY <2>1 DEF Linked, LinkedCnt
  <2> QED
    BY <2>1, <2>2 DEF IInv, TypeOK, KeysDistinct, RepInTree, ForestExact, KeysAcyclic,
                      Integrity, query, queryIndex, Ha, Hb
<1>5. CASE Install
  <2>1. /\ phase = "building" /\ phase' = "ready" /\ dp' = mem /\ flipped' = {}
        /\ UNCHANGED <<hab, keyCnt, keys, values, mem, indMem, forest>>
    BY <1>5 DEF Install
  <2>2. Linked' = Linked /\ LinkedCnt' = LinkedCnt
    BY <2>1 DEF Linked, LinkedCnt
  <2> QED
    BY <2>1, <2>2 DEF IInv, TypeOK, KeysDistinct, RepInTree, ForestExact, KeysAcyclic,
                      Integrity, query, queryIndex, Ha, Hb
<1>6. ASSUME NEW k \in Key, NEW v \in Bit, InsertOnDemand(k, v) PROVE IInv'
  <2>1. /\ phase = "ready" /\ UNCHANGED <<phase, dp>>
        /\ Append(k, v) /\ AddEdge(k, v, Linked)
        /\ flipped' = Delta(flipped, ValueFix(k, Linked, v))
    BY <1>6 DEF InsertOnDemand
  <2>2. ValueFix(k, Linked, v) \in SUBSET Node
    BY <1>0, FixInNode
  <2>3. TypeOK'
    BY <1>0, <2>1, <2>2, AddEdgeStep DEF TypeOK, Delta
  <2> QED
    BY <2>1, <2>3, AddEdgeStep DEF IInv
<1>7. ASSUME NEW k \in Key, NEW v \in Bit, InsertRefused(k, v) PROVE IInv'
  <2>1. /\ phase = "ready" /\ phase' = "rebuild" /\ Append(k, v)
        /\ UNCHANGED <<hab, mem, indMem, forest, flipped, dp>>
    BY <1>7 DEF InsertRefused
  <2>2. keyCnt \in Nat /\ keyCnt' = keyCnt + 1 /\ LinkedCnt = keyCnt /\ LinkedCnt' = keyCnt
    BY <1>0, <2>1 DEF TypeOK, LinkedCnt, Append
  <2>3. \A i \in 0 .. keyCnt - 1 : keys'[i] = keys[i] /\ values'[i] = values[i]
    BY <2>1, AppendKey
  <2>4. Linked' = Linked
    BY <2>2, <2>3 DEF Linked
  <2>5. TypeOK' /\ KeysDistinct'
    BY <1>0, <2>1, <2>2, AppendKey DEF TypeOK
  <2>6. Integrity'
    BY <2>1, <2>2, <2>3 DEF IInv, Integrity, query, queryIndex, Ha, Hb
  <2> QED
    BY <2>1, <2>4, <2>5, <2>6 DEF IInv, RepInTree, ForestExact, KeysAcyclic
<1>8. ASSUME NEW k \in Key, NEW v \in Bit, ValueFlip(k, v) PROVE IInv'
  BY <1>8, ValueFlipStep
<1>9. ASSUME NEW k \in Key, Unlink(k),
             flipped' \in {flipped, Delta(flipped, Cleared(k, Linked \ {k}))}
      PROVE  IInv'
  <2>1. phase = "ready" /\ UNCHANGED <<hab, phase, dp>>
    BY <1>9 DEF Unlink
  <2>2. Cleared(k, Linked \ {k}) \in SUBSET Node
    BY <1>0, LinkedType, Ends DEF Cleared, Ha, Hb
  <2>3. flipped' \in SUBSET Node
    BY <1>0, <1>9, <2>2 DEF TypeOK, Delta
  <2>4. TypeOK'
    BY <1>0, <1>9, <2>1, <2>3, UnlinkStep DEF TypeOK
  <2> QED
    BY <1>9, <2>4, UnlinkStep DEF IInv
<1>10. CASE Sync
  <2>1. /\ phase' = phase /\ flipped' = {} /\ dp' = Flip(dp, flipped)
        /\ UNCHANGED <<hab, keyCnt, keys, values, mem, indMem, forest>>
    BY <1>10 DEF Sync
  <2>2. dp' \in [Node -> Bit]
    BY <1>0, <2>1 DEF TypeOK, Flip, (+), Bit
  <2>3. Linked' = Linked /\ LinkedCnt' = LinkedCnt
    BY <2>1 DEF Linked, LinkedCnt
  <2> QED
    BY <2>1, <2>2, <2>3 DEF IInv, TypeOK, KeysDistinct, RepInTree, ForestExact,
                            KeysAcyclic, Integrity, query, queryIndex, Ha, Hb
<1>11. CASE UNCHANGED vars
  BY <1>11 DEF vars, IInv, TypeOK, KeysDistinct, RepInTree, ForestExact, KeysAcyclic,
               Integrity, query, queryIndex, Ha, Hb, Linked, LinkedCnt
<1> QED
  BY <1>1, <1>2, <1>3, <1>4, <1>5, <1>6, <1>7, <1>8, <1>9, <1>10, <1>11
     DEF Next, EraseOnDemand, Erase

\* Every state that the constructor, the inserts, the value changes, the erases
\* and the rebuilds can reach satisfies the inductive invariant.
THEOREM Invariant == Spec => []IInv
BY InitIInv, NextIInv, PTL DEF Spec

-----------------------------------------------------------------------------
(***************************************************************************)
(* The properties.                                                         *)
(***************************************************************************)
\* The vectors keep one entry for each key counted, and a bit array stays one:
\* no operation of control_plane_othello.h leaves its arrays.
THEOREM TypeCorrect == Spec => []TypeOK
<1>1. IInv => TypeOK
  BY DEF IInv
<1> QED
  BY <1>1, Invariant, PTL

\* checkIntegrity never finds a key whose bits or index words are wrong.
THEOREM IntegrityHolds == Spec => []Integrity
<1>1. IInv => Integrity
  BY DEF IInv
<1> QED
  BY <1>1, Invariant, PTL

\* isConnectedDFS is right to ask the disjoint set, after deletions too.
THEOREM ForestIsExact == Spec => []ForestExact
<1>1. IInv => ForestExact
  BY DEF IInv
<1> QED
  BY <1>1, Invariant, PTL

\* insert_on_demand and build() never link a key that closes a cycle.
THEOREM GraphIsForest == Spec => []KeysAcyclic
<1>1. IInv => KeysAcyclic
  BY DEF IInv
<1> QED
  BY <1>1, Invariant, PTL

\* isMember finds the stored keys and no other.
THEOREM MembersAreFound == Spec => []MembersFound
<1>1. IInv => MembersFound
  BY StoredIsMember, MemberPosition, NotMemberNotLinked DEF MembersFound
<1> QED
  BY <1>1, Invariant, PTL

\* What the on-demand operations report is what a device has to apply, as
\* long as nobody calls the erase that reports nothing.
THEOREM DataPlaneFollows == Spec => [](~PlainErase => DataPlaneInSync)
<1> DEFINE Synced == ~PlainErase => DataPlaneInSync
<1>1. Init => Synced
  BY DEF Init, DataPlaneInSync
<1>2. IInv /\ Synced /\ [Next]_vars => Synced'
  <2> SUFFICES ASSUME IInv, Synced, [Next]_vars, ~PlainErase, (phase = "ready")'
               PROVE  Flip(dp, flipped)' = mem'
    BY DEF DataPlaneInSync
  <2>1. mem \in [Node -> Bit] /\ dp \in [Node -> Bit] /\ TypeOK
    BY DEF IInv, TypeOK
  <2>2. phase = "ready" => Flip(dp, flipped) = mem
    BY DEF DataPlaneInSync
  <2>3. ASSUME NEW S, phase = "ready", dp' = dp, flipped' = Delta(flipped, S),
               mem' = Flip(mem, S)
        PROVE  Flip(dp', flipped') = mem'
    BY <2>1, <2>2, <2>3 DEF Flip, Delta, (+), Bit
  <2>4. CASE Construct
    BY <2>4 DEF Construct
  <2>5. ASSUME NEW k \in Key, NEW v \in Bit, InsertAcyclic(k, v) PROVE FALSE
    BY <2>5 DEF InsertAcyclic
  <2>6. ASSUME NEW k \in Key, NEW v \in Bit, InsertCyclic(k, v) PROVE FALSE
    BY <2>6 DEF InsertCyclic
  <2>7. ASSUME NEW k \in Key, BuildFails(k) PROVE FALSE
    BY <2>7 DEF BuildFails
  <2>8. CASE Install
    BY <2>1, <2>8 DEF Install, Flip
  <2>9. ASSUME NEW k \in Key, NEW v \in Bit, InsertOnDemand(k, v)
        PROVE  Flip(dp', flipped') = mem'
    BY <2>3, <2>9 DEF InsertOnDemand, AddEdge
  <2>10. ASSUME NEW k \in Key, NEW v \in Bit, InsertRefused(k, v) PROVE FALSE
    BY <2>10 DEF InsertRefused
  <2>11. ASSUME NEW k \in Key, NEW v \in Bit, ValueFlip(k, v)
         PROVE  Flip(dp', flipped') = mem'
    BY <2>3, <2>11 DEF ValueFlip
  <2>12. ASSUME NEW k \in Key, EraseOnDemand(k) PROVE Flip(dp', flipped') = mem'
    BY <2>3, <2>12 DEF EraseOnDemand, Unlink
  <2>13. ASSUME NEW k \in Key, Erase(k) PROVE FALSE
    BY <2>13 DEF Erase
  <2>14. CASE Sync
    BY <2>1, <2>2, <2>14 DEF Sync, Flip
  <2>15. CASE UNCHANGED vars
    BY <2>2, <2>15 DEF vars
  <2> QED
    BY <2>4, <2>5, <2>6, <2>7, <2>8, <2>9, <2>10, <2>11, <2>12, <2>13, <2>14, <2>15
       DEF Next
<1> QED
  BY <1>1, <1>2, Invariant, PTL DEF Spec

-----------------------------------------------------------------------------
(***************************************************************************)
(* The Othello implements a map: what a query answers changes for the key  *)
(* of the operation only, and for all keys in a rebuild.                   *)
(***************************************************************************)
\* A step that changes no key's membership and no key's bits.
LEMMA StoreUnchanged ==
  ASSUME Linked' = Linked, hab' = hab, mem' = mem
  PROVE  store' = store
BY DEF store, query, Ha, Hb

\* A step that leaves the other keys alone is an assignment to the map.
LEMMA StoreStep ==
  ASSUME NEW k \in Key, NEW x,
         \A e \in Key \ {k} : (e \in Linked' <=> e \in Linked)
                             /\ (e \in Linked => query(e)' = query(e)),
         (IF k \in Linked' THEN query(k)' ELSE Absent) = x
  PROVE  store' = [store EXCEPT ![k] = x]
BY DEF store

\* An insert that succeeds, with or without a new seed, adds one key.
LEMMA AppendPuts ==
  ASSUME IInv, IInv', phase # "rebuild", phase' = phase,
         NEW k \in Key, NEW v \in Bit, Append(k, v)
  PROVE  store' = [store EXCEPT ![k] = v]
<1>1. keyCnt \in Nat /\ keyCnt' = keyCnt + 1
  BY DEF IInv, TypeOK, Append
<1>2. LinkedCnt = keyCnt /\ LinkedCnt' = keyCnt + 1
  BY <1>1 DEF LinkedCnt
<1>3. /\ keys'[keyCnt] = k /\ values'[keyCnt] = v
      /\ \A i \in 0 .. keyCnt - 1 : keys'[i] = keys[i] /\ values'[i] = values[i]
      /\ {keys'[i] : i \in 0 .. keyCnt} = Linked \cup {k}
  BY AppendKey
<1>4. Linked' = Linked \cup {k}
  BY <1>1, <1>2, <1>3 DEF Linked
<1>5. \A i \in 0 .. keyCnt : query(keys[i])' = values'[i]
  BY <1>1, <1>2 DEF IInv, Integrity
<1>6. query(k)' = v
  <2>1. keyCnt \in 0 .. keyCnt
    BY <1>1
  <2> QED
    BY <1>3, <1>5, <2>1 DEF query, Ha, Hb
<1>7. ASSUME NEW e \in Linked PROVE query(e)' = query(e)
  <2>1. PICK i \in 0 .. keyCnt - 1 : e = keys[i]
    BY <1>2, <1>7 DEF Linked
  <2>2. query(e) = values[i]
    BY <1>2, <2>1 DEF IInv, Integrity
  <2>3. query(e)' = values'[i]
    BY <1>1, <1>3, <1>5, <2>1 DEF query, Ha, Hb
  <2> QED
    BY <1>3, <2>2, <2>3
<1> QED
  BY <1>4, <1>6, <1>7, StoreStep

\* A value change changes one key.
LEMMA ValueFlipPuts ==
  ASSUME IInv, NEW k \in Key, NEW v \in Bit, ValueFlip(k, v)
  PROVE  store' = [store EXCEPT ![k] = v]
<1>1. /\ phase = "ready" /\ isMember(k)
      /\ mem' = Flip(mem, ValueFix(k, Linked, v))
      /\ UNCHANGED <<hab, keyCnt, keys, phase>>
  BY DEF ValueFlip
<1>2. Linked' = Linked /\ k \in Linked /\ Linked \in SUBSET Key
  BY <1>1, MemberPosition, LinkedType DEF Linked, LinkedCnt, IInv
<1>3. Hb(k) \notin Tree(Ha(k), Linked \ {k}, hab)
  BY <1>2 DEF IInv, KeysAcyclic, Acyclic, Ha, Hb
<1>4. /\ mem'[Ha(k)] (+) mem'[Hb(k)] = v
      /\ \A e \in Linked \ {k} : mem'[Ha(e)] (+) mem'[Hb(e)] = query(e)
  BY <1>1, <1>2, <1>3, ValueFixed DEF IInv
<1>5. query(k)' = v /\ \A e \in Linked \ {k} : query(e)' = query(e)
  BY <1>1, <1>4 DEF query, Ha, Hb
<1> QED
  BY <1>2, <1>5, StoreStep

\* The Othello refines KeyValueMap.
THEOREM OthelloImplementsMap == Spec => ImplementsMap
<1>1. Init => Abstract!Init
  BY DEF Init, Abstract!Init, store, Linked, LinkedCnt
<1>2. IInv /\ IInv' /\ [Next]_vars => [Abstract!Next]_store
  <2> SUFFICES ASSUME IInv, IInv', [Next]_vars
               PROVE  Abstract!Next \/ store' = store
    OBVIOUS
  <2> USE DEF Abstract!Next
  <2>1. CASE Construct
    <3>1. Linked' = {}
      BY <2>1 DEF Construct, Linked, LinkedCnt
    <3> QED
      BY <3>1 DEF Abstract!Reset, store
  <2>2. ASSUME NEW k \in Key, NEW v \in Bit,
               phase # "rebuild", phase' = phase, Append(k, v)
        PROVE  Abstract!Next
    BY <2>2, AppendPuts DEF Abstract!Put
  <2>3. ASSUME NEW k \in Key, NEW v \in Bit, ValueFlip(k, v)
        PROVE  Abstract!Next
    BY <2>3, ValueFlipPuts DEF Abstract!Put
  <2>4. ASSUME NEW k \in Key, Unlink(k)
        PROVE  Abstract!Next
    <3>1. Linked' = Linked \ {k} /\ \A e \in Linked \ {k} : query(e)' = query(e)
      BY <2>4, UnlinkStep
    <3>2. store' = [store EXCEPT ![k] = Absent]
      BY <3>1, StoreStep
    <3> QED
      BY <3>2 DEF Abstract!Remove
  <2>5. ASSUME NEW k \in Key, NEW v \in Bit, InsertRefused(k, v)
        PROVE  store' = store
    <3>1. /\ phase = "ready" /\ phase' = "rebuild" /\ Append(k, v)
          /\ UNCHANGED <<hab, mem>>
      BY <2>5 DEF InsertRefused
    <3>2. keyCnt \in Nat /\ LinkedCnt = keyCnt /\ LinkedCnt' = keyCnt
      BY <3>1 DEF IInv, TypeOK, LinkedCnt, Append
    <3>3. \A i \in 0 .. keyCnt - 1 : keys'[i] = keys[i]
      BY <3>1, AppendKey
    <3>4. Linked' = Linked
      BY <3>2, <3>3 DEF Linked
    <3> QED
      BY <3>1, <3>4, StoreUnchanged
  <2>6. ASSUME UNCHANGED <<hab, keyCnt, keys, mem>>,
               (phase = "rebuild") <=> (phase = "rebuild")'
        PROVE  store' = store
    <3>1. Linked' = Linked
      BY <2>6 DEF Linked, LinkedCnt
    <3> QED
      BY <2>6, <3>1, StoreUnchanged
  <2>7. ASSUME NEW k \in Key, NEW v \in Bit, InsertAcyclic(k, v)
        PROVE  Abstract!Next
    BY <2>2, <2>7 DEF InsertAcyclic
  <2>8. ASSUME NEW k \in Key, NEW v \in Bit, InsertCyclic(k, v)
        PROVE  Abstract!Next
    BY <2>2, <2>8 DEF InsertCyclic
  <2>9. ASSUME NEW k \in Key, NEW v \in Bit, InsertOnDemand(k, v)
        PROVE  Abstract!Next
    BY <2>2, <2>9 DEF InsertOnDemand
  <2>10. ASSUME (\E k \in Key : BuildFails(k)) \/ Install \/ Sync \/ UNCHANGED vars
         PROVE  store' = store
    BY <2>6, <2>10 DEF BuildFails, Install, Sync, vars
  <2> QED
    BY <2>1, <2>3, <2>4, <2>5, <2>7, <2>8, <2>9, <2>10 DEF Next, EraseOnDemand, Erase
<1> QED
  BY <1>1, <1>2, Invariant, PTL DEF Spec, ImplementsMap, Abstract!Spec

=============================================================================
