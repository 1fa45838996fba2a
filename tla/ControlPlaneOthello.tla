------------------------- MODULE ControlPlaneOthello -------------------------
(***************************************************************************)
(* The server's exact map from keys to one-bit values                      *)
(* (src/platform/control_plane_othello.h, instantiated with L = 1, DL = 0, *)
(* maintainDP and maintainDisjointSet), together with the copy of its bit  *)
(* array that a device holds (src/platform/data_plane_othello.h).          *)
(*                                                                         *)
(* A key is an edge between one node of array A and one of array B.  Its   *)
(* value is the xor of the two bits in mem, its position in the vectors    *)
(* keys and values is the xor of the two words in indMem.  Both encodings  *)
(* are solvable because the edges form a forest; the disjoint set `forest' *)
(* is how the code knows it.                                               *)
(*                                                                         *)
(* The adjacency lists head, nextAtA and nextAtB are the edge set Linked;  *)
(* a depth-first walk from a node is the tree of that node.  A 32-bit      *)
(* index is the set of its one-bits, so that xor is symmetric difference.  *)
(* The vector of flipped indexes is kept up to what mem_value_flipping     *)
(* can tell apart: which indexes occur in it an odd number of times.       *)
(***************************************************************************)
EXTENDS Naturals, FiniteSets

CONSTANTS
  Key,         \* the keys
  NodeA,       \* the indices 0 .. ma - 1, array A
  NodeB,       \* the indices ma .. ma + mb - 1, array B
  Hash,        \* the functions the seeds of hab select: key to its two nodes
  IndexBits,   \* the width of an entry of indMem
  PlainErase   \* whether the owner also calls erase(), as `rem' makes it do

Node == NodeA \cup NodeB

ASSUME OthelloAssumption ==
  /\ NodeA \cap NodeB = {}
  /\ IsFiniteSet(Key)
  /\ IsFiniteSet(NodeB)
  /\ Hash # {}
  /\ Hash \subseteq [Key -> NodeA \X NodeB]
  /\ IndexBits \in Nat
  /\ PlainErase \in BOOLEAN

VARIABLES
  hab,      \* the hash function in use
  keyCnt,   \* the number of keys stored
  keys,     \* keys[0 .. keyCnt - 1]
  values,   \* values[0 .. keyCnt - 1]
  mem,      \* one bit per node: the data plane part
  indMem,   \* one index word per node: the control plane part
  forest,   \* the disjoint set: each node's representative
  phase,    \* what the owner may do next
  flipped,  \* changes of mem that were reported and not yet applied to dp
  dp        \* the mem of a device's data plane Othello

vars == <<hab, keyCnt, keys, values, mem, indMem, forest, phase, flipped, dp>>

-----------------------------------------------------------------------------
(***************************************************************************)
(* Bits, index words and the graph of the keys.                            *)
(***************************************************************************)
Bit == {0, 1}

a (+) b == IF a = b THEN 0 ELSE 1

BitPos == 0 .. IndexBits - 1

\* The one-bits of an index.
Bits(i) == {p \in BitPos : (i \div 2^p) % 2 = 1}

\* Xor of two index words.
Delta(u, w) == (u \ w) \cup (w \ u)

\* The number of keys that have an edge.  A cyclic insert_on_demand returns
\* after it has counted the key and before it has added the edge.
LinkedCnt == IF phase = "rebuild" THEN keyCnt - 1 ELSE keyCnt

Linked == {keys[i] : i \in 0 .. LinkedCnt - 1}

\* The nodes of key k: getIndices(k, ha, hb).
Ha(k) == hab[k][1]
Hb(k) == hab[k][2]

\* Node n and the ends of the edges F.
Span(n, F, h) == {n} \cup {h[k][1] : k \in F} \cup {h[k][2] : k \in F}

\* No edge of E leaves S.
Closed(S, E, h) == \A k \in E : h[k][1] \in S <=> h[k][2] \in S

\* The nodes that a walk over the edges E from node n reaches: the least set
\* that holds n and that no edge leaves.
Tree(n, E, h) ==
  LET Candidates == {S \in {Span(n, F, h) : F \in SUBSET E} : Closed(S, E, h)}
  IN  {m \in Node : \A S \in Candidates : m \in S}

\* Every edge is the only way between its ends: testHash succeeds.
Acyclic(E, h) == \A k \in E : h[k][2] \notin Tree(h[k][1], E \ {k}, h)

query(k) == mem[Ha(k)] (+) mem[Hb(k)]

queryIndex(k) == Delta(indMem[Ha(k)], indMem[Hb(k)])

\* k is stored at position i, and the index words of its nodes say so.
At(k, i) == queryIndex(k) = Bits(i) /\ keys[i] = k

\* Mistake: the index alone decides, without comparing the key.
isMemberByIndex(k) == \E i \in 0 .. keyCnt - 1 : queryIndex(k) = Bits(i)

isMember(k) == \E i \in 0 .. keyCnt - 1 : At(k, i)

IndexOf(k) == CHOOSE i \in 0 .. keyCnt - 1 : At(k, i)

\* isConnectedDFS with maintainDisjointSet.
isConnected(k) == forest[Ha(k)] = forest[Hb(k)]

\* The keys and values vectors, one entry longer.
Extend(f, x) == [i \in 0 .. keyCnt |-> IF i < keyCnt THEN f[i] ELSE x]

\* Mistake: the vector keeps its last entry.
MoveLastKept(f, i) == [j \in 0 .. keyCnt - 1 |-> IF j = i THEN f[keyCnt - 1] ELSE f[j]]

\* The keys and values vectors with the last entry moved over entry i.
MoveLast(f, i) == [j \in 0 .. keyCnt - 2 |-> IF j = i THEN f[keyCnt - 1] ELSE f[j]]

Flip(m, S) == [n \in Node |-> IF n \in S THEN 1 (+) m[n] ELSE m[n]]

FlipWords(w, S, x) == [n \in Node |-> IF n \in S THEN Delta(w[n], x) ELSE w[n]]

-----------------------------------------------------------------------------
(***************************************************************************)
(* The walks over the trees.                                               *)
(***************************************************************************)
\* Mistake: the walk does not skip the key it starts from.
HalfTreeThroughKey(k, E) == Tree(Ha(k), E \cup {k}, hab)

\* fixHalfTreeDFS starts at k's node in A and never crosses k.
HalfTree(k, E) == Tree(Ha(k), E \ {k}, hab)

\* Mistake: only the first node is fixed.
ValueFixRoot(k, E, v) == IF query(k) = v THEN {} ELSE {Ha(k)}

\* The bits it changes so that the two nodes of k xor to v.
ValueFix(k, E, v) == IF query(k) = v THEN {} ELSE HalfTree(k, E)

\* Mistake: only the first word is fixed.
IndexFixRoot(k, E, i) == FlipWords(indMem, {Ha(k)}, Delta(Bits(i), queryIndex(k)))

\* The index words after it made the two nodes of k xor to position i.
IndexFix(k, E, i) ==
  FlipWords(indMem, HalfTree(k, E), Delta(Bits(i), queryIndex(k)))

\* Mistake: the node is merged, not its tree.
MergeNode(k) == [forest EXCEPT ![Hb(k)] = forest[Ha(k)]]

\* connectivityForest.merge(ha, hb).
Merge(k) ==
  [n \in Node |-> IF forest[n] = forest[Hb(k)] THEN forest[Ha(k)] ELSE forest[n]]

\* Mistake: connectBFS at one node only.
SplitAtA(k, E) ==
  [n \in Node |-> IF n \in Tree(Ha(k), E, hab) THEN Ha(k) ELSE forest[n]]

\* connectBFS at both nodes of an erased key, the rest of the edges being E.
Split(k, E) ==
  [n \in Node |-> CASE n \in Tree(Hb(k), E, hab) -> Hb(k)
                    [] n \in Tree(Ha(k), E, hab) -> Ha(k)
                    [] OTHER -> forest[n]]

\* Mistake: the bit is cleared whatever keys are left there.
ClearedAlways(k, E) == {n \in {Ha(k), Hb(k)} : mem[n] = 1}

\* The nodes whose bit connectBFS clears: those left without an edge.
Cleared(k, E) ==
  {n \in {Ha(k), Hb(k)} : mem[n] = 1 /\ \A e \in E : Ha(e) # n /\ Hb(e) # n}

(***************************************************************************)
(* fillValue after testHash accepted the hash function h for the edges E.  *)
(* The disjoint set has one representative in each tree, a node of array A *)
(* (which one depends on the order of the merges; the choice exchanges the *)
(* two solutions of the tree).  fillTreeDFS leaves the representative as   *)
(* it is and goes down the tree, so that a node ends up with the xor over  *)
(* the keys on its path: those that separate it from the representative.   *)
(* resetBuildState has cleared mem, and has not cleared indMem.            *)
(***************************************************************************)
Root(n, E, h) ==
  IF Tree(n, E, h) = {n} THEN n ELSE CHOOSE r \in NodeA : r \in Tree(n, E, h)

Path(n, E, h) == {k \in E : n \notin Tree(Root(n, E, h), E \ {k}, h)}

FillForest(E, h) == [n \in Node |-> Root(n, E, h)]

FillMem(E, h, val) ==
  [n \in Node |-> Cardinality({k \in Path(n, E, h) : val[k] = 1}) % 2]

FillInd(E, h, pos) ==
  [n \in Node |->
     Delta(indMem[Root(n, E, h)],
           {p \in BitPos :
              Cardinality({k \in Path(n, E, h) : p \in Bits(pos[k])}) % 2 = 1})]

-----------------------------------------------------------------------------
TypeOK ==
  /\ hab \in Hash
  /\ keyCnt \in Nat
  /\ keys \in [0 .. keyCnt - 1 -> Key]
  /\ values \in [0 .. keyCnt - 1 -> Bit]
  /\ mem \in [Node -> Bit]
  /\ indMem \in [Node -> SUBSET BitPos]
  /\ forest \in [Node -> Node]
  /\ phase \in {"building", "ready", "rebuild", "failed"}
  /\ phase = "rebuild" => keyCnt > 0
  /\ flipped \in SUBSET Node
  /\ dp \in [Node -> Bit]

\* The constructor: no keys, cleared memory and a random seed.  Nothing of an
\* earlier Othello is kept; the device still has what it had.
Init ==
  /\ hab \in Hash
  /\ keyCnt = 0
  /\ keys = << >>
  /\ values = << >>
  /\ mem = [n \in Node |-> 0]
  /\ indMem = [n \in Node |-> {}]
  /\ forest = [n \in Node |-> n]
  /\ phase = "building"
  /\ flipped = {}
  /\ dp = [n \in Node |-> 0]

\* The tracker's rebuild, or a restart of the server after it died.
Construct ==
  /\ phase # "building"
  /\ hab' \in Hash
  /\ keyCnt' = 0
  /\ keys' = << >>
  /\ values' = << >>
  /\ mem' = [n \in Node |-> 0]
  /\ indMem' = [n \in Node |-> {}]
  /\ forest' = [n \in Node |-> n]
  /\ phase' = "building"
  /\ UNCHANGED <<flipped, dp>>

\* The append that begins both inserts, after assert(!isMember(kv.first)).
Append(k, v) ==
  /\ ~isMember(k)
  /\ keyCnt' = keyCnt + 1
  /\ keys' = Extend(keys, k)
  /\ values' = Extend(values, v)

\* addEdge and fixHalfTreeDFS for a key appended to the edges E.
AddEdge(k, v, E) ==
  /\ ~isConnected(k)
  /\ forest' = Merge(k)
  /\ mem' = Flip(mem, ValueFix(k, E, v))
  /\ indMem' = IndexFix(k, E, keyCnt)
  /\ UNCHANGED hab

\* insert in a batch: the new Othello has room for the whole batch, so that
\* resizeKey is not called.  A key that would close a cycle makes build() try
\* other seeds ...
InsertAcyclic(k, v) ==
  /\ phase = "building"
  /\ keyCnt + 1 < Cardinality(NodeB)
  /\ Append(k, v)
  /\ AddEdge(k, v, Linked)
  /\ UNCHANGED <<phase, flipped, dp>>

\* ... until testHash accepts one ...
InsertCyclic(k, v) ==
  /\ phase = "building"
  /\ keyCnt + 1 < Cardinality(NodeB)
  /\ Append(k, v)
  /\ isConnected(k)
  /\ LET E   == Linked \cup {k}
         pos == [e \in E |-> CHOOSE i \in 0 .. keyCnt : keys'[i] = e]
         val == [e \in E |-> values'[pos[e]]]
     IN  \E h \in Hash :
           /\ Acyclic(E, h)
           /\ hab' = h
           /\ forest' = FillForest(E, h)
           /\ mem' = FillMem(E, h, val)
           /\ indMem' = FillInd(E, h, pos)
  /\ UNCHANGED <<phase, flipped, dp>>

\* ... or MAX_REHASH of them have failed and nobody catches the exception.
BuildFails(k) ==
  /\ phase = "building"
  /\ keyCnt + 1 < Cardinality(NodeB)
  /\ ~isMember(k)
  /\ isConnected(k)
  /\ phase' = "failed"
  /\ UNCHANGED <<hab, keyCnt, keys, values, mem, indMem, forest, flipped, dp>>

\* The batch is in, and the device gets a full update: fullSync.
Install ==
  /\ phase = "building"
  /\ phase' = "ready"
  /\ dp' = mem
  /\ flipped' = {}
  /\ UNCHANGED <<hab, keyCnt, keys, values, mem, indMem, forest>>

\* insert_on_demand, which returns 1 and reports the bits it changed ...
InsertOnDemand(k, v) ==
  /\ phase = "ready"
  /\ Append(k, v)
  /\ AddEdge(k, v, Linked)
  /\ flipped' = Delta(flipped, ValueFix(k, Linked, v))
  /\ UNCHANGED <<phase, dp>>

\* ... or 0 when the key would close a cycle, with the key counted and not
\* linked: the owner must rebuild.
InsertRefused(k, v) ==
  /\ phase = "ready"
  /\ Append(k, v)
  /\ isConnected(k)
  /\ phase' = "rebuild"
  /\ UNCHANGED <<hab, mem, indMem, forest, flipped, dp>>

\* valueFlip_on_demand, which the owner calls for members.
ValueFlip(k, v) ==
  /\ phase = "ready"
  /\ isMember(k)
  /\ values' = [values EXCEPT ![IndexOf(k)] = v]
  /\ mem' = Flip(mem, ValueFix(k, Linked, v))
  /\ flipped' = Delta(flipped, ValueFix(k, Linked, v))
  /\ UNCHANGED <<hab, keyCnt, keys, indMem, forest, phase, dp>>

\* What erase_on_demand and erase do alike.
Unlink(k) ==
  LET i    == IndexOf(k)
      last == keys[keyCnt - 1]
      E    == Linked \ {k}
  IN  /\ phase = "ready"
      /\ isMember(k)
      /\ keyCnt' = keyCnt - 1
      /\ keys' = MoveLast(keys, i)
      /\ values' = MoveLast(values, i)
      /\ indMem' = IF last = k THEN indMem ELSE IndexFix(last, E, i)
      /\ forest' = Split(k, E)
      /\ mem' = Flip(mem, Cleared(k, E))
      /\ UNCHANGED <<hab, phase, dp>>

\* Mistake: the cleared bits are not reported.
EraseUnreported(k) == Unlink(k) /\ UNCHANGED flipped

EraseOnDemand(k) ==
  /\ Unlink(k)
  /\ flipped' = Delta(flipped, Cleared(k, Linked \ {k}))

\* erase, which reports nothing.
Erase(k) ==
  /\ PlainErase
  /\ Unlink(k)
  /\ UNCHANGED flipped

\* The device applies the reported indexes: mem_value_flipping.
Sync ==
  /\ phase = "ready"
  /\ flipped # {}
  /\ dp' = Flip(dp, flipped)
  /\ flipped' = {}
  /\ UNCHANGED <<hab, keyCnt, keys, values, mem, indMem, forest, phase>>

Next ==
  \/ Construct
  \/ \E k \in Key, v \in Bit : InsertAcyclic(k, v)
  \/ \E k \in Key, v \in Bit : InsertCyclic(k, v)
  \/ \E k \in Key : BuildFails(k)
  \/ Install
  \/ \E k \in Key, v \in Bit : InsertOnDemand(k, v)
  \/ \E k \in Key, v \in Bit : InsertRefused(k, v)
  \/ \E k \in Key, v \in Bit : ValueFlip(k, v)
  \/ \E k \in Key : EraseOnDemand(k)
  \/ \E k \in Key : Erase(k)
  \/ Sync

Spec == Init /\ [][Next]_vars

-----------------------------------------------------------------------------
(***************************************************************************)
(* Safety.                                                                 *)
(***************************************************************************)
\* checkIntegrity: however the keys were inserted, moved and erased, every
\* stored key still gets its value from the bits and its position from the
\* index words, so that isMember and IndexOf find it.
Integrity ==
  \A i \in 0 .. LinkedCnt - 1 :
    query(keys[i]) = values[i] /\ queryIndex(keys[i]) = Bits(i)

\* The comment on isConnectedDFS says that the disjoint set is not valid
\* after a deletion, while the code asks it.  It is: the repair in erase keeps
\* it exact, so that a refused insert always would have closed a cycle and an
\* accepted one never does.
ForestExact ==
  \A m, n \in Node : forest[m] = forest[n] <=> n \in Tree(m, Linked, hab)

\* The keys form a forest: what makes both encodings solvable.
KeysAcyclic == Acyclic(Linked, hab)

\* Between two full updates, the reported flips are all that a device needs:
\* applying them gives it the server's bits.
DataPlaneInSync == phase = "ready" => Flip(dp, flipped) = mem

\* A key that is not stored is never taken for one that is, whatever its two
\* index words happen to xor to; a stored one always is.  The assertion that
\* begins both inserts relies on it.
MembersFound ==
  phase # "rebuild" => \A k \in Key : isMember(k) <=> k \in Linked

\* The map from keys to bits that this structure implements.
Absent == 2

store == [k \in Key |-> IF k \in Linked THEN query(k) ELSE Absent]

Abstract == INSTANCE KeyValueMap WITH Value <- Bit

\* Each operation changes the answer for its own key only, and a rebuild
\* forgets all of them at once.
ImplementsMap == Abstract!Spec
=============================================================================
