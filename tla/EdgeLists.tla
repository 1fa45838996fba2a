------------------------------- MODULE EdgeLists -------------------------------
(***************************************************************************)
(* How the Othello's graph is stored (src/platform/control_plane_othello.h *)
(* and src/utils/disjointset.h): the keys at a node form a linked list, in *)
(* which a key goes by its position in the vector keys, and a disjoint set *)
(* with path compression tells which nodes are connected.                  *)
(*                                                                         *)
(* ControlPlaneOthello takes the graph for a set of edges and the disjoint *)
(* set for the representative of each node.  Here an erased key is taken   *)
(* out of its two lists, the last key is moved to its position with the    *)
(* cells that lead to it, and the disjoint set is repaired by a walk over  *)
(* the lists.  The bits and the index words are not modelled again.        *)
(***************************************************************************)
EXTENDS Integers, FiniteSets

CONSTANTS
  Key,     \* the keys
  Ma, Mb,  \* the sizes of the arrays A and B
  Hash     \* the functions the seeds of hab select: key to its two nodes

NodeA == 0 .. Ma - 1
NodeB == Ma .. Ma + Mb - 1
Node == NodeA \cup NodeB

ASSUME ListsAssumption ==
  /\ IsFiniteSet(Key)
  /\ Ma \in Nat /\ Mb \in Nat
  /\ Hash # {} /\ Hash \subseteq [Key -> NodeA \X NodeB]

VARIABLES
  hab,     \* the hash function in use
  keyCnt,  \* the number of keys stored
  keys,    \* keys[0 .. keyCnt - 1]
  graph,   \* head, nextAtA and nextAtB, and the array of the disjoint set
  phase    \* what the owner may do next

vars == <<hab, keyCnt, keys, graph, phase>>

-----------------------------------------------------------------------------
(***************************************************************************)
(* The graph.  A cell names a key by its position, and the key's other     *)
(* end; the position -1 ends a list.                                       *)
(***************************************************************************)
Id == 0 .. Cardinality(Key) - 1

Cell == [keyId : Id, nodeId : Node]

Nil == [keyId |-> -1, nodeId |-> -1]

Graph ==
  [head   : [Node -> Cell \cup {Nil}],
   next   : [{"A", "B"} -> [Id -> Cell \cup {Nil}]],   \* nextAtA, nextAtB
   parent : [Node -> Node \cup {-1}]]                  \* -1: its own root

Empty ==
  [head   |-> [n \in Node |-> Nil],
   next   |-> [s \in {"A", "B"} |-> [i \in Id |-> Nil]],
   parent |-> [n \in Node |-> -1]]

Side(n) == IF n < Ma THEN "A" ELSE "B"

\* The i-th cell in the list of node n, Nil behind its end.
Nth(g, n) ==
  LET cell[i \in Nat] ==
        IF i = 0 THEN g.head[n]
        ELSE IF cell[i - 1] = Nil THEN Nil
        ELSE g.next[Side(n)][cell[i - 1].keyId]
  IN  cell

Cells(g, n) == {Nth(g, n)[i] : i \in Id} \ {Nil}

\* One more step of a walk that has come to the nodes S.
Walk(g, S) == S \cup {c.nodeId : c \in UNION {Cells(g, m) : m \in S}}

\* The nodes that a walk from node n comes to: another one at each step, at
\* least, as long as there are any.
Reached(g, n) ==
  LET after[i \in Nat] == IF i = 0 THEN {n} ELSE Walk(g, after[i - 1])
  IN  after[Ma + Mb]

-----------------------------------------------------------------------------
(* The disjoint set, an array p. *)

\* The nodes from n to its root.
Ascent(p, n) ==
  LET up[m \in Node] == IF p[m] \in {-1, m} THEN {m} ELSE {m} \cup up[p[m]]
  IN  up[n]

representative(p, n) == CHOOSE r \in Ascent(p, n) : p[r] \in {-1, r}

\* What asking for the representative of n does to the array.
Compress(p, n) ==
  [m \in Node |-> IF m \in Ascent(p, n) THEN representative(p, n) ELSE p[m]]

Ask(p, x, y) == Compress(Compress(p, x), y)

\* Mistake: the parents are compared.
sameSetByParent(p, x, y) == p[x] = p[y]

sameSet(p, x, y) == representative(p, x) = representative(p, y)

\* Mistake: the other way round.
mergeSwapped(p, x, y) == [Ask(p, x, y) EXCEPT ![representative(p, x)] = representative(p, y)]

merge(p, x, y) == [Ask(p, x, y) EXCEPT ![representative(p, y)] = representative(p, x)]

-----------------------------------------------------------------------------
addEdge(g, i, e) ==
  [head   |-> [g.head EXCEPT ![e[1]] = [keyId |-> i, nodeId |-> e[2]],
                             ![e[2]] = [keyId |-> i, nodeId |-> e[1]]],
   next   |-> [g.next EXCEPT !["A"][i] = g.head[e[1]], !["B"][i] = g.head[e[2]]],
   parent |-> merge(g.parent, e[1], e[2])]

\* The graph after testHash has linked the first i of the keys ks, unless two
\* ends were connected already.
testHash(ks, n, h) ==
  LET linked[i \in 0 .. n] ==
        IF i = 0 THEN Empty ELSE addEdge(linked[i - 1], i - 1, h[ks[i - 1]])
  IN  [succ  |-> \A i \in 0 .. n - 1 :
                   ~sameSet(linked[i].parent, h[ks[i]][1], h[ks[i]][2]),
       graph |-> linked[n]]

\* In the list of node n, the cell that names key i becomes c.
Replace(g, n, i, c) ==
  IF g.head[n].keyId = i THEN [g EXCEPT !.head[n] = c]
  ELSE LET t == CHOOSE d \in Cells(g, n) : g.next[Side(n)][d.keyId].keyId = i
       IN  [g EXCEPT !.next[Side(n)][t.keyId] = c]

\* Key i leaves the list of node n.
Cut(g, n, i) == Replace(g, n, i, g.next[Side(n)][i])

\* In the list of node n, the key at position j with the other end o goes by
\* position i from now on.
Rename(g, n, o, j, i) ==
  Replace([g EXCEPT !.next[Side(n)][i] = g.next[Side(n)][j]],
          n, j, [keyId |-> i, nodeId |-> o])

\* Mistake: the list at the key's node in B keeps the old position.
MovedAtA(g, e, j, i) == IF i = j THEN g ELSE Rename(g, e[1], e[2], j, i)

\* The last key, with the ends e, moves from position j to position i.
Moved(g, e, j, i) ==
  IF i = j THEN g
  ELSE Rename(Rename(g, e[1], e[2], j, i), e[2], e[1], j, i)

connectBFS(g, root) ==
  [g EXCEPT !.parent = [m \in Node |-> IF m \in Reached(g, root) THEN root ELSE @[m]]]

\* Mistake: the half of the tree at the other end keeps its representative.
RepairAtA(g, e) == connectBFS(g, e[1])

\* The disjoint set after the key with the ends e has been taken out.
Repair(g, e) == connectBFS(connectBFS(g, e[1]), e[2])

-----------------------------------------------------------------------------
Init ==
  /\ hab \in Hash
  /\ keyCnt = 0
  /\ keys = << >>
  /\ graph = Empty
  /\ phase = "building"

\* The tracker's rebuild makes a new Othello.
Construct ==
  /\ phase # "building"
  /\ hab' \in Hash
  /\ keyCnt' = 0
  /\ keys' = << >>
  /\ graph' = Empty
  /\ phase' = "building"

Append(k) ==
  /\ \A i \in 0 .. keyCnt - 1 : keys[i] # k
  /\ keyCnt' = keyCnt + 1
  /\ keys' = [i \in 0 .. keyCnt |-> IF i < keyCnt THEN keys[i] ELSE k]

\* isConnectedDFS and, if it says no, addEdge.
Link(k) ==
  /\ Append(k)
  /\ ~sameSet(graph.parent, hab[k][1], hab[k][2])
  /\ graph' = addEdge(graph, keyCnt, hab[k])
  /\ UNCHANGED hab

Connected(k) ==
  /\ Append(k)
  /\ sameSet(graph.parent, hab[k][1], hab[k][2])

\* insert of a batch, for which the new Othello has room.
Insert(k) ==
  /\ phase \in {"building", "filled"} /\ keyCnt + 1 < Mb
  /\ Link(k)
  /\ phase' = "building"

\* build: each try forgets the graph and links the keys in their order.
Build(k) ==
  /\ phase \in {"building", "filled"} /\ keyCnt + 1 < Mb
  /\ Connected(k)
  /\ \E h \in Hash :
       /\ testHash(keys', keyCnt', h).succ
       /\ hab' = h
       /\ graph' = testHash(keys', keyCnt', h).graph
  /\ phase' = "filled"

Install ==
  /\ phase \in {"building", "filled"}
  /\ phase' = "ready"
  /\ UNCHANGED <<hab, keyCnt, keys, graph>>

InsertOnDemand(k) ==
  /\ phase = "ready"
  /\ Link(k)
  /\ UNCHANGED phase

\* A refused key is counted and not linked; asking has compressed paths.
InsertRefused(k) ==
  /\ phase = "ready"
  /\ Connected(k)
  /\ graph' = [graph EXCEPT !.parent = Ask(@, hab[k][1], hab[k][2])]
  /\ phase' = "rebuild"
  /\ UNCHANGED hab

\* Mistake: the vector keeps its last entry.
MoveLastKept(i) == [j \in 0 .. keyCnt - 1 |-> IF j = i THEN keys[keyCnt - 1] ELSE keys[j]]

MoveLast(i) == [j \in 0 .. keyCnt - 2 |-> IF j = i THEN keys[keyCnt - 1] ELSE keys[j]]

\* erase and erase_on_demand of the key at position i.
Erase(i) ==
  /\ phase = "ready" /\ i \in 0 .. keyCnt - 1
  /\ LET e    == hab[keys[i]]
         last == keyCnt - 1
         cut  == Cut(Cut(graph, e[1], i), e[2], i)
     IN  /\ keyCnt' = last
         /\ keys' = MoveLast(i)
         /\ graph' = Repair(Moved(cut, hab[keys[last]], last, i), e)
  /\ UNCHANGED <<hab, phase>>

Next ==
  \/ Construct
  \/ \E k \in Key : Insert(k)
  \/ \E k \in Key : Build(k)
  \/ Install
  \/ \E k \in Key : InsertOnDemand(k)
  \/ \E k \in Key : InsertRefused(k)
  \/ \E i \in Id : Erase(i)

Spec == Init /\ [][Next]_vars

-----------------------------------------------------------------------------
TypeOK ==
  /\ hab \in Hash
  /\ keyCnt \in 0 .. Cardinality(Key)
  /\ keys \in [0 .. keyCnt - 1 -> Key]
  /\ graph \in Graph
  /\ phase \in {"building", "filled", "ready", "rebuild"}

LinkedIds == 0 .. (IF phase = "rebuild" THEN keyCnt - 2 ELSE keyCnt - 1)

Edges == {keys[i] : i \in LinkedIds}

\* However keys were linked, cut and renamed, the list of each node ends, and
\* holds exactly the keys at the node, each with its other end (the comment on
\* head, "each containing all keys with the same hash in either of their
\* ends").  The walks of every fix and repair go by it.
ListsExact ==
  \A n \in Node :
    /\ Nth(graph, n)[keyCnt] = Nil
    /\ Cells(graph, n) =
         UNION {{[keyId |-> i, nodeId |-> hab[keys[i]][3 - s]] :
                   s \in {t \in {1, 2} : hab[keys[i]][t] = n}} : i \in LinkedIds}

Abstract == INSTANCE EdgeForest WITH hash <- hab, edges <- Edges, refused <- phase = "rebuild"

\* Two nodes have the same representative exactly if edges join them, after
\* any erasures: what isConnectedDFS relies on, against its own comment.
DisjointSetExact ==
  \A m, n \in Node :
    sameSet(graph.parent, m, n) <=> n \in Abstract!Joined(m, Edges, hab)

\* The assertion root < ma of fillTreeDFS.  fillValue starts from every node
\* that is its own root in the array; each tree must have one, in array A, or
\* its nodes are not filled.
FillsEveryTree ==
  phase = "filled" =>
    LET roots == {n \in Node : graph.parent[n] = n}
    IN  /\ roots \subseteq NodeA
        /\ \A k \in Edges : hab[k][1] \in UNION {Reached(graph, r) : r \in roots}

\* A key is linked exactly if it closes no cycle, and refused or built anew
\* exactly if it does.
ImplementsForest == Abstract!Spec
=============================================================================
