------------------------------ MODULE EdgeForest ------------------------------
(***************************************************************************)
(* What the Othello's construction needs of its graph: the keys are edges, *)
(* an edge goes in exactly if it closes no cycle, and any edge can go out  *)
(* again.                                                                  *)
(***************************************************************************)
CONSTANTS
  Key,    \* the keys
  Hash    \* the functions from a key to its two ends

VARIABLES
  hash,     \* the function in use
  edges,    \* the keys that have an edge
  refused   \* an insertion has been refused: only a new construction helps

\* The nodes that the edges E join to node n, n among them.
Joined(n, E, h) ==
  LET Ends == UNION {{h[k][1], h[k][2]} : k \in E}
      all == {S \in SUBSET (Ends \cup {n}) :
                n \in S /\ \A k \in E : h[k][1] \in S <=> h[k][2] \in S}
  IN  {m \in Ends \cup {n} : \A S \in all : m \in S}

Closes(k, E, h) == h[k][2] \in Joined(h[k][1], E, h)

Forest(E, h) == \A k \in E : ~Closes(k, E \ {k}, h)

Init == hash \in Hash /\ edges = {} /\ refused = FALSE

Construct == hash' \in Hash /\ edges' = {} /\ refused' = FALSE

Link(k) ==
  /\ ~refused /\ k \notin edges
  /\ ~Closes(k, edges, hash)
  /\ edges' = edges \cup {k}
  /\ UNCHANGED <<hash, refused>>

\* While the keys are inserted in a batch, another function is looked for.
Rehash(k) ==
  /\ ~refused /\ k \notin edges
  /\ Closes(k, edges, hash)
  /\ hash' \in Hash /\ Forest(edges \cup {k}, hash')
  /\ edges' = edges \cup {k}
  /\ UNCHANGED refused

Refuse(k) ==
  /\ ~refused /\ k \notin edges
  /\ Closes(k, edges, hash)
  /\ refused' = TRUE
  /\ UNCHANGED <<hash, edges>>

Unlink(k) ==
  /\ ~refused /\ k \in edges
  /\ edges' = edges \ {k}
  /\ UNCHANGED <<hash, refused>>

Next == Construct \/ \E k \in Key : Link(k) \/ Rehash(k) \/ Refuse(k) \/ Unlink(k)

Spec == Init /\ [][Next]_<<hash, edges, refused>>
=============================================================================
