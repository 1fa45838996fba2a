----------------------------- MODULE KeyValueMap -----------------------------
(***************************************************************************)
(* What the control plane Othello promises to the DASS tracker: it is a    *)
(* map from keys to bits.  A step stores one key, drops one key, or throws *)
(* the whole map away to build it again; in particular no step on one key  *)
(* disturbs the answer for another.                                        *)
(***************************************************************************)
CONSTANTS
  Key,      \* the keys that may be stored
  Value,    \* the values a key can have
  Absent    \* the answer for a key that is not stored

VARIABLE store

Init == store = [k \in Key |-> Absent]

Put(k, v) == store' = [store EXCEPT ![k] = v]

Remove(k) == store' = [store EXCEPT ![k] = Absent]

Reset == store' = [k \in Key |-> Absent]

Next ==
  \/ \E k \in Key, v \in Value : Put(k, v)
  \/ \E k \in Key : Remove(k)
  \/ Reset

Spec == Init /\ [][Next]_store
=============================================================================
