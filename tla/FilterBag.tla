------------------------------ MODULE FilterBag ------------------------------
(***************************************************************************)
(* What the vacuum filter promises to the tracker and the verifier: it     *)
(* counts elements, up to the twins it cannot tell apart.  An insertion    *)
(* that returns 0 adds its element and nothing else; one that returns 1    *)
(* has added its element as well and lost one, perhaps another's.          *)
(***************************************************************************)
EXTENDS Naturals

CONSTANTS
  Element,   \* what lookup can tell apart: a bucket and a fingerprint
  Twin(_)    \* the other element with the same buckets and fingerprint

VARIABLES
  held,      \* how many of each element, its twin's included, it holds
  busy,      \* whether an insertion has begun and not yet returned
  failed     \* whether the last operation was an insertion that returned 1

vars == <<held, busy, failed>>

Same(e) == {e, Twin(e)}

More(e) == [x \in Element |-> IF x \in Same(e) THEN held[x] + 1 ELSE held[x]]
Less(e) == [x \in Element |-> IF x \in Same(e) THEN held[x] - 1 ELSE held[x]]

Init ==
  /\ held = [e \in Element |-> 0]
  /\ busy = FALSE
  /\ failed = FALSE

\* The element is in as soon as it has a slot, even if another still needs one.
Add(e) ==
  /\ ~busy
  /\ held' = More(e)
  /\ busy' \in BOOLEAN /\ failed' = FALSE

Finish == busy /\ busy' = FALSE /\ failed' = FALSE /\ held' = held

Lose(e) ==
  /\ busy /\ held[e] > 0
  /\ held' = Less(e)
  /\ busy' = FALSE /\ failed' = TRUE

Remove(e) ==
  /\ ~busy /\ held[e] > 0
  /\ held' = Less(e)
  /\ busy' = FALSE /\ failed' = FALSE

Clear ==
  /\ ~busy
  /\ held' = [e \in Element |-> 0]
  /\ busy' = FALSE /\ failed' = FALSE

Next ==
  \/ \E e \in Element : Add(e) \/ Lose(e) \/ Remove(e)
  \/ Finish
  \/ Clear

Spec == Init /\ [][Next]_vars
=============================================================================
