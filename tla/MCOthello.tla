------------------------------ MODULE MCOthello ------------------------------
(* Small instances of ControlPlaneOthello. *)
EXTENDS ControlPlaneOthello

\* 1.33334 * 3 = 4 nodes in array A.
MCNodeA == 0 .. 3
MCNodeB == 4 .. 6

\* Two keys that share a node of array B, or one of array A, or none, or both,
\* so that a batch with both of them needs another seed.
TwoKeys == {"p", "q"}

FourHashes ==
  {[k \in TwoKeys |-> CASE k = "p" -> <<0, 4>> [] k = "q" -> <<1, 4>>],
   [k \in TwoKeys |-> CASE k = "p" -> <<0, 4>> [] k = "q" -> <<0, 5>>],
   [k \in TwoKeys |-> CASE k = "p" -> <<2, 6>> [] k = "q" -> <<3, 5>>],
   [k \in TwoKeys |-> <<0, 4>>]}

\* A cycle of four edges: any three of the keys are acyclic.
FourKeys == {"p", "q", "r", "s"}

CycleHash ==
  {[k \in FourKeys |->
      CASE k = "p" -> <<0, 4>> [] k = "q" -> <<1, 4>>
        [] k = "r" -> <<1, 5>> [] k = "s" -> <<0, 5>>]}
=============================================================================
