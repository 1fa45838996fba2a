----------------------------- MODULE MCEdgeLists -----------------------------
(* A small instance of EdgeLists. *)
EXTENDS EdgeLists

MCKey == {"p", "q", "r", "s"}

\* Three keys at one node and a fourth behind one of them, which never fails; a
\* cycle of four; a path of three and a fourth key with the ends of the first.
\* 1.33334 * 5 = 6 nodes in array A.
MCHash ==
  {[k \in MCKey |-> CASE k = "p" -> <<0, 6>> [] k = "q" -> <<1, 6>>
                      [] k = "r" -> <<2, 6>> [] k = "s" -> <<2, 7>>],
   [k \in MCKey |-> CASE k = "p" -> <<0, 6>> [] k = "q" -> <<1, 6>>
                      [] k = "r" -> <<1, 7>> [] k = "s" -> <<0, 7>>],
   [k \in MCKey |-> CASE k = "p" -> <<0, 7>> [] k = "q" -> <<0, 6>>
                      [] k = "r" -> <<1, 7>> [] k = "s" -> <<0, 6>>]}
=============================================================================
