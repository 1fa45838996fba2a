--------------------------- MODULE MCDistribution ----------------------------
(* Small instances of SummaryDistribution. *)
EXTENDS SummaryDistribution, TLC

\* Devices differ in nothing but their address.
Symmetry == Permutations(Device)
=============================================================================
