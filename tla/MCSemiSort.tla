----------------------------- MODULE MCSemiSort -----------------------------
(* Small instances of SemiSort. *)
EXTENDS SemiSort, FiniteSetsExt

\* The first bucket that has bits in two words, or the second one of
\* all, and the one before it for even lengths, the one after it for odd ones.
Middle(len) ==
  LET Split == {p \in 1 .. n - 2 : ~Within(len, p)}
  IN  IF Split = {} THEN 1 ELSE Min(Split)

Around(len) == {Middle(len), IF len % 2 = 0 THEN Middle(len) - 1 ELSE Middle(len) + 1}

\* The largest fingerprint, which is all ones, and one with few.
TwoFingerprints(len) == {2^(len - 2) + 1, 2^len - 1}
=============================================================================
