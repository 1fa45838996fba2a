------------------------------ MODULE MCFilter ------------------------------
(* Small instances of VacuumFilter, with the program's alternate bucket. *)
EXTENDS VacuumFilter

Alt == INSTANCE AlternateBucket

\* A fingerprint stands for its own MurmurHash32.
AltTable == [p \in Bucket, f \in Fp |-> Alt!smallAlternate(n, p, f)]
MCAlternate(p, f) == AltTable[p, f]

\* The alternate of the alternate is the bucket itself, and another one, in
\* tables of every small size, those that are no power of two included.
ASSUME AlternateSound ==
  \A size \in {2 * i : i \in 1 .. 12} :
    \A p \in 0 .. size - 1, hash \in 0 .. size - 1 :
      LET q == Alt!smallAlternate(size, p, hash)
      IN  q \in (0 .. size - 1) \ {p} /\ Alt!smallAlternate(size, q, hash) = p

\* It is so in a table of segments of equal length, except that the other
\* bucket may be the first one.
ASSUME LargeAlternateSound ==
  \A p \in 0 .. 23, hash \in 0 .. 23, seg \in {1, 3, 7} :
    LET q == Alt!largeAlternate(p, hash, seg)
    IN  q \in 0 .. 23 /\ Alt!largeAlternate(q, hash, seg) = p
=============================================================================
