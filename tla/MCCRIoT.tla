------------------------------- MODULE MCCRIoT -------------------------------
(* A small instance of CRIoT. *)
EXTENDS CRIoT, TLC

CONSTANTS p, q, r

MCSlot(b, c, f) == [buckets |-> {b, c}, fp |-> f]

\* The short fingerprint does not tell the keys apart; the longer one tells one
\* key from the others, which share a bucket with it.
MCPlacement ==
  {[k \in Key |-> MCSlot(0, 1, "f")],
   [k \in Key |-> IF k = p THEN MCSlot(0, 2, "g") ELSE MCSlot(1, 2, "f")]}

\* No placement tells these two from each other.
Alike == Permutations({q, r})
=============================================================================
