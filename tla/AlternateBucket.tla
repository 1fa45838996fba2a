--------------------------- MODULE AlternateBucket ---------------------------
(***************************************************************************)
(* VacuumFilter::alternate (src/platform/cuckoo.h).  In a table of         *)
(* n < 1315800 buckets, n even: rotate by a number from the fingerprint,   *)
(* flip bits within the segment the bucket is in, and rotate back.  The    *)
(* segments are the powers of two that n is the sum of.  In a larger table *)
(* the segments are equal, and nothing is rotated.                         *)
(***************************************************************************)
EXTENDS Integers

\* Bound: the buckets of a table are numbered with 30 bits.
Width == 30

Power == [k \in 0 .. Width |-> 2^k]

Bit(x, i) == (x \div Power[i]) % 2

\* The number with these bits.
Num(b) ==
  LET from[i \in 0 .. Width] == IF i = Width THEN 0 ELSE 2 * from[i + 1] + b[i]
  IN  from[0]

xor(v, w) == Num([i \in 0 .. Width - 1 |-> (Bit(v, i) + Bit(w, i)) % 2])
and(v, w) == Num([i \in 0 .. Width - 1 |-> Bit(v, i) * Bit(w, i)])

\* The largest power of two below n, but 1 for n = 2.
max_2_power(n) ==
  CHOOSE p \in {Power[i] : i \in 0 .. Width - 1} : p * 2 >= n /\ (p = 1 \/ p < n)

find_highest_bit(v) == CHOOSE i \in 0 .. Width - 1 : Power[i] <= v /\ v < Power[i + 1]

segment_length(n, pos) == Power[find_highest_bit(xor(pos, n))]

smallAlternate(n, pos, fp_hash) ==
  LET delta == fp_hash % max_2_power(n)
      rotated == (pos + delta) % n
      low == delta % segment_length(n, rotated)
      t == IF low = 0 THEN 1 ELSE low
      ret == xor(rotated, t) - delta
  IN  IF ret < 0 THEN ret + n ELSE ret

\* seg is one less than the length of the segments.
largeAlternate(pos, fp_hash, seg) == xor(pos, and(fp_hash, seg))
=============================================================================
