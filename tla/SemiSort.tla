------------------------------ MODULE SemiSort ------------------------------
(***************************************************************************)
(* How the vacuum filter keeps its buckets in memory: the "semi-sorted"    *)
(* buckets of src/platform/cuckoo.h.  The four fingerprints of a bucket    *)
(* are sorted, which leaves 3876 combinations of their four high nibbles:  *)
(* 12 bits instead of 16.  Code and low bits of the bucket at pos are the  *)
(* 4 * (fp_len - 1) bits from 4 * (fp_len - 1) * pos on, in 64-bit words,  *)
(* so that a bucket may have bits in two words and every word is shared.   *)
(*                                                                         *)
(* A word is the set of the positions of its one bits, and `+' of words    *)
(* without a common bit is their union.                                    *)
(***************************************************************************)
EXTENDS Naturals, FiniteSets, BagsExt

CONSTANTS
  n,            \* the number of buckets
  FpLen,        \* the lengths of fingerprints that init is called with
  Used(_),      \* at each length, the buckets something is stored in
  Sample(_)     \* and the fingerprints that are

\* The powers of two that a shift of at most 18 bits multiplies by.
Power == [k \in 0 .. 18 |-> 2^k]

ASSUME SemiSortAssumption ==
  /\ n \in Nat \ {0}
  /\ FpLen \subseteq 4 .. 17
  /\ \A len \in FpLen :
       Used(len) \subseteq 0 .. n - 1 /\ Sample(len) \subseteq 1 .. Power[len] - 1

VARIABLES
  T,        \* the memory
  fp_len,   \* the bits of a fingerprint
  stored    \* history: per bucket, the bag of fingerprints put into it

vars == <<T, fp_len, stored>>

Slot == 0 .. 3
Nibble == 0 .. 15
Unit == 0 .. 63

-----------------------------------------------------------------------------
(***************************************************************************)
(* The two tables.                                                         *)
(***************************************************************************)
Descending(q) == \A i \in 0 .. 2 : q[i] >= q[i + 1]

\* How often the body of d nested loops is run, none of which counts beyond
\* the counter of the one around it, while the outermost is below x.
Passes(d, x) ==
  CASE d = 1 -> x
    [] d = 2 -> (x * (x + 1)) \div 2
    [] d = 3 -> (x * (x + 1) * (x + 2)) \div 6
    [] d = 4 -> (x * (x + 1) * (x + 2) * (x + 3)) \div 24

\* The loops number the sorted combinations; other entries are never read.
encode_table(q) == Passes(4, q[0]) + Passes(3, q[1]) + Passes(2, q[2]) + Passes(1, q[3])

\* The counter of the outermost of d loops in pass number c.
Counter(d, c) == CHOOSE x \in Nibble : Passes(d, x) <= c /\ c < Passes(d, x + 1)

decode_table(c) ==
  LET i == Counter(4, c)
      j == Counter(3, c - Passes(4, i))
      k == Counter(2, c - Passes(4, i) - Passes(3, j))
      l == c - Passes(4, i) - Passes(3, j) - Passes(2, k)
  IN  IF c < Passes(4, 16) THEN [s \in Slot |-> <<i, j, k, l>>[s + 1]]
                           ELSE [s \in Slot |-> 0]

-----------------------------------------------------------------------------
(***************************************************************************)
(* Words and numbers.                                                      *)
(***************************************************************************)
Bits(x) == {i \in 0 .. 17 : (x \div Power[i]) % 2 = 1}
Num(w) ==
  LET from[i \in 0 .. 18] == IF i = 18 THEN 0 ELSE 2 * from[i + 1] + IF i \in w THEN 1 ELSE 0
  IN  from[0]

ShiftLeft(w, k) == {b + k : b \in w} \cap Unit
ShiftRight(w, k) == {b - k : b \in {c \in w : c >= k}}

\* (1ULL << k) - 1; a shift by 64 is undefined, and makes it all bits or none.
Undefined == {{}, Unit}
Mask(k, ub) == IF k = 64 THEN ub ELSE 0 .. k - 1

\* The bits of a bucket, and where they are.
bucket_length(len) == (len - 1) * 4
Start(len, pos) == pos * bucket_length(len)
End(len, pos) == Start(len, pos) + bucket_length(len) - 1
WordOf(b) == b \div 64
Within(len, pos) == WordOf(Start(len, pos)) = WordOf(End(len, pos))

memory_consumption(len) == (n * bucket_length(len) + 64 + 7) \div 8 + 8
Word(len) == 0 .. memory_consumption(len) \div 8 - 1

-----------------------------------------------------------------------------
(***************************************************************************)
(* get_bucket and set_bucket.                                              *)
(***************************************************************************)
\* The part of a bucket's bits at distance i * (len - 4), where a fingerprint
\* has its low ones.
Field(w, i, len) == ShiftRight(w, i * (len - 4)) \cap 0 .. len - 5

ReadBits(t, len, pos) ==
  LET w == WordOf(Start(len, pos))
      lower == Start(len, pos) % 64
      upper == End(len, pos) % 64
  IN  IF Within(len, pos)
        THEN ShiftRight(t[w] \cap 0 .. upper, lower)
        ELSE ShiftRight(t[w], lower) \cup ShiftLeft(t[w + 1] \cap 0 .. upper, 64 - lower)

\* store[4], the number of full slots, is Load of it.
get_bucket(t, len, pos) ==
  LET result == ReadBits(t, len, pos)
      high == decode_table(Num(ShiftRight(result, 4 * (len - 4))))
  IN  [i \in Slot |-> Num(Field(result, 3 - i, len)) + high[i] * Power[len - 4]]

Load(s) == Cardinality({i \in Slot : s[i] # 0})

sort_pair(s, a, b) == IF s[a] < s[b] THEN [s EXCEPT ![a] = s[b], ![b] = s[a]] ELSE s

\* Mistake: the last comparison, of the two in the middle, is left out.
SortFour(s) ==
  sort_pair(sort_pair(sort_pair(sort_pair(s, 0, 2), 1, 3), 0, 1), 2, 3)

Sort(s) ==
  sort_pair(sort_pair(sort_pair(sort_pair(sort_pair(s, 0, 2), 1, 3), 0, 1), 2, 3), 1, 2)

Encoded(s, len) ==
  LET high == encode_table([i \in Slot |-> (s[i] \div Power[len - 4]) % 16])
      low == UNION {ShiftLeft(Bits(s[i] % Power[len - 4]), (3 - i) * (len - 4)) : i \in Slot}
  IN  ShiftLeft(Bits(high), 4 * (len - 4)) \cup low

\* Mistake: the second word keeps nothing of what is above the bucket.
WriteBitsWide(t, len, pos, all, ub) ==
  LET w == WordOf(Start(len, pos))
      lower == Start(len, pos) % 64
      upper == End(len, pos) % 64
  IN  IF Within(len, pos)
        THEN [t EXCEPT ![w] = (@ \cap (0 .. lower - 1 \cup upper + 1 .. 63))
                                \cup ShiftLeft(all \cap Mask(upper - lower + 1, ub), lower)]
        ELSE [t EXCEPT ![w] = (@ \cap 0 .. lower - 1)
                                \cup ShiftLeft(all \cap Mask(64 - lower, ub), lower),
                       ![w + 1] = ShiftRight(all, 64 - lower)]

WriteBits(t, len, pos, all, ub) ==
  LET w == WordOf(Start(len, pos))
      lower == Start(len, pos) % 64
      upper == End(len, pos) % 64
  IN  IF Within(len, pos)
        THEN [t EXCEPT ![w] = (@ \cap (0 .. lower - 1 \cup upper + 1 .. 63))
                                \cup ShiftLeft(all \cap Mask(upper - lower + 1, ub), lower)]
        ELSE [t EXCEPT ![w] = (@ \cap 0 .. lower - 1)
                                \cup ShiftLeft(all \cap Mask(64 - lower, ub), lower),
                       ![w + 1] = (@ \cap upper + 1 .. 63) \cup ShiftRight(all, 64 - lower)]

set_bucket(t, len, pos, s, ub) == WriteBits(t, len, pos, Encoded(Sort(s), len), ub)

-----------------------------------------------------------------------------
(***************************************************************************)
(* What insert and del do to a bucket.  An insertion that evicts is made   *)
(* of these steps, one bucket after the other.                             *)
(***************************************************************************)
Zero(len) == [w \in Word(len) |-> {}]

Bucket == 0 .. n - 1

\* Empty bags.
Nothing == [p \in Bucket |-> [f \in {} |-> 0]]

Init ==
  /\ fp_len \in FpLen
  /\ T = Zero(fp_len)
  /\ stored = Nothing

Here(pos) == get_bucket(T, fp_len, pos)

\* Slot i of the bucket is set, and the bucket with it.
SetSlot(pos, i, f) ==
  /\ \E ub \in Undefined :
       T' = set_bucket(T, fp_len, pos, [Here(pos) EXCEPT ![i] = f], ub)
  /\ UNCHANGED fp_len

\* insert_to_bucket, and the end of a chain of evictions: a bucket that is
\* not full has an empty last slot.
Insert(pos, f) ==
  /\ Load(Here(pos)) < 4
  /\ SetSlot(pos, 3, f)
  /\ stored' = [stored EXCEPT ![pos] = BagAdd(@, f)]

\* An eviction: any slot of a full bucket, whose fingerprint moves on.
Evict(pos, rk, f) ==
  /\ Load(Here(pos)) = 4
  /\ SetSlot(pos, rk, f)
  /\ stored' = [stored EXCEPT ![pos] = BagAdd(BagRemove(@, Here(pos)[rk]), f)]

\* The first slot with the fingerprint becomes empty.
del_in_bucket(pos, f) ==
  /\ \E i \in Slot :
       /\ Here(pos)[i] = f /\ \A j \in 0 .. i - 1 : Here(pos)[j] # f
       /\ SetSlot(pos, i, 0)
  /\ stored' = [stored EXCEPT ![pos] = BagRemove(@, f)]

clear ==
  /\ T' = Zero(fp_len)
  /\ stored' = Nothing
  /\ UNCHANGED fp_len

\* Mistake: the memory of the shorter fingerprints is used on.
ReinitKept ==
  /\ fp_len + 1 \in FpLen
  /\ fp_len' = fp_len + 1
  /\ stored' = Nothing
  /\ UNCHANGED T

\* After a failed insertion batch_insert takes longer fingerprints.
Reinit ==
  /\ fp_len + 1 \in FpLen
  /\ fp_len' = fp_len + 1
  /\ T' = Zero(fp_len')
  /\ stored' = Nothing

Next ==
  \/ \E pos \in Used(fp_len), f \in Sample(fp_len) : Insert(pos, f)
  \/ \E pos \in Used(fp_len), f \in Sample(fp_len), rk \in Slot : Evict(pos, rk, f)
  \/ \E pos \in Used(fp_len), f \in Sample(fp_len) : del_in_bucket(pos, f)
  \/ clear
  \/ Reinit

Spec == Init /\ [][Next]_vars

-----------------------------------------------------------------------------
\* The memory has words for every bucket, at every length.
TypeOK ==
  /\ fp_len \in FpLen
  /\ T \in [Word(fp_len) -> SUBSET Unit]

\* What is read from any bucket is sorted, so that the last slot of a bucket
\* that is not full is the empty one and insert_to_bucket overwrites nothing.
SlotsInOrder == \A p \in Bucket : LET s == Here(p) IN Descending(s)

\* The bag of fingerprints in a store.
Held(s) == [f \in {s[i] : i \in Slot} \ {0} |-> Cardinality({i \in Slot : s[i] = f})]

\* The memory reads as what has been put into it: writing a bucket changes
\* that bucket by the one fingerprint, and no bit of any other bucket, also
\* where they share a word.
MemoryExact == \A p \in Bucket : Held(Here(p)) = stored[p]

\* The assertion of test_bucket: what is read is what has been stored, sorted,
\* whatever the memory holds and for every store without a fingerprint twice.
Distinct(s) == \A i, j \in Slot : s[i] = s[j] /\ s[i] # 0 => i = j

TestBucket ==
  \A p \in Used(fp_len) :
    \A s \in {q \in [Slot -> {0} \cup Sample(fp_len)] : Distinct(q)} :
      \A ub \in Undefined :
        get_bucket(set_bucket(T, fp_len, p, s, ub), fp_len, p) = Sort(s)
=============================================================================
