---------------------------- MODULE VacuumFilter ----------------------------
(***************************************************************************)
(* The set of positive keys, as both the tracker and the verifier hold it: *)
(* a table of buckets of fingerprints (src/platform/cuckoo.h).  A key has  *)
(* a fingerprint and two buckets, one the alternate of the other, and its  *)
(* fingerprint may be in either.  An insertion into two full buckets       *)
(* evicts a fingerprint into its own other bucket, and so on.              *)
(*                                                                         *)
(* An element is what is left of a key after hashing: its first bucket and *)
(* its fingerprint.  A bucket is kept sorted and encoded in fewer bits     *)
(* than its fingerprints have, which stores it up to the order of its      *)
(* slots: here it is the number of slots with each fingerprint.  The       *)
(* generator e, which picks the victims, may return anything.              *)
(***************************************************************************)
EXTENDS Naturals, FiniteSets

CONSTANTS
  n,                 \* the number of buckets
  m,                 \* the number of slots of a bucket
  Fp,                \* the fingerprints; 0 is the empty slot
  alternate(_, _),   \* the other bucket of a fingerprint in a bucket
  max_kick_steps     \* evictions before an insertion gives up

Bucket == 0 .. n - 1

ASSUME FilterAssumption ==
  /\ n \in Nat \ {0} /\ m \in Nat \ {0} /\ max_kick_steps \in Nat
  /\ Fp \subseteq Nat \ {0}
  /\ \A p \in Bucket, f \in Fp :
       alternate(p, f) \in Bucket /\ alternate(alternate(p, f), f) = p

VARIABLES
  table,         \* per bucket, the number of slots that hold each fingerprint
  filled_cell,   \* the count behind get_load_factor
  hand,          \* the evicted fingerprint tmp_fp, the bucket alt it is to go
                 \* to, and the steps of the loop that are left
  failed         \* whether the last operation was an insert that returned 1

vars == <<table, filled_cell, hand, failed>>

NoHand == [fp |-> 0, at |-> 0, left |-> 0]

Idle == hand.fp = 0

\* The full slots of a bucket with these counts, numbered for each fingerprint.
Slots(counts) == UNION {{f} \X (1 .. counts[f]) : f \in Fp}

Load(b) == Cardinality(Slots(table[b]))

\* Mistake: a full bucket is given one more.
HasRoomLoose(b) == Load(b) <= m

HasRoom(b) == Load(b) < m

\* Buckets with one more, and one fewer, slot with a fingerprint.
With(t, b, f) == [t EXCEPT ![b][f] = @ + 1]
Without(t, b, f) == [t EXCEPT ![b][f] = @ - 1]

Holds(b, f) == table[b][f] > 0

\* Mistake: the line in lookup that is commented out, "if (ok1 == 3) return
\* false".  A deletion may have made the first bucket's room since.
lookupStopping(p, f) ==
  Holds(p, f) \/ (~HasRoom(p) /\ Holds(alternate(p, f), f))

lookup(p, f) == Holds(p, f) \/ Holds(alternate(p, f), f)

TypeOK ==
  /\ table \in [Bucket -> [Fp -> Nat]]
  /\ \A b \in Bucket : Load(b) <= m
  /\ filled_cell \in Nat
  /\ hand \in {NoHand} \cup [fp : Fp, at : Bucket, left : 0 .. max_kick_steps]
  /\ failed \in BOOLEAN

-----------------------------------------------------------------------------
Empty == [b \in Bucket |-> [f \in Fp |-> 0]]

Init ==
  /\ table = Empty
  /\ filled_cell = 0
  /\ hand = NoHand
  /\ failed = FALSE

\* The insertion returns 0 with the fingerprint f in bucket b of t.
Placed(t, b, f) ==
  /\ table' = With(t, b, f)
  /\ filled_cell' = filled_cell + 1
  /\ hand' = NoHand
  /\ failed' = FALSE

\* One of the two buckets has room: the emptier one, the first at a tie.
Emptier(p, q) == IF Load(p) <= Load(q) THEN p ELSE q

InsertRoom(p, f) ==
  LET b == Emptier(p, alternate(p, f))
  IN  Idle /\ HasRoom(b) /\ Placed(table, b, f)

\* Both are full: f takes the slot of some g in one of them.
InsertKick(p, f) ==
  /\ Idle /\ ~HasRoom(p) /\ ~HasRoom(alternate(p, f))
  /\ \E b \in {p, alternate(p, f)} : \E g \in {x \in Fp : Holds(b, x)} :
       /\ table' = With(Without(table, b, g), b, f)
       /\ hand' = [fp |-> g, at |-> alternate(b, g), left |-> max_kick_steps]
  /\ failed' = FALSE
  /\ UNCHANGED filled_cell

\* The step of the loop that finds a free slot where the evicted one belongs.
KickDone ==
  /\ ~Idle /\ hand.left > 0 /\ HasRoom(hand.at)
  /\ Placed(table, hand.at, hand.fp)

\* The fingerprints of bucket b whose other bucket has room.
Movable(b) == {g \in Fp : Holds(b, g) /\ HasRoom(alternate(b, g))}

\* Mistake: the slot that is filled in the third bucket is not counted.
KickOutUncounted ==
  /\ ~Idle /\ hand.left > 0 /\ ~HasRoom(hand.at)
  /\ \E g \in Movable(hand.at) :
       table' = With(With(Without(table, hand.at, g), alternate(hand.at, g), g),
                     hand.at, hand.fp)
  /\ hand' = NoHand /\ failed' = FALSE
  /\ UNCHANGED filled_cell

\* It is full, but one in it can move on; the slots are in descending order.
KickOut ==
  /\ ~Idle /\ hand.left > 0 /\ ~HasRoom(hand.at)
  /\ \E g \in Movable(hand.at) :
       /\ \A x \in Movable(hand.at) : x <= g
       /\ Placed(With(Without(table, hand.at, g), alternate(hand.at, g), g),
                 hand.at, hand.fp)

\* Mistake: alt is computed before tmp_fp is replaced.
KickOnStale ==
  /\ ~Idle /\ hand.left > 0 /\ ~HasRoom(hand.at) /\ Movable(hand.at) = {}
  /\ \E g \in {x \in Fp : Holds(hand.at, x)} :
       /\ table' = With(Without(table, hand.at, g), hand.at, hand.fp)
       /\ hand' = [fp |-> g, at |-> alternate(hand.at, hand.fp), left |-> hand.left - 1]
  /\ UNCHANGED <<filled_cell, failed>>

\* Mistake: evict until there is room.
KickOnEndless ==
  /\ ~Idle /\ ~HasRoom(hand.at) /\ Movable(hand.at) = {}
  /\ \E g \in {x \in Fp : Holds(hand.at, x)} :
       /\ table' = With(Without(table, hand.at, g), hand.at, hand.fp)
       /\ hand' = [hand EXCEPT !.fp = g, !.at = alternate(hand.at, g)]
  /\ UNCHANGED <<filled_cell, failed>>

\* None can: the evicted one takes the slot of some g, which is evicted next.
KickOn ==
  /\ ~Idle /\ hand.left > 0 /\ ~HasRoom(hand.at) /\ Movable(hand.at) = {}
  /\ \E g \in {x \in Fp : Holds(hand.at, x)} :
       /\ table' = With(Without(table, hand.at, g), hand.at, hand.fp)
       /\ hand' = [fp |-> g, at |-> alternate(hand.at, g), left |-> hand.left - 1]
  /\ UNCHANGED <<filled_cell, failed>>

\* The loop has ended: return 1, and the evicted fingerprint is gone.
GiveUp ==
  /\ ~Idle /\ hand.left = 0
  /\ hand' = NoHand
  /\ failed' = TRUE
  /\ UNCHANGED <<table, filled_cell>>

\* The bucket del clears a slot of.
Nearest(p, f) == IF Holds(p, f) THEN p ELSE alternate(p, f)

\* del that returns true; the one that returns false changes nothing.
Del(p, f) ==
  /\ Idle /\ lookup(p, f)
  /\ table' = Without(table, Nearest(p, f), f)
  /\ filled_cell' = filled_cell - 1
  /\ failed' = FALSE
  /\ UNCHANGED hand

\* clear, and init for another batch.
Clear ==
  /\ Idle
  /\ table' = Empty
  /\ filled_cell' = 0
  /\ failed' = FALSE
  /\ UNCHANGED hand

Kick == KickDone \/ KickOut \/ KickOn \/ GiveUp

Next ==
  \/ \E p \in Bucket, f \in Fp : InsertRoom(p, f)
  \/ \E p \in Bucket, f \in Fp : InsertKick(p, f)
  \/ Kick
  \/ \E p \in Bucket, f \in Fp : Del(p, f)
  \/ Clear

Spec == Init /\ [][Next]_vars

\* The loop of an insertion runs on.
FairSpec == Spec /\ WF_vars(Kick)

-----------------------------------------------------------------------------
\* filled_cell counts the full slots, through evictions that move several
\* fingerprints, failures that lose one, and deletions.
FullSlots(t) == UNION {{b} \X Slots(t[b]) : b \in Bucket}

FilledCellExact == filled_cell = Cardinality(FullSlots(table))

(***************************************************************************)
(* The bag of elements that the table stands for.                          *)
(***************************************************************************)
Element == Bucket \X Fp

Twin(e) == <<alternate(e[1], e[2]), e[2]>>

Count(t, e) ==
  IF Twin(e) = e THEN t[e[1]][e[2]] ELSE t[e[1]][e[2]] + t[Twin(e)[1]][e[2]]

InHand(e) == IF <<hand.at, hand.fp>> \in {e, Twin(e)} THEN 1 ELSE 0

held == [e \in Element |-> Count(table, e) + InHand(e)]

Bag == INSTANCE FilterBag WITH busy <- ~Idle

\* No chain of evictions loses or duplicates anything, except that an
\* insertion that returns 1 loses one fingerprint.
ImplementsBag == Bag!Spec

\* What the tracker relies on: a key whose fingerprint is in the filter is
\* found, wherever evictions and deletions have left it, and a key is found
\* only if its own fingerprint, or one that equals it, is in.
LookupExact ==
  Idle => \A e \in Element : lookup(e[1], e[2]) <=> held[e] > 0

\* An insertion returns, whatever is evicted.
InsertReturns == ~Idle ~> Idle
=============================================================================
