------------------------- MODULE VacuumFilter_proofs -------------------------
(***************************************************************************)
(* The vacuum filter implements a bag of elements, and a lookup never      *)
(* misses what the bag holds, for any number of buckets, slots,            *)
(* fingerprints and eviction steps and any alternate-bucket function that  *)
(* is its own inverse.  The program's is, in small and in large tables.    *)
(***************************************************************************)
EXTENDS VacuumFilter, AlternateBucket, Recursion_proofs

Tables == [Bucket -> [Fp -> Nat]]

\* The part of TypeOK that the arguments need; that a bucket holds at most m
\* fingerprints is not among it.
Types ==
  /\ table \in Tables
  /\ hand \in {NoHand} \cup [fp : Fp, at : Bucket, left : 0 .. max_kick_steps]
  /\ failed \in BOOLEAN

\* 1 for e and its twin, 0 for the others.
One(e, x) == IF x \in {e, Twin(e)} THEN 1 ELSE 0

-----------------------------------------------------------------------------
\* position_pair: a key's two buckets are the same pair from either side.
LEMMA TwinTwice ==
  ASSUME NEW e \in Element
  PROVE  Twin(e) \in Element /\ Twin(Twin(e)) = e
<1>1. PICK p \in Bucket, f \in Fp : e = <<p, f>>
  BY DEF Element
<1>2. alternate(p, f) \in Bucket /\ alternate(alternate(p, f), f) = p
  BY FilterAssumption
<1>3. Twin(e) = <<alternate(p, f), f>>
  BY <1>1 DEF Twin
<1>4. Twin(Twin(e)) = <<alternate(alternate(p, f), f), f>>
  BY <1>3 DEF Twin
<1> QED
  BY <1>1, <1>2, <1>3, <1>4 DEF Element

LEMMA OneTwin ==
  ASSUME NEW e \in Element, NEW x \in Element
  PROVE  One(Twin(e), x) = One(e, x) /\ One(e, x) = One(x, e)
BY TwinTwice DEF One

\* Everything counted is a natural number.
LEMMA CountNat ==
  ASSUME NEW t \in Tables, NEW x \in Element
  PROVE  Count(t, x) \in Nat
<1>1. PICK p \in Bucket, g \in Fp : x = <<p, g>>
  BY DEF Element
<1>2. Twin(x) = <<alternate(p, g), g>> /\ alternate(p, g) \in Bucket
  BY <1>1, FilterAssumption DEF Twin
<1>3. t[p][g] \in Nat /\ t[alternate(p, g)][g] \in Nat
  BY <1>2 DEF Tables
<1> QED
  BY <1>1, <1>2, <1>3 DEF Count

\* insert_to_bucket and set_bucket: one more slot with f counts for f there
\* and for its twin.
LEMMA CountWith ==
  ASSUME NEW t \in Tables, NEW b \in Bucket, NEW f \in Fp
  PROVE  /\ With(t, b, f) \in Tables
         /\ \A x \in Element :
              Count(With(t, b, f), x) = Count(t, x) + One(<<b, f>>, x)
<1>1. With(t, b, f) \in Tables
  BY DEF With, Tables
<1>2. \A p \in Bucket, g \in Fp :
        With(t, b, f)[p][g] = IF p = b /\ g = f THEN t[p][g] + 1 ELSE t[p][g]
  BY DEF With, Tables
<1>3. ASSUME NEW x \in Element
      PROVE  Count(With(t, b, f), x) = Count(t, x) + One(<<b, f>>, x)
  <2>1. PICK p \in Bucket, g \in Fp : x = <<p, g>>
    BY DEF Element
  <2>2. Twin(x) = <<alternate(p, g), g>> /\ alternate(p, g) \in Bucket
    BY <2>1, FilterAssumption DEF Twin
  <2>3. t[p][g] \in Nat /\ t[alternate(p, g)][g] \in Nat
    BY <2>2 DEF Tables
  <2>4. One(<<b, f>>, x) = IF g = f /\ (p = b \/ alternate(p, g) = b) THEN 1 ELSE 0
    BY <2>1, <2>2, OneTwin DEF One, Element
  <2> QED
    BY <1>2, <2>1, <2>2, <2>3, <2>4 DEF Count
<1> QED
  BY <1>1, <1>3

\* del_in_bucket and the eviction of a fingerprint that is there.
LEMMA CountWithout ==
  ASSUME NEW t \in Tables, NEW b \in Bucket, NEW f \in Fp, t[b][f] > 0
  PROVE  /\ Without(t, b, f) \in Tables
         /\ \A x \in Element :
              Count(Without(t, b, f), x) = Count(t, x) - One(<<b, f>>, x)
<1>1. /\ Without(t, b, f) \in Tables
      /\ t = With(Without(t, b, f), b, f)
  <2>1. \A p \in Bucket, g \in Fp :
          Without(t, b, f)[p][g] = IF p = b /\ g = f THEN t[p][g] - 1 ELSE t[p][g]
    BY DEF Without, Tables
  <2>2. Without(t, b, f) = [p \in Bucket |-> [g \in Fp |-> Without(t, b, f)[p][g]]]
    BY DEF Without, Tables
  <2>3. Without(t, b, f) \in Tables
    BY <2>1, <2>2 DEF Tables
  <2>4. \A p \in Bucket, g \in Fp : With(Without(t, b, f), b, f)[p][g] = t[p][g]
    BY <2>1, <2>3 DEF With, Tables
  <2>5. With(Without(t, b, f), b, f) \in Tables
    BY <2>3, CountWith
  <2> QED
    BY <2>3, <2>4, <2>5 DEF Tables
<1>2. \A x \in Element : Count(t, x) = Count(Without(t, b, f), x) + One(<<b, f>>, x)
  BY <1>1, CountWith
<1>3. \A x \in Element : Count(Without(t, b, f), x) \in Nat
  BY <1>1, CountNat
<1>4. \A x \in Element : One(<<b, f>>, x) \in Nat
  BY DEF One
<1> QED
  BY <1>1, <1>2, <1>3, <1>4

\* calloc in init: nothing is counted in a new table.
LEMMA EmptyTable ==
  Empty \in Tables /\ \A x \in Element : Count(Empty, x) = 0
<1>1. Empty \in Tables
  <2>1. [f \in Fp |-> 0] \in [Fp -> Nat]
    OBVIOUS
  <2> QED
    BY <2>1 DEF Empty, Tables
<1>2. ASSUME NEW x \in Element
      PROVE  Count(Empty, x) = 0
  <2>1. x[1] \in Bucket /\ x[2] \in Fp /\ Twin(x)[1] \in Bucket
    BY TwinTwice DEF Element
  <2> QED
    BY <2>1 DEF Count, Empty
<1> QED
  BY <1>1, <1>2

-----------------------------------------------------------------------------
\* An evicted fingerprint is one that is there, and not the empty slot.
LEMMA HandKnown ==
  ASSUME Types, ~Idle
  PROVE  hand.fp \in Fp /\ hand.at \in Bucket /\ hand.left \in 0 .. max_kick_steps
BY DEF Types, Idle, NoHand

\* The two buckets of an element are in the same class.
LEMMA OtherBucket ==
  ASSUME NEW b \in Bucket, NEW f \in Fp
  PROVE  /\ <<b, f>> \in Element /\ <<alternate(b, f), f>> \in Element
         /\ alternate(b, f) \in Bucket
         /\ \A x \in Element : One(<<alternate(b, f), f>>, x) = One(<<b, f>>, x)
<1>1. alternate(b, f) \in Bucket
  BY FilterAssumption
<1>2. Twin(<<b, f>>) = <<alternate(b, f), f>>
  BY DEF Twin
<1> QED
  BY <1>1, <1>2, OneTwin DEF Element

\* Moving a fingerprint from one of its buckets to the other changes no count.
LEMMA CountMove ==
  ASSUME NEW t \in Tables, NEW b \in Bucket, NEW f \in Fp, t[b][f] > 0
  PROVE  /\ With(Without(t, b, f), alternate(b, f), f) \in Tables
         /\ \A x \in Element :
              Count(With(Without(t, b, f), alternate(b, f), f), x) = Count(t, x)
<1>1. Without(t, b, f) \in Tables /\ alternate(b, f) \in Bucket
  BY CountWithout, OtherBucket
<1>2. \A x \in Element : /\ Count(t, x) \in Nat /\ One(<<b, f>>, x) \in Nat
                         /\ One(<<alternate(b, f), f>>, x) = One(<<b, f>>, x)
  BY CountNat, OtherBucket DEF One
<1> QED
  BY <1>1, <1>2, CountWith, CountWithout

\* Swapping f for the evicted g in bucket b.
LEMMA CountSwap ==
  ASSUME NEW t \in Tables, NEW b \in Bucket, NEW f \in Fp, NEW g \in Fp, t[b][g] > 0
  PROVE  /\ With(Without(t, b, g), b, f) \in Tables
         /\ \A x \in Element :
              Count(With(Without(t, b, g), b, f), x)
                = Count(t, x) - One(<<b, g>>, x) + One(<<b, f>>, x)
BY CountWith, CountWithout

-----------------------------------------------------------------------------
\* The fingerprints in the table and the one in the hand are always such.
THEOREM TypesHold == Spec => []Types
<1>1. Init => Types
  BY EmptyTable DEF Init, Types
<1>2. Types /\ [Next]_vars => Types'
  <2> SUFFICES ASSUME Types, [Next]_vars
               PROVE  Types'
    OBVIOUS
  <2> USE DEF Types
  <2>1. ASSUME NEW t \in Tables, NEW b \in Bucket, NEW f \in Fp, Placed(t, b, f)
        PROVE  Types'
    BY <2>1, CountWith DEF Placed
  <2>2. ASSUME NEW p \in Bucket, NEW f \in Fp, InsertRoom(p, f)
        PROVE  Types'
    BY <2>1, <2>2, OtherBucket DEF InsertRoom, Emptier
  <2>3. ASSUME NEW p \in Bucket, NEW f \in Fp, InsertKick(p, f)
        PROVE  Types'
    <3>1. PICK b \in {p, alternate(p, f)}, g \in Fp :
            /\ Holds(b, g)
            /\ table' = With(Without(table, b, g), b, f)
            /\ hand' = [fp |-> g, at |-> alternate(b, g), left |-> max_kick_steps]
            /\ failed' = FALSE
      BY <2>3 DEF InsertKick
    <3>2. b \in Bucket /\ table[b][g] > 0 /\ alternate(b, g) \in Bucket
      BY <3>1, OtherBucket DEF Holds
    <3>3. table' \in Tables
      BY <3>1, <3>2, CountSwap
    <3>4. max_kick_steps \in 0 .. max_kick_steps
      BY FilterAssumption
    <3> QED
      BY <3>1, <3>2, <3>3, <3>4
  <2>4. CASE KickDone
    BY <2>1, <2>4, HandKnown DEF KickDone
  <2>5. CASE KickOut
    <3>1. hand.fp \in Fp /\ hand.at \in Bucket
      BY <2>5, HandKnown DEF KickOut
    <3>2. PICK g \in Movable(hand.at) :
            Placed(With(Without(table, hand.at, g), alternate(hand.at, g), g),
                   hand.at, hand.fp)
      BY <2>5 DEF KickOut
    <3>3. g \in Fp /\ table[hand.at][g] > 0
      BY DEF Movable, Holds
    <3>4. With(Without(table, hand.at, g), alternate(hand.at, g), g) \in Tables
      BY <3>1, <3>3, CountMove
    <3> QED
      BY <2>1, <3>1, <3>2, <3>4
  <2>6. CASE KickOn
    <3>1. hand.fp \in Fp /\ hand.at \in Bucket /\ hand.left \in 1 .. max_kick_steps
      BY <2>6, HandKnown, FilterAssumption DEF KickOn
    <3>2. PICK g \in {x \in Fp : Holds(hand.at, x)} :
            /\ table' = With(Without(table, hand.at, g), hand.at, hand.fp)
            /\ hand' = [fp |-> g, at |-> alternate(hand.at, g), left |-> hand.left - 1]
      BY <2>6 DEF KickOn
    <3>3. table[hand.at][g] > 0 /\ alternate(hand.at, g) \in Bucket
      BY <3>1, OtherBucket DEF Holds
    <3>4. table' \in Tables
      BY <3>1, <3>2, <3>3, CountSwap
    <3>5. hand.left - 1 \in 0 .. max_kick_steps
      BY <3>1, FilterAssumption
    <3>6. failed' = failed
      BY <2>6 DEF KickOn
    <3> QED
      BY <3>2, <3>3, <3>4, <3>5, <3>6
  <2>7. CASE GiveUp
    BY <2>7 DEF GiveUp
  <2>8. ASSUME NEW p \in Bucket, NEW f \in Fp, Del(p, f)
        PROVE  Types'
    <3>1. Nearest(p, f) \in Bucket /\ table[Nearest(p, f)][f] > 0
      BY <2>8, OtherBucket DEF Del, Nearest, lookup, Holds
    <3> QED
      BY <2>8, <3>1, CountWithout DEF Del
  <2>9. CASE Clear
    BY <2>9, EmptyTable DEF Clear
  <2>10. CASE UNCHANGED vars
    BY <2>10 DEF vars
  <2> QED
    BY <2>2, <2>3, <2>4, <2>5, <2>6, <2>7, <2>8, <2>9, <2>10 DEF Next, Kick
<1> QED
  BY <1>1, <1>2, PTL DEF Spec

-----------------------------------------------------------------------------
(***************************************************************************)
(* Sizes.                                                                  *)
(***************************************************************************)
LEMMA SlotIn ==
  ASSUME NEW c \in [Fp -> Nat]
  PROVE  /\ Slots(c) \subseteq Fp \X Nat
         /\ \A g \in Fp, i \in Nat : <<g, i>> \in Slots(c) <=> i \in 1 .. c[g]
BY DEF Slots

LEMMA FullSlotIn ==
  ASSUME NEW t \in Tables
  PROVE  /\ FullSlots(t) \subseteq Bucket \X (Fp \X Nat)
         /\ \A b \in Bucket, s \in Fp \X Nat :
              <<b, s>> \in FullSlots(t) <=> s \in Slots(t[b])
<1>1. \A b \in Bucket : Slots(t[b]) \subseteq Fp \X Nat
  BY SlotIn DEF Tables
<1> QED
  BY <1>1 DEF FullSlots

Finite(t) == IsFiniteSet(FullSlots(t)) /\ \A b \in Bucket : IsFiniteSet(Slots(t[b]))

LoadIn(t, b) == Cardinality(Slots(t[b]))

\* One more slot is full, of bucket b and of the whole table.
LEMMA SizeWith ==
  ASSUME NEW t \in Tables, NEW b \in Bucket, NEW f \in Fp, Finite(t)
  PROVE  /\ With(t, b, f) \in Tables /\ Finite(With(t, b, f))
         /\ \A p \in Bucket : LoadIn(With(t, b, f), p) = LoadIn(t, p) + (IF p = b THEN 1 ELSE 0)
         /\ Cardinality(FullSlots(With(t, b, f))) = Cardinality(FullSlots(t)) + 1
<1> DEFINE u == With(t, b, f)
           s == <<f, t[b][f] + 1>>
<1>1. u \in Tables
  BY CountWith
<1>2. \A p \in Bucket, g \in Fp : u[p][g] = IF p = b /\ g = f THEN t[p][g] + 1 ELSE t[p][g]
  BY DEF With, Tables
<1>3. \A p \in Bucket, g \in Fp : t[p][g] \in Nat /\ u[p][g] \in Nat
  BY <1>1 DEF Tables
<1>4. \A p \in Bucket : t[p] \in [Fp -> Nat] /\ u[p] \in [Fp -> Nat]
  BY <1>1 DEF Tables
<1>5. s \in Fp \X Nat /\ s \notin Slots(t[b])
  BY <1>3, <1>4, SlotIn
<1> HIDE DEF u
<1>6. Slots(u[b]) = Slots(t[b]) \cup {s}
  <2>1. ASSUME NEW g \in Fp, NEW i \in Nat
        PROVE  <<g, i>> \in Slots(u[b]) <=> <<g, i>> \in Slots(t[b]) \/ <<g, i>> = s
    <3>1. <<g, i>> \in Slots(u[b]) <=> i \in 1 .. u[b][g]
      BY <1>4, SlotIn
    <3>2. <<g, i>> \in Slots(t[b]) <=> i \in 1 .. t[b][g]
      BY <1>4, SlotIn
    <3> QED
      BY <3>1, <3>2, <1>2, <1>3
  <2>2. Slots(u[b]) \subseteq Fp \X Nat /\ Slots(t[b]) \subseteq Fp \X Nat
    BY <1>4, SlotIn
  <2> QED
    BY <2>1, <2>2, <1>5
<1> HIDE DEF s
<1>7. \A p \in Bucket : p # b => Slots(u[p]) = Slots(t[p])
  <2> SUFFICES ASSUME NEW p \in Bucket, p # b PROVE u[p] = t[p]
    OBVIOUS
  <2> QED
    BY <1>2, <1>4
<1>8. FullSlots(u) = FullSlots(t) \cup {<<b, s>>} /\ <<b, s>> \notin FullSlots(t)
  <2>1. ASSUME NEW p \in Bucket, NEW r \in Fp \X Nat
        PROVE  <<p, r>> \in FullSlots(u) <=> <<p, r>> \in FullSlots(t) \/ <<p, r>> = <<b, s>>
    <3>1. <<p, r>> \in FullSlots(u) <=> r \in Slots(u[p])
      BY <1>1, FullSlotIn
    <3>2. <<p, r>> \in FullSlots(t) <=> r \in Slots(t[p])
      BY FullSlotIn
    <3> QED
      BY <3>1, <3>2, <1>6, <1>7
  <2>2. FullSlots(u) \subseteq Bucket \X (Fp \X Nat) /\ FullSlots(t) \subseteq Bucket \X (Fp \X Nat)
    BY <1>1, FullSlotIn
  <2>3. <<b, s>> \notin FullSlots(t)
    BY <1>5, FullSlotIn
  <2> QED
    BY <2>1, <2>2, <2>3, <1>5
<1>9. Finite(u)
  <2>1. IsFiniteSet(FullSlots(u))
    BY <1>8, FS_AddElement DEF Finite
  <2>2. IsFiniteSet(Slots(u[b]))
    BY <1>6, FS_AddElement DEF Finite
  <2> QED
    BY <2>1, <2>2, <1>7 DEF Finite
<1>10. Cardinality(Slots(u[b])) = Cardinality(Slots(t[b])) + 1
  BY <1>5, <1>6, FS_AddElement DEF Finite
<1>11. Cardinality(FullSlots(u)) = Cardinality(FullSlots(t)) + 1
  BY <1>8, FS_AddElement DEF Finite
<1>12. \A p \in Bucket : Cardinality(Slots(t[p])) \in Nat
  BY FS_CardinalityType DEF Finite
<1>13. \A p \in Bucket : LoadIn(u, p) = LoadIn(t, p) + (IF p = b THEN 1 ELSE 0)
  BY <1>7, <1>10, <1>12 DEF LoadIn
<1> QED
  BY <1>1, <1>9, <1>11, <1>13 DEF u

LEMMA SizeNat ==
  ASSUME NEW t \in Tables, Finite(t)
  PROVE  /\ \A p \in Bucket : LoadIn(t, p) \in Nat
         /\ Cardinality(FullSlots(t)) \in Nat
BY FS_CardinalityType DEF Finite, LoadIn

\* One slot less is full.
LEMMA SizeWithout ==
  ASSUME NEW t \in Tables, NEW b \in Bucket, NEW f \in Fp, Finite(t), t[b][f] > 0
  PROVE  /\ Without(t, b, f) \in Tables /\ Finite(Without(t, b, f))
         /\ \A p \in Bucket : LoadIn(t, p) = LoadIn(Without(t, b, f), p) + (IF p = b THEN 1 ELSE 0)
         /\ Cardinality(FullSlots(t)) = Cardinality(FullSlots(Without(t, b, f))) + 1
<1> DEFINE u == Without(t, b, f)
<1>1. u \in Tables /\ t = With(u, b, f)
  <2>1. u \in Tables
    BY CountWithout
  <2>2. \A p \in Bucket, g \in Fp : u[p][g] = IF p = b /\ g = f THEN t[p][g] - 1 ELSE t[p][g]
    BY DEF Without, Tables
  <2> HIDE DEF u
  <2>3. \A p \in Bucket, g \in Fp : With(u, b, f)[p][g] = t[p][g]
    BY <2>1, <2>2 DEF With, Tables
  <2>4. With(u, b, f) \in Tables
    BY <2>1, CountWith
  <2> QED
    BY <2>1, <2>3, <2>4 DEF Tables
<1>2. \A p \in Bucket, g \in Fp : u[p][g] \in Nat /\ t[p][g] \in Nat /\ u[p][g] <= t[p][g]
  BY <1>1 DEF Without, Tables
<1> HIDE DEF u
<1>3. \A p \in Bucket : Slots(u[p]) \subseteq Slots(t[p])
  <2> SUFFICES ASSUME NEW p \in Bucket PROVE Slots(u[p]) \subseteq Slots(t[p])
    OBVIOUS
  <2>1. u[p] \in [Fp -> Nat] /\ t[p] \in [Fp -> Nat]
    BY <1>1 DEF Tables
  <2>2. \A g \in Fp, i \in Nat : <<g, i>> \in Slots(u[p]) => <<g, i>> \in Slots(t[p])
    BY <2>1, <1>2, SlotIn
  <2> QED
    BY <2>1, <2>2, SlotIn
<1>4. FullSlots(u) \subseteq FullSlots(t)
  BY <1>1, <1>3, FullSlotIn
<1>5. Finite(u)
  BY <1>3, <1>4, FS_Subset DEF Finite
<1> QED
  BY <1>1, <1>5, SizeWith DEF u

\* Moving a fingerprint, and swapping two.
LEMMA SizeMove ==
  ASSUME NEW t \in Tables, NEW b \in Bucket, NEW f \in Fp, NEW p \in Bucket, NEW g \in Fp,
         Finite(t), t[b][f] > 0
  PROVE  /\ With(Without(t, b, f), p, g) \in Tables /\ Finite(With(Without(t, b, f), p, g))
         /\ \A q \in Bucket :
              LoadIn(With(Without(t, b, f), p, g), q) + (IF q = b THEN 1 ELSE 0)
                = LoadIn(t, q) + (IF q = p THEN 1 ELSE 0)
         /\ Cardinality(FullSlots(With(Without(t, b, f), p, g))) = Cardinality(FullSlots(t))
<1> DEFINE u == Without(t, b, f)
<1>1. u \in Tables /\ Finite(u)
  BY SizeWithout
<1>2. \A q \in Bucket : LoadIn(t, q) = LoadIn(u, q) + (IF q = b THEN 1 ELSE 0)
  BY SizeWithout
<1>3. Cardinality(FullSlots(t)) = Cardinality(FullSlots(u)) + 1
  BY SizeWithout
<1> HIDE DEF u
<1>4. With(u, p, g) \in Tables /\ Finite(With(u, p, g))
  BY <1>1, SizeWith
<1>5. \A q \in Bucket : LoadIn(With(u, p, g), q) = LoadIn(u, q) + (IF q = p THEN 1 ELSE 0)
  BY <1>1, SizeWith
<1>6. Cardinality(FullSlots(With(u, p, g))) = Cardinality(FullSlots(u)) + 1
  BY <1>1, SizeWith
<1>7. \A q \in Bucket : LoadIn(u, q) \in Nat /\ LoadIn(t, q) \in Nat
  BY <1>1, SizeNat
<1> QED
  BY <1>2, <1>3, <1>4, <1>5, <1>6, <1>7 DEF u

LEMMA SizeEmpty ==
  /\ Empty \in Tables /\ Finite(Empty)
  /\ \A p \in Bucket : LoadIn(Empty, p) = 0
  /\ Cardinality(FullSlots(Empty)) = 0
<1>1. Empty \in Tables
  BY EmptyTable
<1>2. \A p \in Bucket : Slots(Empty[p]) = {}
  <2> SUFFICES ASSUME NEW p \in Bucket PROVE Slots(Empty[p]) = {}
    OBVIOUS
  <2>1. Empty[p] \in [Fp -> Nat] /\ \A g \in Fp : Empty[p][g] = 0
    BY <1>1 DEF Empty, Tables
  <2> QED
    BY <2>1, SlotIn
<1>3. FullSlots(Empty) = {}
  BY <1>1, <1>2, FullSlotIn
<1> QED
  BY <1>1, <1>2, <1>3, FS_EmptySet DEF Finite, LoadIn

\* The filter is as full as it says, and no bucket has more than m fingerprints.
Sized ==
  /\ Types
  /\ Finite(table)
  /\ \A b \in Bucket : LoadIn(table, b) <= m
  /\ filled_cell = Cardinality(FullSlots(table))

\* An insertion that ends in bucket b, where there is room.
LEMMA PlacedSized ==
  ASSUME NEW t \in Tables, Finite(t), NEW b \in Bucket, NEW f \in Fp, Placed(t, b, f),
         \A p \in Bucket : LoadIn(t, p) <= m, LoadIn(t, b) < m,
         filled_cell = Cardinality(FullSlots(t))
  PROVE  Sized'
<1>1. Types'
  BY SizeWith DEF Placed, Types
<1>2. \A p \in Bucket : LoadIn(t, p) \in Nat
  BY SizeNat
<1>3. \A p \in Bucket : LoadIn(table', p) <= m
  BY <1>2, SizeWith, FilterAssumption DEF Placed
<1>4. Finite(table') /\ filled_cell' = Cardinality(FullSlots(table'))
  BY SizeWith DEF Placed
<1>5. \A p \in Bucket : LoadIn(table', p) = LoadIn(table, p)'
  BY DEF LoadIn
<1> QED
  BY <1>1, <1>3, <1>4, <1>5 DEF Sized, Finite, FullSlots, LoadIn

\* An eviction: f takes the slot of g.
LEMMA SwapSized ==
  ASSUME Sized, NEW b \in Bucket, NEW f \in Fp, NEW g \in Fp, table[b][g] > 0,
         table' = With(Without(table, b, g), b, f), UNCHANGED filled_cell, Types'
  PROVE  Sized'
<1>1. /\ table \in Tables /\ Finite(table) /\ filled_cell = Cardinality(FullSlots(table))
      /\ \A p \in Bucket : LoadIn(table, p) <= m
  BY DEF Sized, Types
<1>2. Finite(table') /\ Cardinality(FullSlots(table')) = filled_cell
  BY <1>1, SizeMove
<1>3. \A p \in Bucket : /\ LoadIn(table', p) + (IF p = b THEN 1 ELSE 0)
                             = LoadIn(table, p) + (IF p = b THEN 1 ELSE 0)
                        /\ LoadIn(table, p) \in Nat
  BY <1>1, SizeMove, SizeNat
<1>4. \A p \in Bucket : LoadIn(table', p) \in Nat
  <2>1. table' \in Tables
    BY DEF Types
  <2> QED
    BY <2>1, <1>2, SizeNat
<1>5. \A p \in Bucket : LoadIn(table', p) <= m
  BY <1>1, <1>3, <1>4, FilterAssumption
<1> QED
  BY <1>2, <1>5 DEF Sized, Finite, FullSlots, LoadIn

THEOREM SizesHold == Spec => []Sized
<1>1. Init => Sized
  <2> SUFFICES ASSUME Init
               PROVE  Sized
    OBVIOUS
  <2>1. Types
    BY EmptyTable DEF Init, Types
  <2>2. Finite(table) /\ filled_cell = Cardinality(FullSlots(table))
    BY SizeEmpty DEF Init
  <2>3. \A p \in Bucket : LoadIn(table, p) <= m
    <3>1. \A p \in Bucket : LoadIn(table, p) = 0
      BY SizeEmpty DEF Init
    <3>2. m \in Nat
      BY FilterAssumption
    <3> QED
      BY <3>1, <3>2
  <2> QED
    BY <2>1, <2>2, <2>3 DEF Sized
<1>2. Sized /\ Types' /\ [Next]_vars => Sized'
  <2> SUFFICES ASSUME Sized, Types', [Next]_vars
               PROVE  Sized'
    OBVIOUS
  <2>1. /\ table \in Tables /\ Finite(table) /\ filled_cell = Cardinality(FullSlots(table))
        /\ \A p \in Bucket : LoadIn(table, p) <= m
        /\ Types
    BY DEF Sized, Types
  <2>2. ASSUME NEW b \in Bucket
        PROVE  HasRoom(b) <=> LoadIn(table, b) < m
    BY DEF HasRoom, Load, LoadIn
  <2>3. ASSUME NEW p \in Bucket, NEW f \in Fp, InsertRoom(p, f)
        PROVE  Sized'
    <3>1. PICK b \in Bucket : HasRoom(b) /\ Placed(table, b, f)
      BY <2>3, OtherBucket DEF InsertRoom, Emptier
    <3> QED
      BY <3>1, <2>1, <2>2, PlacedSized
  <2>4. ASSUME NEW p \in Bucket, NEW f \in Fp, InsertKick(p, f)
        PROVE  Sized'
    <3>1. PICK b \in {p, alternate(p, f)}, g \in Fp :
            Holds(b, g) /\ table' = With(Without(table, b, g), b, f)
      BY <2>4 DEF InsertKick
    <3>2. b \in Bucket /\ table[b][g] > 0
      BY <3>1, OtherBucket DEF Holds
    <3> QED
      BY <2>4, <3>1, <3>2, SwapSized DEF InsertKick
  <2>5. CASE KickDone
    <3>1. hand.fp \in Fp /\ hand.at \in Bucket
      BY <2>1, <2>5, HandKnown DEF KickDone
    <3> QED
      BY <2>1, <2>2, <2>5, <3>1, PlacedSized DEF KickDone
  <2>6. CASE KickOut
    <3>1. hand.fp \in Fp /\ hand.at \in Bucket
      BY <2>1, <2>6, HandKnown DEF KickOut
    <3>2. PICK g \in Movable(hand.at) :
            Placed(With(Without(table, hand.at, g), alternate(hand.at, g), g),
                   hand.at, hand.fp)
      BY <2>6 DEF KickOut
    <3> DEFINE a == hand.at
               q == alternate(a, g)
               t == With(Without(table, a, g), q, g)
    <3>3. g \in Fp /\ table[a][g] > 0 /\ q \in Bucket /\ LoadIn(table, q) < m
      BY <3>1, <2>2, OtherBucket DEF Movable, Holds
    <3>4. ~(LoadIn(table, a) < m)
      BY <2>2, <2>6, <3>1 DEF KickOut
    <3>5. t \in Tables /\ Finite(t) /\ Cardinality(FullSlots(t)) = filled_cell
      BY <2>1, <3>1, <3>3, SizeMove
    <3>6. \A p \in Bucket : LoadIn(t, p) + (IF p = a THEN 1 ELSE 0)
                               = LoadIn(table, p) + (IF p = q THEN 1 ELSE 0)
      BY <2>1, <3>1, <3>3, SizeMove
    <3>7. \A p \in Bucket : LoadIn(t, p) \in Nat /\ LoadIn(table, p) \in Nat
      BY <2>1, <3>5, SizeNat
    <3> HIDE DEF t, q
    <3>8. \A p \in Bucket : LoadIn(t, p) <= m
      BY <2>1, <3>1, <3>3, <3>4, <3>6, <3>7, FilterAssumption
    <3>9. LoadIn(t, a) < m
      BY <2>1, <3>1, <3>3, <3>4, <3>6, <3>7, FilterAssumption
    <3> QED
      BY <3>1, <3>2, <3>5, <3>8, <3>9, PlacedSized DEF t, q
  <2>7. CASE KickOn
    <3>1. hand.fp \in Fp /\ hand.at \in Bucket
      BY <2>1, <2>7, HandKnown DEF KickOn
    <3>2. PICK g \in Fp : Holds(hand.at, g) /\ table' = With(Without(table, hand.at, g), hand.at, hand.fp)
      BY <2>7 DEF KickOn
    <3> QED
      BY <2>7, <3>1, <3>2, SwapSized DEF KickOn, Holds
  <2>8. CASE GiveUp
    BY <2>8 DEF GiveUp, Sized, Finite, LoadIn, FullSlots
  <2>9. ASSUME NEW p \in Bucket, NEW f \in Fp, Del(p, f)
        PROVE  Sized'
    <3>1. Nearest(p, f) \in Bucket /\ table[Nearest(p, f)][f] > 0
      BY <2>9, OtherBucket DEF Del, Nearest, lookup, Holds
    <3> DEFINE b == Nearest(p, f)
               t == Without(table, b, f)
    <3>2. /\ Finite(t) /\ t \in Tables
          /\ \A q \in Bucket : LoadIn(table, q) = LoadIn(t, q) + (IF q = b THEN 1 ELSE 0)
          /\ filled_cell = Cardinality(FullSlots(t)) + 1
      BY <2>1, <3>1, SizeWithout
    <3>3. table' = t /\ filled_cell' = filled_cell - 1
      BY <2>9 DEF Del
    <3> HIDE DEF t, b
    <3>4. \A q \in Bucket : LoadIn(t, q) \in Nat
      BY <3>2, SizeNat
    <3>5. Cardinality(FullSlots(t)) \in Nat
      BY <3>2, SizeNat
    <3>6. \A q \in Bucket : LoadIn(t, q) <= m
      BY <2>1, <3>2, <3>4, FilterAssumption
    <3>7. filled_cell' = Cardinality(FullSlots(t))
      BY <3>2, <3>3, <3>5
    <3> QED
      BY <3>2, <3>3, <3>6, <3>7 DEF Sized, Finite, FullSlots, LoadIn
  <2>10. CASE Clear
    BY <2>10, SizeEmpty, FilterAssumption DEF Clear, Sized, Finite, FullSlots, LoadIn
  <2>11. CASE UNCHANGED vars
    BY <2>11 DEF vars, Sized, Finite, FullSlots, LoadIn
  <2> QED
    BY <2>3, <2>4, <2>5, <2>6, <2>7, <2>8, <2>9, <2>10, <2>11 DEF Next, Kick
<1> QED
  BY <1>1, <1>2, TypesHold, PTL DEF Spec

\* No bucket is overfilled, by insertions or by evictions.
THEOREM TypeCorrect == Spec => []TypeOK
<1>1. Sized => TypeOK
  <2> SUFFICES ASSUME Sized PROVE TypeOK
    OBVIOUS
  <2>1. table \in Tables /\ Finite(table)
    BY DEF Sized, Types
  <2>2. filled_cell \in Nat
    BY <2>1, SizeNat DEF Sized
  <2> QED
    BY <2>2 DEF Sized, Types, TypeOK, Tables, Load, LoadIn
<1> QED
  BY <1>1, SizesHold, PTL

\* get_load_factor is right through evictions, failures and deletions.
THEOREM LoadFactorIsExact == Spec => []FilledCellExact
<1>1. Sized => FilledCellExact
  BY DEF Sized, FilledCellExact
<1> QED
  BY <1>1, SizesHold, PTL

-----------------------------------------------------------------------------
(***************************************************************************)
(* The refinement.                                                         *)
(***************************************************************************)
\* What an insertion in progress counts for: the fingerprint in the hand.
LEMMA HandCounts ==
  ASSUME Types
  PROVE  \A x \in Element :
           InHand(x) = IF Idle THEN 0 ELSE One(<<hand.at, hand.fp>>, x)
<1>1. ASSUME NEW x \in Element, Idle
      PROVE  InHand(x) = 0
  <2>1. x[2] # 0 /\ Twin(x)[2] # 0
    BY FilterAssumption, TwinTwice DEF Element
  <2> QED
    BY <1>1, <2>1 DEF InHand, Idle
<1>2. ASSUME NEW x \in Element, ~Idle
      PROVE  InHand(x) = One(<<hand.at, hand.fp>>, x)
  <2>1. <<hand.at, hand.fp>> \in Element
    BY <1>2, HandKnown DEF Element
  <2> QED
    BY <2>1, OneTwin DEF InHand, One
<1> QED
  BY <1>1, <1>2

\* held is the count of the table, and of the hand while there is one.
HeldFacts ==
  /\ held = [x \in Element |-> held[x]]
  /\ \A x \in Element :
       /\ held[x] \in Nat
       /\ Idle => held[x] = Count(table, x)
       /\ ~Idle => held[x] = Count(table, x) + One(<<hand.at, hand.fp>>, x)

LEMMA HeldIs == Types => HeldFacts
<1> SUFFICES ASSUME Types
             PROVE  HeldFacts
  OBVIOUS
<1>1. \A x \in Element : /\ Count(table, x) \in Nat
                         /\ One(<<hand.at, hand.fp>>, x) \in Nat
  BY CountNat DEF Types, One
<1> QED
  BY <1>1, HandCounts DEF held, HeldFacts

\* The same of the state after a step.
LEMMA HeldIsNext == Types' => HeldFacts'
BY HeldIs, PTL

\* What is in one of the two buckets is counted.
LEMMA LookupCounts ==
  ASSUME Types, NEW p \in Bucket, NEW f \in Fp
  PROVE  lookup(p, f) <=> Count(table, <<p, f>>) > 0
<1>1. Twin(<<p, f>>) = <<alternate(p, f), f>> /\ alternate(p, f) \in Bucket
  BY FilterAssumption DEF Twin
<1>2. table[p][f] \in Nat /\ table[alternate(p, f)][f] \in Nat
  BY <1>1 DEF Types, Tables
<1> QED
  BY <1>1, <1>2 DEF lookup, Holds, Count

\* LookupExact, for every instance.
THEOREM LookupIsExact == Spec => []LookupExact
<1>1. Types => LookupExact
  <2> SUFFICES ASSUME Types, Idle, NEW e \in Element
               PROVE  lookup(e[1], e[2]) <=> held[e] > 0
    BY DEF LookupExact
  <2>1. e = <<e[1], e[2]>> /\ e[1] \in Bucket /\ e[2] \in Fp
    BY DEF Element
  <2> QED
    BY <2>1, HeldIs, LookupCounts DEF HeldFacts
<1> QED
  BY <1>1, TypesHold, PTL

\* An insertion that has its fingerprint placed, in a step that changes the
\* counts by that fingerprint alone.
LEMMA Adds ==
  ASSUME Types, Types', Idle, NEW e \in Element, failed' = FALSE,
         \A x \in Element : held'[x] = held[x] + One(e, x)
  PROVE  Bag!Next
<1>1. held' = Bag!More(e)
  <2>1. held' = [x \in Element |-> held'[x]]
    BY HeldIsNext DEF HeldFacts
  <2>2. \A x \in Element : held'[x] = IF x \in {e, Twin(e)} THEN held[x] + 1 ELSE held[x]
    BY HeldIs DEF One, HeldFacts
  <2> QED
    BY <2>1, <2>2 DEF Bag!More, Bag!Same
<1>2. (~Idle)' \in BOOLEAN
  BY DEF Idle
<1> QED
  BY <1>1, <1>2 DEF Bag!Next, Bag!Add

\* A fingerprint that is taken out, by a deletion or by a failure.
LEMMA Subtracts ==
  ASSUME Types, Types', NEW e \in Element,
         \A x \in Element : held'[x] = held[x] - One(e, x)
  PROVE  held' = Bag!Less(e)
<1>1. held' = [x \in Element |-> held'[x]]
  BY HeldIsNext DEF HeldFacts
<1>2. \A x \in Element : held'[x] = IF x \in {e, Twin(e)} THEN held[x] - 1 ELSE held[x]
  BY HeldIs DEF One, HeldFacts
<1> QED
  BY <1>1, <1>2 DEF Bag!Less, Bag!Same

\* A step that changes no count.
LEMMA Keeps ==
  ASSUME Types, Types', \A x \in Element : held'[x] = held[x]
  PROVE  held' = held
<1>1. held' = [x \in Element |-> held'[x]] /\ held = [x \in Element |-> held[x]]
  BY HeldIs, HeldIsNext DEF HeldFacts
<1> QED
  BY <1>1

\* The filter refines FilterBag: chains of evictions lose and duplicate
\* nothing, and a failed insertion loses one fingerprint.
THEOREM FilterImplementsBag == Spec => ImplementsBag
<1>1. Init => Bag!Init
  <2> SUFFICES ASSUME Init
               PROVE  Bag!Init
    OBVIOUS
  <2>1. Types /\ Idle
    BY EmptyTable DEF Init, Types, Idle, NoHand
  <2>2. \A x \in Element : held[x] = 0
    BY <2>1, HeldIs, EmptyTable DEF Init, HeldFacts
  <2>3. held = [x \in Element |-> 0]
    BY <2>1, <2>2, HeldIs DEF HeldFacts
  <2> QED
    BY <2>1, <2>3 DEF Init, Bag!Init
<1>2. Types /\ Types' /\ [Next]_vars => [Bag!Next]_Bag!vars
  <2> SUFFICES ASSUME Types, Types', [Next]_vars
               PROVE  Bag!Next \/ UNCHANGED Bag!vars
    OBVIOUS
  <2>1. ASSUME NEW p \in Bucket, NEW f \in Fp, InsertRoom(p, f)
        PROVE  Bag!Next
    <3>1. PICK b \in {p, alternate(p, f)} :
            table' = With(table, b, f) /\ Idle /\ hand' = NoHand /\ failed' = FALSE
      BY <2>1 DEF InsertRoom, Placed, Emptier
    <3>2. Idle' /\ b \in Bucket /\ <<p, f>> \in Element
      BY <3>1, OtherBucket DEF Idle, NoHand
    <3>3. \A x \in Element : Count(table', x) = Count(table, x) + One(<<b, f>>, x)
      BY <3>1, <3>2, CountWith DEF Types
    <3>4. \A x \in Element : One(<<b, f>>, x) = One(<<p, f>>, x)
      BY <3>1, OtherBucket
    <3>5. \A x \in Element : held[x] = Count(table, x) /\ held'[x] = Count(table', x)
      BY <3>1, <3>2, HeldIs, HeldIsNext DEF HeldFacts
    <3> QED
      BY <3>1, <3>2, <3>3, <3>4, <3>5, Adds
  <2>2. ASSUME NEW p \in Bucket, NEW f \in Fp, InsertKick(p, f)
        PROVE  Bag!Next
    <3>1. PICK b \in {p, alternate(p, f)}, g \in Fp :
            /\ Holds(b, g) /\ Idle /\ failed' = FALSE
            /\ table' = With(Without(table, b, g), b, f)
            /\ hand' = [fp |-> g, at |-> alternate(b, g), left |-> max_kick_steps]
      BY <2>2 DEF InsertKick
    <3>2. /\ b \in Bucket /\ table[b][g] > 0 /\ <<p, f>> \in Element
          /\ ~Idle' /\ hand'.at = alternate(b, g) /\ hand'.fp = g
      BY <3>1, OtherBucket, FilterAssumption DEF Holds, Idle
    <3>3. \A x \in Element :
            Count(table', x) = Count(table, x) - One(<<b, g>>, x) + One(<<b, f>>, x)
      BY <3>1, <3>2, CountSwap DEF Types
    <3>4. \A x \in Element :
            /\ One(<<b, f>>, x) = One(<<p, f>>, x)
            /\ One(<<alternate(b, g), g>>, x) = One(<<b, g>>, x)
      BY <3>1, <3>2, OtherBucket
    <3>5. \A x \in Element : /\ held[x] = Count(table, x)
                             /\ held'[x] = Count(table', x) + One(<<b, g>>, x)
      BY <3>1, <3>2, <3>4, HeldIs, HeldIsNext DEF HeldFacts
    <3>6. \A x \in Element : /\ Count(table, x) \in Nat
                             /\ One(<<b, g>>, x) \in Nat /\ One(<<p, f>>, x) \in Nat
      BY CountNat DEF Types, One
    <3>7. \A x \in Element : held'[x] = held[x] + One(<<p, f>>, x)
      BY <3>3, <3>4, <3>5, <3>6
    <3> QED
      BY <3>1, <3>2, <3>7, Adds
  <2>3. ASSUME NEW t \in Tables, \A x \in Element : Count(t, x) = Count(table, x),
               ~Idle, Placed(t, hand.at, hand.fp)
        PROVE  Bag!Next
    <3>1. /\ hand.at \in Bucket /\ hand.fp \in Fp
          /\ table' = With(t, hand.at, hand.fp) /\ Idle' /\ failed' = FALSE
      BY <2>3, HandKnown DEF Placed, Idle, NoHand
    <3>2. \A x \in Element :
            Count(table', x) = Count(table, x) + One(<<hand.at, hand.fp>>, x)
      BY <2>3, <3>1, CountWith
    <3>3. \A x \in Element : held'[x] = held[x]
      BY <2>3, <3>1, <3>2, HeldIs, HeldIsNext DEF HeldFacts
    <3>4. held' = held
      BY <3>3, Keeps
    <3> QED
      BY <2>3, <3>1, <3>4 DEF Bag!Next, Bag!Finish
  <2>4. CASE KickDone
    BY <2>3, <2>4 DEF KickDone, Types
  <2>5. CASE KickOut
    <3>1. ~Idle /\ hand.at \in Bucket
      BY <2>5, HandKnown DEF KickOut
    <3>2. PICK g \in Movable(hand.at) :
            Placed(With(Without(table, hand.at, g), alternate(hand.at, g), g),
                   hand.at, hand.fp)
      BY <2>5 DEF KickOut
    <3>3. g \in Fp /\ table[hand.at][g] > 0
      BY DEF Movable, Holds
    <3> QED
      BY <2>3, <3>1, <3>2, <3>3, CountMove DEF Types
  <2>6. CASE KickOn
    <3>1. ~Idle /\ hand.at \in Bucket /\ hand.fp \in Fp
      BY <2>6, HandKnown DEF KickOn
    <3>2. PICK g \in Fp :
            /\ Holds(hand.at, g) /\ failed' = failed
            /\ table' = With(Without(table, hand.at, g), hand.at, hand.fp)
            /\ hand' = [fp |-> g, at |-> alternate(hand.at, g), left |-> hand.left - 1]
      BY <2>6 DEF KickOn
    <3>3. /\ table[hand.at][g] > 0 /\ ~Idle'
          /\ hand'.at = alternate(hand.at, g) /\ hand'.fp = g
      BY <3>2, FilterAssumption DEF Holds, Idle
    <3>4. \A x \in Element :
            Count(table', x) = Count(table, x) - One(<<hand.at, g>>, x)
                                 + One(<<hand.at, hand.fp>>, x)
      BY <3>1, <3>2, <3>3, CountSwap DEF Types
    <3>5. \A x \in Element : One(<<alternate(hand.at, g), g>>, x) = One(<<hand.at, g>>, x)
      BY <3>1, OtherBucket
    <3>6. \A x \in Element :
            /\ held[x] = Count(table, x) + One(<<hand.at, hand.fp>>, x)
            /\ held'[x] = Count(table', x) + One(<<hand.at, g>>, x)
      BY <3>1, <3>3, <3>5, HeldIs, HeldIsNext DEF HeldFacts
    <3>7. \A x \in Element :
            /\ Count(table, x) \in Nat
            /\ One(<<hand.at, g>>, x) \in Nat /\ One(<<hand.at, hand.fp>>, x) \in Nat
      BY CountNat DEF Types, One
    <3>8. held' = held
      BY <3>4, <3>6, <3>7, Keeps
    <3> QED
      BY <3>1, <3>2, <3>3, <3>8 DEF Bag!vars
  <2>7. CASE GiveUp
    <3> DEFINE e == <<hand.at, hand.fp>>
    <3>1. ~Idle /\ e \in Element /\ Idle' /\ failed' = TRUE /\ table' = table
      BY <2>7, HandKnown DEF GiveUp, Idle, NoHand, Element
    <3>2. \A x \in Element : /\ Count(table, x) \in Nat /\ One(e, x) \in Nat
                             /\ One(e, e) = 1
      BY CountNat DEF Types, One
    <3> HIDE DEF e
    <3>3. \A x \in Element : /\ held[x] = Count(table, x) + One(e, x)
                             /\ held'[x] = Count(table, x)
      BY <3>1, HeldIs, HeldIsNext DEF HeldFacts, e
    <3>4. held[e] > 0 /\ held' = Bag!Less(e)
      BY <3>1, <3>2, <3>3, Subtracts
    <3> QED
      BY <3>1, <3>4 DEF Bag!Next, Bag!Lose
  <2>8. ASSUME NEW p \in Bucket, NEW f \in Fp, Del(p, f)
        PROVE  Bag!Next
    <3>1. /\ Idle /\ Idle' /\ failed' = FALSE /\ lookup(p, f)
          /\ table' = Without(table, Nearest(p, f), f)
      BY <2>8 DEF Del, Idle
    <3>2. /\ Nearest(p, f) \in {p, alternate(p, f)} /\ Nearest(p, f) \in Bucket
          /\ table[Nearest(p, f)][f] > 0 /\ <<p, f>> \in Element
      BY <3>1, OtherBucket DEF Nearest, lookup, Holds
    <3>3. \A x \in Element :
            Count(table', x) = Count(table, x) - One(<<Nearest(p, f), f>>, x)
      BY <3>1, <3>2, CountWithout DEF Types
    <3>4. \A x \in Element : One(<<Nearest(p, f), f>>, x) = One(<<p, f>>, x)
      BY <3>2, OtherBucket
    <3>5. \A x \in Element : held[x] = Count(table, x) /\ held'[x] = Count(table', x)
      BY <3>1, HeldIs, HeldIsNext DEF HeldFacts
    <3>6. held[<<p, f>>] > 0
      BY <3>1, <3>2, <3>5, LookupCounts
    <3>7. held' = Bag!Less(<<p, f>>)
      BY <3>2, <3>3, <3>4, <3>5, Subtracts
    <3> QED
      BY <3>1, <3>2, <3>6, <3>7 DEF Bag!Next, Bag!Remove
  <2>9. CASE Clear
    <3>1. Idle /\ Idle' /\ table' = Empty /\ failed' = FALSE
      BY <2>9 DEF Clear, Idle
    <3>2. held' = [x \in Element |-> 0]
      <4>1. held' = [x \in Element |-> held'[x]] /\ \A x \in Element : held'[x] = 0
        BY <3>1, EmptyTable, HeldIsNext DEF HeldFacts
      <4> QED
        BY <4>1
    <3> QED
      BY <3>1, <3>2 DEF Bag!Next, Bag!Clear
  <2>10. CASE UNCHANGED vars
    BY <2>10 DEF vars, Bag!vars, held, InHand, Idle
  <2> QED
    BY <2>1, <2>2, <2>4, <2>5, <2>6, <2>7, <2>8, <2>9, <2>10 DEF Next, Kick
<1> QED
  BY <1>1, <1>2, TypesHold, PTL DEF Spec, ImplementsBag, Bag!Spec

-----------------------------------------------------------------------------
(***************************************************************************)
(* Numbers and their bits.                                                 *)
(***************************************************************************)
\* The table of the powers of two.
LEMMA Powers ==
  /\ Power[0] = 1
  /\ Power[1] = 2
  /\ Power[2] = 4
  /\ Power[3] = 8
  /\ Power[4] = 16
  /\ Power[5] = 32
  /\ Power[6] = 64
  /\ Power[7] = 128
  /\ Power[8] = 256
  /\ Power[9] = 512
  /\ Power[10] = 1024
  /\ Power[11] = 2048
  /\ Power[12] = 4096
  /\ Power[13] = 8192
  /\ Power[14] = 16384
  /\ Power[15] = 32768
  /\ Power[16] = 65536
  /\ Power[17] = 131072
  /\ Power[18] = 262144
  /\ Power[19] = 524288
  /\ Power[20] = 1048576
  /\ Power[21] = 2097152
  /\ Power[22] = 4194304
  /\ Power[23] = 8388608
  /\ Power[24] = 16777216
  /\ Power[25] = 33554432
  /\ Power[26] = 67108864
  /\ Power[27] = 134217728
  /\ Power[28] = 268435456
  /\ Power[29] = 536870912
  /\ Power[30] = 1073741824
BY DEF Power, Width

\* Powers of two are positive, and double with the exponent.
LEMMA PowerIs ==
  /\ \A k \in 0 .. 30 : Power[k] \in Nat \ {0}
  /\ \A k \in 0 .. 29 : Power[k + 1] = 2 * Power[k]
<1>1. \A k \in 0 .. 30 :
        \/ k = 0 \/ k = 1 \/ k = 2 \/ k = 3 \/ k = 4 \/ k = 5 \/ k = 6 \/ k = 7
        \/ k = 8 \/ k = 9 \/ k = 10 \/ k = 11 \/ k = 12 \/ k = 13 \/ k = 14 \/ k = 15
        \/ k = 16 \/ k = 17 \/ k = 18 \/ k = 19 \/ k = 20 \/ k = 21 \/ k = 22 \/ k = 23
        \/ k = 24 \/ k = 25 \/ k = 26 \/ k = 27 \/ k = 28 \/ k = 29 \/ k = 30
  OBVIOUS
<1>2. \A k \in 0 .. 30 : Power[k] \in Nat \ {0}
  BY <1>1, Powers
<1>3. \A k \in 0 .. 29 : Power[k + 1] = 2 * Power[k]
  BY <1>1, Powers
<1> QED
  BY <1>2, <1>3

\* Powers of two grow with the exponent.
LEMMA PowerGrows ==
  ASSUME NEW i \in 0 .. 30, NEW j \in i .. 30
  PROVE  Power[i] <= Power[j]
<1> DEFINE T == {k \in Nat : i + k <= 30 => Power[i] <= Power[i + k]}
<1>1. 0 \in T
  BY PowerIs
<1>2. ASSUME NEW k \in Nat, k \in T
      PROVE  k + 1 \in T
  <2> SUFFICES ASSUME i + (k + 1) <= 30
               PROVE  Power[i] <= Power[i + (k + 1)]
    OBVIOUS
  <2>1. i + k \in 0 .. 29 /\ i + k \in 0 .. 30 /\ (i + k) + 1 = i + (k + 1)
    OBVIOUS
  <2>2. Power[i] <= Power[i + k]
    BY <1>2, <2>1
  <2>3. /\ Power[i] \in Nat /\ Power[i + k] \in Nat
        /\ Power[(i + k) + 1] = 2 * Power[i + k]
    BY <2>1, PowerIs
  <2> QED
    BY <2>1, <2>2, <2>3
<1>3. j - i \in Nat /\ i + (j - i) = j /\ i + (j - i) <= 30
  OBVIOUS
<1>4. j - i \in T
  <2> HIDE DEF T
  <2> QED
    BY <1>1, <1>2, <1>3, Induct
<1> QED
  BY <1>3, <1>4

\* Every number but 0 is between two powers of two.
LEMMA Between ==
  ASSUME NEW v \in Nat \ {0}, v < Power[30]
  PROVE  \E i \in 0 .. 29 : Power[i] <= v /\ v < Power[i + 1]
<1> DEFINE T == {k \in Nat : k <= 30 /\ v < Power[k]
                             => \E i \in 0 .. 29 : Power[i] <= v /\ v < Power[i + 1]}
<1>1. 0 \in T
  BY Powers
<1>2. ASSUME NEW k \in Nat, k \in T
      PROVE  k + 1 \in T
  <2> SUFFICES ASSUME k + 1 <= 30, v < Power[k + 1]
               PROVE  \E i \in 0 .. 29 : Power[i] <= v /\ v < Power[i + 1]
    OBVIOUS
  <2>1. k \in 0 .. 29 /\ k \in 0 .. 30
    OBVIOUS
  <2>2. Power[k] \in Nat
    BY <2>1, PowerIs
  <2>3. CASE v < Power[k]
    BY <1>2, <2>1, <2>3
  <2>4. CASE Power[k] <= v
    BY <2>1, <2>4
  <2> QED
    BY <2>2, <2>3, <2>4
<1>3. 30 \in T
  <2> HIDE DEF T
  <2> QED
    BY <1>1, <1>2, Induct
<1> QED
  BY <1>3

\* A quotient is twice the next one, by double the power, and its last bit.
LEMMA Quotient ==
  ASSUME NEW x \in Nat, NEW i \in 0 .. 29
  PROVE  /\ x \div Power[i] \in Nat /\ x \div Power[i + 1] \in Nat /\ Bit(x, i) \in {0, 1}
         /\ x \div Power[i] = 2 * (x \div Power[i + 1]) + Bit(x, i)
         /\ x \div Power[i + 1] = (x \div Power[i]) \div 2
<1>1. PICK p \in Nat \ {0} : p = Power[i] /\ Power[i + 1] = 2 * p
  <2>1. i \in 0 .. 30
    OBVIOUS
  <2> QED
    BY <2>1, PowerIs
<1>2. PICK y \in Nat : y = x \div p
  OBVIOUS
<1>3. x \div (2 * p) = y \div 2
  BY <1>2
<1>4. y = 2 * (y \div 2) + (y % 2) /\ y \div 2 \in Nat /\ y % 2 \in {0, 1}
  OBVIOUS
<1>5. Bit(x, i) = y % 2
  BY <1>1, <1>2 DEF Bit
<1> QED
  BY <1>1, <1>2, <1>3, <1>4, <1>5

\* The first quotient is the number; it is smaller than a power if the
\* quotient by it is 0, and quotients are in order.
LEMMA QuotientEnds ==
  ASSUME NEW x \in Nat, NEW y \in Nat, NEW i \in 0 .. 30
  PROVE  /\ x \div Power[i] \in Nat /\ x \div Power[0] = x
         /\ x < Power[i] <=> x \div Power[i] = 0
         /\ x < y => x \div Power[i] <= y \div Power[i]
         /\ x \div Power[i] < y \div Power[i] => x < y
         /\ x \div Power[i] = 1 => Power[i] <= x
         /\ Power[i] <= x /\ x < 2 * Power[i] => x \div Power[i] = 1
         /\ 0 \div Power[i] = 0
<1>1. PICK p \in Nat \ {0} : p = Power[i]
  BY PowerIs
<1>2. x \div 1 = x
  OBVIOUS
<1>3. x \div p \in Nat
  OBVIOUS
<1>4. x < p <=> x \div p = 0
  OBVIOUS
<1>5. x < y => x \div p <= y \div p
  OBVIOUS
<1>6. x \div p = 1 => p <= x
  OBVIOUS
<1>7. p <= x /\ x < 2 * p => x \div p = 1
  OBVIOUS
<1>8. 0 \div p = 0
  OBVIOUS
<1>9. x \div p < y \div p => x < y
  OBVIOUS
<1> QED
  BY <1>1, <1>2, <1>3, <1>4, <1>5, <1>6, <1>7, <1>8, <1>9, Powers

LEMMA BitOfZero ==
  ASSUME NEW i \in 0 .. 29
  PROVE  Bit(0, i) = 0
<1>1. 0 \div Power[i] = 0
  <2>1. i \in 0 .. 30 /\ 0 \in Nat
    OBVIOUS
  <2> QED
    BY <2>1, QuotientEnds, Zenon
<1> QED
  BY <1>1 DEF Bit

\* Two numbers with the same bits from j on have the same quotient there.
LEMMA SameBits ==
  ASSUME NEW x \in Nat, NEW y \in Nat, x < Power[30], y < Power[30], NEW j \in 0 .. 30,
         \A i \in j .. 29 : Bit(x, i) = Bit(y, i)
  PROVE  x \div Power[j] = y \div Power[j]
<1> DEFINE T == {k \in Nat : k <= 30 - j => x \div Power[30 - k] = y \div Power[30 - k]}
<1>1. 0 \in T
  <2>1. 30 \in 0 .. 30 /\ 30 - 0 = 30
    OBVIOUS
  <2>2. x \div Power[30] = 0 /\ y \div Power[30] = 0
    BY <2>1, QuotientEnds
  <2> QED
    BY <2>1, <2>2
<1>2. ASSUME NEW k \in Nat, k \in T
      PROVE  k + 1 \in T
  <2> SUFFICES ASSUME k + 1 <= 30 - j
               PROVE  x \div Power[30 - (k + 1)] = y \div Power[30 - (k + 1)]
    OBVIOUS
  <2>1. PICK i \in 0 .. 29 : i = 30 - (k + 1) /\ i + 1 = 30 - k /\ i \in j .. 29
    <3>1. 30 - (k + 1) \in 0 .. 29 /\ 30 - (k + 1) \in j .. 29 /\ (30 - (k + 1)) + 1 = 30 - k
      OBVIOUS
    <3> QED
      BY <3>1
  <2>2. x \div Power[i + 1] = y \div Power[i + 1]
    BY <1>2, <2>1
  <2>3. Bit(x, i) = Bit(y, i)
    BY <2>1
  <2>4. x \div Power[i] = 2 * (x \div Power[i + 1]) + Bit(x, i)
    BY Quotient, Zenon
  <2>5. y \div Power[i] = 2 * (y \div Power[i + 1]) + Bit(y, i)
    BY Quotient, Zenon
  <2>6. x \div Power[i] = y \div Power[i]
    BY <2>2, <2>3, <2>4, <2>5, Zenon
  <2> QED
    BY <2>1, <2>6
<1>3. 30 - j \in T
  <2>1. 30 - j \in Nat
    OBVIOUS
  <2> HIDE DEF T
  <2> QED
    BY <1>1, <1>2, <2>1, Induct
<1>4. 30 - (30 - j) = j
  OBVIOUS
<1> QED
  BY <1>3, <1>4

\* And two numbers with the same quotient the same bits.
LEMMA SameQuotient ==
  ASSUME NEW x \in Nat, NEW y \in Nat, NEW j \in 0 .. 30,
         x \div Power[j] = y \div Power[j]
  PROVE  \A i \in j .. 29 : Bit(x, i) = Bit(y, i)
<1> DEFINE T == {k \in Nat : j + k <= 30 => x \div Power[j + k] = y \div Power[j + k]}
<1>1. 0 \in T
  OBVIOUS
<1>2. ASSUME NEW k \in Nat, k \in T
      PROVE  k + 1 \in T
  <2> SUFFICES ASSUME j + (k + 1) <= 30
               PROVE  x \div Power[j + (k + 1)] = y \div Power[j + (k + 1)]
    OBVIOUS
  <2>1. PICK i \in 0 .. 29 : i = j + k /\ i + 1 = j + (k + 1)
    <3>1. j + k \in 0 .. 29 /\ (j + k) + 1 = j + (k + 1)
      OBVIOUS
    <3> QED
      BY <3>1
  <2>2. x \div Power[i] = y \div Power[i]
    BY <1>2, <2>1
  <2>3. x \div Power[i + 1] = (x \div Power[i]) \div 2
    BY Quotient, Zenon
  <2>4. y \div Power[i + 1] = (y \div Power[i]) \div 2
    BY Quotient, Zenon
  <2>5. x \div Power[i + 1] = y \div Power[i + 1]
    BY <2>2, <2>3, <2>4, Zenon
  <2> QED
    BY <2>1, <2>5
<1>3. Nat \subseteq T
  <2> HIDE DEF T
  <2> QED
    BY <1>1, <1>2, Induct
<1> SUFFICES ASSUME NEW i \in j .. 29
             PROVE  Bit(x, i) = Bit(y, i)
  OBVIOUS
<1>4. i - j \in Nat /\ j + (i - j) = i /\ i \in 0 .. 29
  OBVIOUS
<1>5. x \div Power[i] = y \div Power[i]
  BY <1>3, <1>4
<1> QED
  BY <1>5 DEF Bit

\* The number made of bits has these bits.
LEMMA NumIs ==
  ASSUME NEW b \in [0 .. 29 -> {0, 1}]
  PROVE  /\ Num(b) \in Nat /\ Num(b) < Power[30]
         /\ \A i \in 0 .. 29 : Bit(Num(b), i) = b[i]
<1> DEFINE eqn(f) == [i \in 0 .. Width |-> IF i = Width THEN 0 ELSE 2 * f[i + 1] + b[i]]
           from == CHOOSE f : f = eqn(f)
           step == [p \in Nat \X Nat |-> IF p[1] <= 29 THEN 2 * p[2] + b[29 - p[1]] ELSE 0]
<1>1. step \in [Nat \X Nat -> Nat]
  <2>1. \A k \in Nat : k <= 29 => 29 - k \in 0 .. 29
    OBVIOUS
  <2>2. \A k \in Nat : k <= 29 => b[29 - k] \in Nat
    BY <2>1
  <2>3. \A k, v \in Nat : (IF k <= 29 THEN 2 * v + b[29 - k] ELSE 0) \in Nat
    BY <2>2
  <2> QED
    BY <2>3
<1>2. PICK h \in Recursive(Nat, 0, step) : TRUE
  <2>1. 0 \in Nat
    OBVIOUS
  <2> HIDE DEF step
  <2> QED
    BY <1>1, <2>1, Recursion
<1>3. h \in [Nat -> Nat] /\ h[0] = 0 /\ \A k \in Nat : h[k + 1] = step[<<k, h[k]>>]
  <2> HIDE DEF step
  <2> QED
    BY <1>2 DEF Recursive
<1> DEFINE g == [i \in 0 .. 30 |-> h[30 - i]]
<1>4. ASSUME NEW i \in 0 .. 29
      PROVE  g[i] = 2 * g[i + 1] + b[i]
  <2>1. PICK k \in Nat : k = 29 - i /\ k <= 29 /\ k + 1 = 30 - i /\ k = 30 - (i + 1) /\ 29 - k = i
    <3>1. 29 - i \in Nat /\ 29 - i <= 29 /\ (29 - i) + 1 = 30 - i /\ 29 - i = 30 - (i + 1)
          /\ 29 - (29 - i) = i
      OBVIOUS
    <3> QED
      BY <3>1
  <2>2. h[k] \in Nat /\ h[k + 1] = step[<<k, h[k]>>]
    BY <1>3
  <2>3. h[k + 1] = 2 * h[k] + b[i]
    BY <2>1, <2>2
  <2>4. g[i] = h[k + 1] /\ g[i + 1] = h[k]
    <3>1. i \in 0 .. 30 /\ i + 1 \in 0 .. 30
      OBVIOUS
    <3> QED
      BY <2>1, <3>1
  <2> QED
    BY <2>3, <2>4
<1>5. g[30] = 0
  BY <1>3
<1>6. g = eqn(g)
  <2>1. g = [i \in 0 .. 30 |-> g[i]]
    OBVIOUS
  <2>2. \A i \in 0 .. 30 : i = 30 \/ (i # 30 /\ i \in 0 .. 29)
    OBVIOUS
  <2> HIDE DEF g
  <2> QED
    BY <1>4, <1>5, <2>1, <2>2 DEF Width
<1>7. from = eqn(from)
  <2> HIDE DEF eqn, g
  <2> QED
    BY <1>6
<1>8. Num(b) = from[0]
  BY DEF Num
<1> HIDE DEF from, g, step
<1>9. from[30] = 0 /\ \A i \in 0 .. 29 : from[i] = 2 * from[i + 1] + b[i]
  <2>1. \A i \in 0 .. 29 : i \in 0 .. 30 /\ i # 30
    OBVIOUS
  <2> QED
    BY <1>7, <2>1 DEF Width
<1> HIDE DEF eqn
<1>10. \A i \in 0 .. 30 : from[i] \in Nat
  <2> DEFINE T == {k \in Nat : k <= 30 => from[30 - k] \in Nat}
  <2>1. 0 \in T
    BY <1>9
  <2>2. ASSUME NEW k \in Nat, k \in T
        PROVE  k + 1 \in T
    <3> SUFFICES ASSUME k + 1 <= 30
                 PROVE  from[30 - (k + 1)] \in Nat
      OBVIOUS
    <3>1. PICK i \in 0 .. 29 : i = 30 - (k + 1) /\ i + 1 = 30 - k
      <4>1. 30 - (k + 1) \in 0 .. 29 /\ (30 - (k + 1)) + 1 = 30 - k
        OBVIOUS
      <4> QED
        BY <4>1
    <3>2. from[i + 1] \in Nat /\ b[i] \in Nat
      BY <2>2, <3>1
    <3> QED
      BY <1>9, <3>1, <3>2
  <2>3. Nat \subseteq T
    <3> HIDE DEF T
    <3> QED
      BY <2>1, <2>2, Induct
  <2> SUFFICES ASSUME NEW i \in 0 .. 30
               PROVE  from[i] \in Nat
    OBVIOUS
  <2>4. 30 - i \in Nat /\ 30 - i <= 30 /\ 30 - (30 - i) = i
    OBVIOUS
  <2> QED
    BY <2>3, <2>4
<1> DEFINE x == from[0]
<1>11. x \in Nat
  BY <1>10
<1>12. ASSUME NEW i \in 0 .. 29
       PROVE  from[i] \div 2 = from[i + 1] /\ from[i] % 2 = b[i]
  <2>1. PICK y \in Nat, z \in {0, 1} : y = from[i + 1] /\ z = b[i]
    <3>1. i + 1 \in 0 .. 30
      OBVIOUS
    <3> QED
      BY <1>10, <3>1
  <2>2. (2 * y + z) \div 2 = y /\ (2 * y + z) % 2 = z
    OBVIOUS
  <2> QED
    BY <1>9, <2>1, <2>2
<1>13. \A i \in 0 .. 30 : x \div Power[i] = from[i]
  <2> DEFINE T == {k \in Nat : k <= 30 => x \div Power[k] = from[k]}
  <2>1. 0 \in T
    <3>1. 0 \in 0 .. 30
      OBVIOUS
    <3>2. x \div Power[0] = x
      BY <1>11, <3>1, QuotientEnds, Zenon
    <3> QED
      BY <3>2
  <2>2. ASSUME NEW k \in Nat, k \in T
        PROVE  k + 1 \in T
    <3> SUFFICES ASSUME k + 1 <= 30
                 PROVE  x \div Power[k + 1] = from[k + 1]
      OBVIOUS
    <3>1. k \in 0 .. 29 /\ x \div Power[k] = from[k]
      BY <2>2
    <3> HIDE DEF x
    <3>2. x \div Power[k + 1] = (x \div Power[k]) \div 2
      BY <1>11, <3>1, Quotient
    <3> QED
      BY <1>12, <3>1, <3>2
  <2>3. Nat \subseteq T
    <3> HIDE DEF T
    <3> QED
      BY <2>1, <2>2, Induct
  <2> QED
    BY <2>3
<1> HIDE DEF x
<1>14. x < Power[30]
  <2>1. 30 \in 0 .. 30
    OBVIOUS
  <2>2. x \div Power[30] = 0
    BY <1>9, <1>13, <2>1
  <2> QED
    BY <1>11, <2>1, <2>2, QuotientEnds
<1>15. \A i \in 0 .. 29 : Bit(x, i) = b[i]
  <2>1. \A i \in 0 .. 29 : i \in 0 .. 30
    OBVIOUS
  <2> QED
    BY <1>12, <1>13, <2>1 DEF Bit
<1> QED
  BY <1>8, <1>11, <1>14, <1>15 DEF x

-----------------------------------------------------------------------------
(***************************************************************************)
(* The alternate bucket.                                                   *)
(***************************************************************************)
\* Two numbers below a power of two with the same bits are the same.
LEMMA EqualBits ==
  ASSUME NEW x \in Nat, NEW y \in Nat, x < Power[30], y < Power[30],
         \A i \in 0 .. 29 : Bit(x, i) = Bit(y, i)
  PROVE  x = y
<1>1. 0 \in 0 .. 30
  OBVIOUS
<1>2. x \div Power[0] = y \div Power[0]
  BY <1>1, SameBits, Zenon
<1>3. x \div Power[0] = x /\ y \div Power[0] = y
  BY <1>1, QuotientEnds, Zenon
<1> QED
  BY <1>2, <1>3

\* A number below a power of two has no bits from its exponent on.
LEMMA HighBits ==
  ASSUME NEW x \in Nat, NEW h \in 0 .. 30, x < Power[h]
  PROVE  \A i \in h .. 29 : Bit(x, i) = 0
<1>1. 0 \in Nat
  OBVIOUS
<1>2. x \div Power[h] = 0 \div Power[h]
  BY <1>1, QuotientEnds, Zenon
<1>3. \A i \in h .. 29 : Bit(x, i) = Bit(0, i)
  BY <1>1, <1>2, SameQuotient, Zenon
<1>4. \A i \in h .. 29 : i \in 0 .. 29
  OBVIOUS
<1> QED
  BY <1>3, <1>4, BitOfZero

LEMMA BitIs ==
  ASSUME NEW x \in Nat, NEW i \in 0 .. 29
  PROVE  Bit(x, i) \in {0, 1}
BY Quotient, Zenon

\* pos ^ t has the bits in which the two differ.
LEMMA XorIs ==
  ASSUME NEW v \in Nat, NEW w \in Nat
  PROVE  /\ xor(v, w) \in Nat /\ xor(v, w) < Power[30]
         /\ \A i \in 0 .. 29 : Bit(xor(v, w), i) = (Bit(v, i) + Bit(w, i)) % 2
<1> DEFINE b == [i \in 0 .. 29 |-> (Bit(v, i) + Bit(w, i)) % 2]
<1>1. xor(v, w) = Num(b)
  BY DEF xor, Width
<1>2. ASSUME NEW i \in 0 .. 29
      PROVE  (Bit(v, i) + Bit(w, i)) % 2 \in {0, 1}
  <2>1. PICK x \in {0, 1}, y \in {0, 1} : x = Bit(v, i) /\ y = Bit(w, i)
    BY BitIs
  <2>2. (x + y) % 2 \in {0, 1}
    OBVIOUS
  <2> QED
    BY <2>1, <2>2
<1>3. b \in [0 .. 29 -> {0, 1}]
  BY <1>2
<1>4. \A i \in 0 .. 29 : b[i] = (Bit(v, i) + Bit(w, i)) % 2
  OBVIOUS
<1> HIDE DEF b
<1> QED
  BY <1>1, <1>3, <1>4, NumIs

\* hash & seg has the bits that both have.
LEMMA AndIs ==
  ASSUME NEW v \in Nat, NEW w \in Nat
  PROVE  /\ and(v, w) \in Nat /\ and(v, w) < Power[30]
         /\ \A i \in 0 .. 29 : Bit(and(v, w), i) = Bit(v, i) * Bit(w, i)
<1> DEFINE b == [i \in 0 .. 29 |-> Bit(v, i) * Bit(w, i)]
<1>1. and(v, w) = Num(b)
  BY DEF and, Width
<1>2. ASSUME NEW i \in 0 .. 29
      PROVE  Bit(v, i) * Bit(w, i) \in {0, 1}
  <2>1. PICK x \in {0, 1}, y \in {0, 1} : x = Bit(v, i) /\ y = Bit(w, i)
    BY BitIs
  <2>2. x * y \in {0, 1}
    OBVIOUS
  <2> QED
    BY <2>1, <2>2
<1>3. b \in [0 .. 29 -> {0, 1}]
  BY <1>2
<1>4. \A i \in 0 .. 29 : b[i] = Bit(v, i) * Bit(w, i)
  OBVIOUS
<1> HIDE DEF b
<1> QED
  BY <1>1, <1>3, <1>4, NumIs

\* Flipping the same bits twice changes nothing.
LEMMA XorTwice ==
  ASSUME NEW v \in Nat, v < Power[30], NEW w \in Nat
  PROVE  xor(xor(v, w), w) = v
<1> DEFINE x == xor(v, w)
           y == xor(x, w)
<1>1. x \in Nat /\ \A i \in 0 .. 29 : Bit(x, i) = (Bit(v, i) + Bit(w, i)) % 2
  BY XorIs
<1> HIDE DEF x
<1>2. y \in Nat /\ y < Power[30] /\ \A i \in 0 .. 29 : Bit(y, i) = (Bit(x, i) + Bit(w, i)) % 2
  BY <1>1, XorIs
<1> HIDE DEF y
<1>3. ASSUME NEW i \in 0 .. 29
      PROVE  Bit(y, i) = Bit(v, i)
  <2>1. PICK a \in {0, 1}, c \in {0, 1} : a = Bit(v, i) /\ c = Bit(w, i)
    BY BitIs
  <2>2. (((a + c) % 2) + c) % 2 = a
    OBVIOUS
  <2> QED
    BY <1>1, <1>2, <2>1, <2>2
<1>4. y = v
  BY <1>2, <1>3, EqualBits, Zenon
<1> QED
  BY <1>4 DEF x, y

\* Only equal numbers differ in no bit.
LEMMA XorSame ==
  ASSUME NEW v \in Nat, v < Power[30], NEW w \in Nat, w < Power[30], xor(v, w) = 0
  PROVE  v = w
<1>1. ASSUME NEW i \in 0 .. 29
      PROVE  Bit(v, i) = Bit(w, i)
  <2>1. PICK a \in {0, 1}, c \in {0, 1} : a = Bit(v, i) /\ c = Bit(w, i)
    BY BitIs
  <2>2. Bit(xor(v, w), i) = 0
    BY BitOfZero, Zenon
  <2>3. Bit(xor(v, w), i) = (a + c) % 2
    BY <2>1, XorIs
  <2> QED
    BY <2>1, <2>2, <2>3
<1> QED
  BY <1>1, EqualBits, Zenon

\* Flipping bits changes the number.
LEMMA XorOther ==
  ASSUME NEW v \in Nat, NEW w \in Nat \ {0}, w < Power[30]
  PROVE  xor(v, w) # v
<1> SUFFICES ASSUME xor(v, w) = v
             PROVE  FALSE
  OBVIOUS
<1>1. ASSUME NEW i \in 0 .. 29
      PROVE  Bit(w, i) = Bit(0, i)
  <2>1. PICK a \in {0, 1}, c \in {0, 1} : a = Bit(v, i) /\ c = Bit(w, i)
    <3>1. Bit(v, i) \in {0, 1}
      BY BitIs
    <3>2. Bit(w, i) \in {0, 1}
      BY BitIs
    <3> QED
      BY <3>1, <3>2
  <2>2. Bit(v, i) = (a + c) % 2
    <3>1. w \in Nat
      OBVIOUS
    <3>2. Bit(xor(v, w), i) = (Bit(v, i) + Bit(w, i)) % 2
      BY <3>1, XorIs, Zenon
    <3> QED
      BY <2>1, <3>2
  <2>3. c = 0
    BY <2>1, <2>2
  <2> QED
    BY <2>1, <2>3, BitOfZero
<1>2. 0 \in Nat /\ 0 < Power[30]
  BY Powers
<1>3. w = 0
  BY <1>1, <1>2, EqualBits, Zenon
<1> QED
  BY <1>3

\* Flipping bits below h leaves the quotient by the power of two as it is.
LEMMA XorHigh ==
  ASSUME NEW v \in Nat, v < Power[30], NEW w \in Nat, NEW h \in 0 .. 30,
         \A i \in h .. 29 : Bit(w, i) = 0
  PROVE  xor(v, w) \div Power[h] = v \div Power[h]
<1>1. ASSUME NEW i \in h .. 29
      PROVE  Bit(xor(v, w), i) = Bit(v, i)
  <2>1. i \in 0 .. 29
    OBVIOUS
  <2>2. PICK a \in {0, 1} : a = Bit(v, i)
    BY <2>1, BitIs
  <2>3. Bit(xor(v, w), i) = (a + 0) % 2
    <3>1. Bit(xor(v, w), i) = (Bit(v, i) + Bit(w, i)) % 2
      BY <2>1, XorIs, Zenon
    <3>2. Bit(w, i) = 0
      OBVIOUS
    <3> QED
      BY <2>2, <3>1, <3>2
  <2>4. (a + 0) % 2 = a
    OBVIOUS
  <2> QED
    BY <2>2, <2>3, <2>4
<1>2. xor(v, w) \in Nat /\ xor(v, w) < Power[30]
  BY XorIs, Zenon
<1> QED
  BY <1>1, <1>2, SameBits, Zenon

\* find_highest_bit: the only bit number that fits.
LEMMA HighestBitIs ==
  ASSUME NEW v \in Nat, NEW h \in 0 .. 29, Power[h] <= v, v < Power[h + 1]
  PROVE  find_highest_bit(v) = h
<1>1. ASSUME NEW i \in 0 .. 29, Power[i] <= v, v < Power[i + 1]
      PROVE  i = h
  <2>1. ASSUME NEW j \in 0 .. 29, NEW k \in 0 .. 29, j < k, v < Power[j + 1]
        PROVE  v < Power[k]
    <3>1. j + 1 \in 0 .. 30 /\ k \in 0 .. 30 /\ k \in (j + 1) .. 30
      BY <2>1
    <3>2. Power[j + 1] \in Nat \ {0} /\ Power[k] \in Nat \ {0} /\ Power[j + 1] <= Power[k]
      BY <3>1, PowerGrows, PowerIs, Zenon
    <3> QED
      BY <2>1, <3>2
  <2>2. ~(i < h)
    <3> SUFFICES ASSUME i < h
                 PROVE  FALSE
      OBVIOUS
    <3>1. v < Power[h]
      BY <1>1, <2>1
    <3>2. h \in 0 .. 30
      OBVIOUS
    <3> QED
      BY <3>1, <3>2, PowerIs
  <2>3. ~(h < i)
    <3> SUFFICES ASSUME h < i
                 PROVE  FALSE
      OBVIOUS
    <3>1. v < Power[i]
      BY <2>1
    <3>2. i \in 0 .. 30
      OBVIOUS
    <3> QED
      BY <1>1, <3>1, <3>2, PowerIs
  <2> QED
    BY <2>2, <2>3
<1> QED
  BY <1>1 DEF find_highest_bit, Width

\* find_highest_bit finds one.
LEMMA HighestBitFound ==
  ASSUME NEW v \in Nat \ {0}, v < Power[30]
  PROVE  /\ find_highest_bit(v) \in 0 .. 29
         /\ Power[find_highest_bit(v)] <= v /\ v < Power[find_highest_bit(v) + 1]
BY Between DEF find_highest_bit, Width

\* Where bucket r is in a table of this size: the highest bit in which the two
\* numbers differ is one that the size has.
InSegment(size, r, h) ==
  /\ Bit(size, h) = 1 /\ Bit(r, h) = 0
  /\ r \div Power[h + 1] = size \div Power[h + 1]

\* find_highest_bit(pos ^ n) is the segment.
LEMMA SegmentFound ==
  ASSUME NEW size \in Nat, size < Power[30], NEW r \in 0 .. size - 1
  PROVE  /\ find_highest_bit(xor(r, size)) \in 0 .. 29
         /\ InSegment(size, r, find_highest_bit(xor(r, size)))
<1> DEFINE y == xor(r, size)
           h == find_highest_bit(y)
<1>1. r \in Nat /\ r < size /\ r < Power[30]
  BY Powers
<1>2. /\ y \in Nat /\ y < Power[30]
      /\ \A i \in 0 .. 29 : Bit(y, i) = (Bit(r, i) + Bit(size, i)) % 2
  BY <1>1, XorIs
<1>3. y # 0
  <2>1. r # size
    BY <1>1
  <2> QED
    BY <1>1, <2>1, XorSame, Zenon
<1> HIDE DEF y
<1>4. h \in 0 .. 29 /\ Power[h] <= y /\ y < Power[h + 1]
  <2>1. y \in Nat \ {0}
    BY <1>2, <1>3
  <2> QED
    BY <1>2, <2>1, HighestBitFound, Zenon
<1> HIDE DEF h
<1>5. h \in 0 .. 30 /\ h + 1 \in 0 .. 30
  BY <1>4
<1>6. ASSUME NEW i \in (h + 1) .. 29
      PROVE  Bit(r, i) = Bit(size, i)
  <2>1. i \in 0 .. 29
    BY <1>5
  <2>2. Bit(y, i) = 0
    BY <1>2, <1>4, <1>5, HighBits, Zenon
  <2>3. PICK a \in {0, 1}, c \in {0, 1} : a = Bit(r, i) /\ c = Bit(size, i)
    BY <1>1, <2>1, BitIs
  <2>4. (a + c) % 2 = 0
    BY <1>2, <2>1, <2>2, <2>3
  <2> QED
    BY <2>3, <2>4
<1>7. r \div Power[h + 1] = size \div Power[h + 1]
  BY <1>1, <1>5, <1>6, SameBits, Zenon
<1>8. Bit(y, h) = 1
  <2>1. Power[h + 1] = 2 * Power[h]
    BY <1>4, PowerIs, Zenon
  <2>2. y < 2 * Power[h]
    BY <1>4, <2>1, Zenon
  <2>3. y \div Power[h] = 1
    BY <1>2, <1>4, <1>5, <2>2, QuotientEnds, Zenon
  <2> QED
    BY <2>3 DEF Bit
<1>9. PICK a \in {0, 1}, c \in {0, 1} : a = Bit(r, h) /\ c = Bit(size, h)
  BY <1>1, <1>4, BitIs
<1>10. (a + c) % 2 = 1
  BY <1>2, <1>4, <1>8, <1>9
<1>11. a <= c
  <2>1. r \div Power[h] <= size \div Power[h]
    BY <1>1, <1>5, QuotientEnds, Zenon
  <2>2. r \div Power[h] = 2 * (r \div Power[h + 1]) + a /\ r \div Power[h + 1] \in Nat
    BY <1>1, <1>4, <1>9, Quotient
  <2>3. size \div Power[h] = 2 * (size \div Power[h + 1]) + c
    BY <1>4, <1>9, Quotient
  <2> QED
    BY <1>7, <2>1, <2>2, <2>3
<1>12. a = 0 /\ c = 1
  BY <1>10, <1>11
<1>13. InSegment(size, r, h)
  BY <1>7, <1>9, <1>12 DEF InSegment
<1> QED
  BY <1>4, <1>13 DEF h, y

\* It is the only one, and the bucket is in the table.
LEMMA SegmentIs ==
  ASSUME NEW size \in Nat, size < Power[30], NEW r \in Nat, r < Power[30],
         NEW h \in 0 .. 29, InSegment(size, r, h)
  PROVE  r < size /\ find_highest_bit(xor(r, size)) = h
<1> DEFINE y == xor(r, size)
<1>1. h \in 0 .. 30 /\ h + 1 \in 0 .. 30
  OBVIOUS
<1>2. /\ y \in Nat /\ y < Power[30]
      /\ \A i \in 0 .. 29 : Bit(y, i) = (Bit(r, i) + Bit(size, i)) % 2
  BY XorIs
<1> HIDE DEF y
<1>3. r < size
  <2>1. r \div Power[h] = 2 * (r \div Power[h + 1]) + Bit(r, h) /\ r \div Power[h + 1] \in Nat
    BY Quotient, Zenon
  <2>2. size \div Power[h] = 2 * (size \div Power[h + 1]) + Bit(size, h)
    BY Quotient, Zenon
  <2>3. r \div Power[h] < size \div Power[h]
    BY <2>1, <2>2 DEF InSegment
  <2> QED
    BY <1>1, <2>3, QuotientEnds, Zenon
<1>4. ASSUME NEW i \in (h + 1) .. 29
      PROVE  Bit(y, i) = Bit(0, i)
  <2>1. i \in 0 .. 29
    OBVIOUS
  <2>2. Bit(r, i) = Bit(size, i)
    <3>1. r \div Power[h + 1] = size \div Power[h + 1]
      BY DEF InSegment
    <3> QED
      BY <1>1, <3>1, SameQuotient
  <2>3. PICK a \in {0, 1} : a = Bit(r, i)
    BY <2>1, BitIs
  <2>4. (a + a) % 2 = 0
    OBVIOUS
  <2> QED
    BY <1>2, <2>1, <2>2, <2>3, <2>4, BitOfZero
<1>5. 0 \in Nat /\ 0 < Power[30]
  BY Powers
<1>6. y \div Power[h + 1] = 0
  <2>1. y \div Power[h + 1] = 0 \div Power[h + 1]
    BY <1>1, <1>2, <1>4, <1>5, SameBits, Zenon
  <2>2. 0 \div Power[h + 1] = 0
    BY <1>1, <1>5, QuotientEnds, Zenon
  <2> QED
    BY <2>1, <2>2
<1>7. y < Power[h + 1]
  BY <1>1, <1>2, <1>6, QuotientEnds, Zenon
<1>8. Bit(y, h) = 1
  <2>1. (0 + 1) % 2 = 1
    OBVIOUS
  <2> QED
    BY <1>2, <2>1 DEF InSegment
<1>9. y \div Power[h] = 1
  <2>1. y \div Power[h] = 2 * (y \div Power[h + 1]) + Bit(y, h)
    BY <1>2, Quotient, Zenon
  <2> QED
    BY <1>6, <1>8, <2>1
<1>10. Power[h] <= y
  BY <1>1, <1>2, <1>9, QuotientEnds, Zenon
<1> QED
  BY <1>2, <1>3, <1>7, <1>10, HighestBitIs DEF y

\* The bits of t flip within the segment of r: r goes to another bucket of it.
LEMMA FlipInSegment ==
  ASSUME NEW size \in Nat, size < Power[30], size % 2 = 0, NEW r \in 0 .. size - 1,
         NEW h, h = find_highest_bit(xor(r, size)),
         NEW t \in 1 .. Power[h] - 1
  PROVE  /\ xor(r, t) \in (0 .. size - 1) \ {r}
         /\ find_highest_bit(xor(xor(r, t), size)) = h
         /\ xor(xor(r, t), t) = r
<1> DEFINE x == xor(r, t)
<1>1. h \in 0 .. 29 /\ InSegment(size, r, h)
  BY SegmentFound
<1>2. h \in 0 .. 30 /\ h + 1 \in 0 .. 30 /\ 30 \in h .. 30
  BY <1>1
<1>3. Power[h] \in Nat \ {0} /\ Power[30] \in Nat /\ Power[h] <= Power[30]
  <2>1. Power[h] <= Power[30]
    BY <1>2, PowerGrows
  <2>2. 30 \in 0 .. 30
    OBVIOUS
  <2> QED
    BY <1>2, <2>1, <2>2, PowerIs
<1>4. t \in Nat \ {0} /\ t < Power[h] /\ t < Power[30]
  BY <1>3
<1>5. r \in Nat /\ r < Power[30]
  BY <1>3
<1>6. x \in Nat /\ x < Power[30]
  BY <1>4, <1>5, XorIs
<1>7. x \div Power[h] = r \div Power[h]
  <2>1. \A i \in h .. 29 : Bit(t, i) = 0
    BY <1>2, <1>4, HighBits, Zenon
  <2>2. t \in Nat
    BY <1>4
  <2> QED
    BY <1>2, <1>5, <2>1, <2>2, XorHigh, Zenon
<1>8. xor(x, t) = r /\ x # r
  <2>1. t \in Nat
    BY <1>4
  <2> QED
    BY <1>4, <1>5, <2>1, XorTwice, XorOther, Zenon
<1> HIDE DEF x
<1>9. InSegment(size, x, h)
  <2>1. Bit(x, h) = Bit(r, h)
    BY <1>7 DEF Bit
  <2>2. x \div Power[h + 1] = r \div Power[h + 1]
    <3>1. x \div Power[h + 1] = (x \div Power[h]) \div 2
      BY <1>1, <1>6, Quotient, Zenon
    <3>2. r \div Power[h + 1] = (r \div Power[h]) \div 2
      BY <1>1, <1>5, Quotient, Zenon
    <3> QED
      BY <1>7, <3>1, <3>2, Zenon
  <2> QED
    BY <1>1, <2>1, <2>2 DEF InSegment
<1>10. x < size /\ find_highest_bit(xor(x, size)) = h
  BY <1>1, <1>6, <1>9, SegmentIs, Zenon
<1> QED
  BY <1>6, <1>8, <1>10 DEF x

\* A segment of a table of even size has two buckets at least.
LEMMA SegmentLength ==
  ASSUME NEW size \in Nat, size < Power[30], size % 2 = 0, NEW r \in 0 .. size - 1
  PROVE  segment_length(size, r) \in Nat \ {0, 1}
<1> DEFINE h == find_highest_bit(xor(r, size))
<1>1. h \in 0 .. 29 /\ InSegment(size, r, h)
  BY SegmentFound
<1> HIDE DEF h
<1>2. h # 0
  <2> SUFFICES ASSUME h = 0
               PROVE  FALSE
    OBVIOUS
  <2>1. 0 \in 0 .. 30
    OBVIOUS
  <2>2. size \div Power[0] = size
    BY <2>1, QuotientEnds, Zenon
  <2> QED
    BY <1>1, <2>2 DEF InSegment, Bit
<1>3. PICK g \in 0 .. 29 : h = g + 1
  <2>1. h - 1 \in 0 .. 29 /\ h = (h - 1) + 1
    BY <1>1, <1>2
  <2> QED
    BY <2>1
<1>4. Power[g] \in Nat \ {0} /\ Power[h] = 2 * Power[g]
  <2>1. g \in 0 .. 30
    OBVIOUS
  <2> QED
    BY <1>3, <2>1, PowerIs
<1>5. Power[h] \in Nat \ {0, 1}
  BY <1>4
<1> QED
  BY <1>5 DEF segment_length, h

\* init: the power of two that the fingerprint's number is reduced by.
LEMMA MaxPower ==
  ASSUME NEW size \in Nat \ {0, 1}, size < Power[30]
  PROVE  max_2_power(size) \in 1 .. size - 1
<1>1. PICK i \in 0 .. 29 : Power[i] <= size - 1 /\ size - 1 < Power[i + 1]
  <2>1. size - 1 \in Nat \ {0} /\ size - 1 < Power[30]
    BY Powers
  <2> QED
    BY <2>1, Between, Zenon
<1>2. Power[i] \in Nat \ {0} /\ Power[i + 1] = 2 * Power[i]
  <2>1. i \in 0 .. 30
    OBVIOUS
  <2> QED
    BY <2>1, PowerIs
<1> DEFINE S == {Power[j] : j \in 0 .. 29}
<1>3. \E p \in S : p * 2 >= size /\ (p = 1 \/ p < size)
  <2>1. PICK p \in Nat : p = Power[i]
    BY <1>2
  <2>2. p * 2 >= size /\ p < size
    BY <1>1, <1>2, <2>1
  <2> QED
    BY <2>1, <2>2
<1>4. S \subseteq Nat \ {0}
  <2>1. \A j \in 0 .. 29 : j \in 0 .. 30
    OBVIOUS
  <2> QED
    BY <2>1, PowerIs
<1>5. max_2_power(size) = CHOOSE p \in S : p * 2 >= size /\ (p = 1 \/ p < size)
  BY DEF max_2_power, Width
<1> HIDE DEF S
<1>6. max_2_power(size) \in S /\ (max_2_power(size) = 1 \/ max_2_power(size) < size)
  BY <1>3, <1>5
<1>7. PICK p \in Nat \ {0} : p = max_2_power(size) /\ (p = 1 \/ p < size)
  BY <1>4, <1>6
<1>8. p \in 1 .. size - 1
  BY <1>7
<1> QED
  BY <1>7, <1>8

\* Rotating the table and back: the bucket x, rotated by d, and back.
LEMMA Rotation ==
  ASSUME NEW size \in Nat \ {0}, NEW d \in 0 .. size - 1, NEW x \in 0 .. size - 1
  PROVE  LET back == IF x - d < 0 THEN x - d + size ELSE x - d
         IN  back \in 0 .. size - 1 /\ (back + d) % size = x
<1>1. CASE x - d < 0
  <2>1. (x - d + size) + d = x + size /\ x - d + size \in 0 .. size - 1
    BY <1>1
  <2>2. (x + size) % size = x
    OBVIOUS
  <2> QED
    BY <1>1, <2>1, <2>2
<1>2. CASE ~(x - d < 0)
  <2>1. (x - d) + d = x /\ x - d \in 0 .. size - 1
    BY <1>2
  <2>2. x % size = x
    OBVIOUS
  <2> QED
    BY <1>2, <2>1, <2>2
<1> QED
  BY <1>1, <1>2

LEMMA RotationBack ==
  ASSUME NEW size \in Nat \ {0}, NEW d \in 0 .. size - 1, NEW p \in 0 .. size - 1
  PROVE  LET x == (p + d) % size
         IN  x \in 0 .. size - 1 /\ (IF x - d < 0 THEN x - d + size ELSE x - d) = p
<1>1. CASE p + d < size
  <2>1. (p + d) % size = p + d
    BY <1>1
  <2> QED
    BY <1>1, <2>1
<1>2. CASE p + d >= size
  <2>1. (p + d) % size = p + d - size
    <3>1. PICK z \in 0 .. size - 1 : z = p + d - size
      BY <1>2
    <3>2. (z + size) % size = z
      OBVIOUS
    <3> QED
      BY <3>1, <3>2
  <2> QED
    BY <1>2, <2>1
<1> QED
  BY <1>1, <1>2

LEMMA QuotientBelow ==
  ASSUME NEW x \in Nat, NEW b \in Nat \ {0}, NEW c \in Nat
  PROVE  x < c * b <=> x \div b < c
<1>1. PICK y \in Nat, z \in 0 .. b - 1 : y = x \div b /\ x = b * y + z
  <2>1. x \div b \in Nat /\ x % b \in 0 .. b - 1 /\ x = b * (x \div b) + (x % b)
    OBVIOUS
  <2> QED
    BY <2>1
<1>2. CASE y < c
  <2>1. PICK e \in Nat : c = y + 1 + e
    <3>1. c - (y + 1) \in Nat /\ c = y + 1 + (c - (y + 1))
      BY <1>2
    <3> QED
      BY <3>1
  <2>2. c * b = b * y + b + e * b /\ e * b \in Nat /\ b * y \in Nat
    BY <2>1
  <2> QED
    BY <1>1, <1>2, <2>2
<1>3. CASE c <= y
  <2>1. PICK e \in Nat : y = c + e
    <3>1. y - c \in Nat /\ y = c + (y - c)
      BY <1>3
    <3> QED
      BY <3>1
  <2>2. b * y = c * b + e * b /\ e * b \in Nat /\ c * b \in Nat
    BY <2>1
  <2> QED
    BY <1>1, <1>3, <2>2
<1> QED
  BY <1>2, <1>3

\* alternate in a small table.  The other bucket of a fingerprint is in the
\* table and is another one, and its other bucket is the first, for every even
\* number of buckets: what FilterAssumption asks of alternate.
THEOREM SmallAlternateInvolutive ==
  ASSUME NEW size \in Nat \ {0}, size < Power[30], size % 2 = 0,
         NEW p \in 0 .. size - 1, NEW hash \in Int
  PROVE  /\ smallAlternate(size, p, hash) \in (0 .. size - 1) \ {p}
         /\ smallAlternate(size, smallAlternate(size, p, hash), hash) = p
<1> DEFINE d == hash % max_2_power(size)
           r == (p + d) % size
           len(x) == segment_length(size, x)
           flips(x) == IF d % len(x) = 0 THEN 1 ELSE d % len(x)
           back(x) == IF x - d < 0 THEN x - d + size ELSE x - d
<1>1. \A q : smallAlternate(size, q, hash)
             = back(xor((q + d) % size, flips((q + d) % size)))
  BY DEF smallAlternate
<1>2. d \in 0 .. size - 1
  <2>1. PICK top \in 1 .. size - 1 : top = max_2_power(size)
    <3>1. size \in Nat \ {0, 1}
      OBVIOUS
    <3> QED
      BY <3>1, MaxPower
  <2>2. hash % top \in 0 .. top - 1
    OBVIOUS
  <2>3. hash % top \in 0 .. size - 1
    BY <2>2
  <2> QED
    BY <2>1, <2>3
<1> HIDE DEF d
<1>3. r \in 0 .. size - 1 /\ back(r) = p
  BY <1>2, RotationBack
<1> HIDE DEF r
<1> DEFINE h == find_highest_bit(xor(r, size))
           t == flips(r)
           x == xor(r, t)
           q == back(x)
<1>4. t \in 1 .. Power[h] - 1
  <2>1. PICK k \in Nat \ {0, 1} : k = len(r)
    BY <1>3, SegmentLength
  <2>2. d % k \in 0 .. k - 1 /\ 1 \in 1 .. k - 1
    BY <1>2
  <2>3. t \in 1 .. k - 1
    BY <2>1, <2>2
  <2>4. k = Power[h]
    BY <2>1 DEF segment_length
  <2> QED
    BY <2>3, <2>4
<1>5. x \in (0 .. size - 1) \ {r} /\ find_highest_bit(xor(x, size)) = h /\ xor(x, t) = r
  <2> HIDE DEF t
  <2> QED
    BY <1>3, <1>4, FlipInSegment
<1>6. len(x) = len(r)
  BY <1>5 DEF segment_length
<1>7. flips(x) = t
  BY <1>6
<1> HIDE DEF t, x
<1>8. q \in 0 .. size - 1 /\ (q + d) % size = x
  BY <1>2, <1>5, Rotation
<1> HIDE DEF q, len, flips, back
<1>9. smallAlternate(size, p, hash) = q
  BY <1>1 DEF q, r, x, t
<1>10. smallAlternate(size, q, hash) = back(xor(x, t))
  BY <1>1, <1>7, <1>8
<1>11. smallAlternate(size, q, hash) = p
  BY <1>3, <1>5, <1>10
<1>12. q # p
  <2> SUFFICES ASSUME q = p
               PROVE  FALSE
    OBVIOUS
  <2>1. x = r
    BY <1>8 DEF r
  <2> QED
    BY <1>5, <2>1
<1> QED
  BY <1>8, <1>9, <1>11, <1>12

\* alternate in a large table, which init makes a multiple of its segments: the
\* other bucket is in the table, and its other bucket is the first.  They may be
\* the same.
THEOREM LargeAlternateInvolutive ==
  ASSUME NEW k \in 0 .. 29, NEW count \in Nat, count * Power[k] < Power[30],
         NEW p \in 0 .. count * Power[k] - 1, NEW hash \in Nat
  PROVE  LET other(pos) == largeAlternate(pos, hash, Power[k] - 1)
         IN  other(p) \in 0 .. count * Power[k] - 1 /\ other(other(p)) = p
<1> DEFINE seg == Power[k] - 1
           t == and(hash, seg)
           x == xor(p, t)
<1>1. k \in 0 .. 30
  OBVIOUS
<1>2. PICK b \in Nat \ {0} : b = Power[k]
  BY <1>1, PowerIs
<1>3. seg \in Nat /\ seg < Power[k] /\ count * b \in Nat
  BY <1>2
<1>4. p \in Nat /\ p < Power[30]
  BY <1>2, <1>3, Powers
<1> HIDE DEF seg
<1>5. t \in Nat /\ \A i \in k .. 29 : Bit(t, i) = 0
  <2>1. ASSUME NEW i \in k .. 29
        PROVE  Bit(t, i) = 0
    <3>1. i \in 0 .. 29
      OBVIOUS
    <3>2. Bit(seg, i) = 0
      BY <1>1, <1>3, HighBits, Zenon
    <3>3. Bit(t, i) = Bit(hash, i) * 0
      BY <1>3, <3>1, <3>2, AndIs
    <3>4. PICK z \in {0, 1} : z = Bit(hash, i)
      BY <3>1, BitIs
    <3> QED
      BY <3>3, <3>4
  <2> QED
    BY <1>3, <2>1, AndIs
<1> HIDE DEF t
<1>6. x \in Nat /\ x \div Power[k] = p \div Power[k] /\ xor(x, t) = p
  BY <1>1, <1>4, <1>5, XorIs, XorHigh, XorTwice, Zenon
<1> HIDE DEF x
<1>7. x < count * b
  <2>1. x \div b = p \div b
    BY <1>2, <1>6
  <2>2. p < count * b
    BY <1>2, <1>3
  <2>3. p \div b < count
    BY <1>4, <2>2, QuotientBelow
  <2> QED
    BY <1>6, <2>1, <2>3, QuotientBelow
<1>8. x \in 0 .. count * Power[k] - 1
  BY <1>2, <1>3, <1>6, <1>7
<1>9. \A pos : largeAlternate(pos, hash, Power[k] - 1) = xor(pos, t)
  BY DEF largeAlternate, t, seg
<1> QED
  BY <1>6, <1>8, <1>9 DEF x
=============================================================================
