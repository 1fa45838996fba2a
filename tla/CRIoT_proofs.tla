----------------------------- MODULE CRIoT_proofs -----------------------------
(***************************************************************************)
(* The tracker and the update protocol, for any keys, buckets,             *)
(* fingerprints and placements and any bound on the commands against the   *)
(* rules.  First the tracker, whose operations keep its four structures in *)
(* agreement: the filter holds the positive keys, the Othello these and    *)
(* the false positives among the negative ones, and each negative key is   *)
(* in the lists of its case.  Then the commands.                           *)
(*                                                                         *)
(* The device needs no rule: InStep says that the update on its way takes  *)
(* it exactly to the summary that the server has.                          *)
(***************************************************************************)
EXTENDS CRIoT, FiniteSetTheorems, TLAPS

-----------------------------------------------------------------------------
(***************************************************************************)
(* The tracker.                                                            *)
(***************************************************************************)
Tables == [Bucket -> [Key -> Nat]]

TrackerTypes ==
  /\ place \in Placement
  /\ PK \subseteq Key /\ NK \subseteq Key
  /\ held \in [Slot -> Nat]
  /\ TNK \in Tables /\ FPK \in Tables
  /\ members \subseteq Key
  /\ bits \in [Key -> Bit]
  /\ flipped = Sentinel \/ flipped \in [Key -> Bit]
  /\ phase \in {"ready", "asserted", "threw", "unbuildable"}

\* Key x is in no list, or in those of its case.
Unlisted(x) == \A b \in Bucket : TNK[b][x] = 0 /\ FPK[b][x] = 0

Listed(x) ==
  /\ \A b \in Bucket :
       /\ FPK[b][x] = IF b \in Own(x) /\ Found(held, x) THEN 1 ELSE 0
       /\ TNK[b][x] = IF b \in Own(x) /\ ~Found(held, x) THEN 1 ELSE 0
  /\ x \in members <=> Found(held, x)

\* What the operations keep as long as no rule is broken.  A key that has been
\* removed may have left its entries behind.
Sound ==
  /\ PK \cap NK = {}
  /\ held = Held(place, PK)
  /\ \A x \in PK : x \in members /\ bits[x] = 1 /\ Unlisted(x)
  /\ \A x \in members \ PK : bits[x] = 0
  /\ \A x \in NK : Listed(x)
  /\ \A x \in Key \ (PK \cup NK) : Listed(x) \/ (Unlisted(x) /\ x \notin members)

-----------------------------------------------------------------------------
(* Slots, and what the filter holds. *)

LEMMA SlotOf ==
  ASSUME NEW pl \in Placement, NEW k \in Key
  PROVE  /\ pl \in [Key -> Slot] /\ pl[k] \in Slot
         /\ pl[k].buckets \subseteq Bucket
         /\ \E b \in Bucket : b \in pl[k].buckets
<1>1. pl \in [Key -> Slot] /\ pl[k] \in Slot
  BY TrackerAssumption
<1>2. pl[k].buckets \in SUBSET Bucket /\ Cardinality(pl[k].buckets) = 2
  BY <1>1 DEF Slot
<1>3. pl[k].buckets # {}
  BY <1>2, FS_EmptySet
<1> QED
  BY <1>1, <1>2, <1>3

LEMMA HeldType ==
  ASSUME NEW pl, NEW P \in SUBSET Key
  PROVE  Held(pl, P) \in [Slot -> Nat]
<1>1. \A s \in Slot : Cardinality({k \in P : pl[k] = s}) \in Nat
  <2> TAKE s \in Slot
  <2>1. {k \in P : pl[k] = s} \in SUBSET Key
    OBVIOUS
  <2> QED
    BY <2>1, TrackerAssumption, FS_Subset, FS_CardinalityType
<1> QED
  BY <1>1 DEF Held

\* vf: a key is found exactly if one with its slot has been inserted.
LEMMA HeldFound ==
  ASSUME NEW pl \in Placement, NEW P \in SUBSET Key, NEW x \in Key
  PROVE  Held(pl, P)[pl[x]] > 0 <=> \E p \in P : pl[p] = pl[x]
<1> DEFINE Same == {k \in P : pl[k] = pl[x]}
<1>1. IsFiniteSet(Same) /\ Cardinality(Same) \in Nat
  BY TrackerAssumption, FS_Subset, FS_CardinalityType
<1>2. Held(pl, P)[pl[x]] = Cardinality(Same)
  BY SlotOf DEF Held
<1>3. Cardinality(Same) = 0 <=> Same = {}
  BY <1>1, FS_EmptySet
<1>4. Same = {} <=> ~\E p \in P : pl[p] = pl[x]
  OBVIOUS
<1> HIDE DEF Same
<1> QED
  BY <1>1, <1>2, <1>3, <1>4

LEMMA HeldMore ==
  ASSUME NEW pl \in Placement, NEW P \in SUBSET Key, NEW k \in Key \ P
  PROVE  Held(pl, P \cup {k}) = [Held(pl, P) EXCEPT ![pl[k]] = @ + 1]
<1>1. \A s \in Slot : Cardinality({x \in P \cup {k} : pl[x] = s})
        = IF s = pl[k] THEN Cardinality({x \in P : pl[x] = s}) + 1
                       ELSE Cardinality({x \in P : pl[x] = s})
  <2> TAKE s \in Slot
  <2>1. IsFiniteSet({x \in P : pl[x] = s})
    BY TrackerAssumption, FS_Subset
  <2>2. CASE s = pl[k]
    <3>1. {x \in P \cup {k} : pl[x] = s} = {x \in P : pl[x] = s} \cup {k}
      BY <2>2
    <3> QED
      BY <3>1, <2>1, <2>2, FS_AddElement
  <2>3. CASE s # pl[k]
    <3>1. {x \in P \cup {k} : pl[x] = s} = {x \in P : pl[x] = s}
      BY <2>3
    <3> QED
      BY <3>1, <2>3
  <2> QED
    BY <2>2, <2>3
<1> QED
  BY <1>1 DEF Held

LEMMA HeldLess ==
  ASSUME NEW pl \in Placement, NEW P \in SUBSET Key, NEW k \in P
  PROVE  Held(pl, P \ {k}) = [Held(pl, P) EXCEPT ![pl[k]] = @ - 1]
<1>1. \A s \in Slot : Cardinality({x \in P \ {k} : pl[x] = s})
        = IF s = pl[k] THEN Cardinality({x \in P : pl[x] = s}) - 1
                       ELSE Cardinality({x \in P : pl[x] = s})
  <2> TAKE s \in Slot
  <2>1. IsFiniteSet({x \in P : pl[x] = s})
    BY TrackerAssumption, FS_Subset
  <2>2. CASE s = pl[k]
    <3>1. {x \in P \ {k} : pl[x] = s} = {x \in P : pl[x] = s} \ {k}
      OBVIOUS
    <3> QED
      BY <3>1, <2>1, <2>2, FS_RemoveElement, ZenonT(40)
  <2>3. CASE s # pl[k]
    <3>1. {x \in P \ {k} : pl[x] = s} = {x \in P : pl[x] = s}
      BY <2>3
    <3> QED
      BY <3>1, <2>3
  <2> QED
    BY <2>2, <2>3
<1> QED
  BY <1>1 DEF Held

-----------------------------------------------------------------------------
(* Types. *)

LEMMA ListTypes ==
  ASSUME TrackerTypes, NEW t \in Tables, NEW u \in Tables, NEW k \in Key, NEW X
  PROVE  Put(t, k) \in Tables /\ Drop(t, k, X) \in Tables /\ Take(t, u, k, X) \in Tables
<1>1. Put(t, k) \in Tables
  BY DEF Put, Tables
<1>2. Drop(t, k, X) \in Tables
  BY DEF Drop, Tables
<1>3. Take(t, u, k, X) \in Tables
  BY DEF Take, Tables
<1> QED
  BY <1>1, <1>2, <1>3

LEMMA MoreLessTypes ==
  ASSUME TrackerTypes, NEW k \in Key
  PROVE  /\ More(held, k) \in [Slot -> Nat]
         /\ Found(held, k) => Less(held, k) \in [Slot -> Nat]
<1>1. place[k] \in Slot
  BY SlotOf DEF TrackerTypes
<1>2. held[place[k]] \in Nat
  BY <1>1 DEF TrackerTypes
<1>3. More(held, k) \in [Slot -> Nat]
  BY <1>1, <1>2 DEF More, TrackerTypes
<1>4. Found(held, k) => held[place[k]] - 1 \in Nat
  BY <1>2 DEF Found
<1>5. Found(held, k) => Less(held, k) \in [Slot -> Nat]
  BY <1>4 DEF Less, TrackerTypes
<1> QED
  BY <1>3, <1>5

LEMMA ReportTypes ==
  ASSUME bits \in [Key -> Bit], bits' \in [Key -> Bit], Report
  PROVE  flipped' \in [Key -> Bit]
BY DEF Report, Bit, (+)

LEMMA BatchTypes ==
  ASSUME NEW pl \in Placement, NEW P \in SUBSET Key, NEW N \in SUBSET Key
  PROVE  /\ Lists(pl, N) \in Tables
         /\ FalsePositives(pl, P, N) \subseteq N
BY DEF Lists, Tables, FalsePositives

LEMMA RebuildTypes ==
  ASSUME TrackerTypes, NEW P \in SUBSET Key, NEW N \in SUBSET Key, rebuild(P, N)
  PROVE  TrackerTypes'
<1>1. CASE \E pl \in Placement : batch_insert(pl, P, N) /\ flipped' = Sentinel /\ UNCHANGED phase
  <2>1. PICK pl \in Placement : batch_insert(pl, P, N)
    BY <1>1
  <2>2. Held(pl, P) \in [Slot -> Nat]
    BY HeldType
  <2>3. FalsePositives(pl, P, N) \subseteq N
    BY BatchTypes
  <2>4. Lists(pl, N \ FalsePositives(pl, P, N)) \in Tables
    BY BatchTypes, <2>3
  <2>5. Lists(pl, FalsePositives(pl, P, N)) \in Tables
    BY BatchTypes, <2>3
  <2>6. members' \subseteq Key /\ bits' \in [Key -> Bit]
    BY <2>1, <2>3 DEF batch_insert, Settle
  <2> QED
    BY <1>1, <2>1, <2>2, <2>4, <2>5, <2>6 DEF batch_insert, TrackerTypes
<1>2. CASE \E how \in {"asserted", "unbuildable"} : Ends(how)
  BY <1>2 DEF Ends, TrackerTypes, Tables
<1> QED
  BY <1>1, <1>2 DEF rebuild

LEMMA MadePositiveTypes ==
  ASSUME TrackerTypes, NEW k \in Key, NEW t \in Tables, NEW f \in Tables,
         MadePositive(t, f, k), UNCHANGED <<place, phase>>,
         PK' = PK \cup {k}, NK' \subseteq Key
  PROVE  TrackerTypes'
<1> DEFINE h == More(held, k)
<1>1. held' \in [Slot -> Nat]
  BY MoreLessTypes DEF MadePositive
<1>2. TNK' \in Tables /\ FPK' \in Tables
  BY ListTypes DEF MadePositive
<1>3. NewFalse(t, h, k) \subseteq Key
  BY DEF NewFalse, Near
<1>4. members' \subseteq Key /\ bits' \in [Key -> Bit]
  BY <1>3 DEF MadePositive, Settle, TrackerTypes
<1>5. flipped' \in [Key -> Bit]
  BY <1>4, ReportTypes DEF MadePositive, TrackerTypes
<1> QED
  BY <1>1, <1>2, <1>4, <1>5 DEF TrackerTypes

LEMMA EndsTypes ==
  ASSUME TrackerTypes, NEW how \in {"asserted", "threw", "unbuildable"}, Ends(how)
  PROVE  TrackerTypes'
BY DEF Ends, TrackerTypes, Tables

LEMMA InsertTypes ==
  ASSUME TrackerTypes, NEW k \in Key, NEW v \in Bit, insert(k, v)
  PROVE  TrackerTypes'
<1>1. CASE v = 1
  <2>1. insertPositive(k)
    BY <1>1 DEF insert
  <2>2. CASE MadePositive(TNK, FPK, k) /\ PK' = PK \cup {k} /\ UNCHANGED <<place, NK, phase>>
    <3>1. TNK \in Tables /\ FPK \in Tables /\ NK' \subseteq Key
      BY <2>2 DEF TrackerTypes
    <3> QED
      BY <2>2, <3>1, MadePositiveTypes
  <2>3. CASE Ends("asserted")
    BY <2>3, EndsTypes
  <2>4. CASE rebuild(PK \cup {k}, NK)
    <3>1. PK \cup {k} \subseteq Key /\ NK \subseteq Key
      BY DEF TrackerTypes
    <3> QED
      BY <2>4, <3>1, RebuildTypes
  <2> QED
    BY <2>1, <2>2, <2>3, <2>4 DEF insertPositive
<1>2. CASE v # 1
  <2>1. insertNegative(k)
    BY <1>2 DEF insert
  <2>2. CASE /\ TNK' = Put(TNK, k) /\ flipped' = NoFlips /\ NK' = NK \cup {k}
             /\ UNCHANGED <<place, PK, held, FPK, members, bits, phase>>
    <3>1. NoFlips \in [Key -> Bit]
      BY DEF NoFlips, Bit
    <3>2. TNK' \in Tables
      BY <2>2, ListTypes DEF TrackerTypes
    <3> QED
      BY <2>2, <3>1, <3>2 DEF TrackerTypes
  <2>3. CASE /\ FPK' = Put(FPK, k) /\ NK' = NK \cup {k} /\ Report
             /\ Settle(members \cup {k}, [bits EXCEPT ![k] = 0])
             /\ UNCHANGED <<place, PK, held, TNK, phase>>
    <3>1. members' \subseteq Key /\ bits' \in [Key -> Bit]
      BY <2>3 DEF Settle, TrackerTypes
    <3>2. FPK' \in Tables
      BY <2>3, ListTypes DEF TrackerTypes
    <3>3. flipped' \in [Key -> Bit]
      BY <2>3, <3>1, ReportTypes DEF TrackerTypes
    <3> QED
      BY <2>3, <3>1, <3>2, <3>3 DEF TrackerTypes
  <2>4. CASE Ends("asserted")
    BY <2>4, EndsTypes
  <2>5. CASE rebuild(PK, NK \cup {k})
    <3>1. PK \subseteq Key /\ NK \cup {k} \subseteq Key
      BY DEF TrackerTypes
    <3> QED
      BY <2>5, <3>1, RebuildTypes
  <2> QED
    BY <2>1, <2>2, <2>3, <2>4, <2>5 DEF insertNegative
<1> QED
  BY <1>1, <1>2

LEMMA UnsetTypes ==
  ASSUME TrackerTypes, NEW k \in Key, Found(held, k), unset(k, Less(held, k)),
         members' \subseteq Key, bits' \in [Key -> Bit]
  PROVE  TrackerTypes'
<1> DEFINE h == Less(held, k)
           t == Take(TNK, FPK, k, Lost(h))
           f == Drop(FPK, k, Lost(h))
<1>1. TNK \in Tables /\ FPK \in Tables
  BY DEF TrackerTypes
<1>2. t \in Tables /\ f \in Tables
  BY <1>1, ListTypes
<1>3. Put(t, k) \in Tables /\ Put(f, k) \in Tables
  BY <1>2, ListTypes
<1>4. TNK' \in Tables /\ FPK' \in Tables
  BY <1>2, <1>3 DEF unset
<1>5. held' \in [Slot -> Nat]
  BY MoreLessTypes DEF unset
<1>6. flipped' \in [Key -> Bit]
  BY ReportTypes DEF unset, TrackerTypes
<1> QED
  BY <1>4, <1>5, <1>6 DEF unset, TrackerTypes

LEMMA SetValueTypes ==
  ASSUME TrackerTypes, NEW k \in Key, NEW v \in Bit, setValue(k, v)
  PROVE  TrackerTypes'
<1>1. CASE setSame(k, v)
  <2>1. NoFlips \in [Key -> Bit]
    BY DEF NoFlips, Bit
  <2> QED
    BY <1>1, <2>1 DEF setSame, TrackerTypes
<1>2. CASE query(k) = 1 /\ unsetFound(k)
  <2>1. Found(held, k)
    BY <1>2 DEF query
  <2> DEFINE h    == Less(held, k)
             rest == members \ (Near(FPK, k) \cap Lost(h))
  <2>2. CASE Ends("threw")
    BY <2>2, EndsTypes
  <2>3. CASE /\ unset(k, h)
             /\ \E x \in Key : Settle(rest, [bits EXCEPT ![x] = 0])
    <3>1. members' \subseteq Key /\ bits' \in [Key -> Bit]
      BY <2>3 DEF Settle, TrackerTypes
    <3> QED
      BY <2>1, <2>3, <3>1, UnsetTypes
  <2>4. rest \subseteq Key
    BY DEF TrackerTypes
  <2> QED
    BY <1>2, <2>2, <2>3, <2>4 DEF unsetFound
<1>3. CASE query(k) = 1 /\ unsetLost(k)
  <2>1. Found(held, k)
    BY <1>3 DEF query
  <2>2. members' \subseteq Key /\ bits' \in [Key -> Bit]
    BY <1>3 DEF unsetLost, Settle, TrackerTypes
  <2> QED
    BY <1>3, <2>1, <2>2, UnsetTypes DEF unsetLost
<1>4. CASE setPositive(k)
  <2> DEFINE t == IF Found(held, k) THEN TNK ELSE Drop(TNK, k, {k})
             f == IF Found(held, k) THEN Drop(FPK, k, {k}) ELSE FPK
  <2>1. t \in Tables /\ f \in Tables
    BY ListTypes DEF TrackerTypes
  <2>2. CASE /\ PK' = PK \cup {k} /\ NK' = NK \ {k}
             /\ MadePositive(t, f, k)
             /\ UNCHANGED <<place, phase>>
    <3>1. NK' \subseteq Key
      BY <2>2 DEF TrackerTypes
    <3> QED
      BY <2>1, <2>2, <3>1, MadePositiveTypes
  <2>3. CASE Ends("asserted")
    BY <2>3, EndsTypes
  <2>4. CASE rebuild(PK \cup {k}, NK \ {k})
    <3>1. PK \cup {k} \subseteq Key /\ NK \ {k} \subseteq Key
      BY DEF TrackerTypes
    <3> QED
      BY <2>4, <3>1, RebuildTypes
  <2> QED
    BY <1>4, <2>2, <2>3, <2>4 DEF setPositive
<1> QED
  BY <1>1, <1>2, <1>3, <1>4 DEF setValue

LEMMA EraseTypes ==
  ASSUME TrackerTypes, NEW k \in Key, erase(k)
  PROVE  TrackerTypes'
<1>1. CASE query(k) = 1
  <2>1. erasePositive(k)
    BY <1>1 DEF erase
  <2>2. Found(held, k)
    BY <1>1 DEF query
  <2>3. held' \in [Slot -> Nat]
    BY <2>1, <2>2, MoreLessTypes DEF erasePositive
  <2>4. TNK' \in Tables /\ FPK' \in Tables
    BY <2>1, ListTypes DEF erasePositive, TrackerTypes
  <2>5. members' \subseteq Key /\ bits' \in [Key -> Bit]
    BY <2>1 DEF erasePositive, Settle, TrackerTypes
  <2> QED
    BY <2>1, <2>3, <2>4, <2>5 DEF erasePositive, TrackerTypes
<1>2. CASE query(k) # 1
  <2>1. eraseNegative(k)
    BY <1>2 DEF erase
  <2>2. FPK' \in Tables
    BY <2>1, ListTypes DEF eraseNegative, TrackerTypes
  <2>3. members' \subseteq Key /\ bits' \in [Key -> Bit]
    BY <2>1 DEF eraseNegative, Settle, TrackerTypes
  <2> QED
    BY <2>1, <2>2, <2>3 DEF eraseNegative, TrackerTypes
<1> QED
  BY <1>1, <1>2

-----------------------------------------------------------------------------
(* Soundness. *)

\* Which keys the filter finds, before an operation and with k added or taken.
LEMMA SoundFound ==
  ASSUME TrackerTypes, Sound, NEW x \in Key
  PROVE  Found(held, x) <=> \E p \in PK : place[p] = place[x]
BY HeldFound DEF Found, Sound, TrackerTypes

LEMMA SoundMore ==
  ASSUME TrackerTypes, Sound, NEW k \in Key \ PK
  PROVE  /\ More(held, k) = Held(place, PK \cup {k})
         /\ \A x \in Key :
              Found(More(held, k), x) <=> Found(held, x) \/ place[x] = place[k]
<1>1. place \in Placement /\ PK \in SUBSET Key
  BY DEF TrackerTypes
<1>2. More(held, k) = Held(place, PK \cup {k})
  BY <1>1, HeldMore DEF More, Sound
<1>3. ASSUME NEW x \in Key
      PROVE  Found(More(held, k), x) <=> Found(held, x) \/ place[x] = place[k]
  <2>1. Found(More(held, k), x) <=> \E p \in PK \cup {k} : place[p] = place[x]
    BY <1>1, <1>2, HeldFound DEF Found
  <2> QED
    BY <2>1, SoundFound
<1> QED
  BY <1>2, <1>3

LEMMA SoundLess ==
  ASSUME TrackerTypes, Sound, NEW k \in PK
  PROVE  /\ Less(held, k) = Held(place, PK \ {k})
         /\ \A x \in Key :
              /\ Found(Less(held, k), x) => Found(held, x)
              /\ Found(held, x) /\ ~Found(Less(held, k), x) => place[x] = place[k]
         /\ \A x \in PK \ {k} : Found(Less(held, k), x)
<1>1. place \in Placement /\ PK \in SUBSET Key /\ PK \ {k} \in SUBSET Key
  BY DEF TrackerTypes
<1>2. Less(held, k) = Held(place, PK \ {k})
  BY <1>1, HeldLess DEF Less, Sound
<1>3. \A x \in Key : Found(Less(held, k), x) <=> \E p \in PK \ {k} : place[p] = place[x]
  BY <1>1, <1>2, HeldFound DEF Found
<1> QED
  BY <1>1, <1>2, <1>3, SoundFound

LEMMA SoundQuery ==
  ASSUME TrackerTypes, Sound
  PROVE  /\ \A x \in PK : query(x) = 1 /\ Found(held, x)
         /\ \A x \in NK : query(x) = 0
         /\ \A x \in Key \ PK : x \in members => query(x) = 0 /\ Found(held, x)
<1>1. PK \subseteq Key /\ NK \subseteq Key
  BY DEF TrackerTypes
<1>2. \A x \in PK : query(x) = 1 /\ Found(held, x)
  BY <1>1, SoundFound DEF query, Sound
<1>3. ASSUME NEW x \in NK PROVE query(x) = 0
  <2>1. CASE Found(held, x)
    BY <2>1 DEF query, Sound, Listed
  <2>2. CASE ~Found(held, x)
    BY <2>2 DEF query
  <2> QED
    BY <2>1, <2>2
<1>4. ASSUME NEW x \in Key \ PK, x \in members PROVE query(x) = 0 /\ Found(held, x)
  BY <1>4 DEF query, Sound, Listed
<1> QED
  BY <1>2, <1>3, <1>4

\* rebuild: everything is made anew from the positive and the negative keys.
LEMMA RebuildSound ==
  ASSUME TrackerTypes, NEW P \in SUBSET Key, NEW N \in SUBSET Key, P \cap N = {},
         rebuild(P, N)
  PROVE  \/ Sound' /\ PK' = P /\ NK' = N /\ flipped' = Sentinel /\ phase' = phase
         \/ Ends("unbuildable")
<1> SUFFICES ASSUME ~Ends("unbuildable")
             PROVE  Sound' /\ PK' = P /\ NK' = N /\ flipped' = Sentinel /\ phase' = phase
  OBVIOUS
<1>1. PICK pl \in Placement :
        batch_insert(pl, P, N) /\ flipped' = Sentinel /\ UNCHANGED phase
  BY DEF rebuild
<1> DEFINE FP == FalsePositives(pl, P, N)
<1>2. \A x \in Key : Found(held, x)' <=> \E p \in P : pl[p] = pl[x]
  BY <1>1, HeldFound DEF batch_insert, Found
<1>3. FP = {x \in N : Found(held, x)'}
  BY <1>2 DEF FalsePositives
<1>4. /\ place' = pl /\ PK' = P /\ NK' = N /\ held' = Held(pl, P)
      /\ TNK' = Lists(pl, N \ FP) /\ FPK' = Lists(pl, FP) /\ members' = P \cup FP
      /\ \A x \in P \cup FP : bits'[x] = IF x \in P THEN 1 ELSE 0
  BY <1>1, <1>3 DEF batch_insert, Settle
<1> HIDE DEF FP
<1>5. \A x \in Key \ N : Unlisted(x)'
  BY <1>3, <1>4 DEF Unlisted, Lists
<1>6. \A x \in N : Listed(x)'
  <2> TAKE x \in N
  <2>1. x \in FP <=> Found(held, x)'
    BY <1>3
  <2>2. \A b \in Bucket :
          /\ FPK'[b][x] = IF x \in FP /\ b \in pl[x].buckets THEN 1 ELSE 0
          /\ TNK'[b][x] = IF x \in N \ FP /\ b \in pl[x].buckets THEN 1 ELSE 0
    BY <1>4 DEF Lists
  <2> QED
    BY <1>4, <2>1, <2>2 DEF Listed, Own
<1>7. \A x \in Key \ (P \cup N) : x \notin members'
  BY <1>3, <1>4
<1> QED
  BY <1>1, <1>3, <1>4, <1>5, <1>6, <1>7 DEF Sound

\* insert and setValue: k becomes positive, t and f being the tables without
\* its own entries.
LEMMA MadePositiveSound ==
  ASSUME TrackerTypes, Sound, NEW k \in Key \ PK,
         NEW t \in Tables, NEW f \in Tables,
         \A b \in Bucket : t[b][k] = 0 /\ f[b][k] = 0,
         \A b \in Bucket : \A x \in Key \ {k} : t[b][x] = TNK[b][x] /\ f[b][x] = FPK[b][x],
         MadePositive(t, f, k), place' = place,
         PK' = PK \cup {k}, NK' = NK \ {k}
  PROVE  Sound'
<1> DEFINE h   == More(held, k)
           new == NewFalse(t, h, k)
<1>1. /\ held' = h
      /\ TNK' = Drop(t, k, FoundIn(h))
      /\ FPK' = Take(f, t, k, FoundIn(h))
      /\ members' = members \cup new \cup {k}
      /\ \A x \in members' :
           bits'[x] = IF x = k THEN 1 ELSE IF x \in new THEN 0 ELSE bits[x]
  <2>1. \A x \in members \cup new \cup {k} : x \in Key
    BY DEF NewFalse, Near, TrackerTypes
  <2> QED
    BY <2>1 DEF MadePositive, Settle
<1>2. \A x \in Key : Found(h, x) <=> Found(held, x) \/ place[x] = place[k]
  BY SoundMore
<1>3. held' = Held(place', PK')
  BY <1>1, SoundMore
<1>4. PK' \cap NK' = {}
  BY DEF Sound
<1>5. \A x \in Key : Found(held, x)' <=> Found(h, x)
  BY <1>1 DEF Found
<1>6. \A x \in Key \ {k} : x \in new <=>
        Found(h, x) /\ x \notin members /\ \E b \in Own(k) : TNK[b][x] > 0
  <2>1. Own(k) \subseteq Bucket
    BY SlotOf DEF Own, TrackerTypes
  <2> QED
    BY <2>1 DEF NewFalse, FoundIn, Near
<1>7. \A x \in Key : \A b \in Bucket :
        /\ TNK'[b][x] = IF b \in Own(k) /\ Found(h, x) THEN 0 ELSE t[b][x]
        /\ FPK'[b][x] = IF b \in Own(k) /\ Found(h, x) THEN f[b][x] + t[b][x] ELSE f[b][x]
  BY <1>1 DEF Drop, Take, FoundIn
<1> HIDE DEF h, new
<1>8. \A x \in PK' : x \in members' /\ bits'[x] = 1 /\ Unlisted(x)'
  <2> TAKE x \in PK'
  <2>1. CASE x = k
    BY <1>1, <1>7, <2>1 DEF Unlisted
  <2>2. CASE x # k
    <3>1. x \in PK /\ x \in Key /\ x \in members /\ bits[x] = 1 /\ Unlisted(x)
      BY <2>2 DEF Sound, TrackerTypes
    <3>2. x \notin new
      BY <1>6, <2>2, <3>1
    <3> QED
      BY <1>1, <1>7, <2>2, <3>1, <3>2 DEF Unlisted
  <2> QED
    BY <2>1, <2>2
<1>9. \A x \in members' \ PK' : bits'[x] = 0
  BY <1>1 DEF Sound
<1>10. ASSUME NEW x \in Key \ {k}, Listed(x) PROVE Listed(x)'
  <2>1. Own(x)' = Own(x)
    BY DEF Own
  <2>2. place[x] = place[k] => Own(x) = Own(k)
    BY DEF Own
  <2>3. \E b \in Own(x) : b \in Bucket
    BY SlotOf DEF Own, TrackerTypes
  <2>4. CASE Found(held, x)
    <3>1. Found(h, x) /\ x \in members
      BY <1>2, <1>10, <2>4 DEF Listed
    <3>2. \A b \in Bucket : TNK[b][x] = 0 /\ FPK[b][x] = IF b \in Own(x) THEN 1 ELSE 0
      BY <1>10, <2>4 DEF Listed
    <3>3. \A b \in Bucket : TNK'[b][x] = 0 /\ FPK'[b][x] = FPK[b][x]
      BY <1>7, <3>2
    <3> QED
      BY <1>1, <1>5, <2>1, <3>1, <3>2, <3>3 DEF Listed
  <2>5. CASE ~Found(held, x) /\ Found(h, x)
    <3>1. Own(x) = Own(k)
      BY <1>2, <2>2, <2>5
    <3>2. \A b \in Bucket : FPK[b][x] = 0 /\ TNK[b][x] = IF b \in Own(x) THEN 1 ELSE 0
      BY <1>10, <2>5 DEF Listed
    <3>3. x \in members'
      BY <1>1, <1>6, <1>10, <2>3, <2>5, <3>1, <3>2
    <3>4. \A b \in Bucket : TNK'[b][x] = 0 /\ FPK'[b][x] = IF b \in Own(x) THEN 1 ELSE 0
      BY <1>7, <2>5, <3>1, <3>2
    <3> QED
      BY <1>5, <2>1, <2>5, <3>3, <3>4 DEF Listed
  <2>6. CASE ~Found(h, x)
    <3>1. ~Found(held, x) /\ x \notin members
      BY <1>2, <1>10, <2>6 DEF Listed
    <3>2. x \notin members'
      BY <1>1, <1>6, <2>6, <3>1
    <3>3. \A b \in Bucket : TNK'[b][x] = TNK[b][x] /\ FPK'[b][x] = FPK[b][x]
      BY <1>7, <2>6
    <3> QED
      BY <1>5, <1>10, <2>1, <2>6, <3>1, <3>2, <3>3 DEF Listed
  <2> QED
    BY <2>4, <2>5, <2>6
<1>11. ASSUME NEW x \in Key \ {k}, Unlisted(x), x \notin members
       PROVE  Unlisted(x)' /\ x \notin members'
  <2>1. Own(k) \subseteq Bucket
    BY SlotOf DEF Own, TrackerTypes
  <2>2. x \notin new
    BY <1>6, <1>11, <2>1 DEF Unlisted
  <2> QED
    BY <1>1, <1>7, <1>11, <2>2 DEF Unlisted
<1>12. \A x \in NK' : Listed(x)'
  BY <1>10 DEF Sound, TrackerTypes
<1>13. \A x \in Key \ (PK' \cup NK') : Listed(x)' \/ (Unlisted(x)' /\ x \notin members')
  BY <1>10, <1>11 DEF Sound
<1> QED
  BY <1>3, <1>4, <1>8, <1>9, <1>12, <1>13 DEF Sound

\* setValue: k becomes negative.  That valueFlip throws or flips the value of
\* another key is impossible, since k is still in the Othello.
LEMMA UnsetSound ==
  ASSUME TrackerTypes, Sound, NEW k \in PK, unsetFound(k) \/ unsetLost(k)
  PROVE  Sound' /\ PK' = PK \ {k} /\ NK' = NK \cup {k} /\ phase' = phase
<1> DEFINE h     == Less(held, k)
           cured == Near(FPK, k) \cap Lost(h)
<1>0. k \in Key /\ k \in members /\ Unlisted(k)
  BY DEF Sound, TrackerTypes
<1>1. unset(k, h)
  <2>1. Found(h, k) => k \in members \ cured
    BY <1>0 DEF Lost, FoundIn
  <2> QED
    BY <2>1 DEF unsetFound, unsetLost
<1>2. /\ members' = members \ (cured \cup IF Found(h, k) THEN {} ELSE {k})
      /\ \A x \in members' : bits'[x] = IF x = k THEN 0 ELSE bits[x]
  <2>1. Found(h, k) => k \in members \ cured
    BY <1>0 DEF Lost, FoundIn
  <2>2. members \subseteq Key /\ bits \in [Key -> Bit]
    BY DEF TrackerTypes
  <2>3. CASE Found(h, k)
    <3>1. Settle(members \ cured, [bits EXCEPT ![k] = 0])
      BY <2>1, <2>3 DEF unsetFound, unsetLost
    <3> QED
      BY <2>2, <2>3, <3>1 DEF Settle
  <2>4. CASE ~Found(h, k)
    BY <2>4 DEF unsetFound, unsetLost, Settle
  <2> QED
    BY <2>3, <2>4
<1>3. place' = place /\ PK' = PK \ {k} /\ NK' = NK \cup {k} /\ held' = h /\ phase' = phase
  BY <1>1 DEF unset
<1>4. \A x \in Key : \A b \in Bucket :
        /\ TNK'[b][x] = IF x = k THEN (IF b \in Own(k) /\ ~Found(h, k) THEN 1 ELSE 0)
                        ELSE IF b \in Own(k) /\ ~Found(h, x) THEN TNK[b][x] + FPK[b][x]
                        ELSE TNK[b][x]
        /\ FPK'[b][x] = IF x = k THEN (IF b \in Own(k) /\ Found(h, k) THEN 1 ELSE 0)
                        ELSE IF b \in Own(k) /\ ~Found(h, x) THEN 0
                        ELSE FPK[b][x]
  <2> DEFINE t == Take(TNK, FPK, k, Lost(h))
             f == Drop(FPK, k, Lost(h))
  <2>1. t \in Tables /\ f \in Tables
    BY <1>0, ListTypes DEF TrackerTypes
  <2>2. \A x \in Key : \A b \in Bucket :
          /\ t[b][x] = IF b \in Own(k) /\ ~Found(h, x) THEN TNK[b][x] + FPK[b][x] ELSE TNK[b][x]
          /\ f[b][x] = IF b \in Own(k) /\ ~Found(h, x) THEN 0 ELSE FPK[b][x]
    BY DEF Take, Drop, Lost, FoundIn
  <2>3. \A b \in Bucket : t[b][k] = 0 /\ f[b][k] = 0
    BY <1>0, <2>2 DEF Unlisted
  <2>4. IF Found(h, k) THEN TNK' = t /\ FPK' = Put(f, k) ELSE TNK' = Put(t, k) /\ FPK' = f
    BY <1>1 DEF unset
  <2> HIDE DEF t, f, h
  <2>5. \A x \in Key : \A b \in Bucket :
          /\ Put(t, k)[b][x] = IF b \in Own(k) /\ x = k THEN t[b][x] + 1 ELSE t[b][x]
          /\ Put(f, k)[b][x] = IF b \in Own(k) /\ x = k THEN f[b][x] + 1 ELSE f[b][x]
    BY <2>1 DEF Put, Tables
  <2> QED
    BY <1>0, <2>2, <2>3, <2>4, <2>5
<1>5. /\ held' = Held(place', PK')
      /\ \A x \in Key :
           /\ Found(h, x) => Found(held, x)
           /\ Found(held, x) /\ ~Found(h, x) => place[x] = place[k]
      /\ \A x \in PK \ {k} : Found(h, x)
  BY <1>3, SoundLess
<1>6. \A x \in Key : Found(held, x)' <=> Found(h, x)
  BY <1>3 DEF Found
<1>7. \A x \in Key : x \in cured <=> ~Found(h, x) /\ \E b \in Own(k) : FPK[b][x] > 0
  BY DEF Near, Lost, FoundIn
<1> HIDE DEF h, cured
<1>8. \A x \in PK' : x \in members' /\ bits'[x] = 1 /\ Unlisted(x)'
  <2> TAKE x \in PK'
  <2>1. x # k /\ x \in Key /\ x \in members /\ bits[x] = 1 /\ Unlisted(x) /\ Found(h, x)
    BY <1>3, <1>5 DEF Sound, TrackerTypes
  <2> QED
    BY <1>2, <1>4, <1>7, <2>1 DEF Unlisted
<1>9. \A x \in members' \ PK' : bits'[x] = 0
  BY <1>2, <1>3 DEF Sound
<1>10. Own(k)' = Own(k) /\ Own(k) \subseteq Bucket
  BY <1>0, <1>3, SlotOf DEF Own, TrackerTypes
<1>11. Listed(k)'
  <2>1. k \in members' <=> Found(h, k)
    BY <1>0, <1>2, <1>7
  <2> QED
    BY <1>0, <1>4, <1>6, <1>10, <2>1 DEF Listed
<1>12. ASSUME NEW x \in Key \ {k}, Listed(x) PROVE Listed(x)'
  <2>1. Own(x)' = Own(x)
    BY <1>3 DEF Own
  <2>2. \E b \in Own(x) : b \in Bucket
    BY SlotOf DEF Own, TrackerTypes
  <2>3. CASE Found(h, x)
    <3>1. x \in members /\ Found(held, x)
      BY <1>5, <1>12, <2>3 DEF Listed
    <3>2. x \in members'
      BY <1>2, <1>7, <2>3, <3>1
    <3>3. \A b \in Bucket : TNK'[b][x] = TNK[b][x] /\ FPK'[b][x] = FPK[b][x]
      BY <1>4, <2>3
    <3> QED
      BY <1>6, <1>12, <2>1, <2>3, <3>1, <3>2, <3>3 DEF Listed
  <2>4. CASE Found(held, x) /\ ~Found(h, x)
    <3>1. Own(x) = Own(k)
      BY <1>5, <2>4 DEF Own
    <3>2. \A b \in Bucket : TNK[b][x] = 0 /\ FPK[b][x] = IF b \in Own(x) THEN 1 ELSE 0
      BY <1>12, <2>4 DEF Listed
    <3>3. x \notin members'
      BY <1>2, <1>7, <2>2, <2>4, <3>1, <3>2
    <3>4. \A b \in Bucket : FPK'[b][x] = 0 /\ TNK'[b][x] = IF b \in Own(x) THEN 1 ELSE 0
      BY <1>4, <2>4, <3>1, <3>2
    <3> QED
      BY <1>6, <2>1, <2>4, <3>3, <3>4 DEF Listed
  <2>5. CASE ~Found(held, x)
    <3>1. ~Found(h, x) /\ x \notin members'
      BY <1>2, <1>5, <1>12, <2>5 DEF Listed
    <3>2. \A b \in Bucket : FPK[b][x] = 0 /\ TNK[b][x] = IF b \in Own(x) THEN 1 ELSE 0
      BY <1>12, <2>5 DEF Listed
    <3>3. \A b \in Bucket : FPK'[b][x] = 0 /\ TNK'[b][x] = IF b \in Own(x) THEN 1 ELSE 0
      BY <1>4, <3>2
    <3> QED
      BY <1>6, <2>1, <3>1, <3>3 DEF Listed
  <2> QED
    BY <1>5, <2>3, <2>4, <2>5
<1>13. ASSUME NEW x \in Key \ {k}, Unlisted(x), x \notin members
       PROVE  Unlisted(x)' /\ x \notin members'
  BY <1>2, <1>4, <1>13 DEF Unlisted
<1>14. \A x \in NK' : Listed(x)'
  BY <1>3, <1>11, <1>12 DEF Sound, TrackerTypes
<1>15. \A x \in Key \ (PK' \cup NK') : Listed(x)' \/ (Unlisted(x)' /\ x \notin members')
  BY <1>3, <1>12, <1>13 DEF Sound
<1>16. PK' \cap NK' = {}
  BY <1>3 DEF Sound
<1> QED
  BY <1>3, <1>5, <1>8, <1>9, <1>14, <1>15, <1>16 DEF Sound

\* A key in TNK_table is there once and not in the Othello.
LEMMA ListedOnce ==
  ASSUME TrackerTypes, Sound, NEW x \in Key, NEW b \in Bucket, TNK[b][x] > 0
  PROVE  TNK[b][x] = 1 /\ x \notin members
<1>1. TNK[b][x] # 0
  BY DEF TrackerTypes, Tables
<1>2. Listed(x)
  BY <1>1 DEF Sound, Unlisted, TrackerTypes
<1> QED
  BY <1>1, <1>2 DEF Listed

\* So the loops that move the new false positives store each of them once.
LEMMA NotStoredTwice ==
  ASSUME TrackerTypes, Sound, NEW k \in Key, NEW t \in Tables, NEW h, NEW first \in Own(k),
         \A b \in Bucket : \A x \in Key : t[b][x] \in {0, TNK[b][x]}
  PROVE  ~StoredTwice(t, h, first)
<1>1. first \in Bucket
  BY SlotOf DEF Own, TrackerTypes
<1>2. ASSUME NEW x \in Key, t[first][x] > 0 PROVE x \notin members /\ ~(t[first][x] > 1)
  <2>1. t[first][x] = TNK[first][x]
    BY <1>1, <1>2
  <2>2. TNK[first][x] > 0
    BY <1>2, <2>1
  <2> QED
    BY <1>1, <2>1, <2>2, ListedOnce
<1> QED
  BY <1>2 DEF StoredTwice, FoundIn

\* A key that is not in the lists of its buckets is in none.
LEMMA NotNear ==
  ASSUME TrackerTypes, Sound, NEW k \in Key \ PK, k \notin Near(TNK, k) \cup Near(FPK, k)
  PROVE  Unlisted(k) /\ k \notin members /\ k \notin NK
<1>1. PICK b \in Bucket : b \in Own(k)
  BY SlotOf DEF Own, TrackerTypes
<1>2. ~Listed(k)
  BY <1>1 DEF Listed, Near
<1> QED
  BY <1>2 DEF Sound, TrackerTypes

LEMMA InsertSound ==
  ASSUME TrackerTypes, Sound, NEW k \in Key \ (PK \cup NK), NEW v \in Bit,
         k \notin Near(TNK, k) \cup Near(FPK, k), insert(k, v)
  PROVE  \/ /\ Sound' /\ phase' = phase
            /\ PK' = (IF v = 1 THEN PK \cup {k} ELSE PK)
            /\ NK' = (IF v = 1 THEN NK ELSE NK \cup {k})
         \/ Ends("unbuildable")
<1>1. Unlisted(k) /\ k \notin members
  BY NotNear
<1>2. PK \subseteq Key /\ NK \subseteq Key /\ TNK \in Tables /\ FPK \in Tables
  BY DEF TrackerTypes
<1>3. CASE v = 1
  <2>1. ASSUME NEW first \in Own(k) PROVE ~InsertAsserts(k, first)
    <3>1. ~StoredTwice(TNK, More(held, k), first)
      BY <1>2, NotStoredTwice
    <3>2. k \notin NewFalse(TNK, More(held, k), k)
      BY DEF NewFalse
    <3> QED
      BY <1>1, <3>1, <3>2 DEF InsertAsserts
  <2>2. CASE PK' = PK \cup {k} /\ MadePositive(TNK, FPK, k) /\ UNCHANGED <<place, NK, phase>>
    <3>1. \A b \in Bucket : TNK[b][k] = 0 /\ FPK[b][k] = 0
      BY <1>1 DEF Unlisted
    <3>2. NK' = NK \ {k}
      BY <2>2
    <3>3. Sound'
      BY <1>2, <2>2, <3>1, <3>2, MadePositiveSound
    <3> QED
      BY <1>3, <2>2, <3>3
  <2>3. CASE rebuild(PK \cup {k}, NK)
    <3>1. (PK \cup {k}) \cap NK = {} /\ PK \cup {k} \in SUBSET Key
      BY <1>2 DEF Sound
    <3> QED
      BY <1>2, <1>3, <2>3, <3>1, RebuildSound
  <2>4. insertPositive(k)
    BY <1>3 DEF insert
  <2> QED
    BY <2>1, <2>2, <2>3, <2>4 DEF insertPositive
<1>4. CASE v # 1
  <2>1. CASE /\ ~Found(held, k)
             /\ NK' = NK \cup {k} /\ TNK' = Put(TNK, k)
             /\ UNCHANGED <<place, PK, held, FPK, members, bits, phase>>
    <3>1. \A x \in Key : (Found(held, x)' <=> Found(held, x)) /\ Own(x)' = Own(x)
      BY <2>1 DEF Found, Own
    <3>2. \A x \in Key : \A b \in Bucket :
            TNK'[b][x] = IF b \in Own(k) /\ x = k THEN TNK[b][x] + 1 ELSE TNK[b][x]
      BY <1>2, <2>1 DEF Put, Tables
    <3>3. Listed(k)'
      BY <1>1, <2>1, <3>1, <3>2 DEF Listed, Unlisted
    <3>4. \A x \in Key \ {k} : /\ Listed(x) => Listed(x)'
                               /\ Unlisted(x) => Unlisted(x)'
      BY <2>1, <3>1, <3>2 DEF Listed, Unlisted
    <3> QED
      BY <1>2, <1>4, <2>1, <3>3, <3>4 DEF Sound
  <2>2. CASE /\ Found(held, k)
             /\ NK' = NK \cup {k} /\ FPK' = Put(FPK, k)
             /\ Settle(members \cup {k}, [bits EXCEPT ![k] = 0])
             /\ UNCHANGED <<place, PK, held, TNK, phase>>
    <3>1. \A x \in Key : (Found(held, x)' <=> Found(held, x)) /\ Own(x)' = Own(x)
      BY <2>2 DEF Found, Own
    <3>2. \A x \in Key : \A b \in Bucket :
            FPK'[b][x] = IF b \in Own(k) /\ x = k THEN FPK[b][x] + 1 ELSE FPK[b][x]
      BY <1>2, <2>2 DEF Put, Tables
    <3>3. /\ members' = members \cup {k}
          /\ \A x \in members' : bits'[x] = IF x = k THEN 0 ELSE bits[x]
      BY <2>2 DEF Settle, TrackerTypes
    <3>4. Listed(k)'
      BY <1>1, <2>2, <3>1, <3>2, <3>3 DEF Listed, Unlisted
    <3>5. \A x \in Key \ {k} : /\ Listed(x) => Listed(x)'
                               /\ Unlisted(x) => Unlisted(x)'
      BY <2>2, <3>1, <3>2, <3>3 DEF Listed, Unlisted
    <3>6. \A x \in PK' : x \in members' /\ bits'[x] = 1 /\ Unlisted(x)'
      BY <1>2, <2>2, <3>3, <3>5 DEF Sound
    <3>7. \A x \in members' \ PK' : bits'[x] = 0
      BY <2>2, <3>3 DEF Sound
    <3> QED
      BY <1>2, <1>4, <2>2, <3>3, <3>4, <3>5, <3>6, <3>7 DEF Sound
  <2>3. CASE rebuild(PK, NK \cup {k})
    <3>1. PK \cap (NK \cup {k}) = {} /\ NK \cup {k} \in SUBSET Key
      BY <1>2 DEF Sound
    <3> QED
      BY <1>2, <1>4, <2>3, <3>1, RebuildSound
  <2>4. insertNegative(k)
    BY <1>4 DEF insert
  <2> QED
    BY <1>1, <2>1, <2>2, <2>3, <2>4 DEF insertNegative
<1> QED
  BY <1>3, <1>4

\* setValue: k becomes positive.
LEMMA SetPositiveSound ==
  ASSUME TrackerTypes, Sound, NEW k \in Key \ PK, setPositive(k)
  PROVE  \/ Sound' /\ PK' = PK \cup {k} /\ NK' = NK \ {k} /\ phase' = phase
         \/ Ends("unbuildable")
<1> DEFINE t == IF Found(held, k) THEN TNK ELSE Drop(TNK, k, {k})
           f == IF Found(held, k) THEN Drop(FPK, k, {k}) ELSE FPK
<1>1. PK \subseteq Key /\ NK \subseteq Key /\ TNK \in Tables /\ FPK \in Tables
  BY DEF TrackerTypes
<1>2. t \in Tables /\ f \in Tables
  BY <1>1, ListTypes
<1>3. \A b \in Bucket : \A x \in Key \ {k} : t[b][x] = TNK[b][x] /\ f[b][x] = FPK[b][x]
  BY DEF Drop
<1>4. \A b \in Bucket :
        /\ t[b][k] = IF ~Found(held, k) /\ b \in Own(k) THEN 0 ELSE TNK[b][k]
        /\ f[b][k] = IF Found(held, k) /\ b \in Own(k) THEN 0 ELSE FPK[b][k]
  BY DEF Drop
<1>5. Listed(k) \/ Unlisted(k)
  BY DEF Sound
<1> HIDE DEF t, f
<1>6. \A b \in Bucket : t[b][k] = 0 /\ f[b][k] = 0
  BY <1>4, <1>5 DEF Listed, Unlisted
<1>7. ASSUME NEW first \in Own(k) PROVE ~StoredTwice(t, More(held, k), first)
  BY <1>2, <1>3, <1>6, NotStoredTwice
<1>8. CASE /\ PK' = PK \cup {k} /\ NK' = NK \ {k}
           /\ MadePositive(t, f, k)
           /\ UNCHANGED <<place, phase>>
  BY <1>2, <1>3, <1>6, <1>8, MadePositiveSound
<1>9. CASE rebuild(PK \cup {k}, NK \ {k})
  <2>1. (PK \cup {k}) \cap (NK \ {k}) = {} /\ PK \cup {k} \in SUBSET Key /\ NK \ {k} \in SUBSET Key
    BY <1>1 DEF Sound
  <2> QED
    BY <1>9, <2>1, RebuildSound
<1> QED
  BY <1>7, <1>8, <1>9 DEF setPositive, t, f

\* setValue as a whole, for a key that is stored, or that is answered with 0
\* and becomes positive.
LEMMA SetValueSound ==
  ASSUME TrackerTypes, Sound, NEW k \in Key, NEW v \in Bit, setValue(k, v),
         k \in PK \cup NK \/ (v = 1 /\ query(k) # 1)
  PROVE  \/ /\ Sound' /\ phase' = phase
            /\ PK' = (IF v = 1 THEN PK \cup {k} ELSE PK \ {k})
            /\ NK' = (IF v = 1 THEN NK \ {k} ELSE NK \cup {k})
         \/ Ends("unbuildable")
<1>1. PK \cap NK = {} /\ PK \subseteq Key /\ NK \subseteq Key
  BY DEF Sound, TrackerTypes
<1>2. /\ k \in PK => query(k) = 1
      /\ k \in NK => query(k) = 0
  BY SoundQuery
<1>3. CASE setSame(k, v)
  <2>1. UNCHANGED <<place, PK, NK, held, TNK, FPK, members, bits, phase>>
    BY <1>3 DEF setSame
  <2>2. \A x : (Listed(x)' <=> Listed(x)) /\ (Unlisted(x)' <=> Unlisted(x))
    BY <2>1 DEF Listed, Unlisted, Own, Found
  <2>3. Sound'
    BY <2>1, <2>2 DEF Sound
  <2>4. v = 1 => k \in PK
    BY <1>2, <1>3 DEF setSame
  <2>5. v = 0 => k \in NK
    BY <1>2, <1>3 DEF setSame
  <2> QED
    BY <1>1, <2>1, <2>3, <2>4, <2>5 DEF Bit
<1>4. CASE query(k) = 1 /\ v = 0 /\ (unsetFound(k) \/ unsetLost(k))
  <2>1. k \in PK
    BY <1>2, <1>4
  <2> QED
    BY <1>4, <2>1, UnsetSound
<1>5. CASE query(k) = 0 /\ v = 1 /\ setPositive(k)
  <2>1. k \in Key \ PK
    BY <1>2, <1>5
  <2> QED
    BY <1>5, <2>1, SetPositiveSound
<1> QED
  BY <1>3, <1>4, <1>5 DEF setValue

\* erase of a key that has no false positives.
LEMMA EraseSound ==
  ASSUME TrackerTypes, Sound, NEW k \in Key, erase(k),
         query(k) = 1 => k \in PK /\ Near(FPK, k) \cap Lost(Less(held, k)) = {}
  PROVE  Sound' /\ PK' = PK \ {k} /\ NK' = NK \ {k} /\ phase' = phase
<1>1. PK \cap NK = {} /\ PK \subseteq Key /\ NK \subseteq Key
  BY DEF Sound, TrackerTypes
<1>2. CASE query(k) = 1
  <2> DEFINE h == Less(held, k)
  <2>1. k \in PK /\ Unlisted(k) /\ k \notin NK
    BY <1>1, <1>2 DEF Sound
  <2>2. /\ held' = h /\ PK' = PK \ {k}
        /\ members' = members \ {k} /\ \A x \in members' : bits'[x] = bits[x]
        /\ UNCHANGED <<place, NK, phase>>
    <3>1. erasePositive(k)
      BY <1>2 DEF erase
    <3>2. Settle(members \ {k}, bits)
      BY <1>2, <3>1 DEF erasePositive
    <3> QED
      BY <3>1, <3>2 DEF erasePositive, Settle
  <2>3. /\ TNK' = Take(TNK, FPK, k, Lost(h))
        /\ FPK' = Drop(FPK, k, Lost(h))
    BY <1>2 DEF erase, erasePositive
  <2>4. \A x \in Key : \A b \in Bucket :
          /\ TNK'[b][x] = IF b \in Own(k) /\ ~Found(h, x) THEN TNK[b][x] + FPK[b][x] ELSE TNK[b][x]
          /\ FPK'[b][x] = IF b \in Own(k) /\ ~Found(h, x) THEN 0 ELSE FPK[b][x]
    BY <2>3 DEF Take, Drop, Lost, FoundIn
  <2>5. /\ held' = Held(place', PK')
        /\ \A x \in Key :
             /\ Found(h, x) => Found(held, x)
             /\ Found(held, x) /\ ~Found(h, x) => place[x] = place[k]
        /\ \A x \in PK \ {k} : Found(h, x)
    BY <2>1, <2>2, SoundLess
  <2>6. \A x \in Key : (Found(held, x)' <=> Found(h, x)) /\ Own(x)' = Own(x)
    BY <2>2 DEF Found, Own
  <2>7. \A x \in Key : \A b \in Own(k) : ~Found(h, x) => ~(FPK[b][x] > 0)
    BY <1>2 DEF Near, Lost, FoundIn
  <2> HIDE DEF h
  <2>8. ASSUME NEW x \in Key \ {k}, Listed(x) PROVE Listed(x)'
    <3>1. \E b \in Own(x) : b \in Bucket
      BY SlotOf DEF Own, TrackerTypes
    <3>2. Found(held, x) <=> Found(h, x)
      <4> SUFFICES ASSUME Found(held, x), ~Found(h, x) PROVE FALSE
        BY <2>5
      <4>1. Own(x) = Own(k)
        BY <2>5 DEF Own
      <4>2. \A b \in Bucket : FPK[b][x] = IF b \in Own(x) THEN 1 ELSE 0
        BY <2>8 DEF Listed
      <4> QED
        BY <2>7, <3>1, <4>1, <4>2
    <3>3. ~Found(h, x) => \A b \in Bucket : FPK[b][x] = 0 /\ TNK[b][x] = IF b \in Own(x) THEN 1 ELSE 0
      BY <2>8, <3>2 DEF Listed
    <3>4. \A b \in Bucket : TNK'[b][x] = TNK[b][x] /\ FPK'[b][x] = FPK[b][x]
      BY <2>4, <3>3
    <3> QED
      BY <2>2, <2>6, <2>8, <3>2, <3>4 DEF Listed
  <2>9. \A x \in Key : Unlisted(x) => Unlisted(x)'
    BY <2>4 DEF Unlisted
  <2>10. \A x \in PK' : x \in members' /\ bits'[x] = 1 /\ Unlisted(x)'
    BY <1>1, <2>2, <2>9 DEF Sound
  <2>11. \A x \in members' \ PK' : bits'[x] = 0
    BY <2>2 DEF Sound
  <2>12. \A x \in NK' : Listed(x)'
    BY <1>1, <2>1, <2>2, <2>8 DEF Sound
  <2>13. \A x \in Key \ (PK' \cup NK') : Listed(x)' \/ (Unlisted(x)' /\ x \notin members')
    BY <2>1, <2>2, <2>8, <2>9 DEF Sound
  <2> QED
    BY <1>1, <2>1, <2>2, <2>5, <2>10, <2>11, <2>12, <2>13 DEF Sound
<1>3. CASE query(k) # 1
  <2>1. k \notin PK
    BY <1>3, SoundQuery
  <2>2. /\ NK' = NK \ {k}
        /\ FPK' = IF Found(held, k) THEN Drop(FPK, k, {k}) ELSE FPK
        /\ members' = IF Found(held, k) THEN members \ {k} ELSE members
        /\ \A x \in members' : bits'[x] = bits[x]
        /\ UNCHANGED <<place, PK, held, TNK, phase>>
    BY <1>3 DEF erase, eraseNegative, Settle
  <2>3. \A x \in Key : (Found(held, x)' <=> Found(held, x)) /\ Own(x)' = Own(x)
    BY <2>2 DEF Found, Own
  <2>4. \A x \in Key : \A b \in Bucket :
          /\ TNK'[b][x] = TNK[b][x]
          /\ FPK'[b][x] = IF Found(held, k) /\ b \in Own(k) /\ x = k THEN 0 ELSE FPK[b][x]
    BY <2>2 DEF Drop
  <2>5. ASSUME NEW x \in Key \ {k}, Listed(x)
        PROVE  Listed(x)'
    <3>1. \A b \in Bucket : TNK'[b][x] = TNK[b][x] /\ FPK'[b][x] = FPK[b][x]
      BY <2>4
    <3>2. (Found(held, x)' <=> Found(held, x)) /\ Own(x)' = Own(x)
      BY <2>3, Zenon
    <3>3. x \in members' <=> x \in members
      BY <2>2
    <3> QED
      BY <2>5, <3>1, <3>2, <3>3 DEF Listed
  <2>6. \A x \in Key : Unlisted(x) => Unlisted(x)'
    BY <2>4 DEF Unlisted
  <2>7. Listed(k)' \/ (Unlisted(k)' /\ k \notin members')
    <3>1. CASE Listed(k) /\ Found(held, k)
      BY <2>2, <2>4, <3>1 DEF Listed, Unlisted
    <3>2. CASE Listed(k) /\ ~Found(held, k)
      BY <2>2, <2>3, <2>4, <3>2 DEF Listed
    <3>3. CASE Unlisted(k) /\ k \notin members
      BY <2>2, <2>6, <3>3
    <3> QED
      BY <2>1, <3>1, <3>2, <3>3 DEF Sound
  <2>8. \A x \in PK' : x \in members' /\ bits'[x] = 1 /\ Unlisted(x)'
    BY <1>1, <2>1, <2>2, <2>6 DEF Sound
  <2>9. \A x \in members' \ PK' : bits'[x] = 0
    BY <2>2 DEF Sound
  <2>10. \A x \in NK' : Listed(x)'
    BY <1>1, <2>2, <2>5 DEF Sound
  <2>11. \A x \in Key \ (PK' \cup NK') : Listed(x)' \/ (Unlisted(x)' /\ x \notin members')
    BY <2>2, <2>5, <2>6, <2>7 DEF Sound
  <2>12. PK' \cap NK' = {} /\ held' = Held(place', PK')
    BY <1>1, <2>2 DEF Sound
  <2> QED
    BY <2>1, <2>2, <2>8, <2>9, <2>10, <2>11, <2>12 DEF Sound
<1> QED
  BY <1>2, <1>3

\* The tracker of main, made in a batch.
LEMMA InitSound ==
  ASSUME Init
  PROVE  TrackerTypes /\ Sound
<1>1. PICK P \in SUBSET Key, N \in SUBSET Key :
        /\ P \cap N = {}
        /\ PK = P /\ NK = N
        /\ held = Held(place, P)
        /\ TNK = Lists(place, N \ FalsePositives(place, P, N))
        /\ FPK = Lists(place, FalsePositives(place, P, N))
        /\ members = P \cup FalsePositives(place, P, N)
        /\ \A k \in members : bits[k] = IF k \in P THEN 1 ELSE 0
  BY DEF Init
<1>2. place \in Placement /\ bits \in [Key -> Bit] /\ flipped \in [Key -> Bit] /\ phase = "ready"
  BY DEF Init, NoFlips, Bit
<1> DEFINE FP == FalsePositives(place, P, N)
<1>3. \A x \in Key : Found(held, x) <=> \E p \in P : place[p] = place[x]
  BY <1>1, <1>2, HeldFound DEF Found
<1>4. FP = {x \in N : Found(held, x)}
  BY <1>3 DEF FalsePositives
<1>5. \A S \in SUBSET Key : Lists(place, S) \in Tables
  BY DEF Lists, Tables
<1>6. TrackerTypes
  <2>1. FP \subseteq Key /\ N \ FP \in SUBSET Key
    BY <1>4
  <2> QED
    BY <1>1, <1>2, <1>5, <2>1, HeldType DEF TrackerTypes
<1>7. \A x \in Key : \A b \in Bucket :
        /\ FPK[b][x] = IF x \in FP /\ b \in Own(x) THEN 1 ELSE 0
        /\ TNK[b][x] = IF x \in N \ FP /\ b \in Own(x) THEN 1 ELSE 0
  BY <1>1 DEF Lists, Own
<1> HIDE DEF FP
<1>8. \A x \in Key \ N : Unlisted(x)
  BY <1>4, <1>7 DEF Unlisted
<1>9. \A x \in N : Listed(x)
  <2> TAKE x \in N
  <2>1. x \in members <=> x \in FP
    BY <1>1 DEF FP
  <2> QED
    BY <1>4, <1>7, <2>1 DEF Listed
<1>10. members = P \cup FP
  BY <1>1 DEF FP
<1> QED
  BY <1>1, <1>4, <1>6, <1>8, <1>9, <1>10 DEF Sound

-----------------------------------------------------------------------------
(***************************************************************************)
(* The commands, the updates and the device.                               *)
(***************************************************************************)
UpdateTypes ==
  /\ device \in Verifier
  /\ msg \in Message \cup {None}
  /\ told \in [Key -> Bit \cup {Unknown}]
  /\ strayed \in Nat /\ drifted \in BOOLEAN

LEMMA Types ==
  /\ TypeOK <=> TrackerTypes /\ UpdateTypes
  /\ TypeOK' <=> TrackerTypes' /\ UpdateTypes'
BY DEF TypeOK, TrackerTypes, UpdateTypes, Tables

\* The sets of keys that the authority has told to be revoked and not to be.
Kept ==
  /\ PK = {k \in Key : told[k] = 1}
  /\ NK = {k \in Key : told[k] = 0}

Summary == [place |-> place, held |-> held, bits |-> bits]

InStep ==
  /\ msg # None /\ msg.action = "F" => msg.summary = Summary
  /\ ~drifted /\ msg # None /\ msg.action # "F" => decode_sub_summary(device, msg) = Summary
  /\ ~drifted /\ msg = None => device = Summary

Inv ==
  /\ TypeOK
  /\ strayed = 0 /\ phase = "ready" => Sound /\ Kept
  /\ strayed = 0 => phase \notin {"asserted", "threw"}
  /\ phase = "ready" => InStep

-----------------------------------------------------------------------------
(* What the tracker's operations leave in flipped, place, held and bits. *)

\* Flipping the reported answers takes the old answers to the new ones.
LEMMA FlipBack ==
  ASSUME NEW p \in [Key -> Bit], NEW q \in [Key -> Bit]
  PROVE  [k \in Key |-> p[k] (+) (p[k] (+) q[k])] = q
<1>1. \A k \in Key : p[k] (+) (p[k] (+) q[k]) = q[k]
  BY DEF (+), Bit
<1> QED
  BY <1>1

LEMMA NotSentinel == \A fl \in [Key -> Bit] : fl # Sentinel
BY TrackerAssumption

LEMMA VerifierFields ==
  ASSUME NEW d \in Verifier
  PROVE  /\ d = [place |-> d.place, held |-> d.held, bits |-> d.bits]
         /\ d.place \in Placement /\ d.held \in [Slot -> Nat] /\ d.bits \in [Key -> Bit]
BY DEF Verifier

\* What the verifier does to a device that has the server's summary.
LEMMA VerifierSteps ==
  ASSUME TrackerTypes, NEW k \in Key
  PROVE  /\ VFound(Summary, k) <=> Found(held, k)
         /\ VQuery(Summary, k) = query(k)
         /\ vf_insert(Summary, k) = [Summary EXCEPT !.held = More(held, k)]
         /\ vf_del(Summary, k) = [Summary EXCEPT !.held = Less(held, k)]
<1>1. VFound(Summary, k) <=> Found(held, k)
  BY DEF VFound, Summary, Found
<1>2. VQuery(Summary, k) = query(k)
  BY <1>1 DEF VQuery, query, Summary
<1>3. vf_insert(Summary, k) = [Summary EXCEPT !.held = More(held, k)]
  BY DEF vf_insert, Summary, More
<1>4. vf_del(Summary, k) = [Summary EXCEPT !.held = Less(held, k)]
  BY DEF vf_del, Summary, Less
<1> QED
  BY <1>1, <1>2, <1>3, <1>4

\* The reported flips take the answers along, whatever has become of the filter.
LEMMA FlipSummary ==
  ASSUME TrackerTypes, bits' \in [Key -> Bit], Report, place' = place, NEW h, held' = h
  PROVE  /\ flipped' # Sentinel
         /\ mem_value_flipping([Summary EXCEPT !.held = h], flipped') = Summary'
<1>1. bits \in [Key -> Bit] /\ flipped' # Sentinel
  BY ReportTypes, NotSentinel DEF TrackerTypes
<1>2. [k \in Key |-> bits[k] (+) flipped'[k]] = bits'
  <2>1. [k \in Key |-> bits[k] (+) flipped'[k]] = [k \in Key |-> bits[k] (+) (bits[k] (+) bits'[k])]
    BY DEF Report
  <2> QED
    BY <1>1, <2>1, FlipBack
<1>3. mem_value_flipping([Summary EXCEPT !.held = h], flipped')
        = [place |-> place, held |-> h, bits |-> [k \in Key |-> bits[k] (+) flipped'[k]]]
  BY <1>1 DEF mem_value_flipping, Summary
<1> QED
  BY <1>1, <1>2, <1>3 DEF Summary

\* insert: the delta does to the device what has been done to the tracker.
LEMMA InsertInStep ==
  ASSUME TrackerTypes, NEW k \in Key, NEW v \in Bit, insert(k, v),
         phase = "ready", phase' = "ready", flipped' # Sentinel
  PROVE  VInsert(Summary, k, v, flipped') = Summary'
<1>1. bits' \in [Key -> Bit]
  BY InsertTypes DEF TrackerTypes
<1>2. ~Ends("asserted") /\ \A P, N : ~rebuild(P, N)
  BY DEF Ends, rebuild
<1>3. CASE v = 1
  <2>1. MadePositive(TNK, FPK, k) /\ place' = place
    BY <1>2, <1>3 DEF insert, insertPositive
  <2>2. held' = More(held, k) /\ Report
    BY <2>1 DEF MadePositive
  <2>3. mem_value_flipping([Summary EXCEPT !.held = More(held, k)], flipped') = Summary'
    BY <1>1, <2>1, <2>2, FlipSummary
  <2> QED
    BY <1>3, <2>3, VerifierSteps DEF VInsert
<1>4. CASE v # 1
  <2>1. CASE ~Found(held, k)
    <3>1. UNCHANGED <<place, held, bits>>
      BY <1>2, <1>4, <2>1 DEF insert, insertNegative
    <3> QED
      BY <1>4, <2>1, <3>1, VerifierSteps DEF VInsert, Summary
  <2>2. CASE Found(held, k)
    <3>1. UNCHANGED <<place, held>> /\ Report
      BY <1>2, <1>4, <2>2 DEF insert, insertNegative
    <3>2. mem_value_flipping([Summary EXCEPT !.held = held], flipped') = Summary'
      BY <1>1, <3>1, FlipSummary
    <3>3. [Summary EXCEPT !.held = held] = Summary
      BY DEF Summary
    <3> QED
      BY <1>4, <2>2, <3>2, <3>3, VerifierSteps DEF VInsert
  <2> QED
    BY <2>1, <2>2
<1> QED
  BY <1>3, <1>4

\* setValue: the same.
LEMMA SetValueInStep ==
  ASSUME TrackerTypes, NEW k \in Key, NEW v \in Bit, setValue(k, v),
         phase = "ready", phase' = "ready", flipped' # Sentinel
  PROVE  VSetValue(Summary, k, v, flipped') = Summary'
<1>1. bits' \in [Key -> Bit]
  BY SetValueTypes DEF TrackerTypes
<1>2. ~Ends("asserted") /\ ~Ends("threw") /\ \A P, N : ~rebuild(P, N)
  BY DEF Ends, rebuild
<1>3. CASE setSame(k, v)
  BY <1>3, VerifierSteps DEF setSame, VSetValue, Summary
<1>4. CASE query(k) = 1 /\ v = 0 /\ (unsetFound(k) \/ unsetLost(k))
  <2>1. unset(k, Less(held, k))
    BY <1>2, <1>4 DEF unsetFound, unsetLost
  <2>2. held' = Less(held, k) /\ Report /\ place' = place
    BY <2>1 DEF unset
  <2>3. mem_value_flipping([Summary EXCEPT !.held = Less(held, k)], flipped') = Summary'
    BY <1>1, <2>2, FlipSummary
  <2> QED
    BY <1>4, <2>3, VerifierSteps DEF VSetValue
<1>5. CASE query(k) = 0 /\ v = 1 /\ setPositive(k)
  <2>1. held' = More(held, k) /\ Report /\ place' = place
    BY <1>2, <1>5 DEF setPositive, MadePositive
  <2>2. mem_value_flipping([Summary EXCEPT !.held = More(held, k)], flipped') = Summary'
    BY <1>1, <2>1, FlipSummary
  <2> QED
    BY <1>5, <2>2, VerifierSteps DEF VSetValue
<1> QED
  BY <1>3, <1>4, <1>5 DEF setValue

\* erase of a key that the filter does not find: the summary stays the same,
\* and so does the device, whatever flips the message carries.
LEMMA EraseInStep ==
  ASSUME TrackerTypes, NEW k \in Key, erase(k), ~Found(held, k), NEW fl
  PROVE  Summary' = Summary /\ VInsert(Summary, k, 0, fl) = Summary
<1>1. query(k) # 1
  BY DEF query
<1>2. UNCHANGED <<place, held, bits>>
  BY <1>1 DEF erase, eraseNegative
<1>3. Summary' = Summary
  BY <1>2 DEF Summary
<1>4. VInsert(Summary, k, 0, fl) = Summary
  BY VerifierSteps DEF VInsert
<1> QED
  BY <1>3, <1>4

-----------------------------------------------------------------------------
(* Types of updates and devices. *)

LEMMA DecodeTypes ==
  ASSUME NEW d \in Verifier, NEW m \in Message, m.action # "F"
  PROVE  decode_sub_summary(d, m) \in Verifier
<1>1. m.key \in Key /\ (m.flips = Sentinel \/ m.flips \in [Key -> Bit])
  BY DEF Message
<1> DEFINE k == m.key
           p == d.place[k]
<1>2. p \in Slot /\ d.held[p] \in Nat
  BY <1>1, SlotOf, VerifierFields
<1>3. vf_insert(d, k) \in Verifier
  <2>1. vf_insert(d, k) = [place |-> d.place, held |-> [d.held EXCEPT ![p] = @ + 1], bits |-> d.bits]
    BY VerifierFields DEF vf_insert
  <2> QED
    BY <1>2, <2>1, VerifierFields DEF Verifier
<1>4. VFound(d, k) => vf_del(d, k) \in Verifier
  <2>1. vf_del(d, k) = [place |-> d.place, held |-> [d.held EXCEPT ![p] = @ - 1], bits |-> d.bits]
    BY VerifierFields DEF vf_del
  <2>2. VFound(d, k) => d.held[p] - 1 \in Nat
    BY <1>2 DEF VFound
  <2> QED
    BY <2>1, <2>2, VerifierFields DEF Verifier
<1>5. ASSUME NEW e \in Verifier, NEW fl, fl = Sentinel \/ fl \in [Key -> Bit]
      PROVE  mem_value_flipping(e, fl) \in Verifier
  <2>1. [e EXCEPT !.bits = [x \in Key |-> @[x] (+) fl[x]]]
          = [place |-> e.place, held |-> e.held, bits |-> [x \in Key |-> e.bits[x] (+) fl[x]]]
    BY VerifierFields
  <2>2. [x \in Key |-> e.bits[x] (+) fl[x]] \in [Key -> Bit]
    BY DEF (+), Bit
  <2> QED
    BY <1>5, <2>1, <2>2, VerifierFields DEF mem_value_flipping, Verifier
<1>6. VQuery(d, k) # 0 => VFound(d, k)
  BY DEF VQuery
<1> HIDE DEF k, p
<1>7. VInsert(d, k, m.value, m.flips) \in Verifier
  BY <1>1, <1>3, <1>5 DEF VInsert
<1>8. VSetValue(d, k, m.value, m.flips) \in Verifier
  BY <1>1, <1>3, <1>4, <1>5, <1>6 DEF VSetValue
<1> QED
  BY <1>7, <1>8 DEF decode_sub_summary, k

LEMMA DeltaTypes ==
  ASSUME TrackerTypes', NEW action \in Action, NEW k \in Key, NEW v \in Bit, Delta(action, k, v)
  PROVE  /\ msg' \in Message /\ msg' # None /\ msg'.action # "F"
         /\ \A d : decode_sub_summary(d, msg') =
              IF action = "AddAction" THEN VInsert(d, k, v, flipped')
              ELSE IF action = "RemoveAction" THEN d
              ELSE VSetValue(d, k, v, flipped')
<1>1. flipped' \in [Key -> Bit] \cup {Sentinel}
  BY DEF TrackerTypes
<1>2. msg' = [action |-> action, key |-> k, value |-> v, flips |-> flipped']
  BY DEF Delta
<1>3. msg' \in Message
  BY <1>1, <1>2 DEF Message
<1>4. msg'.action = action /\ action # "F" /\ action # "none"
  BY <1>2 DEF Action
<1>5. msg' # None
  BY <1>4 DEF None
<1> QED
  BY <1>2, <1>3, <1>4, <1>5 DEF decode_sub_summary

LEMMA FullTypes ==
  ASSUME TrackerTypes', Full
  PROVE  msg' \in Message /\ msg' # None /\ msg'.action = "F" /\ msg'.summary = Summary'
<1>1. msg' = [action |-> "F", summary |-> Summary']
  BY DEF Full, Summary
<1>2. Summary' \in Verifier
  BY DEF TrackerTypes, Summary, Verifier
<1>3. msg'.action = "F" /\ msg'.summary = Summary'
  BY <1>1
<1>4. msg' # None
  BY <1>3 DEF None
<1> QED
  BY <1>1, <1>2, <1>3, <1>4 DEF Message

\* The ghost that counts broken rules stays 0 only while none is broken.
LEMMA RuleKept ==
  ASSUME strayed \in Nat, NEW breaks, Rule(breaks)
  PROVE  strayed' \in Nat /\ (strayed' = 0 => strayed = 0 /\ ~breaks)
BY DEF Rule

-----------------------------------------------------------------------------
(* The commands. *)

LEMMA AddInv ==
  ASSUME Inv, NEW k \in Key, NEW v \in Bit, addCertificate(k, v)
  PROVE  Inv'
<1>1. /\ TrackerTypes /\ UpdateTypes
      /\ phase = "ready" /\ msg = None
      /\ insert(k, v)
      /\ told' = [told EXCEPT ![k] = v]
      /\ UNCHANGED <<device, drifted>>
  BY Types DEF Inv, addCertificate, Idle, Told
<1>2. TrackerTypes'
  BY <1>1, InsertTypes
<1>3. /\ phase' = "ready" /\ flipped' = Sentinel => Full
      /\ phase' = "ready" /\ flipped' # Sentinel => Delta("AddAction", k, v)
      /\ phase' # "ready" => msg' = msg
  BY DEF addCertificate, Send
<1>4. strayed' \in Nat /\ (strayed' = 0 => strayed = 0 /\ ~BadAdd(k))
  BY <1>1, RuleKept DEF addCertificate, UpdateTypes
<1>5. "AddAction" \in Action
  BY DEF Action
<1>6. UpdateTypes'
  <2>1. msg' \in Message \cup {None}
    BY <1>1, <1>2, <1>3, <1>5, DeltaTypes, FullTypes DEF UpdateTypes
  <2> QED
    BY <1>1, <1>4, <2>1 DEF UpdateTypes
<1>7. ASSUME strayed' = 0
      PROVE  /\ phase' = "ready" => Sound' /\ Kept'
             /\ phase' \notin {"asserted", "threw"}
  <2>1. Sound /\ Kept /\ told[k] = Unknown /\ k \notin Near(TNK, k) \cup Near(FPK, k)
    BY <1>1, <1>4, <1>7 DEF Inv, BadAdd
  <2>2. k \in Key \ (PK \cup NK)
    BY <2>1, CRIoTAssumption DEF Kept, Bit
  <2>3. CASE Ends("unbuildable")
    BY <2>3 DEF Ends
  <2>4. CASE /\ Sound' /\ phase' = phase
             /\ PK' = (IF v = 1 THEN PK \cup {k} ELSE PK)
             /\ NK' = (IF v = 1 THEN NK ELSE NK \cup {k})
    <3>1. Kept'
      BY <1>1, <2>1, <2>2, <2>4 DEF Kept, UpdateTypes, Bit
    <3> QED
      BY <1>1, <2>4, <3>1
  <2> QED
    BY <1>1, <2>1, <2>2, <2>3, <2>4, InsertSound
<1>8. ASSUME phase' = "ready" PROVE InStep'
  <2>1. CASE flipped' = Sentinel
    BY <1>2, <1>3, <1>8, <2>1, FullTypes DEF InStep
  <2>2. CASE flipped' # Sentinel
    <3>1. /\ msg' # None /\ msg'.action # "F"
          /\ decode_sub_summary(device, msg') = VInsert(device, k, v, flipped')
      BY <1>2, <1>3, <1>5, <1>8, <2>2, DeltaTypes
    <3>2. ~drifted => device = Summary
      BY <1>1 DEF Inv, InStep
    <3>3. VInsert(Summary, k, v, flipped') = Summary'
      BY <1>1, <1>8, <2>2, InsertInStep
    <3> QED
      BY <1>1, <3>1, <3>2, <3>3 DEF InStep
  <2> QED
    BY <2>1, <2>2
<1> QED
  BY <1>2, <1>6, <1>7, <1>8, Types DEF Inv

\* What both commands that set a value have in common.
LEMMA SetKept ==
  ASSUME Inv, NEW k \in Key, NEW v \in Bit, setValue(k, v), Rule(Stray(k, v)),
         phase = "ready", told' = [told EXCEPT ![k] = v]
  PROVE  strayed' = 0 => /\ phase' = "ready" => Sound' /\ Kept'
                         /\ phase' \notin {"asserted", "threw"}
<1> SUFFICES ASSUME strayed' = 0
             PROVE  /\ phase' = "ready" => Sound' /\ Kept'
                    /\ phase' \notin {"asserted", "threw"}
  OBVIOUS
<1>1. TrackerTypes /\ UpdateTypes
  BY Types DEF Inv
<1>2. strayed = 0 /\ ~Stray(k, v)
  BY <1>1, RuleKept DEF UpdateTypes
<1>3. Sound /\ Kept
  BY <1>2 DEF Inv
<1>4. k \in PK \cup NK \/ (v = 1 /\ query(k) # 1)
  BY <1>1, <1>2, <1>3 DEF Stray, Kept, UpdateTypes, Bit
<1>5. CASE Ends("unbuildable")
  BY <1>5 DEF Ends
<1>6. CASE /\ Sound' /\ phase' = phase
           /\ PK' = (IF v = 1 THEN PK \cup {k} ELSE PK \ {k})
           /\ NK' = (IF v = 1 THEN NK \ {k} ELSE NK \cup {k})
  <2>1. Kept'
    BY <1>1, <1>3, <1>6 DEF Kept, UpdateTypes, Bit
  <2> QED
    BY <1>6, <2>1
<1> QED
  BY <1>1, <1>3, <1>4, <1>5, <1>6, SetValueSound

LEMMA UnrevokeInv ==
  ASSUME Inv, NEW k \in Key, unrevokeCertificate(k)
  PROVE  Inv'
<1>0. 0 \in Bit /\ "UnrevokeAction" \in Action
  BY DEF Bit, Action
<1>1. /\ TrackerTypes /\ UpdateTypes
      /\ phase = "ready" /\ msg = None
      /\ setValue(k, 0)
      /\ told' = [told EXCEPT ![k] = 0]
      /\ UNCHANGED <<device, drifted>>
  BY Types DEF Inv, unrevokeCertificate, Idle, Told
<1>2. TrackerTypes'
  BY <1>0, <1>1, SetValueTypes
<1>3. /\ phase' = "ready" /\ flipped' = Sentinel => Full
      /\ phase' = "ready" /\ flipped' # Sentinel => Delta("UnrevokeAction", k, 0)
      /\ phase' # "ready" => msg' = msg
  BY DEF unrevokeCertificate, Send
<1>4. strayed' \in Nat
  BY <1>1, RuleKept DEF unrevokeCertificate, UpdateTypes
<1>5. UpdateTypes'
  <2>1. msg' \in Message \cup {None}
    BY <1>0, <1>1, <1>2, <1>3, DeltaTypes, FullTypes DEF UpdateTypes
  <2> QED
    BY <1>0, <1>1, <1>4, <2>1 DEF UpdateTypes
<1>6. strayed' = 0 => /\ phase' = "ready" => Sound' /\ Kept'
                      /\ phase' \notin {"asserted", "threw"}
  BY <1>0, <1>1, SetKept DEF unrevokeCertificate
<1>7. ASSUME phase' = "ready" PROVE InStep'
  <2>1. CASE flipped' = Sentinel
    BY <1>2, <1>3, <1>7, <2>1, FullTypes DEF InStep
  <2>2. CASE flipped' # Sentinel
    <3>1. /\ msg' # None /\ msg'.action # "F"
          /\ decode_sub_summary(device, msg') = VSetValue(device, k, 0, flipped')
      BY <1>0, <1>2, <1>3, <1>7, <2>2, DeltaTypes
    <3>2. ~drifted => device = Summary
      BY <1>1 DEF Inv, InStep
    <3>3. VSetValue(Summary, k, 0, flipped') = Summary'
      BY <1>0, <1>1, <1>7, <2>2, SetValueInStep
    <3> QED
      BY <1>1, <3>1, <3>2, <3>3 DEF InStep
  <2> QED
    BY <2>1, <2>2
<1> QED
  BY <1>2, <1>5, <1>6, <1>7, Types DEF Inv

LEMMA RevokeInv ==
  ASSUME Inv, NEW k \in Key, revokeCertificate(k)
  PROVE  Inv'
<1>0. 1 \in Bit /\ "RevokeAction" \in Action
  BY DEF Bit, Action
<1>1. /\ TrackerTypes /\ UpdateTypes
      /\ phase = "ready" /\ msg = None
      /\ setValue(k, 1)
      /\ told' = [told EXCEPT ![k] = 1]
      /\ device' = device /\ drifted' = (drifted \/ flipped' = Sentinel)
  BY Types DEF Inv, revokeCertificate, Idle, Told
<1>2. TrackerTypes'
  BY <1>0, <1>1, SetValueTypes
<1>3. /\ phase' = "ready" => Delta("RevokeAction", k, 1)
      /\ phase' # "ready" => msg' = msg
  BY DEF revokeCertificate, Send
<1>4. strayed' \in Nat
  BY <1>1, RuleKept DEF revokeCertificate, UpdateTypes
<1>5. UpdateTypes'
  <2>1. msg' \in Message \cup {None}
    BY <1>0, <1>1, <1>2, <1>3, DeltaTypes DEF UpdateTypes
  <2>2. drifted' \in BOOLEAN
    BY <1>1
  <2> QED
    BY <1>0, <1>1, <1>4, <2>1, <2>2 DEF UpdateTypes
<1>6. strayed' = 0 => /\ phase' = "ready" => Sound' /\ Kept'
                      /\ phase' \notin {"asserted", "threw"}
  BY <1>0, <1>1, SetKept DEF revokeCertificate
<1>7. ASSUME phase' = "ready" PROVE InStep'
  <2>1. /\ msg' # None /\ msg'.action # "F"
        /\ decode_sub_summary(device, msg') = VSetValue(device, k, 1, flipped')
    BY <1>0, <1>2, <1>3, <1>7, DeltaTypes
  <2>2. ~drifted' => device = Summary /\ flipped' # Sentinel
    BY <1>1 DEF Inv, InStep
  <2>3. flipped' # Sentinel => VSetValue(Summary, k, 1, flipped') = Summary'
    BY <1>0, <1>1, <1>7, SetValueInStep
  <2> QED
    BY <1>1, <2>1, <2>2, <2>3 DEF InStep
<1> QED
  BY <1>2, <1>5, <1>6, <1>7, Types DEF Inv

LEMMA RemoveInv ==
  ASSUME Inv, NEW k \in Key, removeCertificate(k)
  PROVE  Inv'
<1>0. 0 \in Bit /\ "AddAction" \in Action
  BY DEF Bit, Action
<1>1. /\ TrackerTypes /\ UpdateTypes
      /\ phase = "ready" /\ msg = None
      /\ erase(k)
      /\ told' = [told EXCEPT ![k] = Unknown]
      /\ device' = device /\ drifted' = (drifted \/ Found(held, k))
  BY Types DEF Inv, removeCertificate, Idle, Told
<1>2. TrackerTypes' /\ phase' = "ready"
  BY <1>1, EraseTypes DEF erase, erasePositive, eraseNegative
<1>3. Delta("AddAction", k, 0)
  BY <1>2 DEF removeCertificate, Send
<1>4. strayed' \in Nat /\ (strayed' = 0 => strayed = 0 /\ ~BadErase(k))
  BY <1>1, RuleKept DEF removeCertificate, UpdateTypes
<1>5. UpdateTypes'
  <2>1. msg' \in Message \cup {None}
    BY <1>0, <1>2, <1>3, DeltaTypes
  <2>2. drifted' \in BOOLEAN
    BY <1>1 DEF UpdateTypes
  <2> QED
    BY <1>1, <1>4, <2>1, <2>2 DEF UpdateTypes
<1>6. ASSUME strayed' = 0 PROVE Sound' /\ Kept'
  <2>1. Sound /\ Kept /\ ~BadErase(k)
    BY <1>1, <1>4, <1>6 DEF Inv
  <2>2. query(k) = 1 => k \in PK /\ Near(FPK, k) \cap Lost(Less(held, k)) = {}
    <3>1. k \in NK => query(k) = 0
      BY <1>1, <2>1, SoundQuery
    <3> QED
      BY <1>1, <2>1, <3>1 DEF BadErase, Kept, UpdateTypes, Bit
  <2>3. Sound' /\ PK' = PK \ {k} /\ NK' = NK \ {k}
    BY <1>1, <2>1, <2>2, EraseSound
  <2>4. Kept'
    BY <1>1, <2>1, <2>3, CRIoTAssumption DEF Kept, UpdateTypes, Bit
  <2> QED
    BY <2>3, <2>4
<1>7. InStep'
  <2>1. /\ msg' # None /\ msg'.action # "F"
        /\ decode_sub_summary(device, msg') = VInsert(device, k, 0, flipped')
    BY <1>0, <1>2, <1>3, DeltaTypes
  <2>2. ~drifted' => device = Summary /\ ~Found(held, k)
    BY <1>1 DEF Inv, InStep
  <2>3. ~Found(held, k) => Summary' = Summary /\ VInsert(Summary, k, 0, flipped') = Summary
    BY <1>1, EraseInStep
  <2> QED
    BY <1>1, <2>1, <2>2, <2>3 DEF InStep
<1> QED
  BY <1>2, <1>5, <1>6, <1>7, Types DEF Inv

LEMMA ApplyInv ==
  ASSUME Inv, Apply
  PROVE  Inv'
<1>1. /\ TrackerTypes /\ UpdateTypes
      /\ msg \in Message /\ msg' = None
      /\ UNCHANGED <<tracker, told, strayed>>
  BY Types DEF Inv, Apply, UpdateTypes
<1>2. /\ TrackerTypes' /\ Summary' = Summary
      /\ (Sound /\ Kept) => (Sound /\ Kept)'
  <2>1. \A x : (Listed(x)' <=> Listed(x)) /\ (Unlisted(x)' <=> Unlisted(x))
    BY <1>1 DEF tracker, Listed, Unlisted, Own, Found
  <2> QED
    BY <1>1, <2>1 DEF tracker, TrackerTypes, Summary, Sound, Kept
<1>3. CASE msg.action = "F"
  <2>1. msg.summary \in Verifier
    BY <1>1, <1>3 DEF Message, Action
  <2>2. device' = msg.summary /\ drifted' = FALSE
    BY <1>3 DEF Apply
  <2>3. UpdateTypes'
    BY <1>1, <2>1, <2>2 DEF UpdateTypes
  <2>4. phase' = "ready" => InStep'
    BY <1>1, <1>2, <1>3, <2>2 DEF Inv, InStep, tracker, Apply
  <2> QED
    BY <1>1, <1>2, <2>3, <2>4, Types DEF Inv, tracker
<1>4. CASE msg.action # "F"
  <2>1. device' = (IF drifted THEN device ELSE decode_sub_summary(device, msg)) /\ drifted' = drifted
    BY <1>4 DEF Apply
  <2>2. UpdateTypes'
    BY <1>1, <1>4, <2>1, DecodeTypes DEF UpdateTypes
  <2>3. phase' = "ready" => InStep'
    BY <1>1, <1>2, <1>4, <2>1 DEF Inv, InStep, tracker, Apply
  <2> QED
    BY <1>1, <1>2, <2>2, <2>3, Types DEF Inv, tracker
<1> QED
  BY <1>3, <1>4

-----------------------------------------------------------------------------
LEMMA InitInv == CInit => Inv
<1> SUFFICES ASSUME CInit PROVE Inv
  OBVIOUS
<1>1. TrackerTypes /\ Sound
  BY InitSound DEF CInit
<1>2. device \in Verifier
  BY <1>1 DEF CInit, TrackerTypes, Verifier
<1>3. told \in [Key -> Bit \cup {Unknown}]
  BY DEF CInit, Bit
<1>4. UpdateTypes
  BY <1>2, <1>3 DEF CInit, UpdateTypes
<1>5. Kept
  BY <1>1, CRIoTAssumption DEF CInit, Kept, Sound, TrackerTypes, Bit
<1>6. phase = "ready" /\ strayed = 0 /\ InStep
  BY DEF CInit, Init, InStep, Summary
<1> QED
  BY <1>1, <1>4, <1>5, <1>6, Types DEF Inv

LEMMA StepInv == Inv /\ [Next]_vars => Inv'
<1> SUFFICES ASSUME Inv, [Next]_vars PROVE Inv'
  OBVIOUS
<1>1. CASE Next
  BY <1>1, AddInv, UnrevokeInv, RevokeInv, RemoveInv, ApplyInv DEF Next
<1>2. CASE UNCHANGED vars
  <2>1. UNCHANGED <<place, PK, NK, held, TNK, FPK, members, bits, flipped, phase,
                    device, msg, told, strayed, drifted>>
    BY <1>2 DEF vars, tracker
  <2>2. \A x : (Listed(x)' <=> Listed(x)) /\ (Unlisted(x)' <=> Unlisted(x))
    BY <2>1 DEF Listed, Unlisted, Own, Found
  <2>3. TypeOK' /\ (InStep => InStep') /\ (Sound /\ Kept => Sound' /\ Kept')
    <3>1. TypeOK'
      BY <2>1 DEF Inv, TypeOK
    <3>2. InStep => InStep'
      BY <2>1 DEF InStep, Summary
    <3>3. Sound /\ Kept => Sound' /\ Kept'
      BY <2>1, <2>2 DEF Sound, Kept
    <3> QED
      BY <3>1, <3>2, <3>3
  <2> QED
    BY <2>1, <2>3 DEF Inv
<1> QED
  BY <1>1, <1>2

\* The inductive invariant: as long as no rule is broken, the tracker's
\* structures agree with each other and with what the authority has told; and,
\* rules or not, the update on its way takes the device to the summary.
THEOREM Invariant == Spec => []Inv
<1>1. CInit => Inv
  BY InitInv
<1>2. Inv /\ [Next]_vars => Inv'
  BY StepInv
<1> QED
  BY <1>1, <1>2, PTL DEF Spec

\* Every table counts with natural numbers, the device's filter too: nothing is
\* taken out that is not in (DASS_Verifier.h setValue).
THEOREM TypeCorrect == Spec => []TypeOK
<1>1. Inv => TypeOK
  BY DEF Inv
<1> QED
  BY <1>1, Invariant, PTL

\* The tracker answers every key with the status that the authority gave it.
THEOREM AnswersAreExact == Spec => []AnswersExact
<1>1. Inv => AnswersExact
  <2> SUFFICES ASSUME Inv, strayed = 0, phase = "ready", NEW k \in Key, told[k] # Unknown
               PROVE  query(k) = told[k]
    BY DEF AnswersExact
  <2>1. TrackerTypes /\ UpdateTypes /\ Sound /\ Kept
    BY Types DEF Inv
  <2>2. told[k] \in Bit
    BY <2>1 DEF UpdateTypes
  <2> QED
    BY <2>1, <2>2, SoundQuery DEF Kept, Bit
<1> QED
  BY <1>1, Invariant, PTL

\* PK and NK are the keys with that status.
THEOREM KeysAreKept == Spec => []KeysKept
<1>1. Inv => KeysKept
  BY DEF Inv, KeysKept, Kept
<1> QED
  BY <1>1, Invariant, PTL

\* The two tables list every unrevoked key where the updates look for it.
THEOREM ListsAreExact == Spec => []ListsExact
<1>1. Inv => ListsExact
  <2> SUFFICES ASSUME Inv, strayed = 0, phase = "ready" PROVE ListsExact
    BY DEF ListsExact
  <2>1. Sound
    BY DEF Inv
  <2> QED
    BY <2>1 DEF ListsExact, Sound, Listed
<1> QED
  BY <1>1, Invariant, PTL

\* No assertion fails and valueFlip does not throw.
THEOREM TrackerSurvives == Spec => []Survives
<1>1. Inv => Survives
  BY DEF Inv, Survives
<1> QED
  BY <1>1, Invariant, PTL

\* The device answers like the server, also after commands against the rules.
THEOREM DevicesAgree == Spec => []DeviceAgrees
<1>1. Inv => DeviceAgrees
  <2> SUFFICES ASSUME Inv, phase = "ready", msg = None, ~drifted, NEW k \in Key
               PROVE  VQuery(device, k) = query(k)
    BY DEF DeviceAgrees
  <2>1. TrackerTypes /\ device = Summary
    BY Types DEF Inv, InStep
  <2> QED
    BY <2>1, VerifierSteps
<1> QED
  BY <1>1, Invariant, PTL
=============================================================================
