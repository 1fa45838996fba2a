----------------------------- MODULE DASSTracker -----------------------------
(***************************************************************************)
(* The server's status of every certificate (src/platform/DASS_Tracker.h): *)
(* a vacuum filter of the positive (revoked) keys, and an Othello that     *)
(* tells the positive keys from the false positives, the negative keys     *)
(* that the filter finds as well.  Two tables with a list for each bucket  *)
(* of the filter say which negative keys are false positives (FPK_table)   *)
(* and which are not found (TNK_table), so that an update can look for     *)
(* those whose case it has changed.                                        *)
(*                                                                         *)
(* The filter is the bag that VacuumFilter is proved to implement: how     *)
(* many equal elements it holds.  The Othello is the map that              *)
(* ControlPlaneOthello is proved to implement: bits is what its query      *)
(* answers for any key, which is the stored value for its members and may  *)
(* become anything for the others whenever its bit array changes.          *)
(***************************************************************************)
EXTENDS Naturals, FiniteSets

CONSTANTS
  Key,         \* the serial numbers of the certificates
  Bucket,      \* the buckets of the filter
  Fp,          \* the fingerprints
  Placement,   \* where the keys go for one or other fingerprint length
  Sentinel,    \* the index 0xffffffff: rebuild
  MaxCopies    \* bound: equal elements in the filter, equal entries in a list

Bit == {0, 1}

\* What lookup can tell apart: the two buckets of a key and its fingerprint.
Slot == [buckets : {B \in SUBSET Bucket : Cardinality(B) = 2}, fp : Fp]

ASSUME TrackerAssumption ==
  /\ IsFiniteSet(Key)
  /\ Placement # {} /\ Placement \subseteq [Key -> Slot]
  /\ Sentinel \notin [Key -> Bit]
  /\ MaxCopies \in Nat \ {0}

VARIABLES
  place,    \* the slot of each key in the present filter
  PK,       \* the set of positive keys
  NK,       \* the set of negative keys
  held,     \* vf: how many elements it holds in each slot
  TNK,      \* TNK_table: how often each key is in the list of each bucket
  FPK,      \* FPK_table: the same
  members,  \* the keys stored in the Othello
  bits,     \* the Othello's answer for each key
  flipped,  \* flipped_indexes: the answers that they change, or Sentinel
  phase     \* "ready", or what has ended the process

tracker == <<place, PK, NK, held, TNK, FPK, members, bits, flipped, phase>>

-----------------------------------------------------------------------------
a (+) b == IF a = b THEN 0 ELSE 1

NoFlips == [k \in Key |-> 0]

\* The buckets pos1 and pos2 of a key.
Own(k) == place[k].buckets

Found(h, k) == h[place[k]] > 0

query(k) == IF Found(held, k) THEN bits[k] ELSE 0

More(h, k) == [h EXCEPT ![place[k]] = @ + 1]
Less(h, k) == [h EXCEPT ![place[k]] = @ - 1]

\* The lists t with k in those of its two buckets.
Put(t, k) ==
  [b \in Bucket |-> IF b \in Own(k) THEN [t[b] EXCEPT ![k] = @ + 1] ELSE t[b]]

\* The lists t without the keys X in the buckets of k.
Drop(t, k, X) ==
  [b \in Bucket |-> [x \in Key |-> IF b \in Own(k) /\ x \in X THEN 0 ELSE t[b][x]]]

\* The lists t with the entries of the keys X that u has in the buckets of k.
Take(t, u, k, X) ==
  [b \in Bucket |-> [x \in Key |->
     IF b \in Own(k) /\ x \in X THEN t[b][x] + u[b][x] ELSE t[b][x]]]

\* The keys in the lists t of the buckets of k.
Near(t, k) == {x \in Key : \E b \in Own(k) : t[b][x] > 0}

\* The Othello comes to hold the keys M with the values val.
Settle(M, val) ==
  /\ members' = M
  /\ bits' \in [Key -> Bit]
  /\ \A k \in M : bits'[k] = val[k]

\* The flips that an on-demand operation reports.
Report == flipped' = [k \in Key |-> bits[k] (+) bits'[k]]

-----------------------------------------------------------------------------
(***************************************************************************)
(* A tracker built in a batch from the positive keys P and the negative    *)
(* keys N, for placement pl.  A filter too small for P is built again with *)
(* a longer fingerprint, which is another placement.                       *)
(***************************************************************************)
Held(pl, P) == [s \in Slot |-> Cardinality({k \in P : pl[k] = s})]

FalsePositives(pl, P, N) == {k \in N : \E p \in P : pl[p] = pl[k]}

\* Every key of S once in the list of each of its buckets.
Lists(pl, S) ==
  [b \in Bucket |-> [x \in Key |-> IF x \in S /\ b \in pl[x].buckets THEN 1 ELSE 0]]

batch_insert(pl, P, N) ==
  /\ place' = pl
  /\ PK' = P /\ NK' = N
  /\ held' = Held(pl, P)
  /\ TNK' = Lists(pl, N \ FalsePositives(pl, P, N))
  /\ FPK' = Lists(pl, FalsePositives(pl, P, N))
  /\ Settle(P \cup FalsePositives(pl, P, N), [k \in Key |-> IF k \in P THEN 1 ELSE 0])

\* An assertion has failed or an exception is not caught: the process ends.
Ends(how) ==
  /\ phase' = how
  /\ UNCHANGED <<place, PK, NK, held, TNK, FPK, members, bits, flipped>>

\* The owner's reaction to a refused operation, which has already put its key
\* into P or N: rebuild.  A key that is both positive and negative fails the
\* assertion of the Othello's insert; no seed for the Othello, its build.
rebuild(P, N) ==
  \/ /\ P \cap N = {}
     /\ \E pl \in Placement : batch_insert(pl, P, N)
     /\ flipped' = Sentinel
     /\ UNCHANGED phase
  \/ P \cap N # {} /\ Ends("asserted")
  \/ Ends("unbuildable")

Init ==
  /\ place \in Placement
  /\ \E P, N \in SUBSET Key :
       /\ P # {} /\ P \cap N = {}
       /\ PK = P /\ NK = N
       /\ held = Held(place, P)
       /\ TNK = Lists(place, N \ FalsePositives(place, P, N))
       /\ FPK = Lists(place, FalsePositives(place, P, N))
       /\ members = P \cup FalsePositives(place, P, N)
       /\ bits \in [Key -> Bit]
       /\ \A k \in members : bits[k] = IF k \in P THEN 1 ELSE 0
  /\ flipped = NoFlips
  /\ phase = "ready"

-----------------------------------------------------------------------------
(***************************************************************************)
(* After an element of key k has gone into the filter, which now holds h,  *)
(* the negative keys in its buckets' lists t that are found are false      *)
(* positives: they go to the lists f and, with the value 0, into the       *)
(* Othello.                                                                *)
(***************************************************************************)
FoundIn(h) == {x \in Key : Found(h, x)}

\* Mistake: the query of the negative keys, which the comment explains, is missing.
NewFalseNone(t, h, k) == {}

NewFalse(t, h, k) == (Near(t, k) \cap FoundIn(h)) \ members

\* k is in the filter and in the Othello with 1.
MadePositive(t, f, k) ==
  LET h   == More(held, k)
      new == NewFalse(t, h, k)
  IN  /\ held[place[k]] < MaxCopies
      /\ held' = h
      /\ TNK' = Drop(t, k, FoundIn(h))
      /\ FPK' = Take(f, t, k, FoundIn(h))
      /\ Settle(members \cup new \cup {k},
                [x \in Key |-> IF x = k THEN 1 ELSE IF x \in new THEN 0 ELSE bits[x]])
      /\ Report

\* The first of the two loops, over the list of one bucket, does not ask
\* whether the key is a member, and inserts one that is listed twice again.
StoredTwice(t, h, first) ==
  \E x \in FoundIn(h) : t[first][x] > 0 /\ (x \in members \/ t[first][x] > 1)

\* insert of a positive key that is stored, or has just turned false positive.
InsertAsserts(k, first) ==
  LET h == More(held, k)
  IN  StoredTwice(TNK, h, first) \/ k \in members \cup NewFalse(TNK, h, k)

insertPositive(k) ==
  \/ \E first \in Own(k) :
       \/ /\ ~InsertAsserts(k, first)
          /\ PK' = PK \cup {k}
          /\ MadePositive(TNK, FPK, k)
          /\ UNCHANGED <<place, NK, phase>>
       \/ InsertAsserts(k, first) /\ Ends("asserted")
  \/ rebuild(PK \cup {k}, NK)     \* the filter or the Othello is too full

insertNegative(k) ==
  \/ /\ ~Found(held, k)
     /\ \A b \in Own(k) : TNK[b][k] < MaxCopies
     /\ NK' = NK \cup {k}
     /\ TNK' = Put(TNK, k)
     /\ flipped' = NoFlips
     /\ UNCHANGED <<place, PK, held, FPK, members, bits, phase>>
  \/ /\ Found(held, k) /\ k \notin members
     /\ NK' = NK \cup {k}
     /\ FPK' = Put(FPK, k)
     /\ Settle(members \cup {k}, [bits EXCEPT ![k] = 0])
     /\ Report
     /\ UNCHANGED <<place, PK, held, TNK, phase>>
  \/ Found(held, k) /\ k \in members /\ Ends("asserted")
  \/ Found(held, k) /\ k \notin members /\ rebuild(PK, NK \cup {k})

insert(k, v) == IF v = 1 THEN insertPositive(k) ELSE insertNegative(k)

-----------------------------------------------------------------------------
(***************************************************************************)
(* setValue, which goes by what the tracker answers for the key.           *)
(***************************************************************************)
setSame(k, v) ==
  /\ query(k) = v
  /\ flipped' = NoFlips
  /\ UNCHANGED <<place, PK, NK, held, TNK, FPK, members, bits, phase>>

Lost(h) == Key \ FoundIn(h)

\* Mistake: the key is not entered among the negative ones.
unsetForgotten(k, h) ==
  /\ PK' = PK \ {k} /\ NK' = NK
  /\ held' = h
  /\ TNK' = Put(Take(TNK, FPK, k, Lost(h)), k) /\ FPK' = Drop(FPK, k, Lost(h))
  /\ Report
  /\ UNCHANGED <<place, phase>>

\* Positive to negative.  The false positives in the buckets' lists that the
\* filter h does not find any more move to the other lists, and k joins them
\* if it is not found itself.
unset(k, h) ==
  /\ PK' = PK \ {k} /\ NK' = NK \cup {k}
  /\ held' = h
  /\ LET t == Take(TNK, FPK, k, Lost(h))
         f == Drop(FPK, k, Lost(h))
     IN  IF Found(h, k) THEN TNK' = t /\ FPK' = Put(f, k)
                        ELSE TNK' = Put(t, k) /\ FPK' = f
  /\ Report
  /\ UNCHANGED <<place, phase>>

\* Another positive key has the same slot: k becomes a false positive.  The
\* value flipped is that of the position which the index words give for k,
\* whoever is there; if that is no one, valueFlip throws.
unsetFound(k) ==
  LET h    == Less(held, k)
      rest == members \ (Near(FPK, k) \cap Lost(h))
  IN  /\ Found(h, k)
      /\ \/ /\ IF k \in rest THEN Settle(rest, [bits EXCEPT ![k] = 0])
               ELSE \E x \in rest : Settle(rest, [bits EXCEPT ![x] = 0])
            /\ unset(k, h)
         \/ k \notin rest /\ Ends("threw")

\* Mistake: a false positive that is no longer found stays in the Othello.
unsetLostKept(k) ==
  LET h == Less(held, k)
  IN  ~Found(h, k) /\ Settle(members \ {k}, bits) /\ unset(k, h)

\* The filter does not find k any more, nor the false positives that were due
\* to it: they leave the Othello.
unsetLost(k) ==
  LET h == Less(held, k)
  IN  /\ ~Found(h, k)
      /\ Settle(members \ ((Near(FPK, k) \cap Lost(h)) \cup {k}), bits)
      /\ unset(k, h)

\* Mistake: the key stays in the lists of the negative keys.
setPositiveListed(k) ==
  \/ \E first \in Own(k) :
       \/ /\ ~StoredTwice(TNK, More(held, k), first)
          /\ PK' = PK \cup {k} /\ NK' = NK \ {k}
          /\ MadePositive(TNK, FPK, k)
          /\ UNCHANGED <<place, phase>>
       \/ StoredTwice(TNK, More(held, k), first) /\ Ends("asserted")
  \/ rebuild(PK \cup {k}, NK \ {k})

\* Negative to positive: k leaves the lists of its case first.
setPositive(k) ==
  LET t == IF Found(held, k) THEN TNK ELSE Drop(TNK, k, {k})
      f == IF Found(held, k) THEN Drop(FPK, k, {k}) ELSE FPK
  IN  \/ \E first \in Own(k) :
           \/ /\ ~StoredTwice(t, More(held, k), first)
              /\ PK' = PK \cup {k} /\ NK' = NK \ {k}
              /\ MadePositive(t, f, k)
              /\ UNCHANGED <<place, phase>>
           \/ StoredTwice(t, More(held, k), first) /\ Ends("asserted")
      \/ rebuild(PK \cup {k}, NK \ {k})

setValue(k, v) ==
  \/ setSame(k, v)
  \/ query(k) = 1 /\ v = 0 /\ (unsetFound(k) \/ unsetLost(k))
  \/ query(k) = 0 /\ v = 1 /\ setPositive(k)

-----------------------------------------------------------------------------
(***************************************************************************)
(* erase, which its owner documents as not implemented.  Having moved a    *)
(* false positive to the other lists, it erases from the Othello what its  *)
(* iterator points to by then: the next key of the list, or, behind the    *)
(* last one, the last itself, which is still in the vector's memory.       *)
(***************************************************************************)
erasePositive(k) ==
  LET h     == Less(held, k)
      cured == Near(FPK, k) \cap Lost(h)
  IN  /\ PK' = PK \ {k}
      /\ held' = h
      /\ TNK' = Take(TNK, FPK, k, Lost(h))
      /\ FPK' = Drop(FPK, k, Lost(h))
      /\ \E victims \in SUBSET Near(FPK, k) :
           /\ victims = {} <=> cured = {}
           /\ Settle(members \ ({k} \cup victims), bits)
      /\ UNCHANGED <<place, NK, flipped, phase>>

eraseNegative(k) ==
  /\ NK' = NK \ {k}
  /\ IF Found(held, k)
     THEN /\ FPK' = Drop(FPK, k, {k})
          /\ IF k \in members THEN Settle(members \ {k}, bits)
             ELSE UNCHANGED <<members, bits>>
     ELSE UNCHANGED <<FPK, members, bits>>
  /\ UNCHANGED <<place, PK, held, TNK, flipped, phase>>

erase(k) == IF query(k) = 1 THEN erasePositive(k) ELSE eraseNegative(k)
=============================================================================
