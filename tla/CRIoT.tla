-------------------------------- MODULE CRIoT --------------------------------
(***************************************************************************)
(* The update protocol between the server's tracker and a device's         *)
(* verifier: src/platform/CRIoT.h, src/platform/DASS_Verifier.h, and the   *)
(* certificate operations of src/TinyCR/TinyCRServer.h.                    *)
(*                                                                         *)
(* Every command of the certificate authority changes the tracker and then *)
(* sends the device either a delta, the key with the flipped indexes, or   *)
(* the whole summary.  SummaryDistribution models how updates travel; here *)
(* they arrive, in order, and what matters is what they do.                *)
(*                                                                         *)
(* The device's filter is in step with the server's as long as the same    *)
(* insertions and deletions reach both in the same order: the random       *)
(* engine that chooses whom to kick is part of the summary.  So it refuses *)
(* no insertion that the server's has accepted.                            *)
(***************************************************************************)
EXTENDS DASSTracker

CONSTANTS
  Unknown,      \* the status of a key that the authority has not added
  MaxStrayed    \* bound: commands from the first one against the rules on

ASSUME CRIoTAssumption ==
  /\ Unknown \notin Bit
  /\ MaxStrayed \in Nat

VARIABLES
  device,   \* the device's verifier: place, held and bits
  msg,      \* the update on its way, or None
  told,     \* ghost: the status the authority last gave each key
  strayed,  \* ghost: the commands since one broke the tracker's rules, with it
  drifted   \* ghost: the device has missed a change of the server's summary

vars == <<tracker, device, msg, told, strayed, drifted>>

\* What the device's verifier can be, and what can be on its way to it.
Verifier == [place : Placement, held : [Slot -> Nat], bits : [Key -> Bit]]

Action == {"AddAction", "RemoveAction", "UnrevokeAction", "RevokeAction"}

Message ==
  [action : Action, key : Key, value : Bit, flips : [Key -> Bit] \cup {Sentinel}]
    \cup [action : {"F"}, summary : Verifier]

None == [action |-> "none"]

-----------------------------------------------------------------------------
(* DASS_Verifier, on the device d. *)

VFound(d, k) == d.held[d.place[k]] > 0

VQuery(d, k) == IF VFound(d, k) THEN d.bits[k] ELSE 0

vf_insert(d, k) == [d EXCEPT !.held[d.place[k]] = @ + 1]
vf_del(d, k) == [d EXCEPT !.held[d.place[k]] = @ - 1]

\* Nothing when the indexes are the marker: "rebuild!!!" is all it prints.
mem_value_flipping(d, fl) ==
  IF fl = Sentinel THEN d ELSE [d EXCEPT !.bits = [k \in Key |-> @[k] (+) fl[k]]]

VInsert(d, k, v, fl) ==
  IF fl = Sentinel THEN d
  ELSE IF v = 1 THEN mem_value_flipping(vf_insert(d, k), fl)
  ELSE IF VFound(d, k) THEN mem_value_flipping(d, fl) ELSE d

\* Mistake: the element is not taken out of the filter.
VSetValueKept(d, k, v, fl) ==
  IF VQuery(d, k) = v THEN d
  ELSE IF v = 0 THEN mem_value_flipping(d, fl)
  ELSE mem_value_flipping(vf_insert(d, k), fl)

\* Mistake: what the device answers for the key is not looked at.
VSetValueAlways(d, k, v, fl) ==
  IF v = 0 THEN mem_value_flipping(vf_del(d, k), fl)
  ELSE mem_value_flipping(vf_insert(d, k), fl)

VSetValue(d, k, v, fl) ==
  IF VQuery(d, k) = v THEN d
  ELSE IF v = 0 THEN mem_value_flipping(vf_del(d, k), fl)
  ELSE mem_value_flipping(vf_insert(d, k), fl)

\* What decode_sub_summary does with one action.
decode_sub_summary(d, m) ==
  IF m.action = "AddAction" THEN VInsert(d, m.key, m.value, m.flips)
  ELSE IF m.action = "RemoveAction" THEN d
  ELSE VSetValue(d, m.key, m.value, m.flips)

-----------------------------------------------------------------------------
(* The certificate operations. *)

Delta(action, k, v) ==
  msg' = [action |-> action, key |-> k, value |-> v, flips |-> flipped']

Full ==
  msg' = [action  |-> "F", summary |-> [place |-> place', held |-> held', bits |-> bits']]

\* A process that has ended sends nothing.
Send(update) == IF phase' = "ready" THEN update ELSE UNCHANGED msg

Told(k, v) == told' = [told EXCEPT ![k] = v]

\* A command breaks the tracker's rules when it
\*   adds a key that is known, or whose traces have not been removed;
\*   sets a key that is not known to 0, or to 1 when it is answered with 1:
\*     setValue takes the answer for the status, and enters the key nowhere or
\*     deletes another key's element;
\*   erases a key that is not known but answered with 1, or one that has false
\*     positives, see erasePositive.
Stray(k, v) == told[k] = Unknown /\ (v = 0 \/ query(k) = 1)

BadAdd(k) == told[k] # Unknown \/ k \in members \/ k \in Near(TNK, k) \cup Near(FPK, k)

BadErase(k) ==
  query(k) = 1 /\ (told[k] = Unknown \/ Near(FPK, k) \cap Lost(Less(held, k)) # {})

Rule(breaks) ==
  /\ strayed' = IF breaks \/ strayed > 0 THEN strayed + 1 ELSE 0
  /\ strayed' <= MaxStrayed

Idle == phase = "ready" /\ msg = None

addCertificate(k, v) ==
  /\ Idle
  /\ Rule(BadAdd(k))
  /\ insert(k, v)
  /\ Told(k, v)
  /\ Send(IF flipped' = Sentinel THEN Full ELSE Delta("AddAction", k, v))
  /\ UNCHANGED <<device, drifted>>

unrevokeCertificate(k) ==
  /\ Idle
  /\ Rule(Stray(k, 0))
  /\ setValue(k, 0)
  /\ Told(k, 0)
  /\ Send(IF flipped' = Sentinel THEN Full ELSE Delta("UnrevokeAction", k, 0))
  /\ UNCHANGED <<device, drifted>>

\* The status of setValue is not looked at: also a rebuild is a delta.
revokeCertificate(k) ==
  /\ Idle
  /\ Rule(Stray(k, 1))
  /\ setValue(k, 1)
  /\ Told(k, 1)
  /\ Send(Delta("RevokeAction", k, 1))
  /\ drifted' = (drifted \/ flipped' = Sentinel)
  /\ UNCHANGED device

\* std::vector<uint8_t>(RemoveAction) is one zero, AddAction; and the flipped
\* indexes are those of the operation before.
removeCertificate(k) ==
  /\ Idle
  /\ Rule(BadErase(k))
  /\ erase(k)
  /\ Told(k, Unknown)
  /\ Send(Delta("AddAction", k, 0))
  /\ drifted' = (drifted \/ Found(held, k))
  /\ UNCHANGED device

\* The device takes the update.  What a delta does to a device that has missed
\* another update is not followed: nothing is said of it until a full one.
Apply ==
  /\ msg # None
  /\ IF msg.action = "F"
     THEN device' = msg.summary /\ drifted' = FALSE
     ELSE /\ device' = IF drifted THEN device ELSE decode_sub_summary(device, msg)
          /\ UNCHANGED drifted
  /\ msg' = None
  /\ UNCHANGED <<tracker, told, strayed>>

CInit ==
  /\ Init
  /\ device = [place |-> place, held |-> held, bits |-> bits]
  /\ msg = None
  /\ told = [k \in Key |-> IF k \in PK THEN 1 ELSE IF k \in NK THEN 0 ELSE Unknown]
  /\ strayed = 0
  /\ drifted = FALSE

Next ==
  \/ \E k \in Key :
       \/ \E v \in Bit : addCertificate(k, v)
       \/ unrevokeCertificate(k)
       \/ revokeCertificate(k)
       \/ removeCertificate(k)
  \/ Apply

Spec == CInit /\ [][Next]_vars

-----------------------------------------------------------------------------
TypeOK ==
  /\ place \in Placement
  /\ PK \subseteq Key /\ NK \subseteq Key
  /\ held \in [Slot -> Nat]
  /\ TNK \in [Bucket -> [Key -> Nat]] /\ FPK \in [Bucket -> [Key -> Nat]]
  /\ members \subseteq Key
  /\ bits \in [Key -> Bit]
  /\ flipped = Sentinel \/ flipped \in [Key -> Bit]
  /\ phase \in {"ready", "asserted", "threw", "unbuildable"}
  /\ device \in Verifier
  /\ msg \in Message \cup {None}
  /\ told \in [Key -> Bit \cup {Unknown}]
  /\ strayed \in Nat /\ drifted \in BOOLEAN

\* The tracker answers every key the authority has given a status with that
\* status, whatever keys share its buckets and its fingerprint, as long as no
\* command has broken the rules (DASS_Tracker.h query; the comment in insert,
\* "query all negative keys, and insert the new FP keys into othello").
AnswersExact ==
  strayed = 0 /\ phase = "ready" =>
    \A k \in Key : told[k] # Unknown => query(k) = told[k]

\* PK and NK, from which a rebuild makes everything else, are the keys with
\* that status: a rebuild loses no key and revives none.
KeysKept ==
  strayed = 0 /\ phase = "ready" =>
    /\ PK = {k \in Key : told[k] = 1}
    /\ NK = {k \in Key : told[k] = 0}

\* Every unrevoked key is once in the list of each of its buckets and in no
\* other list: the false positives, which the Othello holds with the revoked
\* keys, in FPK_table, the others in TNK_table.  An update that looks only at
\* the two lists of its key finds whom it concerns.
ListsExact ==
  strayed = 0 /\ phase = "ready" =>
    /\ PK \subseteq members
    /\ \A k \in NK : \A b \in Bucket :
         /\ FPK[b][k] = IF b \in Own(k) /\ Found(held, k) THEN 1 ELSE 0
         /\ TNK[b][k] = IF b \in Own(k) /\ ~Found(held, k) THEN 1 ELSE 0
         /\ k \in members <=> Found(held, k)

\* Without a broken rule no assertion of the Othello fails (CPO insert,
\* insert_on_demand) and valueFlip does not throw.
Survives == strayed = 0 => phase \notin {"asserted", "threw"}

\* A device that has applied every update answers every key, known or not, as
\* the server does, until it misses a rebuild or a removal.
DeviceAgrees ==
  phase = "ready" /\ msg = None /\ ~drifted =>
    \A k \in Key : VQuery(device, k) = query(k)
=============================================================================
