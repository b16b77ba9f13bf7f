-------------------------- MODULE DuplicateHashSet --------------------------
(***************************************************************************)
(* core/DuplicateHashSet.h: an open-addressing table with Robin Hood       *)
(* probing.  insertIfAbsent() first grows the table if it is three         *)
(* quarters full, re-inserting every fingerprint, and then probes for the  *)
(* new one.  Each iteration of a loop is a step here, so that the table    *)
(* can be looked at while a fingerprint is in hand.                        *)
(*                                                                         *)
(* itemCount * 4 is taken not to exceed 32 bits: that needs 2^30 lines.    *)
(***************************************************************************)
EXTENDS Integers, FiniteSets

CONSTANTS
    Fingerprints,   \* the fingerprints of lines
    BucketSizes,    \* the sizes a table may be made with
    NoAnswer        \* the answer before any call

ASSUME FingerprintsAssumption == Fingerprints \subseteq Nat
ASSUME BucketSizesAssumption == BucketSizes \subseteq Nat

VARIABLES
    slots,
    capacity,
    itemCount,
    oldSlots,       \* rehash(): the array it reads
    cursor,         \* rehash(): the next slot to read
    pc,             \* "idle", "rehash", "insertInternal" or "insertIfAbsent"
    wanted,         \* the argument of insertIfAbsent()
    fingerprint,    \* the fingerprint in hand
    dist,           \* its distance from its bucket
    index,          \* the slot to look at next
    answer          \* the last argument and result

table == <<slots, capacity, itemCount>>
old == <<oldSlots, cursor>>
hand == <<fingerprint, dist, index>>
vars == <<table, old, hand, pc, wanted, answer>>

EmptySlot == [occupied |-> FALSE, fingerprint |-> 0, probeDistance |-> 0]
Taken(f, d) == [occupied |-> TRUE, fingerprint |-> f, probeDistance |-> d]

EmptyTable(size) == [i \in 0 .. size - 1 |-> EmptySlot]

(* A table of size 0 is made with one slot. *)
Init ==
    /\ \E bucketSize \in BucketSizes :
          capacity = IF bucketSize = 0 THEN 1 ELSE bucketSize
    /\ slots = EmptyTable(capacity)
    /\ itemCount = 0
    /\ oldSlots = EmptyTable(0) /\ cursor = 0
    /\ pc = "idle"
    /\ fingerprint = 0 /\ dist = 0 /\ index = 0
    /\ wanted = 0
    /\ answer = NoAnswer

NeedsRehash == itemCount * 4 >= capacity * 3

(* Both loops start at the bucket of the fingerprint. *)
StartProbing(f, size) ==
    /\ fingerprint' = f
    /\ dist' = 0
    /\ index' = f % size

InsertIfAbsent(f) ==
    /\ pc = "idle"
    /\ ~NeedsRehash
    /\ wanted' = f
    /\ StartProbing(f, capacity)
    /\ pc' = "insertIfAbsent"
    /\ UNCHANGED <<table, old, answer>>

(* Mutant of InsertIfAbsentRehashing: itemCount not reset. *)
RehashingOnCount(f) ==
    /\ pc = "idle"
    /\ NeedsRehash
    /\ wanted' = f
    /\ oldSlots' = slots /\ cursor' = 0
    /\ capacity' = capacity * 2 + 1
    /\ slots' = EmptyTable(capacity')
    /\ pc' = "rehash"
    /\ UNCHANGED <<itemCount, hand, answer>>

InsertIfAbsentRehashing(f) ==
    /\ pc = "idle"
    /\ NeedsRehash
    /\ wanted' = f
    /\ oldSlots' = slots /\ cursor' = 0
    /\ capacity' = capacity * 2 + 1
    /\ slots' = EmptyTable(capacity')
    /\ itemCount' = 0
    /\ pc' = "rehash"
    /\ UNCHANGED <<hand, answer>>

(* Mutant of RehashSlot: the loop does not get past a free slot. *)
RehashOccupiedSlot ==
    /\ pc = "rehash"
    /\ cursor \in DOMAIN oldSlots
    /\ oldSlots[cursor].occupied
    /\ cursor' = cursor + 1
    /\ StartProbing(oldSlots[cursor].fingerprint, capacity)
    /\ pc' = "insertInternal"
    /\ UNCHANGED <<table, oldSlots, wanted, answer>>

(* rehash() hands the next old fingerprint to insertInternal(). *)
RehashSlot ==
    /\ pc = "rehash"
    /\ cursor \in DOMAIN oldSlots
    /\ cursor' = cursor + 1
    /\ \/ /\ oldSlots[cursor].occupied
          /\ StartProbing(oldSlots[cursor].fingerprint, capacity)
          /\ pc' = "insertInternal"
       \/ /\ ~oldSlots[cursor].occupied
          /\ UNCHANGED <<hand, pc>>
    /\ UNCHANGED <<table, oldSlots, wanted, answer>>

RehashDone ==
    /\ pc = "rehash"
    /\ cursor \notin DOMAIN oldSlots
    /\ oldSlots' = EmptyTable(0) /\ cursor' = 0
    /\ StartProbing(wanted, capacity)
    /\ pc' = "insertIfAbsent"
    /\ UNCHANGED <<table, wanted, answer>>
-----------------------------------------------------------------------------
Probing == pc \in {"insertInternal", "insertIfAbsent"}

(* Only insertIfAbsent() compares fingerprints. *)
IsDuplicate ==
    /\ pc = "insertIfAbsent"
    /\ slots[index].fingerprint = fingerprint

(* A free slot takes the fingerprint in hand; a rehash goes on with the    *)
(* next one, an insertion returns true.                                    *)
Settle ==
    /\ Probing
    /\ ~slots[index].occupied
    /\ slots' = [slots EXCEPT ![index] = Taken(fingerprint, dist)]
    /\ itemCount' = itemCount + 1
    /\ \/ /\ pc = "insertInternal"
          /\ pc' = "rehash"
          /\ UNCHANGED answer
       \/ /\ pc = "insertIfAbsent"
          /\ pc' = "idle"
          /\ answer' = [fingerprint |-> wanted, inserted |-> TRUE]
    /\ UNCHANGED <<capacity, old, hand, wanted>>

Reject ==
    /\ Probing
    /\ slots[index].occupied
    /\ IsDuplicate
    /\ answer' = [fingerprint |-> wanted, inserted |-> FALSE]
    /\ pc' = "idle"
    /\ UNCHANGED <<table, old, hand, wanted>>

(* Mutant of Steal: the fingerprint put down does not keep its distance.   *)
StealForgettingDistance ==
    /\ Probing
    /\ slots[index].occupied
    /\ ~IsDuplicate
    /\ slots[index].probeDistance < dist
    /\ slots' = [slots EXCEPT ![index].fingerprint = fingerprint]
    /\ fingerprint' = slots[index].fingerprint
    /\ dist' = slots[index].probeDistance + 1
    /\ index' = (index + 1) % capacity
    /\ UNCHANGED <<capacity, itemCount, old, pc, wanted, answer>>

(* Mutant of Steal: the fingerprint put down is not exchanged for the one  *)
(* that lay there.                                                         *)
StealOverwriting ==
    /\ Probing
    /\ slots[index].occupied
    /\ ~IsDuplicate
    /\ slots[index].probeDistance < dist
    /\ slots' = [slots EXCEPT ![index] = Taken(fingerprint, dist)]
    /\ dist' = slots[index].probeDistance + 1
    /\ index' = (index + 1) % capacity
    /\ UNCHANGED <<capacity, itemCount, old, fingerprint, pc, wanted, answer>>

(* The fingerprint in hand takes the slot of one that is closer to its     *)
(* bucket, and that one has to move on.                                    *)
Steal ==
    /\ Probing
    /\ slots[index].occupied
    /\ ~IsDuplicate
    /\ slots[index].probeDistance < dist
    /\ slots' = [slots EXCEPT ![index] = Taken(fingerprint, dist)]
    /\ fingerprint' = slots[index].fingerprint
    /\ dist' = slots[index].probeDistance + 1
    /\ index' = (index + 1) % capacity
    /\ UNCHANGED <<capacity, itemCount, old, pc, wanted, answer>>

Pass ==
    /\ Probing
    /\ slots[index].occupied
    /\ ~IsDuplicate
    /\ slots[index].probeDistance >= dist
    /\ dist' = dist + 1
    /\ index' = (index + 1) % capacity
    /\ UNCHANGED <<table, old, fingerprint, pc, wanted, answer>>

Call == \E f \in Fingerprints : InsertIfAbsent(f) \/ InsertIfAbsentRehashing(f)

Loops == RehashSlot \/ RehashDone \/ Settle \/ Reject \/ Steal \/ Pass

Next == Call \/ Loops

Spec == Init /\ [][Next]_vars

(* A call runs to its end. *)
FairSpec == Spec /\ WF_vars(Loops)
-----------------------------------------------------------------------------
Occupied(t) == {i \in DOMAIN t : t[i].occupied}
FingerprintsIn(t, S) == {t[i].fingerprint : i \in S \cap Occupied(t)}
Stored == FingerprintsIn(slots, DOMAIN slots)
Unread == FingerprintsIn(oldSlots, {i \in DOMAIN oldSlots : i >= cursor})

Slot == [occupied : BOOLEAN, fingerprint : Fingerprints \cup {0}, probeDistance : Nat]

(* The state variables have their types, and itemCount is the number of    *)
(* occupied slots.                                                         *)
TypeOK ==
    /\ capacity \in Nat \ {0}
    /\ slots \in [0 .. capacity - 1 -> Slot]
    /\ itemCount = Cardinality(Occupied(slots))
    /\ \E size \in 0 .. capacity : oldSlots \in [0 .. size - 1 -> Slot]
    /\ cursor \in 0 .. Cardinality(DOMAIN oldSlots)
    /\ pc \in {"idle", "rehash", "insertInternal", "insertIfAbsent"}
    /\ {wanted, fingerprint} \subseteq Fingerprints \cup {0}
    /\ dist \in Nat
    /\ index \in 0 .. capacity
    /\ answer \in [fingerprint : Fingerprints, inserted : BOOLEAN] \cup {NoAnswer}

(* The Robin Hood order: a fingerprint lies as far from its bucket as its  *)
(* slot says, and the slot before one that is not at its bucket holds a    *)
(* fingerprint at most one place nearer.  So the first slot whose occupant *)
(* is nearer than the one searched for proves that it is not in the table. *)
RobinHood ==
    \A i \in Occupied(slots) :
        LET before == slots[(i + capacity - 1) % capacity]
        IN  /\ (slots[i].fingerprint + slots[i].probeDistance) % capacity = i
            /\ slots[i].probeDistance > 0 =>
                  /\ before.occupied
                  /\ before.probeDistance >= slots[i].probeDistance - 1

(* The set the table stands for, also while fingerprints are in hand or    *)
(* still in the old array.  The one wanted counts when the call returns.   *)
Members ==
    CASE pc = "idle" -> Stored
      [] pc = "rehash" -> Stored \cup Unread
      [] pc = "insertInternal" -> Stored \cup Unread \cup {fingerprint}
      [] pc = "insertIfAbsent" /\ fingerprint = wanted -> Stored
      [] pc = "insertIfAbsent" /\ fingerprint # wanted ->
            (Stored \cup {fingerprint}) \ {wanted}

Abstract == INSTANCE FingerprintSet WITH members <- Members

(* The table answers as the set: no line is dropped that was not there     *)
(* before, none is kept twice, and nothing is lost when it grows.          *)
ImplementsSet == Abstract!Spec

(* Every call returns: there is always a free slot to end a search.        *)
CallsReturn == (pc # "idle") ~> (pc = "idle")
=============================================================================
