----------------------- MODULE DuplicateHashSet_proofs -----------------------
(***************************************************************************)
(* Proofs about DuplicateHashSet for every set of fingerprints and tables  *)
(* of every size: the Robin Hood order is kept while fingerprints change   *)
(* hands, and the table is the set it stands for.                          *)
(***************************************************************************)
EXTENDS DuplicateHashSet, CommonLemmas

(* How far slot i is from the bucket of the fingerprint f. *)
Away(f, i) == Steps(capacity, f % capacity, i)

(* A search for f that has come to slot i has passed occupied slots only,  *)
(* and none whose fingerprint is nearer to its own bucket.                 *)
Chain(f, i) ==
    \A j \in DOMAIN slots :
        Away(f, j) < Away(f, i) =>
            slots[j].occupied /\ slots[j].probeDistance >= Away(f, j)

(* The slots in use, and those of the old array that are still to be read. *)
Held == {i \in DOMAIN slots : slots[i].occupied}
Pending == {i \in DOMAIN oldSlots : i >= cursor /\ oldSlots[i].occupied}

(* A slot says how far its fingerprint lies from its bucket, and a search  *)
(* for the fingerprint comes to it.                                        *)
ChainInv ==
    \A i \in Held :
        /\ slots[i].probeDistance = Away(slots[i].fingerprint, i)
        /\ Chain(slots[i].fingerprint, i)

(* No fingerprint lies in two slots, of the table or of what is left of    *)
(* the old one.                                                            *)
DistinctInv ==
    /\ \A i, j \in Held : slots[i].fingerprint = slots[j].fingerprint => i = j
    /\ \A i, j \in Pending : oldSlots[i].fingerprint = oldSlots[j].fingerprint => i = j
    /\ Stored \cap Unread = {}

(* The table is never filled by a rehash, nor before an insertion.         *)
RoomInv ==
    /\ pc \in {"rehash", "insertInternal"} =>
          Cardinality(DOMAIN oldSlots) < capacity
    /\ pc = "rehash" => itemCount <= cursor
    /\ pc = "insertInternal" => itemCount < cursor
    /\ pc = "insertIfAbsent" => itemCount < capacity

(* What is known of the fingerprint in hand: the one wanted has not been   *)
(* passed, and another one is not in the table.                            *)
HandInv ==
    /\ pc # "idle" => wanted \in Fingerprints
    /\ pc \in {"idle", "insertIfAbsent"} => Pending = {}
    /\ Probing =>
          /\ index \in DOMAIN slots
          /\ dist = Away(fingerprint, index)
          /\ Chain(fingerprint, index)
    /\ pc = "insertInternal" => fingerprint \notin Stored \cup Unread
    /\ pc = "insertIfAbsent" /\ fingerprint = wanted =>
          \A j \in DOMAIN slots :
              Away(wanted, j) < Away(wanted, index) => slots[j].fingerprint # wanted
    /\ pc = "insertIfAbsent" /\ fingerprint # wanted =>
          wanted \in Stored /\ fingerprint \notin Stored

Inv == TypeOK /\ ChainInv /\ DistinctInv /\ RoomInv /\ HandInv

(* The parts of TypeOK, so that a step can show each of them alone. *)
TableType ==
    /\ capacity \in Nat \ {0}
    /\ slots \in [0 .. capacity - 1 -> Slot]
    /\ itemCount = Cardinality(Occupied(slots))
OldTableType ==
    /\ \E size \in 0 .. capacity : oldSlots \in [0 .. size - 1 -> Slot]
    /\ cursor \in 0 .. Cardinality(DOMAIN oldSlots)
HandType ==
    /\ pc \in {"idle", "rehash", "insertInternal", "insertIfAbsent"}
    /\ {wanted, fingerprint} \subseteq Fingerprints \cup {0}
    /\ dist \in Nat
    /\ index \in 0 .. capacity
AnswerType == answer \in [fingerprint : Fingerprints, inserted : BOOLEAN] \cup {NoAnswer}

LEMMA TypeParts ==
    /\ TypeOK <=> TableType /\ OldTableType /\ HandType /\ AnswerType
    /\ TypeOK' <=> (TableType /\ OldTableType /\ HandType /\ AnswerType)'
BY DEF TypeOK, TableType, OldTableType, HandType, AnswerType
-----------------------------------------------------------------------------
LEMMA FingerprintsAreNat == \A f \in Fingerprints \cup {0} : f \in Nat
<1>1. 0 \in Nat
  OBVIOUS
<1> QED
  BY <1>1, FingerprintsAssumption, Zenon

LEMMA TableFacts ==
    ASSUME TypeOK
    PROVE  /\ capacity \in Nat \ {0}
           /\ DOMAIN slots = 0 .. capacity - 1
           /\ \A i \in DOMAIN slots : slots[i] \in Slot /\ slots[i].fingerprint \in Nat
           /\ \E size \in Nat : /\ DOMAIN oldSlots = 0 .. size - 1
                                /\ Cardinality(DOMAIN oldSlots) = size
           /\ \A i \in DOMAIN oldSlots : oldSlots[i] \in Slot /\ oldSlots[i].fingerprint \in Nat
           /\ fingerprint \in Nat /\ wanted \in Nat
           /\ itemCount \in Nat /\ cursor \in Nat
<1>1. PICK size \in 0 .. capacity : oldSlots \in [0 .. size - 1 -> Slot]
  BY DEF TypeOK
<1>2. size \in Nat /\ Cardinality(0 .. size - 1) = size
  BY FS_Interval DEF TypeOK
<1>3. \A slot \in Slot : slot.fingerprint \in Nat
  BY FingerprintsAreNat DEF Slot
<1>4. IsFiniteSet(Occupied(slots))
  <2>1. capacity - 1 \in Int /\ DOMAIN slots = 0 .. capacity - 1
    BY DEF TypeOK
  <2>2. IsFiniteSet(0 .. capacity - 1) /\ Occupied(slots) \subseteq 0 .. capacity - 1
    BY <2>1, FS_Interval DEF Occupied
  <2> QED
    BY <2>2, FS_Subset
<1>5. itemCount \in Nat
  BY <1>4, FS_CardinalityType DEF TypeOK
<1>6. cursor \in Nat
  BY <1>1, <1>2 DEF TypeOK
<1>7. fingerprint \in Nat /\ wanted \in Nat
  BY FingerprintsAreNat DEF TypeOK
<1>8. capacity \in Nat \ {0} /\ slots \in [0 .. capacity - 1 -> Slot]
  BY DEF TypeOK
<1>9. \A i \in DOMAIN slots : slots[i] \in Slot /\ slots[i].fingerprint \in Nat
  BY <1>3, <1>8
<1>10. \A i \in DOMAIN oldSlots : oldSlots[i] \in Slot /\ oldSlots[i].fingerprint \in Nat
  BY <1>1, <1>3
<1> QED
  BY <1>1, <1>2, <1>5, <1>6, <1>7, <1>8, <1>9, <1>10

(* The fingerprints of a table are those of its slots in use. *)
LEMMA StoredAre ==
    /\ \A f : f \in Stored <=> \E i \in Held : slots[i].fingerprint = f
    /\ \A f : f \in Unread <=> \E i \in Pending : oldSlots[i].fingerprint = f
    /\ Held = Occupied(slots)
BY DEF Stored, Unread, Held, Pending, FingerprintsIn, Occupied

LEMMA AwayType ==
    ASSUME TypeOK, NEW f \in Nat, NEW i \in DOMAIN slots
    PROVE  Away(f, i) \in 0 .. capacity - 1
<1>1. capacity \in Nat \ {0} /\ i \in 0 .. capacity - 1 /\ f % capacity \in 0 .. capacity - 1
  BY TableFacts, HomeInTable
<1> QED
  BY <1>1 DEF Away, Steps

(* A table that is not full has a free slot. *)
LEMMA RoomLeft ==
    ASSUME TypeOK, itemCount < capacity
    PROVE  \E i \in DOMAIN slots : ~slots[i].occupied
<1> SUFFICES ASSUME \A i \in DOMAIN slots : slots[i].occupied PROVE FALSE
  OBVIOUS
<1>1. Occupied(slots) = 0 .. capacity - 1
  BY DEF Occupied, TypeOK
<1>2. Cardinality(0 .. capacity - 1) = capacity
  BY FS_Interval DEF TypeOK
<1> QED
  BY <1>1, <1>2 DEF TypeOK

(* There is a free slot whenever a fingerprint is in hand. *)
LEMMA RoomForHand ==
    ASSUME Inv, Probing
    PROVE  \E i \in DOMAIN slots : ~slots[i].occupied
<1>1. itemCount < capacity
  <2>1. CASE pc = "insertIfAbsent"
    BY <2>1 DEF Inv, RoomInv
  <2>2. CASE pc = "insertInternal"
    BY <2>2, TableFacts DEF Inv, RoomInv, TypeOK
  <2> QED
    BY <2>1, <2>2 DEF Probing
<1> QED
  BY <1>1, RoomLeft DEF Inv

(* A search starts at the bucket, having passed nothing. *)
LEMMA ChainStarts ==
    ASSUME TypeOK, NEW f \in Nat
    PROVE  /\ f % capacity \in DOMAIN slots
           /\ Away(f, f % capacity) = 0
           /\ Chain(f, f % capacity)
           /\ \A j \in DOMAIN slots : ~(Away(f, j) < Away(f, f % capacity))
<1>1. f % capacity \in DOMAIN slots /\ capacity \in Nat \ {0}
  BY TableFacts, HomeInTable
<1>2. Away(f, f % capacity) = 0
  BY <1>1, TableFacts DEF Away, Steps
<1>3. \A j \in DOMAIN slots : ~(Away(f, j) < Away(f, f % capacity))
  BY <1>2, AwayType
<1> QED
  BY <1>1, <1>2, <1>3 DEF Chain

(* A search that passes a slot in use goes on one place further from the   *)
(* bucket: it cannot have come round to it, for there is a free slot.      *)
LEMMA ChainGoesOn ==
    ASSUME TypeOK, NEW f \in Nat, NEW i \in DOMAIN slots,
           slots[i].occupied, Chain(f, i),
           \E free \in DOMAIN slots : ~slots[free].occupied
    PROVE  /\ (i + 1) % capacity \in DOMAIN slots
           /\ Away(f, (i + 1) % capacity) = Away(f, i) + 1
           /\ \A j \in DOMAIN slots :
                 Away(f, j) < Away(f, (i + 1) % capacity) => j = i \/ Away(f, j) < Away(f, i)
<1> DEFINE home == f % capacity
           next == (i + 1) % capacity
<1>1. capacity \in Nat \ {0} /\ DOMAIN slots = 0 .. capacity - 1
  BY TableFacts
<1>2. home \in 0 .. capacity - 1 /\ next \in 0 .. capacity - 1
  BY <1>1, HomeInTable, NextIndex
<1>3. PICK free \in DOMAIN slots : ~slots[free].occupied
  OBVIOUS
<1>4. ~(Away(f, free) < Away(f, i)) /\ free # i
  BY <1>3 DEF Chain
<1>5. Away(f, i) < Away(f, free)
  BY <1>1, <1>2, <1>4, StepsDiffer DEF Away
<1>6. next = IF i + 1 < capacity THEN i + 1 ELSE 0
  BY <1>1, NextIndex
<1>7. Away(f, next) = Away(f, i) + 1
  <2> HIDE DEF home, next
  <2>1. Steps(capacity, home, i) < Steps(capacity, home, free)
    BY <1>5 DEF Away, home
  <2>2. CASE i + 1 < capacity
    BY <1>1, <1>2, <1>6, <2>1, <2>2 DEF Steps, Away, home
  <2>3. CASE i + 1 = capacity
    <3>1. next = 0 /\ free \in 0 .. capacity - 1 /\ i = capacity - 1
      BY <1>1, <1>6, <2>3
    <3>2. home # 0
      BY <1>1, <1>2, <2>1, <3>1 DEF Steps
    <3>3. Steps(capacity, home, i) = capacity - 1 - home /\ Steps(capacity, home, 0) = capacity - home
      BY <1>1, <1>2, <3>1, <3>2 DEF Steps
    <3> QED
      BY <1>1, <1>2, <3>1, <3>3 DEF Away, home
  <2> QED
    BY <1>1, <2>2, <2>3
<1>8. ASSUME NEW j \in DOMAIN slots, Away(f, j) < Away(f, next)
      PROVE  j = i \/ Away(f, j) < Away(f, i)
  BY <1>1, <1>2, <1>8, OneStepMore DEF Away
<1> QED
  BY <1>1, <1>2, <1>7, <1>8
-----------------------------------------------------------------------------
LEMMA InitInv == Init => Inv
<1> SUFFICES ASSUME Init PROVE Inv
  OBVIOUS
<1>1. capacity \in Nat \ {0}
  BY BucketSizesAssumption DEF Init
<1>2. slots = EmptyTable(capacity) /\ oldSlots = EmptyTable(0) /\ DOMAIN oldSlots = {}
  BY DEF Init, EmptyTable
<1>3. Held = {} /\ Pending = {} /\ Occupied(slots) = {}
  BY <1>2 DEF Held, Pending, EmptyTable, EmptySlot, Occupied
<1>4. TypeOK
  <2>1. slots \in [0 .. capacity - 1 -> Slot] /\ oldSlots \in [0 .. 0 - 1 -> Slot]
    BY <1>2 DEF EmptyTable, EmptySlot, Slot
  <2>2. Cardinality(DOMAIN oldSlots) = 0 /\ Cardinality(Occupied(slots)) = 0
    BY <1>2, <1>3, FS_EmptySet
  <2>3. \E size \in 0 .. capacity : oldSlots \in [0 .. size - 1 -> Slot]
    BY <1>1, <2>1
  <2> QED
    BY <1>1, <2>1, <2>2, <2>3 DEF Init, TypeOK
<1>5. ChainInv /\ DistinctInv
  BY <1>3, StoredAre DEF ChainInv, DistinctInv
<1>6. RoomInv /\ HandInv
  BY <1>3 DEF Init, RoomInv, HandInv, Probing
<1> QED
  BY <1>4, <1>5, <1>6 DEF Inv

(* A step that writes no slot keeps the order of the table. *)
LEMMA TableStays ==
    ASSUME Inv, UNCHANGED table
    PROVE  /\ TableType' /\ ChainInv'
           /\ UNCHANGED <<Held, Stored>>
           /\ \A f, i : Away(f, i)' = Away(f, i) /\ (Chain(f, i) => Chain(f, i)')
<1> USE DEF table
<1>1. TableType'
  BY TypeParts DEF Inv, TableType
<1>2. UNCHANGED <<Held, Stored>>
  BY DEF Held, Stored, FingerprintsIn, Occupied
<1>3. \A f, i : Away(f, i)' = Away(f, i) /\ (Chain(f, i) => Chain(f, i)')
  BY DEF Away, Chain
<1>4. ChainInv'
  BY <1>2, <1>3 DEF Inv, ChainInv
<1> QED
  BY <1>1, <1>2, <1>3, <1>4

(* A call that does not grow the table starts to look for its fingerprint. *)
LEMMA InsertIfAbsentStep ==
    ASSUME Inv, NEW f \in Fingerprints, InsertIfAbsent(f)
    PROVE  Inv'
<1> USE DEF InsertIfAbsent, StartProbing, old
<1>1. f \in Nat
  BY FingerprintsAssumption
<1>2. f % capacity \in DOMAIN slots /\ Away(f, f % capacity) = 0 /\ Chain(f, f % capacity)
        /\ \A j \in DOMAIN slots : ~(Away(f, j) < Away(f, f % capacity))
  BY <1>1, ChainStarts DEF Inv
<1>3. TableType' /\ ChainInv' /\ UNCHANGED <<Held, Stored>>
        /\ \A g, i : Away(g, i)' = Away(g, i) /\ (Chain(g, i) => Chain(g, i)')
  BY TableStays
<1>4. OldTableType' /\ AnswerType'
  BY TypeParts DEF Inv, OldTableType, AnswerType, table
<1>5. HandType'
  BY <1>2, TypeParts, TableFacts DEF Inv, HandType, table
<1>6. UNCHANGED <<Pending, Unread>>
  BY DEF Pending, Unread, FingerprintsIn, Occupied
<1>7. DistinctInv'
  BY <1>3, <1>6 DEF Inv, DistinctInv, table
<1>8. RoomInv'
  <2>1. itemCount < capacity
    BY TableFacts DEF Inv, NeedsRehash
  <2> QED
    BY <2>1 DEF RoomInv, table
<1>9. HandInv'
  BY <1>2, <1>3, <1>6 DEF Inv, HandInv, Probing, table
<1> QED
  BY <1>3, <1>4, <1>5, <1>7, <1>8, <1>9, TypeParts DEF Inv

(* The table grows: all its fingerprints are now in the old one. *)
LEMMA InsertIfAbsentRehashingStep ==
    ASSUME Inv, NEW f \in Fingerprints, InsertIfAbsentRehashing(f)
    PROVE  /\ Inv'
           /\ Stored' = {} /\ Unread' = Stored
<1> USE DEF InsertIfAbsentRehashing, hand
<1>1. capacity \in Nat \ {0} /\ capacity' = capacity * 2 + 1 /\ capacity' \in Nat \ {0}
  BY TableFacts DEF Inv
<1>2. slots' \in [0 .. capacity' - 1 -> Slot] /\ \A i \in DOMAIN slots' : ~slots'[i].occupied
  BY <1>1 DEF EmptyTable, EmptySlot, Slot
<1>3. Held' = {} /\ Occupied(slots)' = {}
  BY <1>2 DEF Held, Occupied
<1>4. oldSlots' = slots /\ oldSlots' \in [0 .. capacity - 1 -> Slot]
  BY DEF Inv, TypeOK
<1>5. Cardinality(DOMAIN oldSlots') = capacity /\ Cardinality(Occupied(slots)') = 0
  <2>1. Cardinality(DOMAIN oldSlots') = capacity
    BY <1>1, <1>4, FS_Interval
  <2>2. Cardinality(Occupied(slots)') = 0
    BY <1>3, FS_EmptySet
  <2> QED
    BY <2>1, <2>2
<1>6. Pending' = Held
  BY <1>1, <1>4, TableFacts DEF Held, Pending, Inv
<1>7. TypeOK'
  <2>1. TableType'
    BY <1>1, <1>2, <1>5 DEF TableType
  <2>2. OldTableType'
    BY <1>1, <1>4, <1>5 DEF OldTableType
  <2>3. HandType' /\ AnswerType'
    BY <1>1, TypeParts DEF Inv, HandType, AnswerType
  <2> QED
    BY <2>1, <2>2, <2>3, TypeParts
<1>8. Stored' = {} /\ Unread' = Stored
  <2>1. Stored' = {}
    BY <1>3 DEF Stored, FingerprintsIn
  <2>2. Unread' = {oldSlots'[i].fingerprint : i \in Pending'} /\ Stored = {slots[i].fingerprint : i \in Held}
    BY DEF Unread, Stored, FingerprintsIn, Occupied, Pending, Held
  <2> QED
    BY <1>4, <1>6, <2>1, <2>2
<1>9. ChainInv' /\ DistinctInv'
  BY <1>3, <1>4, <1>6, <1>8 DEF Inv, ChainInv, DistinctInv
<1>10. RoomInv'
  <2>1. itemCount' = 0 /\ cursor' = 0 /\ pc' = "rehash" /\ capacity < capacity'
    BY <1>1
  <2> QED
    BY <1>5, <2>1 DEF RoomInv
<1>11. HandInv'
  BY DEF HandInv, Probing
<1> QED
  BY <1>7, <1>8, <1>9, <1>10, <1>11 DEF Inv

(* rehash() looks at the next slot of the old table. *)
LEMMA RehashSlotStep ==
    ASSUME Inv, RehashSlot
    PROVE  /\ Inv'
           /\ Stored' = Stored
           /\ oldSlots[cursor].occupied =>
                 /\ pc' = "insertInternal"
                 /\ Unread = Unread' \cup {fingerprint'}
           /\ ~oldSlots[cursor].occupied => pc' = "rehash" /\ Unread' = Unread
<1> USE DEF RehashSlot, StartProbing
<1>1. PICK size \in Nat : DOMAIN oldSlots = 0 .. size - 1 /\ Cardinality(DOMAIN oldSlots) = size
  BY TableFacts DEF Inv
<1>2. cursor \in 0 .. size - 1 /\ cursor' = cursor + 1 /\ oldSlots' = oldSlots
  BY <1>1
<1>3. oldSlots[cursor] \in Slot /\ oldSlots[cursor].fingerprint \in Nat
  BY <1>1, <1>2, TableFacts DEF Inv
<1>4. TableType' /\ ChainInv' /\ UNCHANGED <<Held, Stored, table>>
        /\ \A g, i : Away(g, i)' = Away(g, i) /\ (Chain(g, i) => Chain(g, i)')
  BY TableStays
<1>5. OldTableType' /\ AnswerType'
  BY <1>1, <1>2, TypeParts DEF Inv, OldTableType, AnswerType, table
<1>6. Pending' = Pending \ {cursor}
  BY <1>1, <1>2 DEF Pending
<1>7. \A g : g \in Unread' <=> \E i \in Pending' : oldSlots'[i].fingerprint = g
  BY DEF Unread, FingerprintsIn, Occupied, Pending
<1>8. CASE oldSlots[cursor].occupied
  <2> DEFINE f == oldSlots[cursor].fingerprint
  <2>1. /\ fingerprint' = f /\ dist' = 0 /\ index' = f % capacity
        /\ pc' = "insertInternal" /\ wanted' = wanted
    BY <1>8
  <2>2. f % capacity \in DOMAIN slots /\ Away(f, f % capacity) = 0 /\ Chain(f, f % capacity)
    BY <1>3, ChainStarts DEF Inv
  <2>3. cursor \in Pending
    BY <1>1, <1>2, <1>8 DEF Pending
  <2>4. f \in Unread /\ f \notin Unread' /\ f \notin Stored
    BY <1>2, <1>6, <1>7, <2>3, StoredAre DEF Inv, DistinctInv
  <2>5. Unread = Unread' \cup {f}
    BY <1>2, <1>6, <1>7, <2>3, StoredAre
  <2>6. HandType'
    BY <1>3, <2>1, <2>2, TypeParts, TableFacts DEF Inv, HandType, table, Slot
  <2>7. DistinctInv'
    <3>1. UNCHANGED slots
      BY <1>4 DEF table
    <3> QED
      BY <1>2, <1>4, <1>6, <2>5, <3>1 DEF Inv, DistinctInv
  <2>8. RoomInv'
    BY <1>1, <1>2, <1>4, <2>1, TableFacts DEF Inv, RoomInv, table
  <2>9. HandInv'
    BY <1>4, <2>1, <2>2, <2>4 DEF Inv, HandInv, Probing, table
  <2> QED
    BY <1>4, <1>5, <1>8, <2>1, <2>5, <2>6, <2>7, <2>8, <2>9, TypeParts DEF Inv
<1>9. CASE ~oldSlots[cursor].occupied
  <2>1. UNCHANGED <<fingerprint, dist, index, pc, wanted>>
    BY <1>9 DEF hand
  <2>2. Pending' = Pending
    BY <1>6, <1>9 DEF Pending
  <2>3. Unread' = Unread
    <3>1. /\ Unread = {oldSlots[i].fingerprint : i \in Pending}
          /\ Unread' = {oldSlots'[i].fingerprint : i \in Pending'}
      BY DEF Unread, FingerprintsIn, Occupied, Pending
    <3> QED
      BY <1>2, <2>2, <3>1
  <2>4. HandType'
    BY <1>4, <2>1, TypeParts DEF Inv, HandType, table
  <2>5. DistinctInv'
    BY <1>2, <1>4, <2>2, <2>3 DEF Inv, DistinctInv, table
  <2>6. RoomInv' /\ HandInv'
    BY <1>1, <1>2, <1>4, <2>1, TableFacts DEF Inv, RoomInv, HandInv, Probing, table
  <2> QED
    BY <1>4, <1>5, <1>9, <2>1, <2>3, <2>4, <2>5, <2>6, TypeParts DEF Inv
<1> QED
  BY <1>8, <1>9

(* The old table has been read to its end. *)
LEMMA RehashDoneStep ==
    ASSUME Inv, RehashDone
    PROVE  Inv' /\ UNCHANGED Stored /\ Unread = {}
<1> USE DEF RehashDone, StartProbing
<1>1. PICK size \in Nat : DOMAIN oldSlots = 0 .. size - 1 /\ Cardinality(DOMAIN oldSlots) = size
  BY TableFacts DEF Inv
<1>2. Pending = {} /\ Unread = {}
  <2>1. Pending = {}
    BY <1>1 DEF Pending, Inv, TypeOK
  <2> QED
    BY <2>1, StoredAre
<1>3. DOMAIN oldSlots' = {} /\ oldSlots' \in [0 .. 0 - 1 -> Slot]
  BY DEF EmptyTable
<1>4. Pending' = {} /\ Unread' = {}
  BY <1>3 DEF Pending, Unread, FingerprintsIn, Occupied
<1>5. wanted \in Fingerprints /\ wanted \in Nat
  BY TableFacts DEF Inv, HandInv
<1>6. /\ wanted % capacity \in DOMAIN slots /\ Away(wanted, wanted % capacity) = 0
      /\ Chain(wanted, wanted % capacity)
      /\ \A j \in DOMAIN slots : ~(Away(wanted, j) < Away(wanted, wanted % capacity))
  BY <1>5, ChainStarts DEF Inv
<1>7. TableType' /\ ChainInv' /\ UNCHANGED <<Held, Stored, table>>
        /\ \A g, i : Away(g, i)' = Away(g, i) /\ (Chain(g, i) => Chain(g, i)')
  BY TableStays
<1>8. OldTableType'
  <2>1. Cardinality(DOMAIN oldSlots') = 0
    BY <1>3, FS_EmptySet
  <2>2. capacity' \in Nat
    BY <1>7, TableFacts DEF Inv, table
  <2>3. \E n \in 0 .. capacity' : oldSlots' \in [0 .. n - 1 -> Slot]
    BY <1>3, <2>2
  <2>4. cursor' \in 0 .. Cardinality(DOMAIN oldSlots')
    BY <2>1
  <2> QED
    BY <2>3, <2>4 DEF OldTableType
<1>9. HandType' /\ AnswerType'
  BY <1>5, <1>6, <1>7, TypeParts, TableFacts DEF Inv, HandType, AnswerType, table
<1>10. DistinctInv'
  BY <1>4, <1>7 DEF Inv, DistinctInv, table
<1>11. RoomInv'
  BY <1>1, <1>7, TableFacts DEF Inv, RoomInv, TypeOK, table
<1>12. HandInv'
  BY <1>4, <1>5, <1>6, <1>7 DEF HandInv, Probing, table
<1> QED
  BY <1>2, <1>7, <1>8, <1>9, <1>10, <1>11, <1>12, TypeParts DEF Inv

(* The fingerprint in hand is put down in a free slot, or in one whose     *)
(* occupant is nearer to its bucket: no search is cut off by this.         *)
LEMMA PutDown ==
    ASSUME Inv, Probing,
           slots[index].occupied => slots[index].probeDistance < dist,
           slots' = [slots EXCEPT ![index] = Taken(fingerprint, dist)],
           UNCHANGED capacity
    PROVE  /\ slots' \in [0 .. capacity' - 1 -> Slot]
           /\ index \in DOMAIN slots /\ DOMAIN slots' = DOMAIN slots
           /\ Held' = Held \cup {index}
           /\ slots'[index] = Taken(fingerprint, dist)
           /\ \A i \in DOMAIN slots \ {index} : slots'[i] = slots[i]
           /\ \A f, i : Away(f, i)' = Away(f, i)
           /\ \A i : \A f \in Nat : Chain(f, i) => Chain(f, i)'
           /\ ChainInv'
<1> DEFINE given == Taken(fingerprint, dist)
<1>1. index \in DOMAIN slots /\ dist = Away(fingerprint, index) /\ Chain(fingerprint, index)
        /\ dist \in Nat
  BY DEF Inv, HandInv, TypeOK
<1>2. given \in Slot /\ given.occupied /\ given.fingerprint = fingerprint
        /\ given.probeDistance = dist
  <2>1. fingerprint \in Fingerprints \cup {0}
    BY DEF Inv, TypeOK
  <2> QED
    BY <1>1, <2>1 DEF Taken, Slot
<1>3. slots' = [slots EXCEPT ![index] = given] /\ DOMAIN slots' = DOMAIN slots
  OBVIOUS
<1>4. slots' \in [0 .. capacity' - 1 -> Slot]
  BY <1>2, <1>3 DEF Inv, TypeOK
<1>5. slots'[index] = given /\ \A i \in DOMAIN slots \ {index} : slots'[i] = slots[i]
  BY <1>1, <1>3
<1> HIDE DEF given
<1>6. Held' = Held \cup {index}
  BY <1>1, <1>2, <1>3, <1>5 DEF Held
<1>7. \A f, i : Away(f, i)' = Away(f, i)
  BY DEF Away
<1>8. ASSUME NEW f \in Nat, NEW i, Chain(f, i)
      PROVE  Chain(f, i)'
  <2> SUFFICES ASSUME NEW j \in DOMAIN slots, Away(f, j) < Away(f, i)
               PROVE  slots'[j].occupied /\ slots'[j].probeDistance >= Away(f, j)
    BY <1>3, <1>7 DEF Chain
  <2>1. slots[j].occupied /\ slots[j].probeDistance >= Away(f, j)
    BY <1>8 DEF Chain
  <2>2. CASE j = index
    <3>1. slots[index].probeDistance < dist /\ slots[index].probeDistance \in Nat
      BY <1>1, <2>1, <2>2, TableFacts DEF Inv, Slot
    <3>2. Away(f, j) \in Nat
      BY AwayType, TableFacts DEF Inv
    <3> QED
      BY <1>1, <1>2, <1>5, <2>1, <2>2, <3>1, <3>2
  <2>3. CASE j # index
    BY <1>5, <2>1, <2>3
  <2> QED
    BY <2>2, <2>3
<1>9. ASSUME NEW i \in Held', NEW f, f = slots'[i].fingerprint
      PROVE  slots'[i].probeDistance = Away(f, i) /\ Chain(f, i)'
  <2>1. CASE i = index
    <3>1. f = fingerprint /\ f \in Nat /\ slots'[i].probeDistance = dist
      BY <1>2, <1>5, <1>9, <2>1, TableFacts DEF Inv
    <3>2. Chain(f, i) /\ dist = Away(f, i)
      BY <1>1, <2>1, <3>1
    <3> QED
      BY <1>8, <3>1, <3>2
  <2>2. CASE i # index
    <3>1. i \in Held /\ i \in DOMAIN slots /\ slots'[i] = slots[i]
      BY <1>5, <1>6, <2>2 DEF Held
    <3>2. slots[i].probeDistance = Away(f, i) /\ Chain(f, i) /\ f \in Nat
      BY <1>9, <3>1, TableFacts DEF Inv, ChainInv
    <3> QED
      BY <1>8, <3>1, <3>2
  <2> QED
    BY <2>1, <2>2
<1>10. ChainInv'
  BY <1>7, <1>9 DEF ChainInv
<1> QED
  BY <1>1, <1>2, <1>3, <1>4, <1>5, <1>6, <1>7, <1>8, <1>10 DEF given

(* Where the fingerprint wanted can be put down it is nowhere else: had it *)
(* been passed, it would have been seen, and had it been further on, the   *)
(* search for it would have come by here.                                  *)
LEMMA NotFurtherOn ==
    ASSUME Inv, pc = "insertIfAbsent", fingerprint = wanted,
           slots[index].occupied =>
              slots[index].probeDistance < dist /\ slots[index].fingerprint # wanted
    PROVE  wanted \notin Stored
<1> SUFFICES ASSUME NEW i \in Held, slots[i].fingerprint = wanted PROVE FALSE
  BY StoredAre
<1>1. /\ index \in DOMAIN slots /\ dist = Away(wanted, index)
      /\ \A j \in DOMAIN slots : Away(wanted, j) < Away(wanted, index) => slots[j].fingerprint # wanted
  BY DEF Inv, HandInv, Probing
<1>2. i \in DOMAIN slots /\ slots[i].occupied /\ Chain(wanted, i)
  BY DEF Held, Inv, ChainInv
<1>3. capacity \in Nat \ {0} /\ DOMAIN slots = 0 .. capacity - 1
        /\ wanted % capacity \in 0 .. capacity - 1
  BY TableFacts, HomeInTable DEF Inv
<1>4. CASE i = index
  BY <1>2, <1>4
<1>5. CASE Away(wanted, i) < Away(wanted, index)
  BY <1>1, <1>2, <1>5
<1>6. CASE Away(wanted, index) < Away(wanted, i)
  <2>1. slots[index].occupied /\ slots[index].probeDistance >= Away(wanted, index)
    BY <1>1, <1>2, <1>6 DEF Chain
  <2>2. slots[index].probeDistance \in Nat /\ Away(wanted, index) \in Nat
    BY <1>1, TableFacts, AwayType DEF Inv, Slot
  <2> QED
    BY <1>1, <2>1, <2>2
<1> QED
  BY <1>1, <1>2, <1>3, <1>4, <1>5, <1>6, StepsDiffer DEF Away

(* A free slot takes the fingerprint in hand. *)
LEMMA SettleStep ==
    ASSUME Inv, Settle
    PROVE  /\ Inv'
           /\ Stored' = Stored \cup {fingerprint}
           /\ Unread' = Unread
           /\ fingerprint \notin Stored
<1> USE DEF Settle, old, hand
<1>1. /\ slots' \in [0 .. capacity' - 1 -> Slot]
      /\ index \in DOMAIN slots /\ DOMAIN slots' = DOMAIN slots
      /\ Held' = Held \cup {index}
      /\ slots'[index] = Taken(fingerprint, dist)
      /\ \A i \in DOMAIN slots \ {index} : slots'[i] = slots[i]
      /\ ChainInv'
  BY PutDown
<1>2. index \notin Held /\ slots'[index].fingerprint = fingerprint
  BY <1>1 DEF Held, Taken
<1>3. fingerprint \notin Stored
  BY NotFurtherOn DEF Inv, HandInv, Probing
<1>4. Stored' = Stored \cup {fingerprint}
  <2>1. Stored = {slots[i].fingerprint : i \in Held} /\ Stored' = {slots'[i].fingerprint : i \in Held'}
    BY DEF Stored, FingerprintsIn, Occupied, Held
  <2>2. \A i \in Held : slots'[i] = slots[i]
    BY <1>1, <1>2 DEF Held
  <2> QED
    BY <1>1, <1>2, <2>1, <2>2
<1>5. Pending' = Pending /\ Unread' = Unread
  BY DEF Pending, Unread, FingerprintsIn, Occupied
<1>6. itemCount \in Nat /\ itemCount' = itemCount + 1 /\ itemCount' = Cardinality(Occupied(slots)')
  <2>1. IsFiniteSet(Held)
    <3>1. capacity - 1 \in Int /\ Held \subseteq 0 .. capacity - 1
      BY TableFacts DEF Held, Inv
    <3>2. IsFiniteSet(0 .. capacity - 1)
      BY <3>1, FS_Interval
    <3> QED
      BY <3>1, <3>2, FS_Subset
  <2>2. Cardinality(Held \cup {index}) = Cardinality(Held) + 1
    BY <1>2, <2>1, FS_AddElement
  <2>3. Occupied(slots)' = Held'
    BY DEF Occupied, Held
  <2>4. itemCount = Cardinality(Held) /\ itemCount \in Nat
    BY StoredAre, TableFacts DEF Inv, TypeOK
  <2> QED
    BY <1>1, <2>2, <2>3, <2>4
<1>7. TypeOK'
  <2>1. TableType'
    BY <1>1, <1>6, TypeParts DEF Inv, TableType
  <2>2. OldTableType'
    BY TypeParts DEF Inv, OldTableType
  <2>3. HandType'
    BY TypeParts DEF Inv, HandType
  <2>4. AnswerType'
    <3>1. CASE pc = "insertInternal"
      BY <3>1, TypeParts DEF Inv, AnswerType
    <3>2. CASE pc = "insertIfAbsent"
      <4>1. wanted \in Fingerprints /\ answer' = [fingerprint |-> wanted, inserted |-> TRUE]
        BY <3>2 DEF Inv, HandInv
      <4> QED
        BY <4>1 DEF AnswerType
    <3> QED
      BY <3>1, <3>2 DEF Probing
  <2> QED
    BY <2>1, <2>2, <2>3, <2>4, TypeParts
<1>8. DistinctInv'
  <2>1. \A i \in Held : slots[i].fingerprint # fingerprint /\ slots'[i] = slots[i]
    BY <1>1, <1>2, <1>3, StoredAre DEF Held
  <2>2. (\A i, j \in Held : slots[i].fingerprint = slots[j].fingerprint => i = j)'
    BY <1>1, <1>2, <2>1 DEF Inv, DistinctInv
  <2>3. fingerprint \notin Unread
    <3>1. CASE pc = "insertInternal"
      BY <3>1 DEF Inv, HandInv
    <3>2. CASE pc = "insertIfAbsent"
      BY <3>2, StoredAre DEF Inv, HandInv
    <3> QED
      BY <3>1, <3>2
  <2> QED
    BY <1>4, <1>5, <2>2, <2>3 DEF Inv, DistinctInv
<1>9. RoomInv'
  BY <1>6, TableFacts DEF Inv, RoomInv
<1>10. HandInv'
  BY <1>5 DEF Inv, HandInv, Probing
<1> QED
  BY <1>1, <1>3, <1>4, <1>5, <1>7, <1>8, <1>9, <1>10 DEF Inv

(* The fingerprint wanted was there. *)
LEMMA RejectStep ==
    ASSUME Inv, Reject
    PROVE  /\ Inv'
           /\ UNCHANGED Stored
           /\ fingerprint = wanted /\ wanted \in Stored
<1> USE DEF Reject, IsDuplicate, old, hand
<1>1. TableType' /\ ChainInv' /\ UNCHANGED <<Held, Stored, table>>
  BY TableStays
<1>2. index \in Held /\ fingerprint \in Stored /\ fingerprint = wanted
  BY StoredAre DEF Inv, HandInv, Probing, Held
<1>3. UNCHANGED <<Pending, Unread>>
  BY DEF Pending, Unread, FingerprintsIn, Occupied
<1>4. OldTableType' /\ HandType'
  BY TypeParts DEF Inv, OldTableType, HandType, table
<1>5. AnswerType'
  BY DEF AnswerType, Inv, HandInv
<1>6. DistinctInv' /\ RoomInv' /\ HandInv'
  BY <1>1, <1>3 DEF Inv, DistinctInv, RoomInv, HandInv, Probing, table
<1> QED
  BY <1>1, <1>2, <1>4, <1>5, <1>6, TypeParts DEF Inv

(* The fingerprint in hand goes on to the next slot. *)
LEMMA PassStep ==
    ASSUME Inv, Pass
    PROVE  Inv' /\ UNCHANGED <<Stored, Unread>>
<1> USE DEF Pass, old
<1>1. /\ index \in DOMAIN slots /\ dist = Away(fingerprint, index) /\ dist \in Nat
      /\ Chain(fingerprint, index) /\ fingerprint \in Nat
  BY TableFacts DEF Inv, HandInv, TypeOK
<1>2. /\ index' \in DOMAIN slots /\ Away(fingerprint, index') = dist + 1
      /\ \A j \in DOMAIN slots :
            Away(fingerprint, j) < Away(fingerprint, index') =>
                j = index \/ Away(fingerprint, j) < Away(fingerprint, index)
  BY <1>1, RoomForHand, ChainGoesOn DEF Inv
<1>3. Chain(fingerprint, index')
  BY <1>1, <1>2 DEF Chain
<1>4. TableType' /\ ChainInv' /\ UNCHANGED <<Held, Stored, table>>
        /\ \A g, i : Away(g, i)' = Away(g, i) /\ (Chain(g, i) => Chain(g, i)')
  BY TableStays
<1>5. OldTableType' /\ AnswerType'
  BY <1>4, TypeParts DEF Inv, OldTableType, AnswerType, table
<1>6. HandType'
  BY <1>1, <1>2, <1>4, TypeParts, TableFacts DEF Inv, HandType, table
<1>7. UNCHANGED <<Pending, Unread>>
  BY DEF Pending, Unread, FingerprintsIn, Occupied
<1>8. DistinctInv' /\ RoomInv'
  BY <1>4, <1>7 DEF Inv, DistinctInv, RoomInv, table
<1>9. HandInv'
  <2>1. ASSUME pc = "insertIfAbsent", fingerprint = wanted, NEW j \in DOMAIN slots,
               Away(wanted, j) < Away(wanted, index')
        PROVE  slots[j].fingerprint # wanted
    <3>1. CASE j = index
      BY <2>1, <3>1 DEF IsDuplicate
    <3>2. CASE j # index
      BY <1>2, <2>1, <3>2 DEF Inv, HandInv
    <3> QED
      BY <3>1, <3>2
  <2>2. index' \in DOMAIN slots' /\ dist' = Away(fingerprint, index)' /\ Chain(fingerprint, index)'
    BY <1>2, <1>3, <1>4 DEF table, Away, Chain
  <2>3. (pc = "insertIfAbsent" /\ fingerprint = wanted =>
            \A j \in DOMAIN slots :
                Away(wanted, j) < Away(wanted, index) => slots[j].fingerprint # wanted)'
    BY <1>4, <2>1 DEF table, Away
  <2> QED
    BY <1>4, <1>7, <2>2, <2>3 DEF Inv, HandInv
<1> QED
  BY <1>4, <1>5, <1>6, <1>7, <1>8, <1>9, TypeParts DEF Inv

(* The fingerprint in hand changes places with that of the slot. *)
LEMMA StealStep ==
    ASSUME Inv, Steal
    PROVE  /\ Inv' /\ UNCHANGED Unread
           /\ fingerprint' \in Stored /\ fingerprint \notin Stored
           /\ Stored' = (Stored \ {fingerprint'}) \cup {fingerprint}
<1> USE DEF Steal, old
<1> DEFINE victim == slots[index].fingerprint
<1>1. /\ slots' \in [0 .. capacity' - 1 -> Slot]
      /\ index \in DOMAIN slots /\ DOMAIN slots' = DOMAIN slots
      /\ Held' = Held \cup {index}
      /\ slots'[index] = Taken(fingerprint, dist)
      /\ \A i \in DOMAIN slots \ {index} : slots'[i] = slots[i]
      /\ \A f, i : Away(f, i)' = Away(f, i)
      /\ \A i : \A f \in Nat : Chain(f, i) => Chain(f, i)'
      /\ ChainInv'
  BY PutDown
<1>2. /\ index \in Held /\ Held' = Held /\ victim \in Nat /\ fingerprint' = victim
      /\ victim \in Fingerprints \cup {0}
      /\ slots'[index].fingerprint = fingerprint
      /\ dist' = slots[index].probeDistance + 1 /\ dist' \in Nat
      /\ slots[index].probeDistance = Away(victim, index) /\ Chain(victim, index)
  BY <1>1, TableFacts DEF Inv, ChainInv, Held, Taken, Slot
<1>3. victim \in Stored
  BY <1>2, StoredAre
<1>4. fingerprint \notin Stored
  BY NotFurtherOn DEF Inv, HandInv, Probing, IsDuplicate
<1>5. Stored' = (Stored \ {victim}) \cup {fingerprint}
  <2>1. Stored = {slots[i].fingerprint : i \in Held} /\ Stored' = {slots'[i].fingerprint : i \in Held'}
    BY DEF Stored, FingerprintsIn, Occupied, Held
  <2>2. \A i \in Held \ {index} : slots'[i] = slots[i] /\ slots[i].fingerprint # victim
    BY <1>1, <1>2 DEF Held, Inv, DistinctInv
  <2> HIDE DEF victim
  <2>3. \A f \in Stored' : f \in (Stored \ {victim}) \cup {fingerprint}
    BY <1>2, <2>1, <2>2
  <2>4. \A f \in (Stored \ {victim}) \cup {fingerprint} : f \in Stored'
    BY <1>2, <2>1, <2>2 DEF victim
  <2> QED
    BY <2>3, <2>4
<1>6. Pending' = Pending /\ Unread' = Unread
  BY DEF Pending, Unread, FingerprintsIn, Occupied
<1>7. /\ index' \in DOMAIN slots /\ Away(victim, index') = dist'
      /\ \A j \in DOMAIN slots :
            Away(victim, j) < Away(victim, index') => j = index \/ Away(victim, j) < Away(victim, index)
  BY <1>1, <1>2, RoomForHand, ChainGoesOn DEF Inv
<1>8. dist > slots[index].probeDistance /\ dist \in Nat
  BY <1>2, TableFacts DEF Inv, TypeOK, Slot
<1>9. ASSUME NEW j \in DOMAIN slots, Away(victim, j) < Away(victim, index')
       PROVE  slots'[j].occupied /\ slots'[j].probeDistance >= Away(victim, j)
  <2>1. CASE j = index
    BY <1>1, <1>2, <1>8, <2>1, AwayType DEF Taken, Inv
  <2>2. CASE j # index
    <3>1. slots'[j] = slots[j] /\ Away(victim, j) < Away(victim, index)
      BY <1>1, <1>7, <1>9, <2>2
    <3> QED
      BY <1>2, <3>1 DEF Chain
  <2> QED
    BY <2>1, <2>2
<1>10. TypeOK'
  <2>1. TableType'
    <3>1. Occupied(slots)' = Occupied(slots)
      BY <1>2, StoredAre DEF Held, Occupied
    <3> QED
      BY <1>1, <3>1, TypeParts DEF Inv, TableType
  <2>2. OldTableType' /\ AnswerType'
    BY TypeParts DEF Inv, OldTableType, AnswerType
  <2>3. HandType'
    BY <1>2, <1>7, TypeParts, TableFacts DEF Inv, HandType
  <2> QED
    BY <2>1, <2>2, <2>3, TypeParts
<1>11. DistinctInv'
  <2>1. \A i \in Held \ {index} : slots[i].fingerprint # fingerprint /\ slots'[i] = slots[i]
    BY <1>1, <1>4, StoredAre DEF Held
  <2>2. (\A i, j \in Held : slots[i].fingerprint = slots[j].fingerprint => i = j)'
    BY <1>2, <2>1 DEF Inv, DistinctInv
  <2>3. fingerprint \notin Unread
    <3>1. CASE pc = "insertInternal"
      BY <3>1 DEF Inv, HandInv
    <3>2. CASE pc = "insertIfAbsent"
      BY <3>2, StoredAre DEF Inv, HandInv
    <3> QED
      BY <3>1, <3>2 DEF Probing
  <2> QED
    BY <1>5, <1>6, <2>2, <2>3 DEF Inv, DistinctInv
<1>12. RoomInv'
  BY DEF Inv, RoomInv
<1>13. victim \notin Stored' /\ victim # fingerprint
  BY <1>3, <1>4, <1>5
<1>14. HandInv'
  <2> HIDE DEF victim
  <2>1. (Probing =>
          /\ index \in DOMAIN slots
          /\ dist = Away(fingerprint, index)
          /\ Chain(fingerprint, index))'
    <3>1. index' \in DOMAIN slots' /\ dist' = Away(fingerprint, index)'
      BY <1>1, <1>2, <1>7 DEF Away
    <3>2. Chain(fingerprint, index)'
      BY <1>1, <1>2, <1>9 DEF Chain, Away
    <3> QED
      BY <3>1, <3>2
  <2>2. (pc = "insertInternal" => fingerprint \notin Stored \cup Unread)'
    <3>1. victim \in Stored => victim \notin Unread
      BY DEF Inv, DistinctInv
    <3> QED
      BY <1>2, <1>3, <1>6, <1>13, <3>1
  <2>3. (pc = "insertIfAbsent" /\ fingerprint = wanted =>
            \A j \in DOMAIN slots :
                Away(wanted, j) < Away(wanted, index) => slots[j].fingerprint # wanted)'
    <3> SUFFICES ASSUME fingerprint' = wanted', NEW j \in DOMAIN slots', slots'[j].occupied
                 PROVE  slots'[j].fingerprint # wanted'
      BY <1>1, <1>2, <1>9 DEF Away
    <3>1. slots'[j].fingerprint \in Stored'
      BY DEF Stored, FingerprintsIn, Occupied
    <3> QED
      BY <1>2, <1>13, <3>1
  <2>4. (pc = "insertIfAbsent" /\ fingerprint # wanted => wanted \in Stored /\ fingerprint \notin Stored)'
    <3>1. CASE fingerprint = wanted
      BY <1>2, <1>5, <1>13, <3>1
    <3>2. CASE fingerprint # wanted
      BY <1>2, <1>5, <1>13, <3>2 DEF Inv, HandInv
    <3> QED
      BY <3>1, <3>2
  <2> QED
    BY <1>6, <2>1, <2>2, <2>3, <2>4 DEF Inv, HandInv
<1> QED
  BY <1>1, <1>2, <1>3, <1>4, <1>5, <1>6, <1>10, <1>11, <1>12, <1>14 DEF Inv

LEMMA StutterStep == Inv /\ UNCHANGED vars => Inv' /\ UNCHANGED <<Stored, Unread>>
<1> SUFFICES ASSUME Inv, UNCHANGED vars PROVE Inv' /\ UNCHANGED <<Stored, Unread>>
  OBVIOUS
<1> USE DEF vars, old, hand
<1>1. TableType' /\ ChainInv' /\ UNCHANGED <<Held, Stored, table>>
        /\ \A g, i : Away(g, i)' = Away(g, i) /\ (Chain(g, i) => Chain(g, i)')
  BY TableStays
<1>2. UNCHANGED <<Pending, Unread>>
  BY DEF Pending, Unread, FingerprintsIn, Occupied
<1>3. TypeOK'
  BY <1>1, TypeParts DEF Inv, OldTableType, HandType, AnswerType, table
<1>4. DistinctInv' /\ RoomInv'
  BY <1>1, <1>2 DEF Inv, DistinctInv, RoomInv, table
<1>5. HandInv'
  BY <1>1, <1>2 DEF Inv, HandInv, Probing, table, Away, Chain
<1> QED
  BY <1>1, <1>2, <1>3, <1>4, <1>5 DEF Inv

LEMMA StepInv == Inv /\ [Next]_vars => Inv'
<1> SUFFICES ASSUME Inv, [Next]_vars PROVE Inv'
  OBVIOUS
<1>1. CASE Call
  BY <1>1, InsertIfAbsentStep, InsertIfAbsentRehashingStep DEF Call
<1>2. CASE Loops
  BY <1>2, RehashSlotStep, RehashDoneStep, SettleStep, RejectStep, StealStep, PassStep DEF Loops
<1>3. CASE UNCHANGED vars
  BY <1>3, StutterStep
<1> QED
  BY <1>1, <1>2, <1>3 DEF Next

LEMMA InvHolds == Spec => []Inv
BY InitInv, StepInv, PTL DEF Spec

(* itemCount counts the slots in use and every variable has its type, for  *)
(* every set of fingerprints and size of the first table.                  *)
THEOREM TypeCorrect == Spec => []TypeOK
<1>1. Inv => TypeOK
  BY DEF Inv
<1> QED
  BY <1>1, InvHolds, PTL

(* At every moment, also while a fingerprint is in hand, every slot says   *)
(* how far its fingerprint lies from its bucket, and no occupant lies more *)
(* than one place nearer to its own than the next one does.                *)
THEOREM OrderKept == Spec => []RobinHood
<1>1. Inv => RobinHood
  <2> SUFFICES ASSUME Inv, NEW i \in Occupied(slots)
               PROVE  /\ (slots[i].fingerprint + slots[i].probeDistance) % capacity = i
                      /\ slots[i].probeDistance > 0 =>
                            /\ slots[(i + capacity - 1) % capacity].occupied
                            /\ slots[(i + capacity - 1) % capacity].probeDistance
                                  >= slots[i].probeDistance - 1
    BY DEF RobinHood
  <2> DEFINE f == slots[i].fingerprint
             home == f % capacity
             before == (i + capacity - 1) % capacity
             d == slots[i].probeDistance
  <2>1. /\ i \in Held /\ i \in 0 .. capacity - 1 /\ capacity \in Nat \ {0} /\ f \in Nat
        /\ DOMAIN slots = 0 .. capacity - 1
    BY StoredAre, TableFacts DEF Inv, Held
  <2>2. d = Steps(capacity, home, i) /\ home \in 0 .. capacity - 1
        /\ \A j \in 0 .. capacity - 1 : Steps(capacity, home, j) < d =>
              slots[j].occupied /\ slots[j].probeDistance >= Steps(capacity, home, j)
    BY <2>1, HomeInTable DEF Inv, ChainInv, Chain, Away
  <2>3. d \in 0 .. capacity - 1 /\ (f + d) % capacity = IF home + d < capacity THEN home + d ELSE home + d - capacity
    <3>1. d \in 0 .. capacity - 1
      BY <2>1, <2>2 DEF Steps
    <3> QED
      BY <2>1, <3>1, WrapsOnce
  <2>4. before = IF i > 0 THEN i - 1 ELSE capacity - 1
    BY <2>1, PreviousIndex
  <2> HIDE DEF f, home, before, d
  <2>5. (f + d) % capacity = i
    BY <2>1, <2>2, <2>3 DEF Steps
  <2>6. ASSUME d > 0
        PROVE  slots[before].occupied /\ slots[before].probeDistance >= d - 1
    <3>1. before \in 0 .. capacity - 1 /\ Steps(capacity, home, before) = d - 1
      BY <2>1, <2>2, <2>4, <2>6 DEF Steps
    <3>2. d - 1 < d
      BY <2>3
    <3> QED
      BY <2>2, <3>1, <3>2
  <2> QED
    BY <2>5, <2>6 DEF f, d, before
<1> QED
  BY <1>1, InvHolds, PTL
-----------------------------------------------------------------------------
(* The table, whichever fingerprints collide and whenever it grows, is the *)
(* set: insertIfAbsent() takes exactly the lines that were not there, and  *)
(* loses none of those that were.                                          *)
THEOREM TableImplementsSet == Spec => ImplementsSet
<1>1. Init => Abstract!Init
  <2> SUFFICES ASSUME Init PROVE Abstract!Init
    OBVIOUS
  <2>1. Members = Stored /\ Stored = {}
    BY DEF Init, Members, Stored, FingerprintsIn, Occupied, EmptyTable, EmptySlot
  <2> QED
    BY <2>1 DEF Init, Abstract!Init
<1>2. Inv /\ [Next]_vars => [Abstract!Next]_<<Members, answer>>
  <2> SUFFICES ASSUME Inv, [Next]_vars
               PROVE  UNCHANGED <<Members, answer>>
                        \/ \E f \in Fingerprints : Abstract!InsertIfAbsent(f)
    BY DEF Abstract!Next
  <2>1. ASSUME NEW f \in Fingerprints, InsertIfAbsent(f)
        PROVE  UNCHANGED <<Members, answer>>
    <3>1. Stored' = Stored
      BY <2>1, TableStays DEF InsertIfAbsent
    <3> QED
      BY <2>1, <3>1 DEF InsertIfAbsent, StartProbing, Members
  <2>2. ASSUME NEW f \in Fingerprints, InsertIfAbsentRehashing(f)
        PROVE  UNCHANGED <<Members, answer>>
    BY <2>2, InsertIfAbsentRehashingStep DEF InsertIfAbsentRehashing, Members
  <2>3. CASE RehashSlot
    <3>1. CASE oldSlots[cursor].occupied
      BY <2>3, <3>1, RehashSlotStep DEF RehashSlot, Members
    <3>2. CASE ~oldSlots[cursor].occupied
      BY <2>3, <3>2, RehashSlotStep DEF RehashSlot, Members
    <3> QED
      BY <3>1, <3>2
  <2>4. CASE RehashDone
    BY <2>4, RehashDoneStep DEF RehashDone, StartProbing, Members
  <2>5. CASE Settle
    <3>1. Stored' = Stored \cup {fingerprint} /\ Unread' = Unread /\ fingerprint \notin Stored
      BY <2>5, SettleStep
    <3>2. CASE pc = "insertInternal"
      BY <2>5, <3>1, <3>2 DEF Settle, Members
    <3>3. CASE pc = "insertIfAbsent" /\ fingerprint = wanted
      <4>1. Members = Stored /\ Members' = Stored'
              /\ answer' = [fingerprint |-> wanted, inserted |-> TRUE]
        BY <2>5, <3>3 DEF Settle, Members
      <4>2. Abstract!InsertIfAbsent(wanted)
        BY <3>1, <3>3, <4>1 DEF Abstract!InsertIfAbsent
      <4> QED
        BY <3>3, <4>2 DEF Inv, HandInv
    <3>4. CASE pc = "insertIfAbsent" /\ fingerprint # wanted
      <4>1. Members = (Stored \cup {fingerprint}) \ {wanted} /\ Members' = Stored'
              /\ answer' = [fingerprint |-> wanted, inserted |-> TRUE]
        BY <2>5, <3>4 DEF Settle, Members
      <4>2. wanted \in Stored
        BY <3>4 DEF Inv, HandInv
      <4>3. Abstract!InsertIfAbsent(wanted)
        BY <3>1, <4>1, <4>2 DEF Abstract!InsertIfAbsent
      <4> QED
        BY <3>4, <4>3 DEF Inv, HandInv
    <3> QED
      BY <2>5, <3>2, <3>3, <3>4 DEF Settle, Probing
  <2>6. CASE Reject
    <3>1. Stored' = Stored /\ fingerprint = wanted /\ wanted \in Stored
      BY <2>6, RejectStep
    <3>2. Members = Stored /\ Members' = Stored'
            /\ answer' = [fingerprint |-> wanted, inserted |-> FALSE]
      BY <2>6, <3>1 DEF Reject, IsDuplicate, Members
    <3>3. Abstract!InsertIfAbsent(wanted)
      BY <3>1, <3>2 DEF Abstract!InsertIfAbsent
    <3> QED
      BY <2>6, <3>3 DEF Reject, IsDuplicate, Inv, HandInv
  <2>7. CASE Steal
    <3>1. Stored' = (Stored \ {fingerprint'}) \cup {fingerprint} /\ UNCHANGED Unread
            /\ fingerprint' \in Stored /\ fingerprint \notin Stored
      BY <2>7, StealStep
    <3>2. pc = "insertIfAbsent" /\ fingerprint # wanted => wanted \in Stored
      BY DEF Inv, HandInv
    <3>3. UNCHANGED <<pc, wanted, answer>> /\ pc \in {"insertInternal", "insertIfAbsent"}
      BY <2>7 DEF Steal, Probing
    <3>4. CASE pc = "insertInternal"
      BY <3>1, <3>3, <3>4 DEF Members
    <3>5. CASE pc = "insertIfAbsent" /\ fingerprint = wanted
      <4>1. Members = Stored /\ Members' = (Stored' \cup {fingerprint'}) \ {wanted}
        BY <3>1, <3>3, <3>5 DEF Members
      <4> QED
        BY <3>1, <3>3, <3>5, <4>1
    <3>6. CASE pc = "insertIfAbsent" /\ fingerprint # wanted /\ fingerprint' = wanted
      <4>1. Members = (Stored \cup {fingerprint}) \ {wanted} /\ Members' = Stored'
        BY <3>3, <3>6 DEF Members
      <4> QED
        BY <3>1, <3>3, <3>6, <4>1
    <3>7. CASE pc = "insertIfAbsent" /\ fingerprint # wanted /\ fingerprint' # wanted
      <4>1. /\ Members = (Stored \cup {fingerprint}) \ {wanted}
            /\ Members' = (Stored' \cup {fingerprint'}) \ {wanted}
        BY <3>3, <3>7 DEF Members
      <4> QED
        BY <3>1, <3>3, <3>7, <4>1
    <3> QED
      BY <3>3, <3>4, <3>5, <3>6, <3>7
  <2>8. CASE Pass
    <3>1. UNCHANGED <<Stored, Unread>>
      BY <2>8, PassStep
    <3> QED
      BY <2>8, <3>1 DEF Pass, Members
  <2>9. CASE UNCHANGED vars
    <3>1. UNCHANGED <<Stored, Unread>>
      BY <2>9, StutterStep
    <3> QED
      BY <2>9, <3>1 DEF vars, hand, Members
  <2> QED
    BY <2>1, <2>2, <2>3, <2>4, <2>5, <2>6, <2>7, <2>8, <2>9 DEF Next, Call, Loops
<1> QED
  BY <1>1, <1>2, InvHolds, PTL DEF Spec, ImplementsSet, Abstract!Spec
=============================================================================
