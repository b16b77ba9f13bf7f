-------------------------- MODULE StringPool_proofs --------------------------
(***************************************************************************)
(* Proofs about StringPool for every set of strings, every hash function   *)
(* and tables of every size: the table of ids is the dictionary it stands  *)
(* for, and no string is ever given a second id.                           *)
(***************************************************************************)
EXTENDS StringPool, CommonLemmas, SequenceTheorems

(* The parts of TypeOK, so that a step can show each of them alone. *)
OldTableType == \E size \in 0 .. capacity : oldSlots \in [0 .. size - 1 -> Slot]
AnswerType ==
    answer \in [string : Strings \cup {NoString}, id : Nat] \cup [size : Nat] \cup {NoAnswer}
TableType ==
    /\ capacity \in Nat \ {0}
    /\ slots \in [0 .. capacity - 1 -> Slot]
    /\ strings \in Seq(Strings)
    /\ keyCount = Len(strings)
SearchType ==
    /\ cursor \in 0 .. Cardinality(DOMAIN oldSlots)
    /\ pc \in {"idle", "rehash", "probeFree", "lookup"}
    /\ wanted \in Strings \cup {NoString}
    /\ index \in 0 .. capacity

LEMMA TypeParts ==
    /\ TypeOK <=> TableType /\ OldTableType /\ SearchType /\ AnswerType
    /\ TypeOK' <=> (TableType /\ OldTableType /\ SearchType /\ AnswerType)'
BY DEF TypeOK, TableType, OldTableType, SearchType, AnswerType

(* A search for hash passes occupied slots only before it comes to slot i. *)
Reachable(hash, i) ==
    \A j \in DOMAIN slots :
        Steps(capacity, hash % capacity, j) < Steps(capacity, hash % capacity, i)
            => slots[j].occupied

(* The slots that hold an id, and those of the old table that still do.    *)
Held == {i \in DOMAIN slots : slots[i].occupied}
Pending == {i \in DOMAIN oldSlots : i >= cursor /\ oldSlots[i].occupied}

(* The slot holds an id that was given out, with the hash of its string.   *)
Genuine(slot) == slot.id < Len(strings) /\ slot.cachedHash = Hash[strings[slot.id + 1]]

(* Every id that was given out lies in exactly one slot, of the table or   *)
(* of what is left of the old one.                                         *)
IdInv ==
    /\ \A i \in Held : Genuine(slots[i])
    /\ \A i \in Pending : Genuine(oldSlots[i])
    /\ \A i, j \in Held : slots[i].id = slots[j].id => i = j
    /\ \A i, j \in Pending : oldSlots[i].id = oldSlots[j].id => i = j
    /\ \A i \in Held, j \in Pending : slots[i].id # oldSlots[j].id
    /\ \A id \in 0 .. Len(strings) - 1 :
          \/ \E i \in Held : slots[i].id = id
          \/ \E i \in Pending : oldSlots[i].id = id

(* No free slot lies before an id that is in the table. *)
ChainInv == \A i \in Held : Reachable(slots[i].cachedHash, i)

(* The slots that a lookup has passed do not hold the wanted string.       *)
Passed(i) ==
    \A j \in DOMAIN slots :
        Steps(capacity, Hash[wanted] % capacity, j)
                < Steps(capacity, Hash[wanted] % capacity, i)
            => strings[slots[j].id + 1] # wanted

(* What a loop knows of the slots it has passed. *)
SearchInv ==
    /\ pc # "idle" => wanted \in Strings
    /\ pc \in {"idle", "lookup"} => Pending = {}
    /\ pc = "probeFree" =>
          /\ cursor \in Pending
          /\ index \in DOMAIN slots
          /\ Reachable(oldSlots[cursor].cachedHash, index)
    /\ pc = "lookup" =>
          /\ index \in DOMAIN slots
          /\ Reachable(Hash[wanted], index)
          /\ Passed(index)

Inv == TypeOK /\ IdInv /\ ChainInv /\ SearchInv
-----------------------------------------------------------------------------
LEMMA TableFacts ==
    ASSUME TypeOK
    PROVE  /\ capacity \in Nat \ {0}
           /\ DOMAIN slots = 0 .. capacity - 1
           /\ \A i \in DOMAIN slots : slots[i] \in Slot
           /\ \E size \in Nat : /\ DOMAIN oldSlots = 0 .. size - 1
                                /\ Cardinality(DOMAIN oldSlots) = size
           /\ \A i \in DOMAIN oldSlots : oldSlots[i] \in Slot
           /\ Len(strings) \in Nat
           /\ \A id \in 0 .. Len(strings) - 1 : strings[id + 1] \in Strings
<1>1. PICK size \in 0 .. capacity : oldSlots \in [0 .. size - 1 -> Slot]
  BY DEF TypeOK
<1>2. size \in Nat /\ Cardinality(0 .. size - 1) = size
  BY FS_Interval DEF TypeOK
<1>3. strings \in Seq(Strings)
  BY DEF TypeOK
<1>4. Len(strings) \in Nat /\ \A id \in 0 .. Len(strings) - 1 : strings[id + 1] \in Strings
  BY <1>3
<1> QED
  BY <1>1, <1>2, <1>4 DEF TypeOK

LEMMA SearchStarts ==
    ASSUME TypeOK, NEW hash \in Nat
    PROVE  /\ hash % capacity \in DOMAIN slots
           /\ Reachable(hash, hash % capacity)
<1>1. hash % capacity \in 0 .. capacity - 1
  BY TableFacts, HomeInTable
<1> QED
  BY <1>1, TableFacts, NothingPassed DEF Reachable

LEMMA SearchGoesOn ==
    ASSUME TypeOK, NEW hash \in Nat, NEW i \in DOMAIN slots,
           slots[i].occupied, Reachable(hash, i)
    PROVE  /\ (i + 1) % capacity \in DOMAIN slots
           /\ Reachable(hash, (i + 1) % capacity)
<1> DEFINE home == hash % capacity
           next == (i + 1) % capacity
<1>1. capacity \in Nat \ {0} /\ DOMAIN slots = 0 .. capacity - 1
  BY TableFacts
<1>2. home \in 0 .. capacity - 1 /\ next \in 0 .. capacity - 1
  BY <1>1, HomeInTable, NextIndex
<1>3. ASSUME NEW j \in DOMAIN slots, Steps(capacity, home, j) < Steps(capacity, home, next)
      PROVE  slots[j].occupied
  <2>1. j = i \/ Steps(capacity, home, j) < Steps(capacity, home, i)
    BY <1>1, <1>2, <1>3, OneStepMore
  <2> QED
    BY <2>1 DEF Reachable
<1> QED
  BY <1>1, <1>2, <1>3 DEF Reachable

LEMMA HashIsNat == \A string \in Strings : Hash[string] \in Nat
BY HashAssumption
-----------------------------------------------------------------------------
LEMMA InitInv == Init => Inv
<1> SUFFICES ASSUME Init PROVE Inv
  OBVIOUS
<1>1. capacity \in Nat \ {0}
  BY BucketSizesAssumption DEF Init
<1>2. slots = EmptyTable(capacity) /\ oldSlots = EmptyTable(0) /\ strings = << >>
  BY DEF Init
<1>3. Held = {} /\ Pending = {}
  BY <1>2 DEF Held, Pending, EmptyTable, EmptySlot
<1>4. TypeOK
  <2>1. slots \in [0 .. capacity - 1 -> Slot] /\ oldSlots \in [0 .. 0 - 1 -> Slot]
    BY <1>2 DEF EmptyTable, EmptySlot, Slot
  <2>2. Cardinality(DOMAIN oldSlots) = 0
    <3>1. DOMAIN oldSlots = {}
      BY <1>2 DEF EmptyTable
    <3> QED
      BY <3>1, FS_EmptySet
  <2>3. \E size \in 0 .. capacity : oldSlots \in [0 .. size - 1 -> Slot]
    BY <1>1, <2>1
  <2> QED
    BY <1>1, <2>1, <2>2, <2>3 DEF Init, TypeOK
<1>5. IdInv /\ ChainInv
  BY <1>2, <1>3 DEF IdInv, ChainInv
<1>6. SearchInv
  BY <1>3 DEF SearchInv, Init
<1> QED
  BY <1>4, <1>5, <1>6 DEF Inv

(* A call that does not grow the table starts to look for its string. *)
LEMMA GetOrCreateIdStep ==
    ASSUME Inv, NEW string \in Strings, GetOrCreateId(string)
    PROVE  Inv'
<1> USE DEF GetOrCreateId, table, old
<1>1. index' \in DOMAIN slots /\ Reachable(Hash[string], index')
  BY SearchStarts, HashIsNat DEF Inv
<1>2. TypeOK'
  <2>1. TableType' /\ OldTableType' /\ AnswerType'
    BY TypeParts DEF Inv, TableType, OldTableType, AnswerType
  <2>2. SearchType'
    BY <1>1, TypeParts, TableFacts DEF Inv, SearchType
  <2> QED
    BY <2>1, <2>2, TypeParts
<1>3. UNCHANGED <<Held, Pending>>
  BY DEF Held, Pending
<1>4. IdInv'
  BY <1>3 DEF Inv, IdInv, Genuine
<1>5. ChainInv'
  BY <1>3 DEF Inv, ChainInv, Reachable
<1>6. Passed(index)'
  <2>1. \A j \in DOMAIN slots :
          ~(Steps(capacity, Hash[string] % capacity, j)
              < Steps(capacity, Hash[string] % capacity, Hash[string] % capacity))
    BY TableFacts, HomeInTable, HashIsNat, NothingPassed DEF Inv
  <2> QED
    BY <2>1 DEF Passed
<1>7. SearchInv'
  BY <1>1, <1>3, <1>6 DEF Inv, SearchInv, Reachable
<1> QED
  BY <1>2, <1>4, <1>5, <1>7 DEF Inv

(* The table grows: all its ids are now in the old one. *)
LEMMA GetOrCreateIdRehashingStep ==
    ASSUME Inv, NEW string \in Strings, GetOrCreateIdRehashing(string)
    PROVE  Inv'
<1> USE DEF GetOrCreateIdRehashing
<1>1. capacity \in Nat \ {0} /\ capacity' = capacity * 2 + 1 /\ capacity' \in Nat \ {0}
  BY TableFacts DEF Inv
<1>2. slots' \in [0 .. capacity' - 1 -> Slot]
  BY <1>1 DEF EmptyTable, EmptySlot, Slot
<1>3. oldSlots' \in [0 .. capacity - 1 -> Slot]
  BY DEF Inv, TypeOK
<1>4. Cardinality(DOMAIN oldSlots') = capacity
  BY <1>1, <1>3, FS_Interval
<1>5. TypeOK'
  <2>1. OldTableType'
    BY <1>1, <1>3 DEF OldTableType
  <2>2. TableType' /\ AnswerType'
    BY <1>1, <1>2, TypeParts DEF Inv, TableType, AnswerType
  <2>3. SearchType'
    BY <1>1, <1>4, TypeParts DEF Inv, SearchType
  <2> QED
    BY <2>1, <2>2, <2>3, TypeParts
<1>6. Held' = {}
  BY <1>1, <1>2 DEF Held, EmptyTable, EmptySlot
<1>7. Pending' = Held /\ oldSlots' = slots
  BY TableFacts DEF Held, Pending, Inv
<1>8. Pending = {}
  BY DEF Inv, SearchInv
<1>9. IdInv'
  BY <1>6, <1>7, <1>8 DEF Inv, IdInv, Genuine
<1>10. ChainInv' /\ SearchInv'
  BY <1>6 DEF ChainInv, SearchInv
<1> QED
  BY <1>5, <1>9, <1>10 DEF Inv

(* rehash() looks at the next slot of the old table. *)
LEMMA RehashSlotStep ==
    ASSUME Inv, RehashSlot
    PROVE  Inv'
<1> USE DEF RehashSlot, table
<1>1. PICK size \in Nat : DOMAIN oldSlots = 0 .. size - 1 /\ Cardinality(DOMAIN oldSlots) = size
  BY TableFacts DEF Inv
<1>2. oldSlots[cursor] \in Slot /\ cursor \in Nat
  BY <1>1, TableFacts DEF Inv
<1>3. CASE oldSlots[cursor].occupied
  <2>1. /\ index' = oldSlots[cursor].cachedHash % capacity
        /\ pc' = "probeFree" /\ UNCHANGED cursor
    BY <1>3
  <2>2. index' \in DOMAIN slots /\ Reachable(oldSlots[cursor].cachedHash, index')
    BY <1>2, <2>1, SearchStarts DEF Inv, Slot
  <2>3. TypeOK'
    <3>1. TableType' /\ OldTableType' /\ AnswerType'
      BY TypeParts DEF Inv, TableType, OldTableType, AnswerType
    <3>2. SearchType'
      BY <2>1, <2>2, TypeParts, TableFacts DEF Inv, SearchType
    <3> QED
      BY <3>1, <3>2, TypeParts
  <2>4. UNCHANGED <<Held, Pending>> /\ cursor \in Pending
    BY <1>1, <1>3, <2>1 DEF Held, Pending
  <2>5. IdInv' /\ ChainInv'
    BY <2>4, <2>1 DEF Inv, IdInv, Genuine, ChainInv, Reachable
  <2>6. SearchInv'
    BY <2>1, <2>2, <2>4 DEF Inv, SearchInv, Reachable
  <2> QED
    BY <2>3, <2>5, <2>6 DEF Inv
<1>4. CASE ~oldSlots[cursor].occupied
  <2>1. cursor' = cursor + 1 /\ UNCHANGED <<index, pc>>
    BY <1>4
  <2>2. TypeOK'
    <3>1. TableType' /\ OldTableType' /\ AnswerType'
      BY TypeParts DEF Inv, TableType, OldTableType, AnswerType
    <3>2. SearchType'
      BY <1>1, <2>1, TypeParts DEF Inv, SearchType
    <3> QED
      BY <3>1, <3>2, TypeParts
  <2>3. UNCHANGED <<Held, Pending>>
    BY <1>1, <1>4, <2>1 DEF Held, Pending
  <2>4. IdInv' /\ ChainInv'
    BY <2>3, <2>1 DEF Inv, IdInv, Genuine, ChainInv, Reachable
  <2>5. SearchInv'
    BY <2>1, <2>3 DEF Inv, SearchInv
  <2> QED
    BY <2>2, <2>4, <2>5 DEF Inv
<1> QED
  BY <1>3, <1>4

(* The old table has been read to its end. *)
LEMMA RehashDoneStep ==
    ASSUME Inv, RehashDone
    PROVE  Inv'
<1> USE DEF RehashDone, table
<1>1. PICK size \in Nat : DOMAIN oldSlots = 0 .. size - 1 /\ Cardinality(DOMAIN oldSlots) = size
  BY TableFacts DEF Inv
<1>2. Pending = {}
  BY <1>1 DEF Pending, Inv, TypeOK
<1>3. DOMAIN oldSlots' = {} /\ oldSlots' \in [0 .. 0 - 1 -> Slot]
  BY DEF EmptyTable
<1>4. Held' = Held /\ Pending' = {}
  BY <1>3 DEF Held, Pending
<1>5. wanted \in Strings /\ Hash[wanted] \in Nat
  BY HashIsNat DEF Inv, SearchInv
<1>6. index' \in DOMAIN slots /\ Reachable(Hash[wanted], index')
  BY <1>5, SearchStarts DEF Inv
<1>7. TypeOK'
  <2>1. OldTableType'
    BY <1>3, TableFacts DEF Inv, OldTableType
  <2>2. Cardinality(DOMAIN oldSlots') = 0
    BY <1>3, FS_EmptySet
  <2>3. TableType' /\ AnswerType'
    BY TypeParts DEF Inv, TableType, AnswerType
  <2>4. SearchType'
    BY <1>6, <2>2, TypeParts, TableFacts DEF Inv, SearchType
  <2> QED
    BY <2>1, <2>3, <2>4, TypeParts
<1>8. IdInv' /\ ChainInv'
  BY <1>2, <1>4 DEF Inv, IdInv, Genuine, ChainInv, Reachable
<1>9. Passed(index)'
  <2>1. \A j \in DOMAIN slots :
          ~(Steps(capacity, Hash[wanted] % capacity, j)
              < Steps(capacity, Hash[wanted] % capacity, Hash[wanted] % capacity))
    BY <1>5, TableFacts, HomeInTable, NothingPassed DEF Inv
  <2> QED
    BY <2>1 DEF Passed
<1>10. SearchInv'
  BY <1>4, <1>5, <1>6, <1>9 DEF SearchInv, Reachable
<1> QED
  BY <1>7, <1>8, <1>10 DEF Inv

(* rehash() tries the next slot. *)
LEMMA ProbeTakenStep ==
    ASSUME Inv, ProbeTaken
    PROVE  Inv'
<1> USE DEF ProbeTaken, table, old
<1>1. cursor \in Pending /\ index \in DOMAIN slots /\ Reachable(oldSlots[cursor].cachedHash, index)
  BY DEF Inv, SearchInv
<1>2. oldSlots[cursor].cachedHash \in Nat
  BY <1>1, TableFacts DEF Inv, Pending, Slot
<1>3. index' \in DOMAIN slots /\ Reachable(oldSlots[cursor].cachedHash, index')
  BY <1>1, <1>2, SearchGoesOn DEF Inv
<1>4. TypeOK'
  <2>1. TableType' /\ OldTableType' /\ AnswerType'
    BY TypeParts DEF Inv, TableType, OldTableType, AnswerType
  <2>2. SearchType'
    BY <1>3, TypeParts, TableFacts DEF Inv, SearchType
  <2> QED
    BY <2>1, <2>2, TypeParts
<1>5. UNCHANGED <<Held, Pending>>
  BY DEF Held, Pending
<1>6. IdInv' /\ ChainInv'
  BY <1>5 DEF Inv, IdInv, Genuine, ChainInv, Reachable
<1>7. SearchInv'
  BY <1>1, <1>3, <1>5 DEF Inv, SearchInv, Reachable
<1> QED
  BY <1>4, <1>6, <1>7 DEF Inv

(* rehash() has found a free slot, and the id moves into it. *)
LEMMA ProbeFreeStep ==
    ASSUME Inv, ProbeFree
    PROVE  Inv'
<1> USE DEF ProbeFree
<1> DEFINE moved == Taken(oldSlots[cursor].cachedHash, oldSlots[cursor].id)
<1>1. cursor \in Pending /\ index \in DOMAIN slots /\ Reachable(oldSlots[cursor].cachedHash, index)
  BY DEF Inv, SearchInv
<1>2. index \notin Held /\ oldSlots[cursor] \in Slot /\ oldSlots[cursor].occupied
  BY <1>1, TableFacts DEF Inv, Pending, Held
<1>3. moved \in Slot /\ moved.occupied
        /\ moved.id = oldSlots[cursor].id /\ moved.cachedHash = oldSlots[cursor].cachedHash
  BY <1>2 DEF Taken, Slot
<1>4. PICK size \in Nat : DOMAIN oldSlots = 0 .. size - 1 /\ Cardinality(DOMAIN oldSlots) = size
  BY TableFacts DEF Inv
<1>5. cursor \in 0 .. size - 1 /\ cursor' = cursor + 1
  BY <1>1, <1>4 DEF Pending
<1>6. slots' = [slots EXCEPT ![index] = moved] /\ DOMAIN slots' = DOMAIN slots
  OBVIOUS
<1>7. TypeOK'
  <2>1. OldTableType' /\ AnswerType'
    BY TypeParts DEF Inv, OldTableType, AnswerType
  <2>2. TableType'
    BY <1>3, <1>6, TypeParts DEF Inv, TableType
  <2>3. SearchType'
    BY <1>4, <1>5, TypeParts DEF Inv, SearchType
  <2> QED
    BY <2>1, <2>2, <2>3, TypeParts
<1>8. Held' = Held \cup {index} /\ slots'[index] = moved
        /\ \A i \in Held : slots'[i] = slots[i]
  BY <1>1, <1>2, <1>3, <1>6 DEF Held
<1>9. Pending' = Pending \ {cursor}
  BY <1>1, <1>4, <1>5 DEF Pending
<1> HIDE DEF moved
<1>10. IdInv'
  <2>1. (\A i \in Held : Genuine(slots[i]))'
    BY <1>1, <1>3, <1>8 DEF Inv, IdInv, Genuine
  <2>2. (\A i \in Pending : Genuine(oldSlots[i]))'
    BY <1>9 DEF Inv, IdInv, Genuine
  <2>3. (\A i, j \in Held : slots[i].id = slots[j].id => i = j)'
    BY <1>1, <1>3, <1>8 DEF Inv, IdInv
  <2>4. (\A i, j \in Pending : oldSlots[i].id = oldSlots[j].id => i = j)'
    BY <1>9 DEF Inv, IdInv
  <2>5. (\A i \in Held, j \in Pending : slots[i].id # oldSlots[j].id)'
    BY <1>1, <1>3, <1>8, <1>9 DEF Inv, IdInv
  <2>6. (\A id \in 0 .. Len(strings) - 1 :
            \/ \E i \in Held : slots[i].id = id
            \/ \E i \in Pending : oldSlots[i].id = id)'
    <3> SUFFICES ASSUME NEW id \in 0 .. Len(strings) - 1
                 PROVE  (\E i \in Held' : slots'[i].id = id)
                            \/ (\E i \in Pending' : oldSlots[i].id = id)
      OBVIOUS
    <3>1. CASE \E i \in Held : slots[i].id = id
      BY <3>1, <1>8
    <3>2. CASE \E i \in Pending : oldSlots[i].id = id
      BY <3>2, <1>3, <1>8, <1>9
    <3> QED
      BY <3>1, <3>2 DEF Inv, IdInv
  <2> QED
    BY <2>1, <2>2, <2>3, <2>4, <2>5, <2>6 DEF IdInv
<1>11. ASSUME NEW hash, NEW i, Reachable(hash, i)
       PROVE  Reachable(hash, i)'
  BY <1>11, <1>3, <1>6, <1>8 DEF Reachable, Held
<1>12. ChainInv'
  BY <1>1, <1>3, <1>8, <1>11 DEF Inv, ChainInv
<1>13. SearchInv'
  BY DEF Inv, SearchInv
<1> QED
  BY <1>7, <1>10, <1>12, <1>13 DEF Inv

(* A lookup has found the wanted string: it has the id of the slot. *)
LEMMA FoundId ==
    ASSUME Inv, pc = "lookup", IsMatch
    PROVE  slots[index].id \in 0 .. Len(strings) - 1 /\ strings[slots[index].id + 1] = wanted
<1>1. index \in Held /\ slots[index] \in Slot
  BY TableFacts DEF Inv, SearchInv, Held, IsMatch
<1> QED
  BY <1>1, TableFacts DEF Inv, IdInv, Genuine, IsMatch, Slot

LEMMA CacheHitStep ==
    ASSUME Inv, CacheHit
    PROVE  Inv'
<1> USE DEF CacheHit, table, old
<1>1. slots[index].id \in Nat /\ wanted \in Strings
  BY FoundId, TableFacts DEF Inv, SearchInv
<1>2. TypeOK'
  <2>1. TableType' /\ OldTableType' /\ SearchType'
    BY TypeParts DEF Inv, TableType, OldTableType, SearchType
  <2>2. AnswerType'
    BY <1>1 DEF AnswerType
  <2> QED
    BY <2>1, <2>2, TypeParts
<1>3. UNCHANGED <<Held, Pending>>
  BY DEF Held, Pending
<1>4. IdInv' /\ ChainInv' /\ SearchInv'
  BY <1>3 DEF Inv, IdInv, Genuine, ChainInv, Reachable, SearchInv
<1> QED
  BY <1>2, <1>4 DEF Inv

(* A lookup passes a slot with another string. *)
LEMMA NextSlotStep ==
    ASSUME Inv, NextSlot
    PROVE  Inv'
<1> USE DEF NextSlot, table, old
<1> DEFINE home == Hash[wanted] % capacity
<1>1. index \in DOMAIN slots /\ Reachable(Hash[wanted], index) /\ Passed(index)
        /\ wanted \in Strings /\ Hash[wanted] \in Nat
  BY HashIsNat DEF Inv, SearchInv
<1>2. index' \in DOMAIN slots /\ Reachable(Hash[wanted], index')
  BY <1>1, SearchGoesOn DEF Inv
<1>3. strings[slots[index].id + 1] # wanted
  <2>1. Genuine(slots[index])
    BY <1>1 DEF Inv, IdInv, Held
  <2> QED
    BY <2>1 DEF Genuine, IsMatch
<1>4. Passed(index')
  <2>1. capacity \in Nat \ {0} /\ DOMAIN slots = 0 .. capacity - 1
    BY TableFacts DEF Inv
  <2>2. home \in 0 .. capacity - 1
    BY <1>1, <2>1, HomeInTable
  <2>3. ASSUME NEW j \in DOMAIN slots,
               Steps(capacity, home, j) < Steps(capacity, home, (index + 1) % capacity)
        PROVE  strings[slots[j].id + 1] # wanted
    <3>1. j = index \/ Steps(capacity, home, j) < Steps(capacity, home, index)
      BY <1>1, <2>1, <2>2, <2>3, OneStepMore
    <3> QED
      BY <1>1, <1>3, <3>1 DEF Passed
  <2> QED
    BY <2>3 DEF Passed
<1>5. TypeOK'
  <2>1. TableType' /\ OldTableType' /\ AnswerType'
    BY TypeParts DEF Inv, TableType, OldTableType, AnswerType
  <2>2. SearchType'
    BY <1>2, TypeParts, TableFacts DEF Inv, SearchType
  <2> QED
    BY <2>1, <2>2, TypeParts
<1>6. UNCHANGED <<Held, Pending>>
  BY DEF Held, Pending
<1>7. IdInv' /\ ChainInv'
  BY <1>6 DEF Inv, IdInv, Genuine, ChainInv, Reachable
<1>8. SearchInv'
  BY <1>1, <1>2, <1>4, <1>6 DEF Inv, SearchInv, Reachable, Passed
<1> QED
  BY <1>5, <1>7, <1>8 DEF Inv

(* A lookup that comes to a free slot has missed nothing: the wanted       *)
(* string has no id.  If it had one, its slot would either have been       *)
(* passed or lie behind the free slot, and neither can be.                 *)
LEMMA MissedNothing ==
    ASSUME Inv, pc = "lookup", ~slots[index].occupied,
           NEW id \in 0 .. Len(strings) - 1
    PROVE  strings[id + 1] # wanted
<1>1. index \in DOMAIN slots /\ Passed(index) /\ Pending = {} /\ Hash[wanted] \in Nat
  BY HashIsNat DEF Inv, SearchInv
<1>2. PICK i \in Held : slots[i].id = id
  BY <1>1 DEF Inv, IdInv
<1>3. SUFFICES ASSUME strings[id + 1] = wanted PROVE FALSE
  OBVIOUS
<1> DEFINE home == Hash[wanted] % capacity
<1>4. slots[i].cachedHash = Hash[wanted] /\ Reachable(Hash[wanted], i)
  BY <1>2, <1>3 DEF Inv, IdInv, Genuine, ChainInv
<1>5. capacity \in Nat \ {0} /\ DOMAIN slots = 0 .. capacity - 1 /\ i \in DOMAIN slots
        /\ i # index
  BY <1>2, TableFacts DEF Inv, Held
<1>6. home \in 0 .. capacity - 1
  BY <1>1, <1>5, HomeInTable
<1>7. \/ Steps(capacity, home, i) < Steps(capacity, home, index)
      \/ Steps(capacity, home, index) < Steps(capacity, home, i)
  BY <1>1, <1>5, <1>6, StepsDiffer
<1> QED
  BY <1>1, <1>2, <1>3, <1>4, <1>5, <1>7 DEF Passed, Reachable

(* The wanted string is given the next id, in the free slot. *)
LEMMA CacheMissStep ==
    ASSUME Inv, CacheMiss
    PROVE  Inv'
<1> USE DEF CacheMiss, old
<1> DEFINE given == Taken(Hash[wanted], Len(strings))
<1>1. index \in DOMAIN slots /\ Reachable(Hash[wanted], index) /\ Pending = {}
        /\ wanted \in Strings /\ Hash[wanted] \in Nat
  BY HashIsNat DEF Inv, SearchInv
<1>2. Len(strings) \in Nat /\ strings \in Seq(Strings)
  BY TableFacts DEF Inv, TypeOK
<1>3. given \in Slot /\ given.occupied /\ given.id = Len(strings) /\ given.cachedHash = Hash[wanted]
  BY <1>1, <1>2 DEF Taken, Slot
<1>4. strings' \in Seq(Strings) /\ Len(strings') = Len(strings) + 1
        /\ strings'[Len(strings) + 1] = wanted
        /\ \A i \in 1 .. Len(strings) : strings'[i] = strings[i]
  BY <1>1, <1>2, AppendProperties
<1>5. slots' = [slots EXCEPT ![index] = given] /\ DOMAIN slots' = DOMAIN slots
  OBVIOUS
<1>6. Held' = Held \cup {index} /\ index \notin Held /\ slots'[index] = given
        /\ \A i \in Held : slots'[i] = slots[i]
  BY <1>1, <1>3, <1>5 DEF Held
<1>7. Pending' = {}
  BY <1>1 DEF Pending
<1> HIDE DEF given
<1>8. TypeOK'
  <2>1. OldTableType' /\ SearchType'
    BY TypeParts DEF Inv, OldTableType, SearchType
  <2>2. TableType'
    BY <1>2, <1>3, <1>4, <1>5, TypeParts DEF Inv, TableType
  <2>3. AnswerType'
    BY <1>1, <1>2 DEF AnswerType
  <2> QED
    BY <2>1, <2>2, <2>3, TypeParts
<1>9. \A i \in Held : slots[i].id \in 0 .. Len(strings) - 1
  BY <1>2, TableFacts DEF Inv, IdInv, Genuine, Held, Slot
<1>10. IdInv'
  <2>1. (\A i \in Held : Genuine(slots[i]))'
    <3>1. Genuine(slots[index])'
      BY <1>2, <1>3, <1>4, <1>6 DEF Genuine
    <3>2. ASSUME NEW i \in Held PROVE Genuine(slots[i])'
      <4>1. Genuine(slots[i]) /\ slots[i].id + 1 \in 1 .. Len(strings)
        BY <1>2, <1>9 DEF Inv, IdInv
      <4> QED
        BY <1>2, <1>4, <1>6, <1>9, <4>1 DEF Genuine
    <3> QED
      BY <1>6, <3>1, <3>2 DEF Genuine
  <2>2. (\A i, j \in Held : slots[i].id = slots[j].id => i = j)'
    BY <1>2, <1>3, <1>6, <1>9 DEF Inv, IdInv
  <2>3. (\A id \in 0 .. Len(strings) - 1 : \E i \in Held : slots[i].id = id)'
    <3> SUFFICES ASSUME NEW id \in 0 .. Len(strings') - 1
                 PROVE  \E i \in Held' : slots'[i].id = id
      OBVIOUS
    <3>1. CASE id = Len(strings)
      BY <1>3, <1>6, <3>1
    <3>2. CASE id \in 0 .. Len(strings) - 1
      BY <1>1, <1>6, <3>2 DEF Inv, IdInv
    <3> QED
      BY <1>2, <1>4, <3>1, <3>2
  <2> QED
    BY <1>7, <2>1, <2>2, <2>3 DEF IdInv
<1>11. ASSUME NEW hash, NEW i, Reachable(hash, i)
       PROVE  Reachable(hash, i)'
  BY <1>11, <1>3, <1>5, <1>6 DEF Reachable, Held
<1>12. ChainInv'
  BY <1>1, <1>3, <1>6, <1>11 DEF Inv, ChainInv
<1>13. SearchInv'
  BY <1>7 DEF SearchInv
<1> QED
  BY <1>8, <1>10, <1>12, <1>13 DEF Inv

(* getString() and size() change nothing but the answer. *)
LEMMA AnswerStep ==
    ASSUME Inv, \/ \E id \in 0 .. Len(strings) : GetString(id)
                \/ Size
    PROVE  Inv'
<1>1. UNCHANGED <<table, keyCount, strings, old, pc, wanted, index>>
  BY DEF GetString, Size
<1> USE DEF table, old
<1>2. AnswerType'
  <2>1. ASSUME NEW id \in 0 .. Len(strings), GetString(id)
        PROVE  AnswerType'
    <3>1. Len(strings) \in Nat /\ strings \in Seq(Strings)
      BY TableFacts DEF Inv, TypeOK
    <3>2. (IF id >= Len(strings) THEN NoString ELSE strings[id + 1]) \in Strings \cup {NoString}
      BY <3>1
    <3> QED
      BY <2>1, <3>1, <3>2 DEF GetString, AnswerType
  <2>2. ASSUME Size
        PROVE  AnswerType'
    BY <2>2 DEF Size, AnswerType, Inv, TypeOK
  <2> QED
    BY <2>1, <2>2
<1>3. TypeOK'
  <2>1. TableType' /\ OldTableType' /\ SearchType'
    BY <1>1, TypeParts DEF Inv, TableType, OldTableType, SearchType
  <2> QED
    BY <1>2, <2>1, TypeParts
<1>4. UNCHANGED <<Held, Pending>>
  BY <1>1 DEF Held, Pending
<1>5. IdInv' /\ ChainInv'
  BY <1>1, <1>4 DEF Inv, IdInv, Genuine, ChainInv, Reachable
<1>6. SearchInv'
  BY <1>1, <1>4 DEF Inv, SearchInv, Reachable, Passed
<1> QED
  BY <1>3, <1>5, <1>6 DEF Inv

LEMMA StutterStep == Inv /\ UNCHANGED vars => Inv'
<1> SUFFICES ASSUME Inv, UNCHANGED vars PROVE Inv'
  OBVIOUS
<1> USE DEF vars, table, old
<1>1. TypeOK'
  BY TypeParts DEF Inv, TableType, OldTableType, SearchType, AnswerType
<1>2. UNCHANGED <<Held, Pending>>
  BY DEF Held, Pending
<1>3. IdInv' /\ ChainInv'
  BY <1>2 DEF Inv, IdInv, Genuine, ChainInv, Reachable
<1>4. SearchInv'
  BY <1>2 DEF Inv, SearchInv, Reachable, Passed
<1> QED
  BY <1>1, <1>3, <1>4 DEF Inv

LEMMA StepInv == Inv /\ [Next]_vars => Inv'
<1> SUFFICES ASSUME Inv, [Next]_vars PROVE Inv'
  OBVIOUS
<1>1. CASE Call
  BY <1>1, GetOrCreateIdStep, GetOrCreateIdRehashingStep, AnswerStep DEF Call
<1>2. CASE Loops
  BY <1>2, RehashSlotStep, ProbeTakenStep, ProbeFreeStep, RehashDoneStep, CacheHitStep,
     NextSlotStep, CacheMissStep DEF Loops
<1>3. CASE UNCHANGED vars
  BY <1>3, StutterStep
<1> QED
  BY <1>1, <1>2, <1>3 DEF Next

LEMMA InvHolds == Spec => []Inv
BY InitInv, StepInv, PTL DEF Spec

(* keyCount is the number of strings and every variable has its type, for  *)
(* every set of strings, hash function and size of the first table.        *)
THEOREM TypeCorrect == Spec => []TypeOK
<1>1. Inv => TypeOK
  BY DEF Inv
<1> QED
  BY <1>1, InvHolds, PTL

(* The slots before i, as EveryIdFound lists them, are those a search has  *)
(* passed.                                                                 *)
LEMMA BeforeIsPassed ==
    ASSUME TypeOK, NEW hash \in Nat, NEW i \in DOMAIN slots, NEW j \in Before(hash, i)
    PROVE  /\ j \in DOMAIN slots
           /\ Steps(capacity, hash % capacity, j) < Steps(capacity, hash % capacity, i)
<1> DEFINE home == hash % capacity
<1>1. capacity \in Nat \ {0} /\ DOMAIN slots = 0 .. capacity - 1
  BY TableFacts
<1>2. home \in 0 .. capacity - 1
  BY <1>1, HomeInTable
<1>3. (i + capacity - home) % capacity = Steps(capacity, home, i)
        /\ Steps(capacity, home, i) \in 0 .. capacity - 1
  <2>1. \A x \in 0 .. capacity - 1 : x % capacity = x /\ (x + capacity) % capacity = x
    BY <1>1
  <2>2. CASE i >= home
    <3>1. i - home \in 0 .. capacity - 1 /\ i + capacity - home = (i - home) + capacity
      BY <1>1, <1>2, <2>2
    <3> QED
      BY <1>1, <2>1, <2>2, <3>1 DEF Steps
  <2>3. CASE ~(i >= home)
    <3>1. i + capacity - home \in 0 .. capacity - 1
      BY <1>1, <1>2, <2>3
    <3> QED
      BY <1>1, <2>1, <2>3, <3>1 DEF Steps
  <2> QED
    BY <2>2, <2>3
<1>4. PICK k \in 0 .. Steps(capacity, home, i) - 1 : j = (hash + k) % capacity
  BY <1>3 DEF Before
<1>5. k \in 0 .. capacity - 1
  BY <1>1, <1>3, <1>4
<1>6. j = IF home + k < capacity THEN home + k ELSE home + k - capacity
  BY <1>1, <1>4, <1>5, WrapsOnce
<1> HIDE DEF home
<1>7. j \in 0 .. capacity - 1 /\ Steps(capacity, home, j) = k
  BY <1>1, <1>2, <1>5, <1>6 DEF Steps
<1>8. k < Steps(capacity, home, i)
  BY <1>3, <1>4, <1>5
<1> QED
  BY <1>1, <1>7, <1>8 DEF home

(* Between calls every id is found: for every hash function, however its   *)
(* chains meet.                                                            *)
THEOREM IdsStayFound == Spec => []EveryIdFound
<1>1. Inv => EveryIdFound
  <2> SUFFICES ASSUME Inv, pc = "idle", NEW id \in 0 .. Len(strings) - 1
               PROVE  \E i \in DOMAIN slots :
                        /\ slots[i] = Taken(Hash[strings[id + 1]], id)
                        /\ \A j \in Before(slots[i].cachedHash, i) : slots[j].occupied
                        /\ \A j \in DOMAIN slots :
                              slots[j].occupied /\ slots[j].id = id => j = i
    BY DEF EveryIdFound
  <2>1. PICK i \in Held : slots[i].id = id
    BY DEF Inv, IdInv, SearchInv
  <2>2. i \in DOMAIN slots /\ slots[i] \in Slot /\ slots[i].occupied
    BY <2>1, TableFacts DEF Inv, Held
  <2>3. slots[i].cachedHash = Hash[strings[id + 1]]
    BY <2>1 DEF Inv, IdInv, Genuine
  <2>4. slots[i] = Taken(Hash[strings[id + 1]], id)
    BY <2>1, <2>2, <2>3 DEF Slot, Taken
  <2>5. ASSUME NEW j \in Before(slots[i].cachedHash, i)
        PROVE  slots[j].occupied
    <3>1. slots[i].cachedHash \in Nat
      BY <2>2 DEF Slot
    <3> QED
      BY <2>1, <2>2, <3>1, BeforeIsPassed DEF Inv, ChainInv, Reachable
  <2>6. \A j \in DOMAIN slots : slots[j].occupied /\ slots[j].id = id => j = i
    BY <2>1 DEF Inv, IdInv, Held
  <2> QED
    BY <2>2, <2>4, <2>5, <2>6
<1> QED
  BY <1>1, InvHolds, PTL
-----------------------------------------------------------------------------
(* The table, whichever strings share a hash and whenever it grows, is the *)
(* dictionary: a string keeps the id of its first occurrence, ids are      *)
(* given out without gaps, and each call answers as the dictionary would.  *)
THEOREM PoolImplementsDictionary == Spec => ImplementsDictionary
<1>1. Init => Abstract!Init
  BY DEF Init, Abstract!Init
<1>2. Inv /\ [Next]_vars => [Abstract!Next]_<<strings, answer>>
  <2> SUFFICES ASSUME Inv, [Next]_vars
               PROVE  [Abstract!Next]_<<strings, answer>>
    OBVIOUS
  <2>1. ASSUME NEW string \in Strings,
               GetOrCreateId(string) \/ GetOrCreateIdRehashing(string)
        PROVE  UNCHANGED <<strings, answer>>
    BY <2>1 DEF GetOrCreateId, GetOrCreateIdRehashing
  <2>2. ASSUME NEW id \in 0 .. Len(strings), GetString(id)
        PROVE  Abstract!GetString(id)
    <3>1. Len(strings) \in Nat
      BY TableFacts DEF Inv
    <3>2. id >= Len(strings) <=> ~(id < Len(strings))
      BY <3>1
    <3> QED
      BY <2>2, <3>2 DEF GetString, Abstract!GetString
  <2>3. CASE Size
    <3>1. keyCount = Len(strings)
      BY DEF Inv, TypeOK
    <3> QED
      BY <2>3, <3>1 DEF Size, Abstract!Size, Abstract!Next
  <2>4. CASE RehashSlot \/ ProbeTaken \/ ProbeFree \/ RehashDone \/ NextSlot
    BY <2>4 DEF RehashSlot, ProbeTaken, ProbeFree, RehashDone, NextSlot
  <2>5. CASE CacheHit
    <3>1. slots[index].id \in Abstract!IdsOf(wanted) /\ wanted \in Strings
      BY <2>5, FoundId DEF CacheHit, Abstract!IdsOf, Inv, SearchInv
    <3>2. Abstract!GetOrCreateId(wanted)
      BY <2>5, <3>1 DEF CacheHit, Abstract!GetOrCreateId
    <3> QED
      BY <3>1, <3>2 DEF Abstract!Next
  <2>6. CASE CacheMiss
    <3>1. Abstract!IdsOf(wanted) = {} /\ wanted \in Strings
      BY <2>6, MissedNothing DEF CacheMiss, Abstract!IdsOf, Inv, SearchInv
    <3>2. Abstract!GetOrCreateId(wanted)
      BY <2>6, <3>1 DEF CacheMiss, Abstract!GetOrCreateId
    <3> QED
      BY <3>1, <3>2 DEF Abstract!Next
  <2>7. CASE UNCHANGED vars
    BY <2>7 DEF vars
  <2> QED
    BY <2>1, <2>2, <2>3, <2>4, <2>5, <2>6, <2>7 DEF Next, Call, Loops, Abstract!Next
<1> QED
  BY <1>1, <1>2, InvHolds, PTL DEF Spec, ImplementsDictionary, Abstract!Spec
=============================================================================
