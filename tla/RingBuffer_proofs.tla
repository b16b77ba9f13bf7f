-------------------------- MODULE RingBuffer_proofs --------------------------
(***************************************************************************)
(* Proofs about RingBuffer for every capacity, every set of timestamps and *)
(* every set of values.                                                    *)
(***************************************************************************)
EXTENDS RingBuffer, CommonLemmas, SequenceTheorems, FunctionTheorems

(* The slot after h wraps around to 0. *)
LEMMA NextSlot ==
    ASSUME NEW h \in Slots
    PROVE  (h + 1) % Capacity = IF h + 1 < Capacity THEN h + 1 ELSE 0
BY CapacityAssumption DEF Slots

(* The slot i - 1 places after h wraps around at most once. *)
LEMMA LaterSlot ==
    ASSUME NEW h \in Slots, NEW i \in 1 .. Capacity
    PROVE  (h + i - 1) % Capacity = IF h + i - 1 < Capacity THEN h + i - 1
                                    ELSE h + i - 1 - Capacity
<1>1. CASE h + i - 1 < Capacity
  BY <1>1, CapacityAssumption DEF Slots
<1>2. CASE h + i - 1 >= Capacity
  BY <1>2, CapacityAssumption DEF Slots
<1> QED
  BY <1>1, <1>2, CapacityAssumption DEF Slots

IndInv ==
    /\ slot \in [Slots -> Event]
    /\ head \in Slots
    /\ count \in 0 .. Capacity
    /\ PrefixWhenNotFull

(* The indices stay in range, and until the buffer is full it is filled    *)
(* from slot 0 on without a gap.                                           *)
THEOREM IndicesInRange == Spec => []IndInv
<1> USE CapacityAssumption DEF IndInv, PrefixWhenNotFull, Slots
<1>1. Init => IndInv
  BY DEF Init
<1>2. IndInv /\ [Next]_vars => IndInv'
  <2> SUFFICES ASSUME IndInv, [Next]_vars
               PROVE  IndInv'
    OBVIOUS
  <2>1. ASSUME NEW event \in Event, Push(event)
        PROVE  IndInv'
    <3>1. slot' \in [Slots -> Event]
      BY <2>1 DEF Push
    <3>2. (head + 1) % Capacity = IF head + 1 < Capacity THEN head + 1 ELSE 0
      BY NextSlot, Zenon
    <3> QED
      BY <2>1, <3>1, <3>2 DEF Push
  <2>2. CASE Clear
    BY <2>2 DEF Clear
  <2>3. ASSUME NEW now \in Times, NEW seconds \in Windows, Ask(now, seconds)
        PROVE  IndInv'
    BY <2>3 DEF Ask
  <2>4. CASE UNCHANGED vars
    BY <2>4 DEF vars
  <2> QED
    BY <2>1, <2>2, <2>3, <2>4 DEF Next
<1> QED
  BY <1>1, <1>2, PTL DEF Spec
-----------------------------------------------------------------------------
(* The slot of the i-th oldest event, without the %. *)
LEMMA OldestSlot ==
    ASSUME IndInv, NEW i \in 1 .. count
    PROVE  /\ Oldest(i) \in Slots
           /\ Oldest(i) = IF count < Capacity THEN i - 1
                          ELSE IF head + i - 1 < Capacity THEN head + i - 1
                          ELSE head + i - 1 - Capacity
<1>1. head \in Slots /\ i \in 1 .. Capacity
  BY CapacityAssumption DEF IndInv
<1>2. (head + i - 1) % Capacity = IF head + i - 1 < Capacity THEN head + i - 1
                                  ELSE head + i - 1 - Capacity
  BY <1>1, LaterSlot, Zenon
<1> QED
  BY <1>2, CapacityAssumption DEF IndInv, Slots, Oldest

(* The window is a sequence of count events. *)
LEMMA WindowType ==
    ASSUME IndInv
    PROVE  /\ Window \in Seq(Event)
           /\ Len(Window) = count
           /\ \A i \in 1 .. count : Window[i] = slot[Oldest(i)]
<1>1. \A i \in 1 .. count : slot[Oldest(i)] \in Event
  BY OldestSlot DEF IndInv
<1>2. count \in Nat
  BY CapacityAssumption DEF IndInv
<1> QED
  BY <1>1, <1>2 DEF Window
-----------------------------------------------------------------------------
(* A push moves the window as the abstract specification says: the new     *)
(* event is last, and a full window loses its oldest one.                  *)
LEMMA PushMovesWindow ==
    ASSUME IndInv, NEW event \in Event, Push(event), IndInv'
    PROVE  Window' = Abstract!Pushed(Capacity, Window, event)
<1> DEFINE kept == IF count < Capacity THEN Window ELSE Tail(Window)
           moved == Append(kept, event)
<1>1. /\ Window \in Seq(Event)
      /\ Len(Window) = count
      /\ \A i \in 1 .. count : Window[i] = slot[Oldest(i)]
  BY WindowType
<1>2. Window' = [i \in 1 .. count' |-> slot'[Oldest(i)']]
  BY DEF Window
<1>3. CASE count < Capacity
  <2>1. /\ count' = count + 1
        /\ head = count
        /\ slot' = [slot EXCEPT ![count] = event]
    BY <1>3 DEF Push, IndInv, PrefixWhenNotFull
  <2>2. ASSUME NEW i \in 1 .. count + 1
        PROVE  Oldest(i)' = i - 1
    <3>1. CASE count + 1 < Capacity
      BY <3>1, <2>1 DEF Oldest
    <3>2. CASE count + 1 = Capacity
      <4>1. head' = 0
        BY <3>2, <2>1, NextSlot, CapacityAssumption DEF Push, IndInv, Slots
      <4>2. 0 \in Slots /\ i \in 1 .. Capacity
        BY <3>2, CapacityAssumption DEF Slots
      <4>3. (0 + i - 1) % Capacity = IF 0 + i - 1 < Capacity THEN 0 + i - 1
                                     ELSE 0 + i - 1 - Capacity
        BY <4>2, LaterSlot, Zenon
      <4> QED
        BY <4>1, <4>2, <4>3, <2>1, <3>2, CapacityAssumption DEF Oldest
    <3> QED
      BY <3>1, <3>2, <1>3, CapacityAssumption DEF IndInv
  <2>3. \A i \in 1 .. count : Oldest(i) = i - 1
    BY <1>3 DEF Oldest
  <2>4. /\ moved \in Seq(Event)
        /\ Len(moved) = count + 1
        /\ \A i \in 1 .. count : moved[i] = slot[i - 1]
        /\ moved[count + 1] = event
    BY <1>1, <1>3, <2>3
  <2>5. \A i \in 1 .. count + 1 : slot'[Oldest(i)'] = moved[i]
    <3>1. count \in Slots
      BY <1>3, CapacityAssumption DEF IndInv, Slots
    <3>2. slot \in [Slots -> Event]
      BY DEF IndInv
    <3> HIDE DEF moved
    <3> QED
      BY <2>1, <2>2, <2>4, <3>1, <3>2, CapacityAssumption DEF Slots
  <2>6. Window' = moved
    <3>1. moved = [i \in 1 .. Len(moved) |-> moved[i]]
      BY <2>4
    <3> HIDE DEF moved
    <3> QED
      BY <1>2, <2>1, <2>4, <2>5, <3>1
  <2> QED
    BY <2>6, <1>1, <1>3 DEF Abstract!Pushed
<1>4. CASE count = Capacity
  <2>1. /\ count' = count
        /\ slot' = [slot EXCEPT ![head] = event]
        /\ head' = IF head + 1 < Capacity THEN head + 1 ELSE 0
    BY <1>4, NextSlot DEF Push, IndInv
  <2>2. ASSUME NEW i \in 1 .. Capacity
        PROVE  Oldest(i) = IF head + i - 1 < Capacity THEN head + i - 1
                           ELSE head + i - 1 - Capacity
    <3>1. i \in 1 .. count
      BY <1>4
    <3>2. ~(count < Capacity)
      BY <1>4, CapacityAssumption
    <3> QED
      BY <3>1, <3>2, OldestSlot
  <2>3. ASSUME NEW i \in 1 .. Capacity
        PROVE  Oldest(i)' = IF i < Capacity THEN Oldest(i + 1) ELSE head
    <3>1. head' \in Slots
      BY DEF IndInv
    <3>2. (head' + i - 1) % Capacity =
             IF head' + i - 1 < Capacity THEN head' + i - 1
             ELSE head' + i - 1 - Capacity
      BY <3>1, LaterSlot, Zenon
    <3>3. Oldest(i)' = IF head' + i - 1 < Capacity THEN head' + i - 1
                       ELSE head' + i - 1 - Capacity
      BY <3>2, <2>1, <1>4, CapacityAssumption DEF Oldest
    <3>4. i < Capacity => i + 1 \in 1 .. Capacity
      BY CapacityAssumption
    <3>5. head \in 0 .. Capacity - 1
      BY DEF IndInv, Slots
    <3> QED
      BY <2>1, <2>2, <3>3, <3>4, <3>5, CapacityAssumption
  <2>4. /\ moved \in Seq(Event)
        /\ Len(moved) = Capacity
        /\ \A i \in 1 .. Capacity - 1 : moved[i] = Window[i + 1]
        /\ moved[Capacity] = event
    BY <1>1, <1>4, CapacityAssumption
  <2>5. \A i \in 1 .. Capacity : slot'[Oldest(i)'] = moved[i]
    <3>1. slot \in [Slots -> Event] /\ head \in 0 .. Capacity - 1
      BY DEF IndInv, Slots
    <3>2. ASSUME NEW i \in 1 .. Capacity, i < Capacity
          PROVE  /\ Oldest(i + 1) \in Slots \ {head}
                 /\ moved[i] = slot[Oldest(i + 1)]
      <4>1. i + 1 \in 1 .. Capacity /\ i \in 1 .. Capacity - 1
        BY <3>2, CapacityAssumption
      <4>2. Oldest(i + 1) \in Slots
        BY <4>1, <1>4, OldestSlot
      <4>3. Oldest(i + 1) # head
        BY <4>1, <2>2, <3>1, CapacityAssumption
      <4> HIDE DEF moved
      <4> QED
        BY <4>1, <4>2, <4>3, <2>4, <1>1, <1>4
    <3> HIDE DEF moved
    <3> QED
      BY <2>1, <2>3, <2>4, <3>1, <3>2, CapacityAssumption DEF Slots
  <2>6. Window' = moved
    <3>1. moved = [i \in 1 .. Len(moved) |-> moved[i]]
      BY <2>4
    <3> HIDE DEF moved
    <3> QED
      BY <1>2, <1>4, <2>1, <2>4, <2>5, <3>1
  <2> QED
    BY <2>6, <1>1, <1>4, CapacityAssumption DEF Abstract!Pushed
<1> QED
  BY <1>3, <1>4, CapacityAssumption DEF IndInv
-----------------------------------------------------------------------------
(* The slots countUnique() visits hold exactly the values of the window.   *)
LEMMA VisitedValues ==
    ASSUME IndInv
    PROVE  {slot[j].value : j \in 0 .. count - 1} =
           {Window[i].value : i \in DOMAIN Window}
<1>1. /\ DOMAIN Window = 1 .. count
      /\ \A i \in 1 .. count : Window[i] = slot[Oldest(i)]
  BY WindowType DEF Window
<1>2. \A i \in 1 .. count : Oldest(i) \in 0 .. count - 1
  <2> SUFFICES ASSUME NEW i \in 1 .. count
               PROVE  Oldest(i) \in 0 .. count - 1
    OBVIOUS
  <2>1. /\ Oldest(i) \in Slots
        /\ count < Capacity => Oldest(i) = i - 1
    BY OldestSlot
  <2> QED
    BY <2>1, CapacityAssumption DEF IndInv, Slots
<1>3. ASSUME NEW j \in 0 .. count - 1
      PROVE  \E i \in 1 .. count : Oldest(i) = j
  <2>1. head \in 0 .. Capacity - 1 /\ count \in 0 .. Capacity
    BY DEF IndInv, Slots
  <2>2. CASE count < Capacity
    <3>1. j + 1 \in 1 .. count /\ (j + 1) - 1 = j
      BY <2>1
    <3>2. Oldest(j + 1) = (j + 1) - 1
      BY <2>2 DEF Oldest
    <3> QED
      BY <3>1, <3>2
  <2>3. CASE count = Capacity
    <3> DEFINE i == IF j >= head THEN j - head + 1 ELSE j - head + 1 + Capacity
    <3>1. /\ i \in 1 .. count
          /\ IF head + i - 1 < Capacity THEN head + i - 1 = j
             ELSE head + i - 1 - Capacity = j
      BY <2>1, <2>3, CapacityAssumption
    <3> HIDE DEF i
    <3>2. ~(count < Capacity)
      BY <2>3, CapacityAssumption
    <3>3. Oldest(i) = IF head + i - 1 < Capacity THEN head + i - 1
                      ELSE head + i - 1 - Capacity
      BY <3>1, <3>2, OldestSlot
    <3> QED
      BY <3>1, <3>3
  <2> QED
    BY <2>1, <2>2, <2>3, CapacityAssumption
<1> QED
  BY <1>1, <1>2, <1>3

(* The number of first occurrences is the number of different values: each *)
(* value has one first occurrence, its least index.                        *)
LEMMA UniqueCountsValues ==
    ASSUME IndInv
    PROVE  /\ CountUnique = Cardinality({slot[j].value : j \in 0 .. count - 1})
           /\ CountUnique \in 0 .. Capacity
<1> DEFINE Visited == 0 .. count - 1
           Held    == {slot[j].value : j \in Visited}
           ValueAt == [i \in FirstOccurrences |-> slot[i].value]
<1>1. count \in 0 .. Capacity /\ count \in Int
  BY CapacityAssumption DEF IndInv
<1>2. FirstOccurrences \in SUBSET Visited
  BY DEF FirstOccurrences
<1>3. IsFiniteSet(Visited) /\ Cardinality(Visited) = count
  BY <1>1, FS_Interval, CapacityAssumption
<1>4. /\ IsFiniteSet(FirstOccurrences)
      /\ Cardinality(FirstOccurrences) <= count
      /\ Cardinality(FirstOccurrences) \in Nat
  <2> HIDE DEF Visited
  <2> QED
    BY <1>2, <1>3, FS_Subset, FS_CardinalityType
<1>5. ValueAt \in [FirstOccurrences -> Held]
  BY <1>2
<1>6. \A a, b \in FirstOccurrences : ValueAt[a] = ValueAt[b] => a = b
  <2> SUFFICES ASSUME NEW a \in FirstOccurrences, NEW b \in FirstOccurrences,
                      slot[a].value = slot[b].value
               PROVE  a = b
    OBVIOUS
  <2>1. a \in Visited /\ b \in Visited
    BY <1>2
  <2>2. ~(a < b) /\ ~(b < a)
    BY <2>1, <1>1 DEF FirstOccurrences
  <2> QED
    BY <2>1, <2>2, <1>1
<1>7. \A v \in Held : \E i \in FirstOccurrences : ValueAt[i] = v
  <2> SUFFICES ASSUME NEW v \in Held
               PROVE  \E i \in FirstOccurrences : ValueAt[i] = v
    OBVIOUS
  <2> DEFINE Holders == {j \in Visited : slot[j].value = v}
  <2>1. Holders \in SUBSET Nat /\ Holders # {}
    BY <1>1
  <2>2. PICK i \in Holders : \A j \in Holders : i <= j
    <3> HIDE DEF Holders
    <3> QED
      BY <2>1, LeastExists
  <2>3. i \in FirstOccurrences
    BY <2>2, <1>1 DEF FirstOccurrences
  <2> QED
    BY <2>2, <2>3
<1>8. ValueAt \in Bijection(FirstOccurrences, Held)
  <2> HIDE DEF ValueAt, Held
  <2> QED
    BY <1>5, <1>6, <1>7, Fun_IsBij
<1>9. Cardinality(Held) = Cardinality(FirstOccurrences)
  <2> HIDE DEF ValueAt, Held
  <2> QED
    BY <1>4, <1>8, FS_Bijection DEF ExistsBijection
<1>10. CountUnique \in 0 .. Capacity
  BY <1>1, <1>4, CapacityAssumption DEF CountUnique
<1> QED
  BY <1>9, <1>10 DEF CountUnique

(* Every question is answered from the window: the oldest event of a full  *)
(* buffer is at head, and countUnique() counts the window's values.        *)
LEMMA AnswersAgree ==
    ASSUME IndInv, NEW now, NEW seconds
    PROVE  /\ IsThresholdBreached(now, seconds) =
                 Abstract!Breached(Capacity, Window, now, seconds)
           /\ CountUnique = Abstract!Unique(Window)
<1>1. Len(Window) = count
  BY WindowType
<1>2. CountUnique = Abstract!Unique(Window)
  BY VisitedValues, UniqueCountsValues
     DEF Abstract!Unique, Abstract!Cardinality, Cardinality
<1>3. CASE count = Capacity
  <2>1. 1 \in 1 .. count /\ head \in 0 .. Capacity - 1
    BY <1>3, CapacityAssumption DEF IndInv, Slots
  <2>2. Oldest(1) = head
    BY <2>1, <1>3, OldestSlot, CapacityAssumption
  <2>3. Window[1] = slot[head]
    BY <2>1, <2>2, WindowType
  <2> QED
    BY <1>1, <1>2, <2>3
       DEF IsThresholdBreached, IsFull, Abstract!Breached, Abstract!IsFull
<1>4. CASE count # Capacity
  BY <1>1, <1>2, <1>4
     DEF IsThresholdBreached, IsFull, Abstract!Breached, Abstract!IsFull
<1> QED
  BY <1>3, <1>4
-----------------------------------------------------------------------------
(* The state variables have their types in every reachable state. *)
THEOREM TypeCorrect == Spec => []TypeOK
<1>1. Init => TypeOK
  BY CapacityAssumption DEF Init, TypeOK, Slots
<1>2. TypeOK /\ IndInv /\ IndInv' /\ [Next]_vars => TypeOK'
  <2> SUFFICES ASSUME TypeOK, IndInv, IndInv', [Next]_vars
               PROVE  TypeOK'
    OBVIOUS
  <2>1. (slot \in [Slots -> Event] /\ head \in Slots /\ count \in 0 .. Capacity)'
    BY DEF IndInv
  <2>2. ASSUME NEW now \in Times, NEW seconds \in Windows, Ask(now, seconds)
        PROVE  TypeOK'
    <3>1. CountUnique \in 0 .. Capacity
      BY UniqueCountsValues
    <3>2. IsThresholdBreached(now, seconds) \in BOOLEAN
      BY DEF IsThresholdBreached, IsFull
    <3> QED
      BY <2>1, <2>2, <3>1, <3>2 DEF TypeOK, Ask
  <2> QED
    BY <2>1, <2>2 DEF Next, Push, Clear, vars, TypeOK
<1> QED
  BY <1>1, <1>2, IndicesInRange, PTL DEF Spec

(* Until a buffer is full, no slot that countUnique() visits is stale. *)
THEOREM NoGaps == Spec => []PrefixWhenNotFull
<1>1. IndInv => PrefixWhenNotFull
  BY DEF IndInv
<1> QED
  BY <1>1, IndicesInRange, PTL

(* RingBuffer implements EventWindow. *)
THEOREM RingBufferImplementsWindow == Spec => ImplementsWindow
<1>1. Init => Abstract!Init
  BY DEF Init, Abstract!Init, Abstract!EmptyWindow, Window
<1>2. IndInv /\ IndInv' /\ [Next]_vars => [Abstract!Next]_<<Window, answer>>
  <2> SUFFICES ASSUME IndInv, IndInv', [Next]_vars
               PROVE  [Abstract!Next]_<<Window, answer>>
    OBVIOUS
  <2>1. ASSUME NEW event \in Event, Push(event)
        PROVE  Abstract!Next
    <3>1. Window' = Abstract!Pushed(Capacity, Window, event)
      BY <2>1, PushMovesWindow
    <3>2. event \in Abstract!Event
      BY DEF Event, Abstract!Event
    <3> QED
      BY <2>1, <3>1, <3>2 DEF Push, Abstract!Next, Abstract!Push
  <2>2. CASE Clear
    BY <2>2 DEF Clear, Window, Abstract!Next, Abstract!Clear, Abstract!EmptyWindow
  <2>3. ASSUME NEW now \in Times, NEW seconds \in Windows, Ask(now, seconds)
        PROVE  Abstract!Next
    <3>1. Window' = Window
      BY <2>3 DEF Ask, Window, Oldest
    <3> QED
      BY <2>3, <3>1, AnswersAgree DEF Ask, Abstract!Next, Abstract!Ask
  <2>4. CASE UNCHANGED vars
    BY <2>4 DEF vars, Window, Oldest
  <2> QED
    BY <2>1, <2>2, <2>3, <2>4 DEF Next
<1> QED
  BY <1>1, <1>2, IndicesInRange, PTL DEF Spec, ImplementsWindow, Abstract!Spec
=============================================================================
