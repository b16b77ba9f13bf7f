------------------------------ MODULE RingBuffer ------------------------------
(***************************************************************************)
(* anomaly/RingBuffer.h: an array of Capacity slots, the index of the next *)
(* slot to write and the number of slots written since the last clear.     *)
(*                                                                         *)
(* The arrays are members without an initialiser, so a fresh buffer holds  *)
(* arbitrary values; clear() resets the indices and leaves the old values  *)
(* in place.  Neither may ever influence an answer.                        *)
(*                                                                         *)
(* timestamps[i] and values[i] of the code are the fields of slot[i];      *)
(* RingBuffer, which stores timestamps only, is the case of one value.     *)
(***************************************************************************)
EXTENDS Integers, FiniteSets

CONSTANTS
    Capacity,   \* CAPACITY of the template
    Times,      \* the timestamps pushed and asked about
    Values,     \* the values pushed
    Windows,    \* the lengths in seconds a caller asks about
    NoAnswer    \* the answer before any question

ASSUME CapacityAssumption == Capacity \in Nat \ {0}
ASSUME TimesAssumption == Times \subseteq Int /\ Windows \subseteq Int

VARIABLES
    slot,       \* timestamps[] and values[]
    head,       \* the next slot to write
    count,      \* slots in use, at most Capacity
    answer      \* the last question and what isThresholdBreached() and
                \* countUnique() gave

vars == <<slot, head, count, answer>>

Slots == 0 .. Capacity - 1
Event == [ts : Times, value : Values]

Init ==
    /\ slot \in [Slots -> Event]
    /\ head = 0
    /\ count = 0
    /\ answer = NoAnswer

(* Mutant of Push: count not kept below Capacity. *)
PushPastCapacity(event) ==
    /\ slot' = [slot EXCEPT ![head] = event]
    /\ head' = (head + 1) % Capacity
    /\ count' = count + 1
    /\ UNCHANGED answer

Push(event) ==
    /\ slot' = [slot EXCEPT ![head] = event]
    /\ head' = (head + 1) % Capacity
    /\ count' = IF count < Capacity THEN count + 1 ELSE count
    /\ UNCHANGED answer

(* Mutant of Clear: head not reset. *)
ClearCount ==
    /\ count' = 0
    /\ UNCHANGED <<slot, head, answer>>

Clear ==
    /\ head' = 0
    /\ count' = 0
    /\ UNCHANGED <<slot, answer>>

IsFull == count = Capacity

IsThresholdBreached(now, seconds) ==
    /\ IsFull
    /\ now - slot[head].ts <= seconds

(* Mutant of FirstOccurrences: slots that were never written are visited. *)
FirstOccurrencesInArray ==
    {i \in Slots : \A j \in 0 .. i - 1 : slot[i].value # slot[j].value}

(* The double loop counts the indices below count whose value occurs at no *)
(* smaller index.                                                          *)
FirstOccurrences ==
    {i \in 0 .. count - 1 : \A j \in 0 .. i - 1 : slot[i].value # slot[j].value}

CountUnique == Cardinality(FirstOccurrences)

Ask(now, seconds) ==
    /\ answer' = [now      |-> now,
                  seconds  |-> seconds,
                  breached |-> IsThresholdBreached(now, seconds),
                  unique   |-> CountUnique]
    /\ UNCHANGED <<slot, head, count>>

Next ==
    \/ \E event \in Event : Push(event)
    \/ Clear
    \/ \E now \in Times, seconds \in Windows : Ask(now, seconds)

Spec == Init /\ [][Next]_vars
-----------------------------------------------------------------------------
(* The state variables have their types.                                   *)
TypeOK ==
    /\ slot \in [Slots -> Event]
    /\ head \in Slots
    /\ count \in 0 .. Capacity
    /\ answer \in {NoAnswer} \cup
          [now : Times, seconds : Windows, breached : BOOLEAN, unique : 0 .. Capacity]

(* A buffer that is not full has been written from slot 0 on, so the slots *)
(* below count, the ones countUnique() visits, are exactly the ones pushed *)
(* since the last clear, and none holds a value of an uninitialised or     *)
(* cleared slot.                                                           *)
PrefixWhenNotFull == count < Capacity => head = count

(* The buffer as a window: the i-th oldest event.  A full buffer starts at *)
(* head and wraps around; a buffer that is not full starts at slot 0.      *)
Oldest(i) == IF count < Capacity THEN i - 1 ELSE (head + i - 1) % Capacity

Window == [i \in 1 .. count |-> slot[Oldest(i)]]

(* The buffer answers every question as the sliding window it stands for:  *)
(* the wrap-around, the reset by clear() and the never initialised slots   *)
(* cannot be told from outside.                                            *)
Abstract == INSTANCE EventWindow WITH window <- Window

ImplementsWindow == Abstract!Spec
=============================================================================
