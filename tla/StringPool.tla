----------------------------- MODULE StringPool -----------------------------
(***************************************************************************)
(* core/StringPool.cpp: an open-addressing table of ids with linear        *)
(* probing, and the array of the strings by id.  Both overloads of         *)
(* getOrCreateId() are the same function of the string's bytes.  Each      *)
(* iteration of a loop is a step.                                          *)
(*                                                                         *)
(* The hash is a constant: strings may share one.  keyCount * 4 is taken   *)
(* not to exceed 32 bits: that needs 2^30 strings.                         *)
(***************************************************************************)
EXTENDS Integers, Sequences, FiniteSets

CONSTANTS
    Strings,        \* the strings that occur in columns and queries
    NoString,       \* what getString() gives for an id that was never given out
    NoAnswer,       \* the answer before any call
    Hash,           \* hashString() and hashRaw()
    BucketSizes     \* the sizes a table may be made with

ASSUME HashAssumption == Hash \in [Strings -> Nat] /\ NoString \notin Strings
ASSUME BucketSizesAssumption == BucketSizes \subseteq Nat

VARIABLES
    slots,
    capacity,
    keyCount,
    strings,        \* the string of id i is strings[i + 1]
    oldSlots,       \* rehash(): the array it reads
    cursor,         \* rehash(): the slot it moves
    pc,             \* "idle", "rehash", "probeFree" or "lookup"
    wanted,         \* the argument of getOrCreateId()
    index,          \* the slot to look at next
    answer          \* the last arguments and result

table == <<slots, capacity>>
old == <<oldSlots, cursor>>
vars == <<table, keyCount, strings, old, pc, wanted, index, answer>>

EmptySlot == [occupied |-> FALSE, cachedHash |-> 0, id |-> 0]
Taken(hash, id) == [occupied |-> TRUE, cachedHash |-> hash, id |-> id]

EmptyTable(size) == [i \in 0 .. size - 1 |-> EmptySlot]

(* A table of size 0 is made with one slot. *)
Init ==
    /\ \E bucketSize \in BucketSizes :
          capacity = IF bucketSize = 0 THEN 1 ELSE bucketSize
    /\ slots = EmptyTable(capacity)
    /\ keyCount = 0
    /\ strings = << >>
    /\ oldSlots = EmptyTable(0) /\ cursor = 0
    /\ pc = "idle"
    /\ wanted = NoString
    /\ index = 0
    /\ answer = NoAnswer

(* Mutant of NeedsRehash: the table is grown when it is overfull. *)
NeedsRehashWhenOverfull == keyCount > capacity

NeedsRehash == keyCount * 4 >= capacity * 3

GetOrCreateId(string) ==
    /\ pc = "idle"
    /\ ~NeedsRehash
    /\ wanted' = string
    /\ index' = Hash[string] % capacity
    /\ pc' = "lookup"
    /\ UNCHANGED <<table, keyCount, strings, old, answer>>

GetOrCreateIdRehashing(string) ==
    /\ pc = "idle"
    /\ NeedsRehash
    /\ wanted' = string
    /\ oldSlots' = slots /\ cursor' = 0
    /\ capacity' = capacity * 2 + 1
    /\ slots' = EmptyTable(capacity')
    /\ pc' = "rehash"
    /\ UNCHANGED <<keyCount, strings, index, answer>>

RehashSlot ==
    /\ pc = "rehash"
    /\ cursor \in DOMAIN oldSlots
    /\ \/ /\ oldSlots[cursor].occupied
          /\ index' = oldSlots[cursor].cachedHash % capacity
          /\ pc' = "probeFree"
          /\ UNCHANGED cursor
       \/ /\ ~oldSlots[cursor].occupied
          /\ cursor' = cursor + 1
          /\ UNCHANGED <<index, pc>>
    /\ UNCHANGED <<table, keyCount, strings, oldSlots, wanted, answer>>

(* Linear probing for a free slot. *)
ProbeTaken ==
    /\ pc = "probeFree"
    /\ slots[index].occupied
    /\ index' = (index + 1) % capacity
    /\ UNCHANGED <<table, keyCount, strings, old, pc, wanted, answer>>

(* Mutant of ProbeFree: the free slot takes the id, but not the hash. *)
ProbeFreeWithoutHash ==
    /\ pc = "probeFree"
    /\ ~slots[index].occupied
    /\ slots' = [slots EXCEPT ![index] = Taken(0, oldSlots[cursor].id)]
    /\ cursor' = cursor + 1
    /\ pc' = "rehash"
    /\ UNCHANGED <<capacity, keyCount, strings, oldSlots, wanted, index, answer>>

ProbeFree ==
    /\ pc = "probeFree"
    /\ ~slots[index].occupied
    /\ slots' = [slots EXCEPT ![index] =
                    Taken(oldSlots[cursor].cachedHash, oldSlots[cursor].id)]
    /\ cursor' = cursor + 1
    /\ pc' = "rehash"
    /\ UNCHANGED <<capacity, keyCount, strings, oldSlots, wanted, index, answer>>

RehashDone ==
    /\ pc = "rehash"
    /\ cursor \notin DOMAIN oldSlots
    /\ oldSlots' = EmptyTable(0) /\ cursor' = 0
    /\ index' = Hash[wanted] % capacity
    /\ pc' = "lookup"
    /\ UNCHANGED <<table, keyCount, strings, wanted, answer>>
-----------------------------------------------------------------------------
(* Mutant of IsMatch: the strings are not compared. *)
IsMatchByHash ==
    /\ slots[index].occupied
    /\ slots[index].cachedHash = Hash[wanted]

IsMatch ==
    /\ slots[index].occupied
    /\ slots[index].cachedHash = Hash[wanted]
    /\ strings[slots[index].id + 1] = wanted

CacheHit ==
    /\ pc = "lookup"
    /\ IsMatch
    /\ answer' = [string |-> wanted, id |-> slots[index].id]
    /\ pc' = "idle"
    /\ UNCHANGED <<table, keyCount, strings, old, wanted, index>>

NextSlot ==
    /\ pc = "lookup"
    /\ slots[index].occupied
    /\ ~IsMatch
    /\ index' = (index + 1) % capacity
    /\ UNCHANGED <<table, keyCount, strings, old, pc, wanted, answer>>

(* Mutant of CacheMiss: keyCount not incremented. *)
CacheMissUncounted ==
    /\ pc = "lookup"
    /\ ~slots[index].occupied
    /\ strings' = Append(strings, wanted)
    /\ slots' = [slots EXCEPT ![index] = Taken(Hash[wanted], Len(strings))]
    /\ answer' = [string |-> wanted, id |-> Len(strings)]
    /\ pc' = "idle"
    /\ UNCHANGED <<capacity, keyCount, old, wanted, index>>

CacheMiss ==
    /\ pc = "lookup"
    /\ ~slots[index].occupied
    /\ strings' = Append(strings, wanted)
    /\ slots' = [slots EXCEPT ![index] = Taken(Hash[wanted], Len(strings))]
    /\ keyCount' = keyCount + 1
    /\ answer' = [string |-> wanted, id |-> Len(strings)]
    /\ pc' = "idle"
    /\ UNCHANGED <<capacity, old, wanted, index>>

GetString(id) ==
    /\ pc = "idle"
    /\ answer' = [string |-> IF id >= Len(strings) THEN NoString ELSE strings[id + 1],
                  id |-> id]
    /\ UNCHANGED <<table, keyCount, strings, old, pc, wanted, index>>

Size ==
    /\ pc = "idle"
    /\ answer' = [size |-> keyCount]
    /\ UNCHANGED <<table, keyCount, strings, old, pc, wanted, index>>

(* Queries about ids are asked up to one beyond the last. *)
Call ==
    \/ \E string \in Strings : GetOrCreateId(string) \/ GetOrCreateIdRehashing(string)
    \/ \E id \in 0 .. Len(strings) : GetString(id)
    \/ Size

Loops ==
    RehashSlot \/ ProbeTaken \/ ProbeFree \/ RehashDone \/ CacheHit \/ NextSlot
        \/ CacheMiss

Next == Call \/ Loops

Spec == Init /\ [][Next]_vars

(* A call runs to its end. *)
FairSpec == Spec /\ WF_vars(Loops)
-----------------------------------------------------------------------------
Slot == [occupied : BOOLEAN, cachedHash : Nat, id : Nat]

(* The state variables have their types, and keyCount, which size() gives  *)
(* to the detector as the number of contexts, is the number of strings.    *)
TypeOK ==
    /\ capacity \in Nat \ {0}
    /\ slots \in [0 .. capacity - 1 -> Slot]
    /\ strings \in Seq(Strings)
    /\ keyCount = Len(strings)
    /\ \E size \in 0 .. capacity : oldSlots \in [0 .. size - 1 -> Slot]
    /\ cursor \in 0 .. Cardinality(DOMAIN oldSlots)
    /\ pc \in {"idle", "rehash", "probeFree", "lookup"}
    /\ wanted \in Strings \cup {NoString}
    /\ index \in 0 .. capacity
    /\ answer \in [string : Strings \cup {NoString}, id : Nat] \cup [size : Nat]
                      \cup {NoAnswer}

(* The slots a search for hash visits before it comes to slot i. *)
Before(hash, i) ==
    {(hash + k) % capacity : k \in 0 .. ((i + capacity - (hash % capacity)) % capacity) - 1}

(* Between calls every id lies in exactly one slot, under the hash of its  *)
(* string, and no free slot ends a search for it too early: a string is    *)
(* never given a second id.                                                *)
EveryIdFound ==
    pc = "idle" =>
        \A id \in 0 .. Len(strings) - 1 :
            \E i \in DOMAIN slots :
                /\ slots[i] = Taken(Hash[strings[id + 1]], id)
                /\ \A j \in Before(slots[i].cachedHash, i) : slots[j].occupied
                /\ \A j \in DOMAIN slots : slots[j].occupied /\ slots[j].id = id => j = i

(* The pool answers as the dictionary, whatever strings share a hash and   *)
(* whenever the table grows.                                               *)
Abstract == INSTANCE StringDictionary

ImplementsDictionary == Abstract!Spec

(* Every lookup returns: there is always a free slot to end a search. *)
LookupsReturn == (pc # "idle") ~> (pc = "idle")
=============================================================================
