----------------------------- MODULE LogQueries -----------------------------
(***************************************************************************)
(* storage/LogStore.h, core/LogChunk.h, core/HashIndex.cpp,                *)
(* core/SortUtils.h, indexing/SearchEngine.cpp and query/QueryEngine.cpp:  *)
(* entries are appended to chunks of a fixed size, two hash indices group  *)
(* them into timelines sorted by merging, and the queries search timelines *)
(* by bisection and rank resources chunk by chunk.                         *)
(*                                                                         *)
(* An entry stands for the pointer to it that an index holds: HaloEngine   *)
(* says when such pointers are valid.                                      *)
(***************************************************************************)
EXTENDS Chunks

CONSTANTS
    Entries,        \* the log entries
    Times,          \* the timestamps typed at the prompts
    Enter,          \* what is typed to select all data: nothing
    DEFAULT_END,    \* the end of the range then, 2000000000
    HashKey,        \* hashKey(): the bucket of a user or resource id
    CountBuckets,   \* bucketCount of the ranking, 100003
    PageSize,       \* PAGE_SIZE, 50 rows
    TopSize,        \* 10
    MaxEntries,     \* bound on the number of entries of all loads together
    None            \* no question, no answer

ASSUME SizesAssumption ==
    /\ {CountBuckets, PageSize, TopSize} \subseteq Nat \ {0}
    /\ Times \subseteq Int /\ DEFAULT_END \in Int
    /\ MaxEntries \in Nat
    /\ DOMAIN HashKey \subseteq Nat
    /\ Entries \subseteq [userId : DOMAIN HashKey, resourceId : Nat, timestamp : Nat]
    /\ {e.resourceId : e \in Entries} \subseteq DOMAIN HashKey

VARIABLES
    chunks,         \* the chunks of the store, in the order of allocation
    userIndex,      \* the buckets of each index: chains of nodes
    resourceIndex,
    inserted,       \* how many entries have been inserted by all loads
    pc,             \* "load", "menu" or "answered"
    question,       \* the query the user has chosen at the menu
    answer          \* what it printed

vars == <<chunks, userIndex, resourceIndex, inserted, pc, question, answer>>

Users == {e.userId : e \in Entries}
Resources == {e.resourceId : e \in Entries}
-----------------------------------------------------------------------------
Stored == EntriesOf(chunks)

(* LogStore::insert() *)
Insert(e) ==
    /\ pc = "load"
    /\ inserted < MaxEntries
    /\ inserted' = inserted + 1
    /\ chunks' = WithEntry(chunks, e)
    /\ UNCHANGED <<userIndex, resourceIndex, pc, question, answer>>
-----------------------------------------------------------------------------
EmptyIndex == [b \in {HashKey[k] : k \in DOMAIN HashKey} |-> << >>]

(* A node is found by its key; a new node becomes the first of its chain. *)
Nodes(chain, key) == {i \in DOMAIN chain : chain[i].key = key}

IntoChain(chain, key, entry) ==
    IF Nodes(chain, key) = {}
    THEN <<[key |-> key, entries |-> <<entry>>]>> \o chain
    ELSE [i \in DOMAIN chain |->
            IF i \in Nodes(chain, key)
            THEN [chain[i] EXCEPT !.entries = Append(@, entry)] ELSE chain[i]]

InsertInto(index, key, entry) ==
    [index EXCEPT ![HashKey[key]] = IntoChain(@, key, entry)]

(* HashIndex::get(): no node is no timeline. *)
Timeline(index, key) ==
    LET chain == index[HashKey[key]]
    IN  IF Nodes(chain, key) = {} THEN << >>
        ELSE chain[CHOOSE i \in Nodes(chain, key) : TRUE].entries

(* Of two entries with equal timestamps the left one goes first. *)
LeftFirst(left, right, i, j) ==
    /\ i <= Len(left)
    /\ j <= Len(right) => left[i].timestamp <= right[j].timestamp

(* How many entries merge() has copied from the left half after each turn. *)
Taken(left, right) ==
    LET taken[t \in 0 .. Len(left) + Len(right)] ==
            IF t = 0 THEN 0
            ELSE LET before == taken[t - 1]
                 IN  IF LeftFirst(left, right, before + 1, t - before)
                     THEN before + 1 ELSE before
    IN  taken

Merge(left, right) ==
    LET taken == Taken(left, right)
    IN  [t \in 1 .. Len(left) + Len(right) |->
            IF taken[t] > taken[t - 1] THEN left[taken[t]] ELSE right[t - taken[t]]]

(* mergeSort(): every range of arr in order. *)
Ranges(arr) == [left : DOMAIN arr, right : DOMAIN arr]

Sorted(arr) ==
    LET sorted[r \in Ranges(arr)] ==
            LET middle == r.left + (r.right - r.left) \div 2
            IN  IF r.left >= r.right THEN SubSeq(arr, r.left, r.right)
                ELSE Merge(sorted[[left |-> r.left, right |-> middle]],
                           sorted[[left |-> middle + 1, right |-> r.right]])
    IN  sorted

SortByTimestamp(arr) ==
    IF Len(arr) < 2 THEN arr ELSE Sorted(arr)[[left |-> 1, right |-> Len(arr)]]

SortAllTimelines(index) ==
    [b \in DOMAIN index |->
        [i \in DOMAIN index[b] |-> [index[b][i] EXCEPT !.entries = SortByTimestamp(@)]]]

(* Every entry of the store is inserted under its user or its resource.    *)
Filled(index, key, log) ==
    LET filled[n \in 0 .. Len(log)] ==
            IF n = 0 THEN index ELSE InsertInto(filled[n - 1], log[n][key], log[n])
    IN  filled

Built(index, key) == SortAllTimelines(Filled(index, key, Stored)[Len(Stored)])

(* Mutant of BuildIndices: engine.reset() forgotten. *)
BuildIndicesAgain ==
    /\ pc = "load"
    /\ userIndex' = Built(userIndex, "userId")
    /\ resourceIndex' = Built(resourceIndex, "resourceId")
    /\ pc' = "menu"
    /\ UNCHANGED <<chunks, inserted, question, answer>>

(* A load ends: both indices are new at boot, and reset after a reload.    *)
BuildIndices ==
    /\ pc = "load"
    /\ userIndex' = Built(EmptyIndex, "userId")
    /\ resourceIndex' = Built(EmptyIndex, "resourceId")
    /\ pc' = "menu"
    /\ UNCHANGED <<chunks, inserted, question, answer>>

(* A reload empties the store and leaves the indices until it ends. *)
Reset ==
    /\ pc = "menu"
    /\ chunks' = << >>
    /\ pc' = "load"
    /\ UNCHANGED <<userIndex, resourceIndex, inserted, question, answer>>
-----------------------------------------------------------------------------
(* Bisection: the first index of arr whose entry lies beyond the target,   *)
(* counted from 0 as in the code, the length of arr if there is none.  A   *)
(* turn looks at one entry of the range lo .. hi - 1.                      *)
Narrowed(range, beyond) ==
    LET mid == range.lo + (range.hi - range.lo) \div 2
    IN  IF range.lo >= range.hi THEN range
        ELSE IF mid + 1 \notin beyond THEN [range EXCEPT !.lo = mid + 1]
        ELSE [range EXCEPT !.hi = mid]

Search(size, beyond) ==
    LET search[n \in 0 .. size] ==
            IF n = 0 THEN [lo |-> 0, hi |-> size] ELSE Narrowed(search[n - 1], beyond)
    IN  search

Bisect(arr, beyond) == Search(Len(arr), beyond)[Len(arr)].lo

LowerBound(arr, target) == Bisect(arr, {i \in DOMAIN arr : arr[i].timestamp >= target})

(* Mutant of UpperBound: an entry at the very end of the range is missed. *)
UpperBoundExclusive(arr, target) == Bisect(arr, {i \in DOMAIN arr : arr[i].timestamp >= target})

UpperBound(arr, target) == Bisect(arr, {i \in DOMAIN arr : arr[i].timestamp > target})

DEFAULT_START == 0

Typed == Times \cup {Enter}

(* readTimestamp(): an end that is left empty has a default. *)
StartTime(typed) == IF typed = Enter THEN DEFAULT_START ELSE typed
EndTime(typed) == IF typed = Enter THEN DEFAULT_END ELSE typed

(* readTimeRange() exchanges the ends of an inverted range, also if one of *)
(* them is a default.                                                      *)
RangeStart(from, to) == Min({StartTime(from), EndTime(to)})
RangeEnd(from, to) == Max({StartTime(from), EndTime(to)})

Rows(timeline, from, to) ==
    SubSeq(timeline, LowerBound(timeline, RangeStart(from, to)) + 1,
                     UpperBound(timeline, RangeEnd(from, to)))

(* The pager prints all rows, or stops after a full page before the last.  *)
Printed(rows) ==
    {[rows |-> SubSeq(rows, 1, n)] :
        n \in {Len(rows)} \cup {k \in 1 .. Len(rows) : k % PageSize = 0}}

UserJourney(user, from, to) ==
    /\ pc = "menu"
    /\ pc' = "answered"
    /\ question' = <<"user", user, from, to>>
    /\ answer' \in Printed(Rows(Timeline(userIndex, user), from, to))
    /\ UNCHANGED <<chunks, userIndex, resourceIndex, inserted>>

ResourceJourney(resource, from, to) ==
    /\ pc = "menu"
    /\ pc' = "answered"
    /\ question' = <<"resource", resource, from, to>>
    /\ answer' \in Printed(Rows(Timeline(resourceIndex, resource), from, to))
    /\ UNCHANGED <<chunks, userIndex, resourceIndex, inserted>>
-----------------------------------------------------------------------------
IsWithinRange(ts, start, end) == ts >= start /\ ts <= end

(* A chunk whose range does not meet the one asked for is skipped. *)
MayHold(chunk, start, end) == chunk.maxTimestamp >= start /\ chunk.minTimestamp <= end

(* One more access: a count node of a chain is found by its resource; a    *)
(* new node becomes the first of its chain.                                *)
CountNodes(chain, resource) == {i \in DOMAIN chain : chain[i].resourceId = resource}

CountInto(chain, resource) ==
    IF CountNodes(chain, resource) = {}
    THEN <<[resourceId |-> resource, count |-> 1]>> \o chain
    ELSE [i \in DOMAIN chain |->
            IF i \in CountNodes(chain, resource)
            THEN [chain[i] EXCEPT !.count = @ + 1] ELSE chain[i]]

Counted(buckets, e) ==
    [buckets EXCEPT ![e.resourceId % CountBuckets] = CountInto(@, e.resourceId)]

(* The accesses of a chunk that lie in the range. *)
CountedIn(buckets, entries, start, end) ==
    LET counted[n \in 0 .. Len(entries)] ==
            IF n = 0 THEN buckets
            ELSE IF IsWithinRange(entries[n].timestamp, start, end)
            THEN Counted(counted[n - 1], entries[n]) ELSE counted[n - 1]
    IN  counted

Scanned(stored, start, end) ==
    LET scanned[n \in 0 .. Len(stored)] ==
            IF n = 0 THEN [b \in 0 .. CountBuckets - 1 |-> << >>]
            ELSE LET entries == stored[n].entries
                 IN  IF MayHold(stored[n], start, end)
                     THEN CountedIn(scanned[n - 1], entries, start, end)[Len(entries)]
                     ELSE scanned[n - 1]
    IN  scanned

(* insertIntoTop10(): a node goes before the first one it beats, and the   *)
(* last one falls out.                                                     *)
InsertIntoTop10(top, node) ==
    LET Shifts(p) == \E q \in 1 .. p : node.count > top[q].count
    IN  [p \in 1 .. TopSize |-> IF ~Shifts(p) THEN top[p]
                                ELSE IF Shifts(p - 1) THEN top[p - 1] ELSE node]

(* The nodes of a chain, and then those of all chains. *)
RankedChain(top, chain) ==
    LET ranked[n \in 0 .. Len(chain)] ==
            IF n = 0 THEN top ELSE InsertIntoTop10(ranked[n - 1], chain[n])
    IN  ranked

Ranked(buckets) ==
    LET ranked[b \in 0 .. CountBuckets] ==
            IF b = 0 THEN [p \in 1 .. TopSize |-> [resourceId |-> 0, count |-> 0]]
            ELSE RankedChain(ranked[b - 1], buckets[b - 1])[Len(buckets[b - 1])]
    IN  ranked

(* The places before the first one that is free are printed. *)
Ranking(top) ==
    SubSeq(top, 1, Cardinality({p \in 1 .. TopSize : \A q \in 1 .. p : top[q].count # 0}))

Top10Resources(from, to) ==
    LET counts == Scanned(chunks, RangeStart(from, to), RangeEnd(from, to))[Len(chunks)]
    IN  /\ pc = "menu"
        /\ pc' = "answered"
        /\ question' = <<"top", from, to>>
        /\ answer' = [ranking |-> Ranking(Ranked(counts)[CountBuckets])]
        /\ UNCHANGED <<chunks, userIndex, resourceIndex, inserted>>
-----------------------------------------------------------------------------
(* The main loop shows the menu again. *)
ShowMenu ==
    /\ pc = "answered"
    /\ pc' = "menu"
    /\ question' = None
    /\ answer' = None
    /\ UNCHANGED <<chunks, userIndex, resourceIndex, inserted>>

Init ==
    /\ chunks = << >>
    /\ userIndex = EmptyIndex /\ resourceIndex = EmptyIndex
    /\ inserted = 0
    /\ pc = "load"
    /\ question = None /\ answer = None

Query ==
    \E from, to \in Typed :
        \/ \E user \in Users : UserJourney(user, from, to)
        \/ \E resource \in Resources : ResourceJourney(resource, from, to)
        \/ Top10Resources(from, to)

Next ==
    \/ \E e \in Entries : Insert(e)
    \/ BuildIndices
    \/ Reset
    \/ Query
    \/ ShowMenu

Spec == Init /\ [][Next]_vars
-----------------------------------------------------------------------------
Chunk == [entries : Seq(Entries), minTimestamp : Nat, maxTimestamp : Nat]
Index == [DOMAIN EmptyIndex -> Seq([key : Nat, entries : Seq(Entries)])]

(* The state variables have their types, and every chunk but the last is   *)
(* full.                                                                   *)
TypeOK ==
    /\ chunks \in Seq(Chunk)
    /\ \A i \in DOMAIN chunks : /\ Len(chunks[i].entries) \in 1 .. ChunkSize
                               /\ i < Len(chunks) => Len(chunks[i].entries) = ChunkSize
    /\ userIndex \in Index /\ resourceIndex \in Index
    /\ inserted \in 0 .. MaxEntries
    /\ pc \in {"load", "menu", "answered"}
    /\ \/ answer = None
       \/ answer \in [rows : Seq(Entries)]
       \/ answer \in [ranking : Seq([resourceId : Nat, count : Nat])]

TimesOf(chunk) == {e.timestamp : e \in ToSet(chunk.entries)}

RangeExact(chunk) ==
    /\ TimesOf(chunk) \subseteq chunk.minTimestamp .. chunk.maxTimestamp
    /\ {chunk.minTimestamp, chunk.maxTimestamp} \subseteq TimesOf(chunk)

(* The range of a chunk is the range of its entries: a chunk is skipped    *)
(* only if none of them lies in the range asked for, in whatever order     *)
(* they were appended.                                                     *)
ChunkRanges == \A i \in DOMAIN chunks : RangeExact(chunks[i])

(* A timeline has the entries of a key, as often as they were inserted and *)
(* in the order of time.                                                   *)
TimelinesAre(index, log, key) ==
    \A k \in DOMAIN HashKey :
        LET timeline == Timeline(index, k)
        IN  /\ \A e \in Entries :
                  Cardinality({i \in DOMAIN timeline : timeline[i] = e}) =
                    Cardinality({i \in DOMAIN log : log[i] = e /\ e[key] = k})
            /\ \A i, j \in DOMAIN timeline :
                  i < j => timeline[i].timestamp <= timeline[j].timestamp

(* After a load every entry of the store stands exactly once in the        *)
(* timeline of its user and of its resource, also if their ids share a     *)
(* bucket with others, and after a reload; timelines are sorted by time,   *)
(* as the bisections and the anomaly detector require.                     *)
TimelinesComplete ==
    pc # "load" => /\ TimelinesAre(userIndex, Stored, "userId")
                   /\ TimelinesAre(resourceIndex, Stored, "resourceId")

(* Every query prints what the log says, also with an end of the range left *)
(* empty: journeys all and only the rows in range, in the order of time and *)
(* then of the log, and the ranking the resources with most accesses and    *)
(* their exact counts.                                                      *)
Abstract == INSTANCE EventLog WITH log <- Stored

ImplementsLog == Abstract!Spec
=============================================================================
