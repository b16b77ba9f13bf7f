# Halo Cyber Access Engine in TLA+

The engine reads a CSV of access events, keeps a binary snapshot of it, answers
queries about users and resources from in-memory indices, and runs fourteen
anomaly rules over the timelines of the users. This directory models that
program, checks the models with TLC and proves theorems about them with TLAPS.
Every definition is translated from the C++ source; `PROJECT.json` names the
lines.

## 1. Inventory

| Part | Source (under `src/src/`) | State | Operations |
|---|---|---|---|
| Boot, menu, reload | `main.cpp` | program point, defaults, the store and the engine | smart boot, fallback, queries, Force Reload, exit |
| Binary snapshot | `storage/BinaryIO.*` | the `.bin` file: header, strings, chunks | `isValid`, `dump`, `load` |
| CSV loader | `storage/DataLoader.*` | the line in hand, counters | `load`, `processLine`, validation |
| Gatekeeper | `core/DuplicateHashSet.h` | Robin Hood table of 64-bit fingerprints | `insertIfAbsent`, `rehash` |
| String pool | `core/StringPool.*` | open-addressing cache, strings by id | `getOrCreateId` (two), `getString`, `rehash` |
| Log store | `storage/LogStore.h`, `core/LogChunk.h` | list of chunks with their time range | `insert`, `addLoadedChunk`, `reset` |
| Indices, sorting | `core/HashIndex.*`, `core/SortUtils.h`, `indexing/SearchEngine.*` | buckets of chains of timelines (raw pointers into chunks) | `buildIndices`, `sortAllTimelines`, `search*`, `reset` |
| Queries | `query/QueryEngine.*` | none of its own | two journeys with a pager, top-10 ranking |
| Ring buffers | `anomaly/RingBuffer.h` | array, head, count | `push`, `clear`, `isThresholdBreached`, `countUnique` |
| Anomaly detector | `anomaly/AnomalyDetector.*`, `*Context.h` | a context per user and device, the records | `runAll`, `processEvent`, rules 1-14 |

**How they interact.** The loader hands each line to the gatekeeper, interns its
columns in the pool and inserts the entry in the store. The indices hold raw
pointers to entries of the store. Queries intern the name that is typed and look
its id up in an index; the ranking scans chunks and skips them by time range. The
detector walks the user index and keeps windows in ring buffers. Force Reload
empties the store, loads the CSV, resets and rebuilds the indices, and dumps a
new snapshot.

**What is hard.** The program has one thread, so the interleavings are those with
the world: other programs edit or delete the CSV at any moment, the disk fills up
and the program is killed in the middle of a dump. Inside the program it is long
sequences of legal calls that are hard: windows that wrap, are cleared or are fed
out of order; tables that grow while a search relies on their order; ids that
outlive the growth of their table; pointers that outlive a reload; ids and
chunks that have to come back from a file as they were.

**What makes each part correct.** Ring buffers answer as the last `Capacity`
events since the last clear. Each rule reports what its description says, once (section 5 says
where the code does something else).
The two hash tables are a set and a dictionary, and each call ends. The
loader stores the first line of each fingerprint that is a log line, and nothing
of any other line. A snapshot brings back the store it was made from, ids
included. Queries answer what the log says, in order. What the menu serves is one version of the
CSV, its indices point into live memory, and a snapshot taken for fresh is the
CSV. `PROJECT.json` lists under `hazards` where each of these could go wrong.

## 2. Modules

```
SlidingWindow ── EventWindow <= RingBuffer ── RingBuffer_proofs *
      │                             └ MCRingBuffer
AnomalyRules ── AnomalyDetector ── AnomalyProperties ── AnomalyDetector_proofs *
                                        └ AnomalyClaims ── MCAnomalyTimelines
HaloEngine ── EngineProperties ── HaloEngine_proofs *
                    └ EngineClaims ── MCEngine
FingerprintSet   <= DuplicateHashSet ── MCDuplicateHashSet, DuplicateHashSet_proofs *
StringDictionary <= StringPool ── MCStringPool, StringPool_proofs *
Interning ─┬─ HaloEngine
           └─ Ingestion ── Snapshot ── MCPersistence, Snapshot_proofs *
Chunks ────┬─ Ingestion
           └─ LogQueries
EventLog         <= LogQueries ── MCLogQueries, LogQueries_proofs *
CommonLemmas: extended by the modules marked *
```

CommonLemmas extends only the library: a non-empty set of numbers has a least
element; a loop, a recursion that descends and a counter compute what they
should; a sequence of sequences is flattened step by step; and what a remainder
is in a table that a search goes round in.

`A <= B` says that B is the detailed specification and is shown to implement the
abstract A; other lines are EXTENDS.

**RingBuffer** has `slot` (`timestamps[i]` and `values[i]` of the code are the
fields of `slot[i]`), `head` and `count`. `Init` allows every content of the array,
because the class initialises only the two indices. `Push`, `Clear` and `Ask` are
the methods; `Ask` computes `isThresholdBreached` and `countUnique` with the
code's index arithmetic. **EventWindow** is the same interface over a sequence
(`SlidingWindow!Pushed` drops the oldest event). In it a question and its answer
are part of the state, so a wrong answer is a step the abstract specification
does not have.

**AnomalyDetector** has one action per iteration of the inner loop of `runAll()`,
`ProcessEvent(e)`, which applies all rules, and one for the outer loop. Each rule
has an operator of its own name for when it fires and one for the window or
counter it leaves. The contexts keep the names of the members of the code. The
windows are the sequences of SlidingWindow, which is what the theorem
`RingBufferImplementsWindow` justifies. `log` and the positions in `results` are
history. **AnomalyProperties** states what a rule does over that history and
never mentions a window or a counter; **AnomalyClaims** states what comments and
documents say of it where that is something else.

**HaloEngine** is `main.cpp` with `BinaryIO.cpp`. `pc` is the point of the
program; an action stands for the code up to the next point at which another
program, a full disk or a kill can make a difference. `DumpOpen`, `DumpHeader`
and `DumpBody` are the stages of `dump()`: truncate, header with the metadata
that is read at that moment, all other writes, of which any prefix may reach the
file since their results are not looked at. `LoadBinary` leaves in the store what
a failed load has read. `gen` counts releases of the store's memory: a pointer
carries the `gen` it was made in and dangles if it is not the present one.

**DuplicateHashSet** and **StringPool** take one step per slot a loop visits, with
the growth of the table inside, so an endless loop is an endless behaviour.
**FingerprintSet** and **StringDictionary** are the set and the dictionary they
stand for.

**Interning** is the pool as its callers see it, a sequence without repetition in
which id `i` has position `i + 1`; that is what StringDictionary says of the table.
**Chunks** is the store: chunks of a fixed size, each with the range of its times.

**Ingestion** is `DataLoader::load()`, one action per call of `processLine()`. A
line is the sequence of its columns; all but the last are names, the last is a
sequence of digits and of a character that stands for all others, and a flag says
whether a carriage return ends the line. `Skip`, `Drop` and `Store` are the three
ways a line can go. `TakeDigit` is a turn of the loop of `parseInt64()` with its
guard against overflow. The four interning calls are arguments of one
constructor, and C++ leaves their order to the compiler: `argumentOrder` is
chosen by the build and stays. `gatekeeper` is the set of fingerprints, which is
what DuplicateHashSet implements.

**Snapshot** lets the store of Ingestion be dumped and loaded by the next run of
the program. `file` is a sequence of sections: the header, each string, each
chunk. `Cut` and `Alter` are what may happen to it while the program is off: any
number of sections is lost from the end, or one value becomes another
(`OtherSections` says what a section may turn into). `LoadHeader`,
`LoadString`, `LoadChunk` and `VerifyChecksum` are the stages of `load()`. The
checksum is bit by bit: a number is the set of its bits and XOR the symmetric
difference. `HaloEngine` and `Snapshot` divide `BinaryIO.cpp`: when a snapshot is
fresh and what crashes leave behind there, what the sections hold here.

**LogQueries** has chunks with ranges, indices as buckets of chains, the pager and
the ranking with its counting table and its array of ten. A loop of the code is a
function of the number of its turns (`Taken`, `Filled`, `Search`, `CountedIn`,
`Scanned`, `RankedChain`, `Ranked`), and `mergeSort()` one of the range it sorts
(`Sorted`). `Merge` copies from the half that `Taken` says a turn copied from. `Enter` is an end of
the time range that is left empty; `StartTime` and `EndTime` give it its default,
and `readTimeRange()` exchanges the ends if they are inverted. **EventLog** is a
sequence of entries and the question last asked with the answers it may get.

## 3. Runs

| Run | Question | Instance | Result |
|---|---|---|---|
| `ring_buffer` | Do head and count never let an overwritten, cleared or uninitialised slot into an answer? | 3 slots, 3 times that may go back, windows 0 and 1, 2 values | holds |
| `timelines` | Do the rules about users and devices report exactly what their properties say? | 5 entries, nine kinds of timeline at the edges of the windows, two of them of users who share devices | holds |
| `engine` | Is the program always at one version of the CSV with live indices, and does it get to its menu? | 4 contents, 2 edits, 2 reloads, any number of kills and boots | holds |
| `gatekeeper` | Is the Robin Hood table a set, and does every call end? | 6 fingerprints that collide, tables from 1 or 5 slots through two growths | holds |
| `string_pool` | Has every string one id for good, and does every lookup end? | 5 strings, 2 with equal hashes, tables from 1 or 2 slots | holds |
| `persistence` | Is every log line stored once and nothing else, and does a snapshot bring it back, whole or not at all? | 4 lines of 18 kinds, chunks of 2, two argument orders, one cut or one altered value | holds |
| `queries` | Do queries answer what the log says? | 5 insertions, chunks of 2, 2 buckets for all ids, pages of 2 rows, top 2, ends typed or left empty, an entry later than the default end | holds |
| `travel_from_us` | Is an impossible journey always reported? | as `timelines` | violated |
| `long_session_twice` | Is a long session reported once? | as `timelines` | violated |
| `device_time` | Were the logins of a compromised device within five minutes? | as `timelines` | violated |
| `failed_reload` | Do the pointers of the menu's indices always point into live memory? | as `engine` | violated |
| `edit_before_dump` | Is a snapshot that is taken for fresh the CSV? | as `engine`, edits at every point | violated |

### Why these bounds

* *Ring buffer.* Three slots give a first, a middle and a last one, and the state
  space is closed: pushes and clears are unbounded. The proofs cover every
  capacity.
* *Timelines.* The windows have their real lengths. For each of rules 1, 2, 3, 6,
  7, 9, 11, 12, 13 and 14 two entries lie apart by exactly the length of the window,
  session or silence and two by a second more; rule 12 also meets its midnight, and
  no entry lies at 6:00 or 22:00. The numbers of events are scaled down so that five
  entries reach a report and what follows it. Rules 2, 3, 12, 13 and 14 ask for
  three different values, so that of four entries one may repeat another and hide a
  report; two entries are left after a report to show that a window was cleared.
  Rules 8 and 9 ask for two, which leaves room for a second report. Rule 6 has a
  window of four for a threshold of three, so that, as with ten in the code, the
  window is larger than what is counted in it. The contexts of users are
  independent except through devices: `OneGroup` keeps to runs that read the
  timeline of one user, or of those who share devices, and time goes back where one
  of these follows another. Deadlock is not checked here: an analysis ends.
* *Engine.* The contents are an empty CSV, one with a row that repeats a user,
  one of another size, and one with a name that is too long for a snapshot to be
  loaded. Two edits suffice to leave a snapshot behind, replace the CSV and
  restore it; two reloads to follow a failed one by a good one.
  The CSV may change at every program point except, in the passing run, from the
  end of its parsing to the header of the snapshot (`Quiet`).
* *Persistence.* `INT64_MAX` is 17, so that two digits lie below, at and above it,
  and a leading zero adds a third. The lines are every kind the loader tells
  apart: blank and header, each with and without a carriage return; good ones of
  equal and of different rows; two of one fingerprint, both good or one not; one
  for each reason not to validate. Four lines give a header, a duplicate and two
  chunks. Two argument orders are both ends of what compilers do. A number is
  altered to 0, 1 or 2, which reaches other ids and counts that are smaller, equal
  and larger; five bits hold every number of the instance, and ids shifted by 16
  and 32 bits stay apart from them as they do in 64. One piece of damage is made
  to a file: two alterations can cancel out in any XOR.
* *Hash tables.* The fingerprints and hashes share home slots in all the sizes
  the tables grow through, so chains wrap around the end and displaced keys are
  displaced again.
* *Queries.* Entries with equal and with falling times in one chunk and across
  chunks, two users in one bucket, two of three resources in another, a ranking of
  two, odd
  timelines for the merge, ranges with either end first. `DEFAULT_END` is 2 and the
  last time 3, so the default leaves an entry out and a start may lie beyond it.

### Fairness

Only three runs state liveness. In the engine, `Progress` is weakly fair: from
its start to its menu the program is one thread that waits for nobody. Start, the
user's choices, kills and edits are not fair. In the two tables the steps of a
call that is under way are weakly fair, for the same reason; new calls are not.

## 4. What is proved

All theorems hold for every value of the constants that satisfies the named
assumptions of the modules. A capacity, threshold or chunk size is a positive
number (`CapacityAssumption`, `ThresholdAssumption`, `SizesAssumption`,
`ChunkSizeAssumption`). Times are integers, and entries are what the parser lets
into a log (`EntriesAssumption`: known types and locations, no negative times, ids
of the pool). A hash is a number, and so are fingerprints and first sizes of
tables (`HashAssumption`, `FingerprintsAssumption`, `BucketSizesAssumption`);
nothing says that they differ. `ContentsAssumption` and `LinesAssumption` give a
CSV and its lines their types. `SnapshotAssumption` does so for long names and
for the words of the checksum: the largest number has no more bits than a word,
and no line has an id too large for one.

What the code computes in a loop over data is a recursive function here. The
library's induction theorems cannot be cited, since they take an operator as a
parameter; `CommonLemmas` has the least-element principle instead, from
well-foundedness, and from that `LoopExists` and `RecursionExists`: the function
that a loop, or a recursion on smaller and smaller arguments, defines exists;
`LoopStays` and `UpTo`: what each turn keeps holds of the result.

### Ring buffers

`RingBufferImplementsWindow`. The inductive invariant is `IndInv`: head and count in
range, and head equal to count as long as the buffer is not full (so a prefix of
the array is filled). The refinement mapping reads the window from the slot of the
oldest event on. `OldestSlot` and `PushMovesWindow` show by cases (empty, not full,
full, wrapping) that a push drops the oldest and appends; `UniqueCountsValues`
shows that the code's count of first occurrences is the number of values, with a
bijection; `CommonLemmas!LeastExists` supplies the first occurrence of a value.
`TypeCorrect` and `NoGaps` come from the same invariant.

### The two tables

* `StringPool_proofs!PoolImplementsDictionary`: a table that grows while searches
  rely on its order is the dictionary. `Inv` has four parts. `IdInv`: each string
  has exactly one slot, in the table or, while it grows, in what is left of the
  old one. `ChainInv`: no free slot lies between the home of a string and its
  slot. `SearchInv`: a search has passed only occupied slots of other strings. So
  a search that meets a free slot has shown that the string is new, which is the
  step of the dictionary. `TypeCorrect` and `IdsStayFound` come from the same
  invariant.
* `DuplicateHashSet_proofs!TableImplementsSet`. With Robin Hood a search gives up
  before a free slot, at the first that is closer to its home than the search is.
  `ChainInv` says that each slot before that of a fingerprint holds one at least as
  far from home, `HandInv` the same of the fingerprint in hand, which may be one
  that was displaced and has to find its new place; `DistinctInv` that no
  fingerprint is in two of table, hand and old table; `RoomInv` that a slot is
  free. The fingerprint that is new and those displaced on its way go in without
  a change of the set. `TypeCorrect` and `OrderKept` come from the same invariant.

### The engine

* `IndexStaysLive`. `IndexIsLive` speaks of the menu only. `IndexInv` adds that the
  index is empty at every point of the boot before `BuildIndices`, and live from
  the re-indexing of a reload to the menu; only while a reload is under way, and
  after one that failed, do pointers dangle.
* `TypeCorrect`, `StoreHoldsOneVersion`, `JourneysAreExact`. The menu can only hold
  one version of the CSV if the file it was loaded from did. `StateInv` therefore
  says what a file may hold after any number of killed dumps, full disks and
  edits (`WellFormed`: a file as long as its header announces has the pool and
  rows of one version that was on disk), and at each program point what the store
  has of it. A journey is then exact because ids are positions in a pool without
  repetition, which a query's own interning only lengthens.
* `FreshSnapshots`. A snapshot is fresh by the size and time of the CSV alone.
  `FreshInv` adds that the metadata in a header belong to the version its rows are
  from, which holds from the parsing on if nothing edits the CSV until the header
  is written. So the theorem has two hypotheses, both necessary and both those of
  the run `engine`: an edit moves the clock on, and `Editable` has none of the
  points in `LoadedToDump`. The run `edit_before_dump` shows what happens without
  the second.

### The detector

* `TypeCorrect`. `TypeOK` is inductive; it bounds every window by its capacity and
  the count of rule 8 below its threshold.
* `ReportsOnce`. `ReportedOnce` is not inductive: nothing in it speaks of the flags
  that silence a rule. `OnceInv` adds `FlagInv`, that a recorded report has left
  its flag set. A flag blocks the rule (`FlagBlocks`), a report sets it
  (`FiringSetsFlag`), nothing resets it (`FlagStays`), and these three give the step.
* Eight rules with a window: `BruteForceIsExact`, `RapidSessionIsExact`,
  `DeviceHoppingIsExact`, `ResourceScanIsExact`, `MultiCountryIsExact`,
  `ExfiltrationIsExact`, `SharedDeviceIsExact`, `LateralMovementIsExact`. They share
  one argument. `WindowInv` says of every context and rule that its window holds
  the last entries of the log that enter it and came after the last report that
  clears it (`AllShow`), that the last entry and country are the log's
  (`AllRemember`), that a flag stands for a report (`AllFlagsReport`), and that the
  reports are those which are due by the history alone (`AllRaisedWhereDue`).
  `WindowsKept` shows it for a rule whatever its window, capacity and condition;
  a theorem per rule translates what it says back to the property's own words.
* Four rules with counters and sessions: `BruteForceSuccessIsExact`,
  `OpenSessionIsReportedOnce`, `DangerChainIsPerSession`, `DormantBurstIsExact`.
  `HistoryInv` says that the count of failures is the number of failures since the
  last success, that the session and its progress are those of the entries since
  the last login, and that the countdown of a woken account is what is left of its
  three events (`AllKeep`); then the reports are those due (`AllDue`).

### Queries

`QueriesImplementLog`: chunks, hash indices, merge sort, bisections and ranking
answer every query as the log does. `Inv` is inductive and short: `StoreInv`, every
chunk has the exact range of its entries and all but the last are full;
`IndexInv`, each index has well-formed chains, and is `IndexOver` the log while no
load is under way. Most of the proof is about what the loops compute.

* *Timelines.* `InOrder(log, P, s)` is what all of them come to: `s` has the entries
  at the positions `P` of the log, each once, in the order of time and, at equal
  times, of the log. `FilledCollects`: the loop of `buildIndices()` collects under
  each key its positions in the order of the log, whatever keys share a bucket
  (`NewNode`, `FoundNode`). `TakenDivides`: at every turn of `merge()` what it has
  copied is in order before all that is left. `MergeInOrder` and `SortedInOrder`:
  so the sort puts the collected positions `InOrder`, since ties are left first
  and the left half is the earlier part of the log.
* *Journeys.* `NarrowedBrackets`: a turn of the bisection keeps the answer between
  `lo` and `hi` and makes the range smaller; so it has ended after as many turns
  as there are entries (`BisectFinds`). `RowsAreAsked`: what the two bisections cut
  out is `InOrder` for the positions in range, whichever end is typed first or left
  empty (`EndsAreTimes`). `OnlyOneOrder`: there is only one such sequence, the one
  that EventLog defines by ranks.
* *Ranking.* `ScannedTallies`: after any number of chunks, those skipped included,
  the count table has one node per resource accessed in the range, with its exact
  count. `InsertedTop`: ten places that hold the best of some nodes hold the best
  of them and one more after `insertIntoTop10()`. `RankingIsRight`: the occupied
  places are a ranking as EventLog allows it.

`TypeCorrect`, `RangesExact`, `SkippingIsSafe` (a skipped chunk has no entry in the
range) and `TimelinesAreComplete` come from the same invariant. Nodes with
equal counts may stand in either order, so EventLog allows several rankings.

### Loader and snapshot

* `Snapshot_proofs!TypeCorrect`: no number leaves its 64 bits. `TakeDigitExact` shows
  that the guard in the loop of `parseInt64()` refuses a digit exactly when the
  number with it would be larger than `INT64_MAX`, and `ParseExact` that the loop's
  result is the decimal value or nothing. `TypeInv` adds what a damaged file
  can hold: one section that is another one, all others untouched (`AlteredInv`).
* `RowsAreExact` and `PoolIsExact`. `IngestsExactly` and `PoolsExactly` speak of the
  end of a load. `ExactInv` says how far it has come after each line: the gatekeeper
  has the fingerprints of the lines of data read so far, the `n`th entry of the
  store is the `n`th of the lines to keep, with ids that are in the pool, and the
  pool has the names of the lines kept and of no other. `RowStays` is why an
  entry's names are final: a pool only grows at its end. `WithEntryAppends` says
  that chunks of any size hold the entries in the order they came in.
* `SnapshotsRoundTrip`. `RoundTrip` speaks of the end of a load; `Inv` says how far it
  has come. `SavedInv` and `IngestInv`: the pool that is dumped has no repetition.
  `FileInv`: an unaltered file is the original or a proper prefix of it. `LoadInv`:
  the strings read so far are a prefix of the pool that was dumped, because
  interning a string that is not yet in the pool appends it (`WithNameKeeps`), so
  every id comes back; the chunks likewise. A load of the original can then only
  fail at a string that is too long, and one of a prefix runs out of sections
  before it has all that the header announces (`FileSections`).
* `AlterationIsCaught`: an entry altered in what the checksum covers is never loaded
  as if nothing had happened. A number is its bits (`BitsTell`), so an entry that
  differs mixes to another word (`MixedTells`, which needs that ids fit below the
  bits of the next id: `FitInv`, since four names per line bound the pool). A bit
  of the checksum is the parity of the entries that have it (`ParityOfBit`); one
  entry more or less turns it (`ParityTurns`, `OneEntryIsSeen`). `ChunksLoaded` says
  that what has been read are the first chunks of the altered file, and
  `EntriesOfReplaced` that one replaced chunk replaces one entry of the whole.

### Only model-checked

Liveness: `ReachesMenu`, `CallsReturn` and `LookupsReturn`. The prover can state no
fairness. All other properties of the passing runs are theorems. The five runs
that expect a violation show states that can be reached, which is TLC's part.

## 5. What the runs found

1. **Impossible travel and the United States** (`travel_from_us`). Rules 5 and 6
   skip a location that is 0, "LOC_INVALID (Unknown)", but 0 is `LOC_US` and
   `LOC_INVALID` is 255. Travel to or from the US is never reported.
2. **Long sessions** (`long_session_twice`). The LOGOUT branch applies rule 7
   whether or not a session is active, after the general check has already
   reported and closed it.
3. **Compromised devices** (`device_time`). The window of a device is filled user
   by user, not by time; `now - oldest` is negative when a later user logged in
   earlier, and passes for less than five minutes.
4. **Failed reload** (`failed_reload`). The store is emptied before the CSV is
   opened. If it cannot be opened the menu comes back with indices whose entries
   are freed. The next query interns a name as an id of the new pool and finds
   the freed timeline of another user.
5. **Stale snapshot** (`edit_before_dump`). `dump()` reads the metadata of the CSV
   after it was parsed; an edit in between makes a snapshot of old rows that is
   fresh for good.

Properties of the passing runs make room for these and no more: `IndexIsLive` and
`StoreIsOneVersion` except the state after a failed reload (`Emptied`), `engine`
lets the CSV change at all points except between its parsing and the header
(`Editable`), and `OpenSessionReportedOnce` speaks of reports of open sessions.

Other places where code and documents differ are stated exactly by properties
that hold, so a change of the code in either direction would show:

* *A repeated value hides different ones* (`DeviceHoppingExact`, `ResourceScanExact`,
  `ExfiltrationExact`, `SharedDeviceExact`, `LateralMovementExact`). Rules 2, 3, 12, 13
  and 14 ask for so many different values within some minutes, and their windows hold
  just as many entries: all of the last ones have to differ. Where the documents see
  a case and the code reports none:

  | Rule | The documents | Missed |
  |---|---|---|
  | 2 | 3 devices in 10 minutes (`BAO_CAO.md:35`, `phase2_action_plan.md:13`) | logins from A, B, B, C |
  | 3 | 10 resources of a device in 5 minutes (`BAO_CAO.md:37`, `phase2_action_plan.md:14`) | eleven accesses to ten resources, one of the last ten a repetition |
  | 12 | 5 resources downloaded at night in 10 minutes (`anomaly/AnomalyDetector.cpp:277-278`, `BAO_CAO.md:66`) | downloads of A, B, B, C, D, E |
  | 13 | 3 users on a device in 5 minutes (`anomaly/AnomalyDetector.cpp:309`, `BAO_CAO.md:67`, `:84`) | logins of users 1, 2, 2, 3 |
  | 14 | 4 apps in 2 minutes (`anomaly/AnomalyDetector.cpp:337`, `BAO_CAO.md:68`) | events in apps A, B, B, C, D |

  The run `timelines` reaches the case for each of the five, and there the properties
  demand that nothing is reported: a code that did as the documents say would break
  them. With three values asked for, the case is A, B, B, C for all of them.
* *Rule 6* (`MultiCountryExact`) fires only when ten changes of country fill its
  window; `anomaly/AnomalyRules.h:23`, `BAO_CAO.md:45` and `phase2_action_plan.md:17`
  speak of three countries.
* *Rule 3* (`ResourceScanExact`) takes resource id 0 for none, but 0 is the first
  string of the pool: the user of the first row, or its resource, as the compiler
  orders arguments.
* *Rule 11* (`DormantBurstExact`) asks for a silence of more than ten days, as does
  its algorithm in the plan (`>`); `BAO_CAO.md:60` says ten days or more.
* *The checksum* (`DamageCaught`) is "enough to detect corruption"
  (`storage/BinaryIO.cpp:47`) in users, devices, apps, resources and times. It does
  not cover types, locations, strings and chunk ranges. With a smaller chunk
  count in the header, chunks whose rows cancel out may be missing. A string
  altered into an earlier one shifts the ids of all that follow.
* *Duplicates* (`IngestsExactly`) are lines with one djb2 fingerprint, not equal
  lines as the comment at `storage/DataLoader.cpp:351` has it: "Ab" and "BA" in equal
  columns are one fingerprint, while a carriage return or a leading zero makes
  two rows of one event.
* *The header* is recognised before the gatekeeper, but could never validate: the
  check spares a fingerprint and changes no row.
* *An end left empty* (`ImplementsLog`) is offered as all data, but means
  2000000000 (May 2033). Later rows are left out, and a later start is exchanged
  with it, so that the answer lists what lies before the start.

## 6. What is not modelled

* Dates typed at the prompts: the conversion by `mktime` (31 February becomes a day
  in March, missing fields of a time, a date alone as end means its midnight). A
  typed time is a number here.
* The endless loop of the menu at the end of standard input: reads that fail are
  not among the user's choices.
* The bytes of a snapshot: alignment and padding, and lengths that were altered,
  since what is read then depends on bytes. `Alter` changes values.
* A CSV that is rewritten while it is mapped: the loader reads one version.
  `makeBinaryPath()` gives `data.csv` and `data.txt` one snapshot; there is one CSV
  here.
* Modification times have the resolution of a second in the code. `ClockAdvances`
  can let two versions share one; the runs do not use that, since a file of equal
  size and time passes for unchanged by design.
* 32-bit wrap of the tables' counters, allocation failure. `DynamicArray` is the
  sequence behind every model; its growth is a copy.
* Printing, export, colours, the self test, the project files and the generator
  of sample data: they keep no state that the program reads.

## 7. Plan

Done, in the order of importance: ring buffers and their proof, the detector with
each rule stated exactly, the engine with its snapshot, the two tables, storage
with indices and queries, the loader, and the snapshot section by section with the
proof that it comes back.

Also done: every invariant that a run checks is a theorem, and so are all four
refinements.

Next, to prove: lemmas that liveness rests on and that need no fairness. A probe of
the two tables, and a swap of the gatekeeper, lowers a number that bounds what is
left of a call; each point of the boot has one successor unless the program is
killed. The liveness itself stays with TLC.
