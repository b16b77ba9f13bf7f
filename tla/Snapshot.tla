------------------------------ MODULE Snapshot ------------------------------
(***************************************************************************)
(* storage/BinaryIO.cpp: dump() writes the store of Ingestion to a file,   *)
(* section by section, and load() reads it back in another run of the      *)
(* program.  In between the file may be cut short or altered.              *)
(*                                                                         *)
(* A section is the header with the string count, a string with its        *)
(* length, or a chunk with its metadata and entries: a file cut inside of  *)
(* a section fails where one cut before it does.  Lengths are not altered: *)
(* what is read then depends on bytes.  When a snapshot is fresh, and what *)
(* kills and full disks leave behind, is the matter of HaloEngine.         *)
(***************************************************************************)
EXTENDS Ingestion

CONSTANTS
    LongNames,      \* the names of 4096 bytes and more
    WordSize,       \* how many bits a number may have: 64
    Numbers         \* what a number in the file may be altered to

(* A number and what is left of it after each shift to the right. *)
Halved(n) ==
    LET half[b \in 0 .. WordSize] == IF b = 0 THEN n ELSE half[b - 1] \div 2
    IN  half

(* Times and ids fit the words that are summed up. *)
ASSUME SnapshotAssumption ==
    /\ WordSize \in Nat
    /\ Numbers \subseteq 0 .. INT64_MAX
    /\ \A n \in 0 .. INT64_MAX : Halved(n)[WordSize] = 0
    /\ 4 * MaxLines <= INT64_MAX

VARIABLES
    pc,             \* "ingest", "menu", "off", "load" or "failed"
    file,           \* the sections of the snapshot
    next,           \* the section load() reads next
    saved,          \* history: the store that was dumped
    damage          \* history: "none", "cut" or "altered"

snapshotVars == <<file, saved, damage>>
vars == <<ingestionVars, snapshotVars, pc, next>>
-----------------------------------------------------------------------------
(* The positions of the bits that are set in a number; XOR is the          *)
(* symmetric difference of such sets.                                      *)
Bits(n) == {b \in 0 .. WordSize - 1 : Halved(n)[b] % 2 = 1}

Shifted(bits, by) == {b + by : b \in bits}

Xor(a, b) == (a \ b) \cup (b \ a)

(* What one entry contributes: type and location are not in it. *)
Mixed(e) ==
    Xor(Xor(Xor(Bits(e.timestamp), Bits(e.userId)), Bits(e.deviceId)),
        Xor(Shifted(Bits(e.appId), 16), Shifted(Bits(e.resourceId), 32)))

(* A bit of the XOR of many words is the parity of the words that have it. *)
Parity(words) ==
    {b \in UNION {words[i] : i \in DOMAIN words} :
        Cardinality({i \in DOMAIN words : b \in words[i]}) % 2 = 1}

ComputeChecksum(stored) ==
    LET entries == EntriesOf(stored)
    IN  Parity([i \in DOMAIN entries |-> Mixed(entries[i])])

Header(strings, stored) ==
    [magic        |-> "HALO",
     version      |-> 1,
     totalEntries |-> Len(EntriesOf(stored)),
     chunkCount   |-> Len(stored),
     stringCount  |-> Len(strings),
     sectionCount |-> Len(strings),
     checksum     |-> ComputeChecksum(stored)]

Image(strings, stored) == <<Header(strings, stored)>> \o strings \o stored

(* dump(): the file is complete when the program goes on. *)
Dump ==
    /\ pc = "ingest"
    /\ file' = Image(pool, chunks)
    /\ saved' = [pool |-> pool, chunks |-> chunks]
    /\ damage' = "none"
    /\ lines' = << >> /\ gatekeeper' = {}
    /\ pc' = "menu"
    /\ UNCHANGED <<argumentOrder, firstLine, store, next>>

Exit ==
    /\ pc = "menu"
    /\ pool' = << >> /\ chunks' = << >>
    /\ pc' = "off"
    /\ UNCHANGED <<argumentOrder, lines, firstLine, gatekeeper, snapshotVars, next>>
-----------------------------------------------------------------------------
MayBeDamaged == pc = "off" /\ damage = "none"

Damaged(kind, newFile) ==
    /\ file' = newFile
    /\ damage' = kind
    /\ UNCHANGED <<ingestionVars, saved, pc, next>>

(* The end of the file is lost. *)
Cut ==
    /\ MayBeDamaged
    /\ \E n \in 0 .. Len(file) - 1 : Damaged("cut", SubSeq(file, 1, n))

StringSections == 2 .. 1 + Len(saved.pool)

OtherHeaders(header) ==
    {[header EXCEPT !.magic = "OTHER"], [header EXCEPT !.checksum = Xor(@, {0})]}
        \cup {[header EXCEPT ![field] = n] :
                 field \in {"version", "totalEntries", "chunkCount", "stringCount",
                            "sectionCount"}, n \in Numbers}

(* Strings of the same length: the long ones are told apart by it. *)
OtherStrings(name) == IF name \in LongNames THEN {} ELSE ToSet(saved.pool) \ LongNames

OtherRanges(chunk) ==
    {[chunk EXCEPT ![field] = n] : field \in {"minTimestamp", "maxTimestamp"}, n \in Numbers}

OtherEntries(chunk) ==
    {[chunk EXCEPT !.entries[j][field] = n] :
        j \in DOMAIN chunk.entries, n \in Numbers,
        field \in {"userId", "deviceId", "appId", "resourceId", "eventType", "location",
                   "timestamp"}}

(* What section i of a file may become. *)
OtherSections(i, section) ==
    IF i = 1 THEN OtherHeaders(section)
    ELSE IF i \in StringSections THEN OtherStrings(section)
    ELSE OtherRanges(section) \cup OtherEntries(section)

(* One value in the file becomes another. *)
Alter ==
    /\ MayBeDamaged
    /\ \E i \in DOMAIN file : \E section \in OtherSections(i, file[i]) :
          /\ section # file[i]
          /\ Damaged("altered", [file EXCEPT ![i] = section])
-----------------------------------------------------------------------------
(* The next run of the program loads the snapshot into an empty store. *)
LoadHeader ==
    /\ pc = "off"
    /\ IF /\ file # << >>
          /\ file[1].magic = "HALO"
          /\ file[1].version = 1
          /\ file[1].sectionCount = file[1].stringCount
       THEN pc' = "load" /\ next' = 2
       ELSE pc' = "failed" /\ UNCHANGED next
    /\ UNCHANGED <<ingestionVars, snapshotVars>>

StringsLeft == next < 2 + file[1].stringCount
ChunksLeft == ~StringsLeft /\ next < 2 + file[1].stringCount + file[1].chunkCount

ReadFails ==
    /\ pc' = "failed"
    /\ UNCHANGED <<ingestionVars, snapshotVars, next>>

(* The strings are interned anew, and expected to get the ids they had. *)
LoadString ==
    /\ pc = "load" /\ StringsLeft
    /\ IF next <= Len(file) /\ file[next] \notin LongNames
       THEN /\ pool' = WithName(pool, file[next])
            /\ next' = next + 1
            /\ UNCHANGED <<argumentOrder, lines, firstLine, gatekeeper, chunks,
                           snapshotVars, pc>>
       ELSE ReadFails

(* Mutant of AddLoadedChunk: setTimestampRange() forgotten. *)
AddChunkWithoutRange(chunk) ==
    chunks' = Append(chunks, [chunk EXCEPT !.minTimestamp = INT64_MAX,
                                           !.maxTimestamp = -INT64_MAX - 1])

(* The chunk keeps the range that was dumped. *)
AddLoadedChunk(chunk) == chunks' = Append(chunks, chunk)

LoadChunk ==
    /\ pc = "load" /\ ChunksLeft
    /\ IF next <= Len(file)
       THEN /\ AddLoadedChunk(file[next])
            /\ next' = next + 1
            /\ UNCHANGED <<argumentOrder, lines, firstLine, gatekeeper, pool,
                           snapshotVars, pc>>
       ELSE ReadFails

(* Mutant of VerifyChecksum: what was read is not summed up. *)
VerifyNothing ==
    /\ pc = "load" /\ ~StringsLeft /\ ~ChunksLeft
    /\ pc' = "menu"
    /\ UNCHANGED <<ingestionVars, snapshotVars, next>>

VerifyChecksum ==
    /\ pc = "load" /\ ~StringsLeft /\ ~ChunksLeft
    /\ pc' = IF ComputeChecksum(chunks) = file[1].checksum THEN "menu" ELSE "failed"
    /\ UNCHANGED <<ingestionVars, snapshotVars, next>>

(* The store is reset and the CSV loaded, since the snapshot failed or the *)
(* user asks for it.  The file is forgotten here: dump() will replace it.  *)
LoadCsv ==
    /\ pc \in {"menu", "failed"}
    /\ pc' = "ingest"
    /\ lines' = << >> /\ firstLine' = TRUE /\ gatekeeper' = {}
    /\ pool' = << >> /\ chunks' = << >>
    /\ file' = << >> /\ damage' = "none"
    /\ saved' = [pool |-> << >>, chunks |-> << >>]
    /\ next' = 1
    /\ UNCHANGED argumentOrder
-----------------------------------------------------------------------------
Init ==
    /\ InitIngestion
    /\ pc = "ingest"
    /\ file = << >> /\ next = 1 /\ damage = "none"
    /\ saved = [pool |-> << >>, chunks |-> << >>]

Ingest(line) ==
    /\ pc = "ingest"
    /\ ProcessLine(line)
    /\ UNCHANGED <<snapshotVars, pc, next>>

Load == LoadHeader \/ LoadString \/ LoadChunk \/ VerifyChecksum

Next ==
    \/ \E line \in Lines : Ingest(line)
    \/ Dump \/ Exit
    \/ Cut \/ Alter
    \/ Load
    \/ LoadCsv

Spec == Init /\ [][Next]_vars
-----------------------------------------------------------------------------
Entry ==
    [userId : Nat, deviceId : Nat, appId : Nat, resourceId : Nat,
     eventType : Nat, location : Nat, timestamp : 0 .. INT64_MAX]

(* The store holds entries whose times fit 64 bits, also one that was      *)
(* loaded from a damaged file; the other variables have their types.       *)
TypeOK ==
    /\ argumentOrder \in ArgumentOrders
    /\ lines \in Seq(Lines)
    /\ firstLine \in BOOLEAN
    /\ gatekeeper \subseteq {Fingerprint[line] : line \in Lines}
    /\ pool \in Seq(STRING)
    /\ chunks \in Seq([entries : Seq(Entry), minTimestamp : Int, maxTimestamp : Int])
    /\ pc \in {"ingest", "menu", "off", "load", "failed"}
    /\ next \in Nat \ {0}
    /\ damage \in {"none", "cut", "altered"}

Whole(names) == ToSet(names) \cap LongNames = {}

(* A snapshot that nobody touched brings back the store that was dumped,   *)
(* the same ids, chunks and ranges, unless a string in it is too long; one *)
(* that was cut short is never served.                                     *)
RoundTrip ==
    /\ pc = "menu" /\ damage = "none" => store = <<saved.pool, saved.chunks>>
    /\ pc = "failed" /\ damage = "none" => ~Whole(saved.pool)
    /\ pc = "menu" => damage # "cut"

Summed(e) == <<e.userId, e.deviceId, e.appId, e.resourceId, e.timestamp>>

SummedRows(stored) ==
    LET entries == EntriesOf(stored) IN [i \in DOMAIN entries |-> Summed(entries[i])]

(* Whatever value of the file is altered, no row is served with another    *)
(* user, device, app, resource or time than the one that was dumped.       *)
(* Types, locations, strings and ranges may be others, and whole chunks    *)
(* may be missing if their rows cancel out.                                *)
DamageCaught ==
    pc = "menu" => IsPrefix(SummedRows(chunks), SummedRows(saved.chunks))

(* What is said of a load of the CSV holds while it is going on.           *)
IngestsExactly == pc = "ingest" => RowsExact
PoolsExactly == pc = "ingest" => PoolExact
=============================================================================
