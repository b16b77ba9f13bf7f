----------------------------- MODULE HaloEngine -----------------------------
(***************************************************************************)
(* main.cpp with storage/BinaryIO.cpp: the program boots from a binary     *)
(* snapshot of the CSV file or from the CSV itself, builds its indices,    *)
(* and then serves a menu from which the CSV can be loaded again.  Other   *)
(* programs edit and delete the CSV meanwhile, the disk fills up and the   *)
(* program is killed.                                                      *)
(*                                                                         *)
(* A line of the CSV is the name of its user: the other columns are        *)
(* interned and stored in the same way.  The store holds the id of each    *)
(* row's user; every chunk of the snapshot holds one row.  Parsing,        *)
(* duplicates and the checksum are left to other modules: a snapshot file  *)
(* is cut short here, and never altered.                                   *)
(***************************************************************************)
EXTENDS Interning

CONSTANTS
    Contents,       \* what the CSV may hold: sequences of names
    Missing,        \* a CSV that does not exist
    LongNames,      \* the names of 4096 bytes and more
    Editable,       \* the program points at which the CSV may change
    ClockAdvances,  \* whether two versions never share a modification time
    MaxEdits,       \* bound on the changes of the CSV
    MaxReloads      \* bound on the reloads of one run of the program

ASSUME ContentsAssumption ==
    /\ << >> \in Contents /\ Contents \subseteq Seq(STRING)
    /\ MaxEdits \in Nat /\ MaxReloads \in Nat

VARIABLES
    csv,            \* the CSV file, or Missing
    lastModified,   \* when the CSV last changed, in seconds
    edits,          \* the number of changes so far
    versions,       \* history: every content the CSV has had
    bin,            \* the sections of the snapshot file; none if it does not exist
    pc,             \* the point the program has reached, "off" if not running
    pool,           \* the strings of the pool: the string of id i is pool[i + 1]
    rows,           \* the user ids of the rows of the store
    gen,            \* how often the memory of the store has been released
    index,          \* the pointers held by the indices
    defaultUser,    \* the user a query asks for if none is typed
    image,          \* the file dump() is writing
    afterDump       \* where main continues after dump()

disk == <<csv, lastModified, edits, versions, bin>>
store == <<pool, rows, gen>>
vars == <<disk, store, pc, index, defaultUser, image, afterDump>>

Names == UNION {ToSet(c) : c \in Contents}

Ids(strings, names) == [i \in DOMAIN names |-> IdOf(strings, names[i])]

Decoded(strings, ids) == [i \in DOMAIN ids |-> NameOf(strings, ids[i])]
-----------------------------------------------------------------------------
(* getFileMetadata(): a file that cannot be read leaves zeros. *)
Metadata == IF csv = Missing THEN [size |-> 0, mtime |-> 0]
            ELSE [size |-> Len(csv.content), mtime |-> csv.mtime]

(* The file dump() writes: a header, the strings, then the chunks. *)
Image ==
    <<[meta |-> Metadata, chunks |-> Len(rows)], [strings |-> pool]>>
        \o [i \in DOMAIN rows |-> [row |-> rows[i]]]

(* Mutant of IsValid: the modification time not compared. *)
IsValidBySize ==
    /\ bin # << >>
    /\ csv # Missing
    /\ bin[1].meta.size = Metadata.size

(* BinaryIO::isValid() *)
IsValid ==
    /\ bin # << >>
    /\ csv # Missing
    /\ bin[1].meta = Metadata

(* BinaryIO::load() reads up to the first string that does not fit its     *)
(* buffer, or to the end of a file that was cut short.                     *)
FitsBuffer(strings) == ToSet(strings) \cap LongNames = {}

ReadableStrings ==
    IF Len(bin) < 2 THEN << >>
    ELSE CHOOSE p \in Prefixes(bin[2].strings) :
            /\ FitsBuffer(p)
            /\ \A q \in Prefixes(bin[2].strings) : FitsBuffer(q) => Len(q) <= Len(p)

ReadableRows ==
    IF Len(bin) >= 2 /\ FitsBuffer(bin[2].strings)
    THEN [i \in 1 .. Len(bin) - 2 |-> bin[i + 2].row]
    ELSE << >>

Loadable ==
    /\ Len(bin) >= 2
    /\ FitsBuffer(bin[2].strings)
    /\ Len(bin) = 2 + bin[1].chunks
-----------------------------------------------------------------------------
Init ==
    /\ \E content \in Contents :
          /\ csv = [content |-> content, mtime |-> 0]
          /\ versions = {content}
    /\ lastModified = 0
    /\ edits = 0
    /\ bin = << >>
    /\ pc = "off"
    /\ pool = << >> /\ rows = << >> /\ gen = 0
    /\ index = {}
    /\ defaultUser = NoName
    /\ image = << >>
    /\ afterDump = "index"

(* main() starts: an empty store and empty indices. *)
Start ==
    /\ pc = "off"
    /\ pc' = "boot"
    /\ pool' = << >> /\ rows' = << >> /\ gen' = 0
    /\ index' = {}
    /\ defaultUser' = NoName
    /\ image' = << >>
    /\ afterDump' = "index"
    /\ UNCHANGED disk

CheckSnapshot ==
    /\ pc = "boot"
    /\ pc' = IF IsValid THEN "loadBinary" ELSE "loadCsv"
    /\ UNCHANGED <<disk, store, index, defaultUser, image, afterDump>>

(* A load that fails leaves in the store what it has read so far. *)
LoadBinary ==
    /\ pc = "loadBinary"
    /\ pool' = Interned(pool, ReadableStrings)
    /\ rows' = rows \o ReadableRows
    /\ pc' = IF Loadable THEN "index" ELSE "fallback"
    /\ UNCHANGED <<disk, gen, index, defaultUser, image, afterDump>>

(* Mutant of ResetStore: the pool renewed, the chunks kept. *)
ResetPool ==
    /\ pool' = << >>
    /\ gen' = gen + 1
    /\ UNCHANGED rows

(* LogStore::reset() frees every chunk and makes a new pool. *)
ResetStore ==
    /\ pool' = << >>
    /\ rows' = << >>
    /\ gen' = gen + 1

(* Mutant of Fallback: what the failed load left behind stays. *)
FallbackKeepingStore ==
    /\ pc = "fallback"
    /\ pc' = "loadCsv"
    /\ UNCHANGED <<disk, store, index, defaultUser, image, afterDump>>

(* Mutant of Fallback: the snapshot is tried again. *)
FallbackRetries ==
    /\ pc = "fallback"
    /\ pool' = << >> /\ rows' = << >>
    /\ pc' = "boot"
    /\ UNCHANGED <<disk, gen, index, defaultUser, image, afterDump>>

Fallback ==
    /\ pc = "fallback"
    /\ ResetStore
    /\ pc' = "loadCsv"
    /\ UNCHANGED <<disk, index, defaultUser, image, afterDump>>

(* DataLoader::load() fails before it has stored anything, or stores every *)
(* row, in order.                                                          *)
ReadCsv ==
    /\ csv # Missing
    /\ pool' = Interned(pool, csv.content)
    /\ rows' = rows \o Ids(pool', csv.content)

(* A boot that can read neither file ends the program. *)
LoadCsv ==
    /\ pc = "loadCsv"
    /\ \/ /\ ReadCsv
          /\ pc' = "dumpOpen"
       \/ /\ csv = Missing
          /\ pc' = "off"
          /\ UNCHANGED <<pool, rows>>
    /\ afterDump' = "index"
    /\ UNCHANGED <<disk, gen, index, defaultUser, image>>
-----------------------------------------------------------------------------
(* dump() truncates the file first, if it can be opened at all. *)
DumpOpen ==
    /\ pc = "dumpOpen"
    /\ \/ /\ bin' = << >>
          /\ pc' = "dumpHeader"
       \/ /\ pc' = afterDump
          /\ UNCHANGED bin
    /\ UNCHANGED <<csv, lastModified, edits, versions, store, index, defaultUser,
                   image, afterDump>>

(* The metadata of the CSV is read now, and not when the CSV was loaded.   *)
(* The one write whose result is looked at is the header's.                *)
DumpHeader ==
    /\ pc = "dumpHeader"
    /\ \/ /\ image' = Image
          /\ pc' = "dumpBody"
       \/ /\ pc' = afterDump
          /\ UNCHANGED image
    /\ UNCHANGED <<disk, store, index, defaultUser, afterDump>>

(* No other write is looked at: on a full disk the file stays cut short,   *)
(* and dump() says it has been saved.                                      *)
DumpBody ==
    /\ pc = "dumpBody"
    /\ bin' \in Prefixes(image)
    /\ pc' = afterDump
    /\ UNCHANGED <<csv, lastModified, edits, versions, store, index, defaultUser,
                   image, afterDump>>
-----------------------------------------------------------------------------
(* buildIndices() adds a pointer for every row of the store. *)
Pointers(id) == [id : {id}, gen : {gen}, row : {r \in DOMAIN rows : rows[r] = id}]

AllPointers == UNION {Pointers(id) : id \in ToSet(rows)}

(* The defaults are those of the first row, or stay as they are. *)
UpdateDefaults ==
    defaultUser' = IF rows = << >> THEN defaultUser ELSE NameOf(pool, rows[1])

BuildIndices ==
    /\ pc = "index"
    /\ UpdateDefaults
    /\ index' = index \cup AllPointers
    /\ pc' = "menu"
    /\ UNCHANGED <<disk, store, image, afterDump>>

(* A journey query interns the name typed, or the default, whether or not  *)
(* it occurs in the log, and looks its id up in the index.                 *)
Query(name) ==
    /\ pc = "menu"
    /\ pool' = Interned(pool, <<name>>)
    /\ UNCHANGED <<disk, rows, gen, pc, index, defaultUser, image, afterDump>>

(* The store is emptied before the CSV is looked at. *)
ForceReload ==
    /\ pc = "menu"
    /\ gen < MaxReloads
    /\ ResetStore
    /\ pc' = "reload"
    /\ UNCHANGED <<disk, index, defaultUser, image, afterDump>>

(* A reload that cannot read the CSV goes back to the menu. *)
Reload ==
    /\ pc = "reload"
    /\ \/ /\ ReadCsv
          /\ pc' = "reindex"
       \/ /\ csv = Missing
          /\ pc' = "menu"
          /\ UNCHANGED <<pool, rows>>
    /\ UNCHANGED <<disk, gen, index, defaultUser, image, afterDump>>

(* Mutant of Reindex: engine.reset() forgotten. *)
ReindexKeepingIndex ==
    /\ pc = "reindex"
    /\ UpdateDefaults
    /\ index' = index \cup AllPointers
    /\ afterDump' = "menu"
    /\ pc' = "dumpOpen"
    /\ UNCHANGED <<disk, store, image>>

Reindex ==
    /\ pc = "reindex"
    /\ UpdateDefaults
    /\ index' = AllPointers
    /\ afterDump' = "menu"
    /\ pc' = "dumpOpen"
    /\ UNCHANGED <<disk, store, image>>

Exit ==
    /\ pc = "menu"
    /\ pc' = "off"
    /\ UNCHANGED <<disk, store, index, defaultUser, image, afterDump>>

(* The program is killed.  What dump() has written so far may or may not   *)
(* have left its buffer.                                                   *)
Crash ==
    /\ pc # "off"
    /\ pc' = "off"
    /\ IF pc = "dumpBody" THEN bin' \in Prefixes(image) ELSE UNCHANGED bin
    /\ UNCHANGED <<csv, lastModified, edits, versions, store, index, defaultUser,
                   image, afterDump>>
-----------------------------------------------------------------------------
(* Another program rewrites or deletes the CSV.  Modification times have a *)
(* resolution of one second.                                               *)
CsvMayChange == pc \in Editable /\ edits < MaxEdits

Edit(content) ==
    /\ CsvMayChange
    /\ edits' = edits + 1
    /\ lastModified' \in (IF ClockAdvances THEN {} ELSE {lastModified})
                            \cup {lastModified + 1}
    /\ csv' = [content |-> content, mtime |-> lastModified']
    /\ versions' = versions \cup {content}
    /\ UNCHANGED <<bin, store, pc, index, defaultUser, image, afterDump>>

Delete ==
    /\ CsvMayChange
    /\ edits' = edits + 1
    /\ csv' = Missing
    /\ UNCHANGED <<lastModified, versions, bin, store, pc, index, defaultUser,
                   image, afterDump>>

Boot == Start \/ CheckSnapshot \/ LoadBinary \/ Fallback \/ LoadCsv \/ BuildIndices
Dump == DumpOpen \/ DumpHeader \/ DumpBody
Menu == ForceReload \/ Reload \/ Reindex \/ Exit

Next ==
    \/ Boot
    \/ Dump
    \/ Menu
    \/ \E name \in Names \cup {defaultUser} : Query(name)
    \/ Crash
    \/ \E content \in Contents : Edit(content)
    \/ Delete

Spec == Init /\ [][Next]_vars

(* The program runs on its own from its start to the menu: only the menu   *)
(* waits for its user.                                                     *)
Progress ==
    CheckSnapshot \/ LoadBinary \/ Fallback \/ LoadCsv \/ BuildIndices \/ Dump
        \/ Reload \/ Reindex

FairSpec == Spec /\ WF_vars(Progress)
=============================================================================
