------------------------------- MODULE Chunks -------------------------------
(***************************************************************************)
(* storage/LogStore.h and core/LogChunk.h: the store appends entries to    *)
(* chunks of a fixed size, and a chunk knows the range of its timestamps.  *)
(***************************************************************************)
EXTENDS Integers, Sequences, SequencesExt

CONSTANT ChunkSize      \* DEFAULT_CHUNK_SIZE, 8192 entries

ASSUME ChunkSizeAssumption == ChunkSize \in Nat \ {0}

NewChunk(e) == [entries |-> <<e>>, minTimestamp |-> e.timestamp, maxTimestamp |-> e.timestamp]

(* Mutant of Appended: the range of the chunk is the one of its last entry *)
(* if that is later.                                                       *)
AppendedForward(chunk, e) ==
    [entries      |-> Append(chunk.entries, e),
     minTimestamp |-> IF e.timestamp < chunk.minTimestamp THEN e.timestamp
                      ELSE chunk.minTimestamp,
     maxTimestamp |-> e.timestamp]

Appended(chunk, e) ==
    [entries      |-> Append(chunk.entries, e),
     minTimestamp |-> IF e.timestamp < chunk.minTimestamp THEN e.timestamp
                      ELSE chunk.minTimestamp,
     maxTimestamp |-> IF e.timestamp > chunk.maxTimestamp THEN e.timestamp
                      ELSE chunk.maxTimestamp]

(* Mutant of HasSpace: the last entry of a chunk is never used. *)
HasSpaceForTwo(chunk) == Len(chunk.entries) + 1 < ChunkSize

HasSpace(chunk) == Len(chunk.entries) < ChunkSize

(* LogStore::insert() *)
WithEntry(chunks, e) ==
    IF chunks = << >> \/ ~HasSpace(Last(chunks))
    THEN Append(chunks, NewChunk(e))
    ELSE Front(chunks) \o <<Appended(Last(chunks), e)>>

EntriesOf(chunks) == FlattenSeq([i \in DOMAIN chunks |-> chunks[i].entries])
=============================================================================
