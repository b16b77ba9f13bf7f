--------------------------- MODULE Snapshot_proofs ---------------------------
(***************************************************************************)
(* Proofs about Ingestion and Snapshot for every CSV, chunk size, word     *)
(* size and order of arguments.  Inv and TypeInv are inductive: a snapshot *)
(* that nobody touched brings back the store it was made from, and one     *)
(* that was cut short is never served.  With them ExactInv is: a load of   *)
(* the CSV stores exactly the lines to keep.  With all three CaughtInv is: *)
(* one altered value never changes a row that is served.                   *)
(***************************************************************************)
EXTENDS Snapshot, CommonLemmas, SequenceTheorems

(* What an entry looks like does not matter: a sequence is a sequence of   *)
(* its own elements.                                                       *)
IsSeq(s) == s \in Seq(ToSet(s))

(* No string has two ids. *)
Distinct(s) == \A i, j \in 1 .. Len(s) : s[i] = s[j] => i = j

(* While a CSV is loaded. *)
IngestInv ==
    pc = "ingest" => IsSeq(pool) /\ Distinct(pool) /\ IsSeq(chunks)

SavedInv == IsSeq(saved.pool) /\ Distinct(saved.pool) /\ IsSeq(saved.chunks)

Original == Image(saved.pool, saved.chunks)

(* The file is what was dumped, or a part of it, unless it was altered. *)
FileInv ==
    pc # "ingest" =>
        /\ damage = "none" => file = Original
        /\ damage = "cut" => \E n \in 0 .. Len(Original) - 1 : file = SubSeq(Original, 1, n)

(* The program starts with an empty store. *)
OffInv == pc = "off" => pool = << >> /\ chunks = << >>

(* load() has brought back the sections before the next one. *)
StringsRead ==
    /\ next - 2 <= Len(saved.pool)
    /\ pool = SubSeq(saved.pool, 1, next - 2)
    /\ chunks = << >>

ChunksRead ==
    /\ next - 2 >= Len(saved.pool)
    /\ pool = saved.pool
    /\ chunks = SubSeq(saved.chunks, 1, next - 2 - Len(saved.pool))

LoadInv ==
    pc = "load" /\ damage \in {"none", "cut"} =>
        /\ next \in 2 .. Len(file) + 1
        /\ StringsRead \/ ChunksRead

Inv == IngestInv /\ SavedInv /\ FileInv /\ OffInv /\ LoadInv /\ RoundTrip
-----------------------------------------------------------------------------
LEMMA SeqOfElements ==
    ASSUME NEW S, NEW s \in Seq(S)
    PROVE  IsSeq(s)
<1>1. DOMAIN s = 1 .. Len(s) /\ Len(s) \in Nat /\ s \in [1 .. Len(s) -> S]
  BY LenProperties
<1>2. s \in [1 .. Len(s) -> ToSet(s)]
  BY <1>1 DEF ToSet
<1>3. s \in UNION {[1 .. n -> ToSet(s)] : n \in Nat}
  BY <1>1, <1>2, Zenon
<1> QED
  BY <1>3, SeqDef, Zenon DEF IsSeq

LEMMA EmptyIsSeq == IsSeq(<< >>) /\ Distinct(<< >>)
<1>1. ToSet(<< >>) = {} /\ Len(<< >>) = 0
  BY DEF ToSet
<1> QED
  BY <1>1 DEF IsSeq, Distinct

LEMMA OneMore ==
    ASSUME NEW s, IsSeq(s), NEW x
    PROVE  /\ IsSeq(Append(s, x))
           /\ Len(s) \in Nat
           /\ Len(Append(s, x)) = Len(s) + 1
           /\ Append(s, x)[Len(s) + 1] = x
           /\ \A i \in 1 .. Len(s) : Append(s, x)[i] = s[i]
<1>1. PICK S : s \in Seq(S) /\ x \in S
  <2>1. s \in Seq(ToSet(s) \cup {x})
    BY SeqMonotonic DEF IsSeq
  <2> QED
    BY <2>1, Zenon
<1>2. Append(s, x) \in Seq(S)
  BY <1>1
<1>3. IsSeq(Append(s, x))
  BY <1>2, SeqOfElements
<1> QED
  BY <1>1, <1>3

(* Interning a name keeps the strings apart. *)
LEMMA WithNameKeeps ==
    ASSUME NEW s, IsSeq(s), Distinct(s), NEW name
    PROVE  IsSeq(WithName(s, name)) /\ Distinct(WithName(s, name))
<1>1. CASE Contains(s, name)
  BY <1>1 DEF WithName
<1>2. CASE ~Contains(s, name)
  <2>1. WithName(s, name) = Append(s, name)
    BY <1>2 DEF WithName
  <2>2. \A i \in 1 .. Len(s) : s[i] # name
    BY <1>2 DEF Contains
  <2> QED
    BY <2>1, <2>2, OneMore DEF Distinct
<1> QED
  BY <1>1, <1>2

LEMMA PoolWithKeeps ==
    ASSUME IsSeq(pool), Distinct(pool), NEW names
    PROVE  IsSeq(PoolWith(names)) /\ Distinct(PoolWith(names))
<1> DEFINE one == WithName(pool, names[1])
           two == WithName(one, names[2])
           three == WithName(two, names[3])
<1>1. IsSeq(one) /\ Distinct(one)
  BY WithNameKeeps
<1> HIDE DEF one
<1>2. IsSeq(two) /\ Distinct(two)
  BY <1>1, WithNameKeeps
<1> HIDE DEF two
<1>3. IsSeq(three) /\ Distinct(three)
  BY <1>2, WithNameKeeps
<1> HIDE DEF three
<1>4. IsSeq(WithName(three, names[4])) /\ Distinct(WithName(three, names[4]))
  BY <1>3, WithNameKeeps
<1> QED
  BY <1>4 DEF PoolWith, one, two, three

LEMMA WithEntryIsSeq ==
    ASSUME NEW stored, IsSeq(stored), NEW e
    PROVE  IsSeq(WithEntry(stored, e))
<1>1. CASE stored = << >> \/ ~HasSpace(Last(stored))
  BY <1>1, OneMore DEF WithEntry
<1>2. CASE ~(stored = << >> \/ ~HasSpace(Last(stored)))
  <2> DEFINE last == Appended(Last(stored), e)
             S == ToSet(stored) \cup {last}
  <2>1. WithEntry(stored, e) = Front(stored) \o <<last>>
    BY <1>2 DEF WithEntry
  <2> HIDE DEF last
  <2>2. stored \in Seq(ToSet(stored))
    BY DEF IsSeq
  <2>3. Front(stored) \in Seq(ToSet(stored))
    <3>1. Len(stored) \in Nat /\ \A i \in 1 .. Len(stored) - 1 : stored[i] \in ToSet(stored)
      BY <2>2, ElementOfSeq
    <3> QED
      BY <3>1, SubSeqProperties DEF Front
  <2>4. Front(stored) \in Seq(S) /\ <<last>> \in Seq(S)
    BY <2>3, SeqMonotonic
  <2>5. Front(stored) \o <<last>> \in Seq(S)
    BY <2>4, ConcatProperties
  <2> QED
    BY <2>1, <2>5, SeqOfElements
<1> QED
  BY <1>1, <1>2

(* The first n elements, and the next one. *)
LEMMA PrefixProperties ==
    ASSUME NEW s, IsSeq(s), NEW n \in 0 .. Len(s)
    PROVE  /\ IsSeq(SubSeq(s, 1, n))
           /\ Len(SubSeq(s, 1, n)) = n
           /\ \A i \in 1 .. n : SubSeq(s, 1, n)[i] = s[i]
<1>1. Len(s) \in Nat /\ \A i \in 1 .. n : s[i] \in ToSet(s)
  BY ElementOfSeq DEF IsSeq
<1>2. /\ SubSeq(s, 1, n) \in Seq(ToSet(s))
      /\ Len(SubSeq(s, 1, n)) = IF 1 <= n THEN n - 1 + 1 ELSE 0
      /\ \A i \in 1 .. n - 1 + 1 : SubSeq(s, 1, n)[i] = s[1 + i - 1]
  BY <1>1, SubSeqProperties
<1>3. IsSeq(SubSeq(s, 1, n))
  BY <1>2, SeqOfElements
<1>4. n - 1 + 1 = n /\ \A i \in 1 .. n : 1 + i - 1 = i
  BY <1>1
<1> QED
  BY <1>1, <1>2, <1>3, <1>4

LEMMA PrefixGrows ==
    ASSUME NEW s, IsSeq(s), NEW n \in 0 .. Len(s) - 1
    PROVE  Append(SubSeq(s, 1, n), s[n + 1]) = SubSeq(s, 1, n + 1)
<1> DEFINE S == ToSet(s)
           l == Append(SubSeq(s, 1, n), s[n + 1])
           r == SubSeq(s, 1, n + 1)
<1>1. /\ s \in Seq(S) /\ Len(s) \in Nat
      /\ \A i \in 1 .. Len(s) : s[i] \in S
  BY ElementOfSeq DEF IsSeq
<1>2. /\ SubSeq(s, 1, n) \in Seq(S) /\ r \in Seq(S)
      /\ Len(SubSeq(s, 1, n)) = n /\ Len(r) = n + 1
      /\ \A i \in 1 .. n : SubSeq(s, 1, n)[i] = s[i]
      /\ \A i \in 1 .. n + 1 : r[i] = s[i]
  BY <1>1, SubSeqProperties, PrefixProperties
<1>3. s[n + 1] \in S
  BY <1>1
<1> HIDE DEF S, r
<1>4. /\ l \in Seq(S) /\ Len(l) = n + 1
      /\ l[n + 1] = s[n + 1]
      /\ \A i \in 1 .. n : l[i] = s[i]
  BY <1>2, <1>3
<1>5. \A i \in 1 .. n + 1 : l[i] = r[i]
  BY <1>2, <1>4
<1> HIDE DEF l
<1>6. l = r
  BY <1>2, <1>4, <1>5, SeqEqual
<1> QED
  BY <1>6 DEF l, r

(* The sections of a file in their order. *)
LEMMA ImageSections ==
    ASSUME NEW strings, IsSeq(strings), NEW stored, IsSeq(stored)
    PROVE  /\ IsSeq(Image(strings, stored))
           /\ Len(strings) \in Nat /\ Len(stored) \in Nat
           /\ Len(Image(strings, stored)) = 1 + Len(strings) + Len(stored)
           /\ Image(strings, stored)[1] = Header(strings, stored)
           /\ \A i \in 1 .. Len(strings) : Image(strings, stored)[i + 1] = strings[i]
           /\ \A i \in 1 .. Len(stored) :
                 Image(strings, stored)[i + 1 + Len(strings)] = stored[i]
<1> DEFINE h == Header(strings, stored)
           S == ToSet(strings) \cup ToSet(stored) \cup {h}
           front == <<h>> \o strings
<1>1. strings \in Seq(S) /\ stored \in Seq(S) /\ h \in S
  BY SeqMonotonic DEF IsSeq
<1>2. Len(strings) \in Nat /\ Len(stored) \in Nat
  BY <1>1, LenProperties
<1> HIDE DEF S, h
<1>3. <<h>> \in Seq(S) /\ Len(<<h>>) = 1 /\ <<h>>[1] = h
  BY <1>1
<1>4. /\ front \in Seq(S)
      /\ Len(front) = 1 + Len(strings)
      /\ \A i \in 1 .. 1 + Len(strings) :
            front[i] = IF i <= 1 THEN <<h>>[i] ELSE strings[i - 1]
  BY <1>1, <1>3, ConcatProperties
<1> HIDE DEF front
<1>5. /\ front \o stored \in Seq(S)
      /\ Len(front \o stored) = Len(front) + Len(stored)
      /\ \A i \in 1 .. Len(front) + Len(stored) :
            (front \o stored)[i] = IF i <= Len(front) THEN front[i]
                                   ELSE stored[i - Len(front)]
  BY <1>1, <1>4, ConcatProperties
<1>6. /\ front \o stored \in Seq(S)
      /\ Len(front \o stored) = 1 + Len(strings) + Len(stored)
      /\ \A i \in 1 .. 1 + Len(strings) + Len(stored) :
            (front \o stored)[i] = IF i <= 1 + Len(strings) THEN front[i]
                                   ELSE stored[i - (1 + Len(strings))]
  BY <1>4, <1>5, Zenon
<1>7. Image(strings, stored) = front \o stored
  BY DEF Image, front, h
<1>8. (front \o stored)[1] = h
  BY <1>2, <1>3, <1>4, <1>6
<1>9. \A i \in 1 .. Len(strings) : (front \o stored)[i + 1] = strings[i]
  BY <1>2, <1>4, <1>6
<1>10. \A i \in 1 .. Len(stored) : (front \o stored)[i + 1 + Len(strings)] = stored[i]
  BY <1>2, <1>6
<1> QED
  BY <1>2, <1>6, <1>7, <1>8, <1>9, <1>10, SeqOfElements DEF h
-----------------------------------------------------------------------------
(* What load() finds at the place of a section, and what the header says.  *)
LEMMA FileSections ==
    ASSUME SavedInv, FileInv, pc # "ingest", damage \in {"none", "cut"}
    PROVE  /\ IsSeq(file)
           /\ Len(file) \in Nat
           /\ damage = "none" => Len(file) = Len(Original)
           /\ damage = "cut" => Len(file) < Len(Original)
           /\ \A i \in 1 .. Len(file) : file[i] = Original[i]
<1>1. IsSeq(Original) /\ Len(Original) \in Nat
  BY ImageSections DEF SavedInv, Original
<1>2. CASE damage = "none"
  BY <1>1, <1>2 DEF FileInv
<1>3. CASE damage = "cut"
  <2>1. PICK n \in 0 .. Len(Original) - 1 : file = SubSeq(Original, 1, n)
    BY <1>3 DEF FileInv
  <2>2. n \in 0 .. Len(Original) /\ n \in Nat /\ n < Len(Original)
    BY <1>1
  <2> QED
    BY <1>3, <1>1, <2>1, <2>2, PrefixProperties
<1> QED
  BY <1>2, <1>3

LEMMA Sections ==
    ASSUME Inv, pc = "load", damage \in {"none", "cut"}
    PROVE  /\ next \in 2 .. Len(file) + 1
           /\ Len(saved.pool) \in Nat /\ Len(saved.chunks) \in Nat
           /\ damage = "none" => Len(file) = 1 + Len(saved.pool) + Len(saved.chunks)
           /\ damage = "cut" => Len(file) < 1 + Len(saved.pool) + Len(saved.chunks)
           /\ file[1].stringCount = Len(saved.pool)
           /\ file[1].chunkCount = Len(saved.chunks)
           /\ file[1].checksum = ComputeChecksum(saved.chunks)
           /\ \A i \in 1 .. Len(saved.pool) :
                 i + 1 <= Len(file) => file[i + 1] = saved.pool[i]
           /\ \A i \in 1 .. Len(saved.chunks) :
                 i + 1 + Len(saved.pool) <= Len(file) =>
                     file[i + 1 + Len(saved.pool)] = saved.chunks[i]
<1>1. next \in 2 .. Len(file) + 1
  BY DEF Inv, LoadInv
<1>2. /\ Len(file) \in Nat
      /\ damage = "none" => Len(file) = Len(Original)
      /\ damage = "cut" => Len(file) < Len(Original)
      /\ \A i \in 1 .. Len(file) : file[i] = Original[i]
  BY FileSections DEF Inv
<1>3. /\ Len(saved.pool) \in Nat /\ Len(saved.chunks) \in Nat
      /\ Len(Original) = 1 + Len(saved.pool) + Len(saved.chunks)
      /\ Original[1] = Header(saved.pool, saved.chunks)
      /\ \A i \in 1 .. Len(saved.pool) : Original[i + 1] = saved.pool[i]
      /\ \A i \in 1 .. Len(saved.chunks) :
            Original[i + 1 + Len(saved.pool)] = saved.chunks[i]
  <2> DEFINE strings == saved.pool
             stored == saved.chunks
  <2>1. IsSeq(strings) /\ IsSeq(stored) /\ Original = Image(strings, stored)
    BY DEF Inv, SavedInv, Original
  <2> HIDE DEF strings, stored
  <2>2. /\ Len(strings) \in Nat /\ Len(stored) \in Nat
        /\ Len(Image(strings, stored)) = 1 + Len(strings) + Len(stored)
        /\ Image(strings, stored)[1] = Header(strings, stored)
        /\ \A i \in 1 .. Len(strings) : Image(strings, stored)[i + 1] = strings[i]
        /\ \A i \in 1 .. Len(stored) :
              Image(strings, stored)[i + 1 + Len(strings)] = stored[i]
    BY <2>1, ImageSections
  <2> QED
    BY <2>1, <2>2, Zenon DEF strings, stored
<1>4. file[1] = Header(saved.pool, saved.chunks)
  <2>1. 1 \in 1 .. Len(file)
    BY <1>1, <1>2
  <2> QED
    BY <2>1, <1>2, <1>3
<1>5. /\ file[1].stringCount = Len(saved.pool)
      /\ file[1].chunkCount = Len(saved.chunks)
      /\ file[1].checksum = ComputeChecksum(saved.chunks)
  BY <1>4 DEF Header
<1>6. ASSUME NEW i \in 1 .. Len(saved.pool), i + 1 <= Len(file)
      PROVE  file[i + 1] = saved.pool[i]
  <2>1. i + 1 \in 1 .. Len(file)
    BY <1>2, <1>3, <1>6
  <2> QED
    BY <2>1, <1>2, <1>3
<1>7. ASSUME NEW i \in 1 .. Len(saved.chunks), i + 1 + Len(saved.pool) <= Len(file)
      PROVE  file[i + 1 + Len(saved.pool)] = saved.chunks[i]
  <2>1. i + 1 + Len(saved.pool) \in 1 .. Len(file)
    <3>1. Len(file) \in Nat /\ Len(saved.pool) \in Nat /\ Len(saved.chunks) \in Nat
      BY <1>2, <1>3
    <3>2. \A p, c, f \in Nat : \A k \in 1 .. c : k + 1 + p <= f => k + 1 + p \in 1 .. f
      OBVIOUS
    <3> QED
      BY <3>1, <3>2, <1>7, Zenon
  <2>2. file[i + 1 + Len(saved.pool)] = Original[i + 1 + Len(saved.pool)]
    BY <2>1, <1>2, Zenon
  <2>3. Original[i + 1 + Len(saved.pool)] = saved.chunks[i]
    BY <1>3, Zenon
  <2> QED
    BY <2>2, <2>3, Zenon
<1> QED
  BY <1>1, <1>2, <1>3, <1>5, <1>6, <1>7

(* Once all strings have been read, the chunks are next. *)
LEMMA StringsDone ==
    ASSUME Inv, pc = "load", damage \in {"none", "cut"}, ~StringsLeft
    PROVE  ChunksRead
<1>1. /\ next \in 2 .. Len(file) + 1
      /\ Len(saved.pool) \in Nat
      /\ file[1].stringCount = Len(saved.pool)
  BY Sections
<1>2. next \in Int
  BY <1>1
<1>3. next - 2 >= Len(saved.pool)
  BY <1>1, <1>2 DEF StringsLeft
<1>4. CASE StringsRead
  <2>1. next - 2 = Len(saved.pool) /\ next - 2 - Len(saved.pool) = 0
    BY <1>1, <1>2, <1>3, <1>4 DEF StringsRead
  <2>2. SubSeq(saved.pool, 1, Len(saved.pool)) = saved.pool
    BY SubSeqFull DEF Inv, SavedInv, IsSeq
  <2>3. SubSeq(saved.chunks, 1, 0) = << >>
    BY SubSeqEmpty
  <2> QED
    BY <1>3, <1>4, <2>1, <2>2, <2>3 DEF StringsRead, ChunksRead
<1> QED
  BY <1>4 DEF Inv, LoadInv
-----------------------------------------------------------------------------
LEMMA InitInv == Init => Inv
<1> SUFFICES ASSUME Init PROVE Inv
  OBVIOUS
<1>1. /\ pc = "ingest"
      /\ pool = << >> /\ chunks = << >>
      /\ saved.pool = << >> /\ saved.chunks = << >>
  BY DEF Init, InitIngestion
<1> QED
  BY <1>1, EmptyIsSeq DEF Inv, IngestInv, SavedInv, FileInv, OffInv, LoadInv, RoundTrip

(* Whatever a line holds, the pool stays free of repetitions. *)
LEMMA IngestStep ==
    ASSUME Inv, NEW line \in Lines, Ingest(line)
    PROVE  Inv'
<1>1. /\ pc = "ingest" /\ pc' = "ingest"
      /\ UNCHANGED saved
  BY DEF Ingest, snapshotVars
<1>2. IsSeq(pool) /\ Distinct(pool) /\ IsSeq(chunks)
  BY <1>1 DEF Inv, IngestInv
<1>3. IsSeq(pool') /\ Distinct(pool') /\ IsSeq(chunks')
  <2>1. CASE Skip(line) \/ Drop(line)
    BY <2>1, <1>2 DEF Skip, Drop, store
  <2>2. CASE Store(line)
    <3>1. /\ pool' = PoolWith(Interns(line))
          /\ chunks' = WithEntry(chunks, EntryOf(pool', line))
      BY <2>2 DEF Store
    <3>2. IsSeq(pool') /\ Distinct(pool')
      BY <3>1, <1>2, PoolWithKeeps
    <3>3. IsSeq(chunks')
      BY <3>1, <1>2, WithEntryIsSeq
    <3> QED
      BY <3>2, <3>3
  <2> QED
    BY <2>1, <2>2 DEF Ingest, ProcessLine
<1>4. SavedInv'
  BY <1>1 DEF Inv, SavedInv
<1> QED
  BY <1>1, <1>3, <1>4 DEF Inv, IngestInv, FileInv, OffInv, LoadInv, RoundTrip

LEMMA DumpStep ==
    ASSUME Inv, Dump
    PROVE  Inv'
<1>1. /\ pc = "ingest" /\ pc' = "menu"
      /\ pool' = pool /\ chunks' = chunks
      /\ saved'.pool = pool /\ saved'.chunks = chunks
      /\ damage' = "none"
      /\ file' = Image(pool, chunks)
  BY DEF Dump, store
<1>2. IsSeq(pool) /\ Distinct(pool) /\ IsSeq(chunks)
  BY <1>1 DEF Inv, IngestInv
<1>3. SavedInv'
  BY <1>1, <1>2 DEF SavedInv
<1>4. FileInv'
  BY <1>1 DEF FileInv, Original
<1>5. RoundTrip'
  BY <1>1 DEF RoundTrip, store
<1> QED
  BY <1>1, <1>3, <1>4, <1>5 DEF Inv, IngestInv, OffInv, LoadInv

LEMMA ExitStep ==
    ASSUME Inv, Exit
    PROVE  Inv'
<1>1. /\ pc = "menu" /\ pc' = "off"
      /\ pool' = << >> /\ chunks' = << >>
      /\ UNCHANGED <<file, saved, damage>>
  BY DEF Exit, snapshotVars
<1>2. FileInv' /\ SavedInv'
  BY <1>1 DEF Inv, FileInv, SavedInv, Original
<1> QED
  BY <1>1, <1>2 DEF Inv, IngestInv, OffInv, LoadInv, RoundTrip

LEMMA DamageStep ==
    ASSUME Inv, Cut \/ Alter
    PROVE  Inv'
<1>1. /\ pc = "off" /\ pc' = "off" /\ damage = "none"
      /\ UNCHANGED <<pool, chunks, saved>>
      /\ \/ damage' = "altered"
         \/ damage' = "cut" /\ \E n \in 0 .. Len(file) - 1 : file' = SubSeq(file, 1, n)
  BY DEF Cut, Alter, MayBeDamaged, Damaged, ingestionVars, store
<1>2. file = Original /\ Original' = Original
  BY <1>1 DEF Inv, FileInv, Original
<1>3. FileInv'
  BY <1>1, <1>2 DEF FileInv
<1>4. SavedInv' /\ OffInv'
  BY <1>1 DEF Inv, SavedInv, OffInv
<1> QED
  BY <1>1, <1>3, <1>4 DEF Inv, IngestInv, LoadInv, RoundTrip

LEMMA LoadCsvStep ==
    ASSUME Inv, LoadCsv
    PROVE  Inv'
<1>1. /\ pc' = "ingest"
      /\ pool' = << >> /\ chunks' = << >>
      /\ saved'.pool = << >> /\ saved'.chunks = << >>
  BY DEF LoadCsv
<1> QED
  BY <1>1, EmptyIsSeq DEF Inv, IngestInv, SavedInv, FileInv, OffInv, LoadInv, RoundTrip

LEMMA LoadHeaderStep ==
    ASSUME Inv, LoadHeader
    PROVE  Inv'
<1>1. /\ pc = "off"
      /\ UNCHANGED <<pool, chunks, file, saved, damage>>
  BY DEF LoadHeader, ingestionVars, store, snapshotVars
<1>2. SavedInv' /\ FileInv'
  <2>1. pc' # "ingest"
    BY DEF LoadHeader
  <2> QED
    BY <1>1, <2>1 DEF Inv, SavedInv, FileInv, Original
<1>3. /\ pool' = << >> /\ chunks' = << >>
      /\ Len(saved.pool) \in Nat /\ Len(saved.chunks) \in Nat
      /\ IsSeq(saved.pool) /\ IsSeq(saved.chunks)
  <2>1. IsSeq(saved.pool) /\ IsSeq(saved.chunks)
    BY DEF Inv, SavedInv
  <2>2. Len(saved.pool) \in Nat /\ Len(saved.chunks) \in Nat
    BY <2>1, ImageSections
  <2> QED
    BY <1>1, <2>1, <2>2 DEF Inv, OffInv
<1>4. CASE pc' = "load"
  <2>1. next' = 2 /\ file # << >>
    BY <1>4 DEF LoadHeader
  <2>2. LoadInv'
    <3> SUFFICES ASSUME damage \in {"none", "cut"}
                 PROVE  next' \in 2 .. Len(file') + 1 /\ StringsRead'
      BY <1>1 DEF LoadInv
    <3>1. IsSeq(file) /\ Len(file) \in Nat
      BY <1>1, FileSections DEF Inv
    <3>2. Len(file) >= 1
      BY <3>1, <2>1, EmptySeq DEF IsSeq
    <3>3. SubSeq(saved.pool, 1, 0) = << >>
      BY SubSeqEmpty
    <3> QED
      BY <1>1, <1>3, <2>1, <3>1, <3>2, <3>3 DEF StringsRead
  <2> QED
    BY <1>2, <1>4, <2>2 DEF Inv, IngestInv, OffInv, RoundTrip
<1>5. CASE pc' = "failed"
  <2>1. ASSUME damage = "none" PROVE FALSE
    <3> DEFINE strings == saved.pool
               stored == saved.chunks
    <3>1. IsSeq(strings) /\ IsSeq(stored) /\ file = Image(strings, stored)
      BY <1>1, <2>1 DEF Inv, SavedInv, FileInv, Original
    <3> HIDE DEF strings, stored
    <3>2. Len(file) \in Nat \ {0} /\ file[1] = Header(strings, stored)
      <4>1. /\ Len(strings) \in Nat /\ Len(stored) \in Nat
            /\ Len(Image(strings, stored)) = 1 + Len(strings) + Len(stored)
            /\ Image(strings, stored)[1] = Header(strings, stored)
        BY <3>1, ImageSections
      <4> QED
        BY <3>1, <4>1
    <3>3. file # << >>
      BY <3>2
    <3>4. /\ file[1].magic = "HALO"
          /\ file[1].version = 1
          /\ file[1].sectionCount = file[1].stringCount
      BY <3>2 DEF Header
    <3> QED
      BY <1>5, <3>3, <3>4 DEF LoadHeader
  <2> QED
    BY <1>1, <1>2, <1>5, <2>1 DEF Inv, IngestInv, OffInv, LoadInv, RoundTrip
<1> QED
  BY <1>4, <1>5 DEF LoadHeader

(* What all steps of a load but the first leave alone. *)
LEMMA LoadKeeps ==
    ASSUME Inv, pc = "load", pc' \in {"load", "menu", "failed"},
           UNCHANGED <<file, saved, damage>>
    PROVE  IngestInv' /\ SavedInv' /\ FileInv' /\ OffInv'
BY DEF Inv, IngestInv, SavedInv, FileInv, OffInv, Original

LEMMA LoadStringStep ==
    ASSUME Inv, LoadString
    PROVE  Inv'
<1>1. /\ pc = "load" /\ StringsLeft
      /\ UNCHANGED <<file, saved, damage, chunks>>
      /\ \/ /\ pc' = "load" /\ next' = next + 1
            /\ next <= Len(file)
            /\ pool' = WithName(pool, file[next])
         \/ /\ pc' = "failed"
            /\ ~(next <= Len(file) /\ file[next] \notin LongNames)
  BY DEF LoadString, ReadFails, ingestionVars, snapshotVars, store
<1>2. IngestInv' /\ SavedInv' /\ FileInv' /\ OffInv'
  BY <1>1, LoadKeeps
<1>3. CASE damage \notin {"none", "cut"}
  BY <1>1, <1>2, <1>3 DEF Inv, LoadInv, RoundTrip
<1>4. CASE damage \in {"none", "cut"}
  <2> DEFINE n == next - 2
  <2>1. /\ next \in 2 .. Len(file) + 1
        /\ Len(saved.pool) \in Nat /\ Len(saved.chunks) \in Nat
        /\ damage = "none" => Len(file) = 1 + Len(saved.pool) + Len(saved.chunks)
        /\ file[1].stringCount = Len(saved.pool)
        /\ \A i \in 1 .. Len(saved.pool) :
              i + 1 <= Len(file) => file[i + 1] = saved.pool[i]
    BY <1>1, <1>4, Sections
  <2>2. n \in 0 .. Len(saved.pool) - 1 /\ next = n + 1 + 1 /\ next \in Nat
    BY <1>1, <2>1 DEF StringsLeft
  <2>3. pool = SubSeq(saved.pool, 1, n) /\ chunks = << >>
    <3>1. ~ChunksRead
      BY <2>1, <2>2 DEF ChunksRead
    <3> QED
      BY <1>1, <1>4, <3>1 DEF Inv, LoadInv, StringsRead
  <2>4. IsSeq(saved.pool) /\ Distinct(saved.pool)
    BY DEF Inv, SavedInv
  <2> HIDE DEF n
  <2>5. CASE pc' = "load"
    <3>1. file[next] = saved.pool[n + 1] /\ next <= Len(file)
      BY <1>1, <2>1, <2>2, <2>5
    <3>2. ~Contains(pool, saved.pool[n + 1])
      <4>1. n \in 0 .. Len(saved.pool)
        BY <2>1, <2>2
      <4>2. Len(pool) = n /\ \A i \in 1 .. n : pool[i] = saved.pool[i]
        BY <2>3, <2>4, <4>1, PrefixProperties
      <4> QED
        BY <2>1, <2>2, <2>4, <4>2 DEF Contains, Distinct
    <3>3. pool' = SubSeq(saved.pool, 1, n + 1)
      <4>1. pool' = Append(SubSeq(saved.pool, 1, n), saved.pool[n + 1])
        BY <1>1, <2>3, <2>5, <3>1, <3>2 DEF WithName
      <4> QED
        BY <4>1, <2>2, <2>4, PrefixGrows
    <3>4. next' = next + 1 /\ next' - 2 = n + 1
      BY <1>1, <2>2, <2>5
    <3>5. next' \in 2 .. Len(file) + 1
      BY <2>1, <3>1, <3>4
    <3>6. StringsRead'
      <4>1. n + 1 <= Len(saved.pool)
        BY <2>1, <2>2
      <4> QED
        BY <1>1, <2>3, <3>3, <3>4, <4>1 DEF StringsRead
    <3> QED
      BY <1>1, <1>2, <2>5, <3>5, <3>6 DEF Inv, LoadInv, RoundTrip
  <2>6. CASE pc' = "failed"
    <3>1. ASSUME damage = "none" PROVE ~Whole(saved.pool)
      <4>1. n + 1 \in 1 .. Len(saved.pool) /\ next <= Len(file)
        <5>1. Len(file) = 1 + Len(saved.pool) + Len(saved.chunks)
          BY <2>1, <3>1
        <5>2. Len(saved.pool) \in Nat /\ Len(saved.chunks) \in Nat
          BY <2>1
        <5>3. \A p, c \in Nat : \A k \in 0 .. p - 1 :
                 k + 1 \in 1 .. p /\ k + 1 + 1 <= 1 + p + c
          OBVIOUS
        <5> QED
          BY <2>2, <5>1, <5>2, <5>3, Zenon
      <4>2. saved.pool[n + 1] \in LongNames
        BY <1>1, <2>1, <2>2, <2>6, <4>1
      <4>3. saved.pool[n + 1] \in ToSet(saved.pool)
        BY <2>4, <4>1, ElementOfSeq DEF IsSeq
      <4> QED
        BY <4>2, <4>3 DEF Whole
    <3>2. RoundTrip'
      <4>1. Whole(saved.pool)' = Whole(saved.pool)
        BY <1>1 DEF Whole
      <4> QED
        BY <1>1, <2>6, <3>1, <4>1 DEF RoundTrip
    <3> QED
      BY <1>2, <2>6, <3>2 DEF Inv, LoadInv
  <2> QED
    BY <1>1, <2>5, <2>6
<1> QED
  BY <1>3, <1>4

LEMMA LoadChunkStep ==
    ASSUME Inv, LoadChunk
    PROVE  Inv'
<1>1. /\ pc = "load" /\ ~StringsLeft /\ next < 2 + file[1].stringCount + file[1].chunkCount
      /\ UNCHANGED <<file, saved, damage, pool>>
      /\ \/ /\ pc' = "load" /\ next' = next + 1
            /\ next <= Len(file)
            /\ chunks' = Append(chunks, file[next])
         \/ pc' = "failed" /\ ~(next <= Len(file))
  BY DEF LoadChunk, ChunksLeft, AddLoadedChunk, ReadFails, ingestionVars, snapshotVars, store
<1>2. IngestInv' /\ SavedInv' /\ FileInv' /\ OffInv'
  BY <1>1, LoadKeeps
<1>3. CASE damage \notin {"none", "cut"}
  BY <1>1, <1>2, <1>3 DEF Inv, LoadInv, RoundTrip
<1>4. CASE damage \in {"none", "cut"}
  <2> DEFINE strings == Len(saved.pool)
             n == next - 2 - strings
  <2>1. /\ next \in 2 .. Len(file) + 1
        /\ Len(saved.pool) \in Nat /\ Len(saved.chunks) \in Nat
        /\ damage = "none" => Len(file) = 1 + Len(saved.pool) + Len(saved.chunks)
        /\ file[1].stringCount = Len(saved.pool)
        /\ file[1].chunkCount = Len(saved.chunks)
        /\ \A i \in 1 .. Len(saved.chunks) :
              i + 1 + Len(saved.pool) <= Len(file) =>
                  file[i + 1 + Len(saved.pool)] = saved.chunks[i]
    BY <1>1, <1>4, Sections
  <2>2. /\ next - 2 >= strings
        /\ pool = saved.pool
        /\ chunks = SubSeq(saved.chunks, 1, n)
    BY <1>1, <1>4, StringsDone DEF ChunksRead
  <2>3. /\ n \in 0 .. Len(saved.chunks) - 1 /\ next \in Nat
        /\ next = n + 1 + 1 + strings /\ strings \in Nat
    <3> DEFINE stored == Len(saved.chunks)
    <3>1. strings \in Nat /\ stored \in Nat /\ next \in Nat
      BY <2>1
    <3>2. next < 2 + strings + stored /\ next - 2 >= strings
      BY <1>1, <2>1, <2>2
    <3> HIDE DEF strings, stored
    <3>3. n \in 0 .. stored - 1 /\ next = n + 1 + 1 + strings
      BY <3>1, <3>2
    <3> QED
      BY <3>1, <3>3 DEF stored
  <2>4. IsSeq(saved.chunks)
    BY DEF Inv, SavedInv
  <2> HIDE DEF n, strings
  <2>5. CASE pc' = "load"
    <3>1. file[next] = saved.chunks[n + 1] /\ next <= Len(file)
      <4>1. n + 1 \in 1 .. Len(saved.chunks) /\ n + 1 + 1 + strings <= Len(file)
        BY <1>1, <2>1, <2>3, <2>5
      <4>2. file[n + 1 + 1 + strings] = saved.chunks[n + 1]
        BY <2>1, <4>1, Zenon DEF strings
      <4> QED
        BY <1>1, <2>3, <2>5, <4>2
    <3>2. chunks' = SubSeq(saved.chunks, 1, n + 1)
      BY <1>1, <2>2, <2>3, <2>4, <2>5, <3>1, PrefixGrows
    <3>3. next' = next + 1 /\ next' - 2 >= strings /\ next' - 2 - strings = n + 1
      BY <1>1, <2>2, <2>3, <2>5
    <3>4. next' \in 2 .. Len(file) + 1
      BY <2>1, <3>1, <3>3
    <3>5. ChunksRead'
      BY <1>1, <2>2, <3>2, <3>3 DEF ChunksRead, strings
    <3> QED
      BY <1>1, <1>2, <2>5, <3>4, <3>5 DEF Inv, LoadInv, RoundTrip
  <2>6. CASE pc' = "failed"
    <3>1. damage # "none"
      <4>1. ASSUME damage = "none" PROVE FALSE
        <5>1. Len(file) = 1 + strings + Len(saved.chunks) /\ Len(saved.chunks) \in Nat
          BY <2>1, <4>1 DEF strings
        <5>2. ~(next <= Len(file))
          BY <1>1, <2>6
        <5>3. \A p, c \in Nat : \A k \in 0 .. c - 1 : k + 1 + 1 + p <= 1 + p + c
          OBVIOUS
        <5> QED
          BY <2>3, <5>1, <5>2, <5>3, Zenon
      <4> QED
        BY <4>1
    <3> QED
      BY <1>1, <1>2, <2>6, <3>1 DEF Inv, LoadInv, RoundTrip
  <2> QED
    BY <1>1, <2>5, <2>6
<1> QED
  BY <1>3, <1>4

(* The checksum is computed over what was dumped, and found to be the one  *)
(* in the header; a file that was cut ends before this step.               *)
LEMMA VerifyChecksumStep ==
    ASSUME Inv, VerifyChecksum
    PROVE  Inv'
<1>1. /\ pc = "load" /\ ~StringsLeft
      /\ ~(next < 2 + file[1].stringCount + file[1].chunkCount)
      /\ UNCHANGED <<file, saved, damage, pool, chunks>>
      /\ pc' = IF ComputeChecksum(chunks) = file[1].checksum THEN "menu" ELSE "failed"
  BY DEF VerifyChecksum, ChunksLeft, ingestionVars, snapshotVars, store
<1>2. IngestInv' /\ SavedInv' /\ FileInv' /\ OffInv'
  BY <1>1, LoadKeeps
<1>3. CASE damage \notin {"none", "cut"}
  BY <1>1, <1>2, <1>3 DEF Inv, LoadInv, RoundTrip
<1>4. CASE damage \in {"none", "cut"}
  <2>1. /\ next \in 2 .. Len(file) + 1
        /\ Len(saved.pool) \in Nat /\ Len(saved.chunks) \in Nat
        /\ damage = "none" => Len(file) = 1 + Len(saved.pool) + Len(saved.chunks)
        /\ damage = "cut" => Len(file) < 1 + Len(saved.pool) + Len(saved.chunks)
        /\ file[1].stringCount = Len(saved.pool)
        /\ file[1].chunkCount = Len(saved.chunks)
        /\ file[1].checksum = ComputeChecksum(saved.chunks)
    BY <1>1, <1>4, Sections
  <2>2. /\ next - 2 >= Len(saved.pool)
        /\ pool = saved.pool
        /\ chunks = SubSeq(saved.chunks, 1, next - 2 - Len(saved.pool))
    BY <1>1, <1>4, StringsDone DEF ChunksRead
  <2>3. /\ damage = "none"
        /\ next - 2 - Len(saved.pool) = Len(saved.chunks)
    <3> DEFINE strings == Len(saved.pool)
               stored == Len(saved.chunks)
               size == Len(file)
    <3>1. /\ strings \in Nat /\ stored \in Nat
          /\ next \in 2 .. size + 1
          /\ ~(next < 2 + strings + stored)
          /\ damage = "none" => size = 1 + strings + stored
          /\ damage = "cut" => size < 1 + strings + stored
      BY <1>1, <2>1
    <3>2. size \in Nat
      BY <1>1, <1>4, FileSections DEF Inv
    <3> HIDE DEF strings, stored, size
    <3>3. damage = "none" /\ next - 2 - strings = stored
      BY <1>4, <3>1, <3>2
    <3> QED
      BY <3>3 DEF strings, stored
  <2>4. chunks = saved.chunks
    BY <2>2, <2>3, SubSeqFull DEF Inv, SavedInv, IsSeq
  <2>5. pc' = "menu"
    BY <1>1, <2>1, <2>4
  <2>6. RoundTrip'
    BY <1>1, <2>2, <2>3, <2>4, <2>5 DEF RoundTrip, store
  <2> QED
    BY <1>2, <2>5, <2>6 DEF Inv, LoadInv
<1> QED
  BY <1>3, <1>4

LEMMA StepInv == Inv /\ [Next]_vars => Inv'
<1> SUFFICES ASSUME Inv, [Next]_vars PROVE Inv'
  OBVIOUS
<1>1. ASSUME NEW line \in Lines, Ingest(line) PROVE Inv'
  BY <1>1, IngestStep
<1>2. CASE Dump
  BY <1>2, DumpStep
<1>3. CASE Exit
  BY <1>3, ExitStep
<1>4. CASE Cut \/ Alter
  BY <1>4, DamageStep
<1>5. CASE LoadHeader
  BY <1>5, LoadHeaderStep
<1>6. CASE LoadString
  BY <1>6, LoadStringStep
<1>7. CASE LoadChunk
  BY <1>7, LoadChunkStep
<1>8. CASE VerifyChecksum
  BY <1>8, VerifyChecksumStep
<1>9. CASE LoadCsv
  BY <1>9, LoadCsvStep
<1>10. CASE UNCHANGED vars
  <2>1. UNCHANGED <<pc, pool, chunks, file, next, saved, damage>>
    BY <1>10 DEF vars, ingestionVars, snapshotVars, store
  <2> QED
    BY <2>1 DEF Inv, IngestInv, SavedInv, FileInv, OffInv, LoadInv, RoundTrip,
                Original, StringsRead, ChunksRead, store
<1> QED
  BY <1>1, <1>2, <1>3, <1>4, <1>5, <1>6, <1>7, <1>8, <1>9, <1>10 DEF Next, Load

(* BinaryIO.cpp, dump() and load(): for every CSV, every chunk size and    *)
(* every order of arguments, a snapshot that nobody touched brings back    *)
(* the same strings with the same ids and the same chunks with their       *)
(* ranges, fails only because of a string that is too long, and one that   *)
(* was cut short is not served.                                            *)
THEOREM SnapshotsRoundTrip == Spec => []RoundTrip
<1>1. Inv => RoundTrip
  BY DEF Inv
<1> QED
  BY InitInv, StepInv, <1>1, PTL DEF Spec
-----------------------------------------------------------------------------
HaveBit(words, b) == {i \in DOMAIN words : b \in words[i]}

LEMMA ParityOfBit ==
    ASSUME NEW n \in Nat, NEW words, DOMAIN words = 1 .. n, NEW b
    PROVE  /\ IsFiniteSet(HaveBit(words, b))
           /\ Cardinality(HaveBit(words, b)) \in Nat
           /\ b \in Parity(words) <=> Cardinality(HaveBit(words, b)) % 2 = 1
<1>1. IsFiniteSet(HaveBit(words, b))
  <2>1. IsFiniteSet(1 .. n) /\ HaveBit(words, b) \subseteq 1 .. n
    BY FS_Interval DEF HaveBit
  <2> QED
    BY <2>1, FS_Subset
<1>2. Cardinality(HaveBit(words, b)) \in Nat
  BY <1>1, FS_CardinalityType
<1>3. ASSUME Cardinality(HaveBit(words, b)) % 2 = 1
      PROVE  b \in UNION {words[i] : i \in DOMAIN words}
  <2>1. HaveBit(words, b) # {}
    BY <1>3, FS_EmptySet
  <2> QED
    BY <2>1 DEF HaveBit
<1> QED
  BY <1>1, <1>2, <1>3 DEF Parity, HaveBit

(* One word gains a bit: the parity of the bit is turned. *)
LEMMA ParityTurns ==
    ASSUME NEW n \in Nat, NEW k \in 1 .. n,
           NEW words, DOMAIN words = 1 .. n,
           NEW others, DOMAIN others = 1 .. n,
           \A i \in 1 .. n : i # k => words[i] = others[i],
           NEW b \in others[k], b \notin words[k]
    PROVE  Parity(words) # Parity(others)
<1> DEFINE c == Cardinality(HaveBit(words, b))
           d == Cardinality(HaveBit(others, b))
<1>1. /\ IsFiniteSet(HaveBit(words, b)) /\ c \in Nat
      /\ b \in Parity(words) <=> c % 2 = 1
  BY ParityOfBit
<1>2. b \in Parity(others) <=> d % 2 = 1
  BY ParityOfBit
<1>3. /\ k \notin HaveBit(words, b)
      /\ HaveBit(others, b) = HaveBit(words, b) \cup {k}
  BY DEF HaveBit
<1>4. d = c + 1
  BY <1>1, <1>3, FS_AddElement
<1> HIDE DEF c, d
<1>5. c % 2 = 1 <=> ~(d % 2 = 1)
  BY <1>1, <1>4
<1> QED
  BY <1>1, <1>2, <1>5

(* BinaryIO.cpp, computeChecksum(): of two stores that differ in one entry *)
(* only, and there in what the entry contributes, the checksums differ,    *)
(* whatever the other entries are and however the chunks are cut.          *)
THEOREM OneEntryIsSeen ==
    ASSUME NEW n \in Nat, NEW k \in 1 .. n,
           NEW stored, DOMAIN EntriesOf(stored) = 1 .. n,
           NEW other, DOMAIN EntriesOf(other) = 1 .. n,
           \A i \in 1 .. n : i # k => EntriesOf(stored)[i] = EntriesOf(other)[i],
           Mixed(EntriesOf(stored)[k]) # Mixed(EntriesOf(other)[k])
    PROVE  ComputeChecksum(stored) # ComputeChecksum(other)
<1> DEFINE a == EntriesOf(stored)
           b == EntriesOf(other)
           words == [i \in DOMAIN a |-> Mixed(a[i])]
           others == [i \in DOMAIN b |-> Mixed(b[i])]
<1>1. ComputeChecksum(stored) = Parity(words) /\ ComputeChecksum(other) = Parity(others)
  BY DEF ComputeChecksum
<1>2. /\ DOMAIN words = 1 .. n /\ DOMAIN others = 1 .. n
      /\ \A i \in 1 .. n : i # k => words[i] = others[i]
      /\ words[k] = Mixed(a[k]) /\ others[k] = Mixed(b[k])
  OBVIOUS
<1>3. PICK bit : ~(bit \in Mixed(a[k]) <=> bit \in Mixed(b[k]))
  BY Zenon
<1> HIDE DEF a, b, words, others
<1>4. CASE bit \in Mixed(b[k])
  BY <1>1, <1>2, <1>3, <1>4, ParityTurns
<1>5. CASE bit \in Mixed(a[k])
  BY <1>1, <1>2, <1>3, <1>5, ParityTurns
<1> QED
  BY <1>3, <1>4, <1>5

(* The characters of a time. *)
Character == Digits \cup {NoDigit}

LEMMA TakeDigitIsInt ==
    ASSUME NEW r \in Int, NEW c \in Character
    PROVE  TakeDigit(r, c) \in Int
BY DEF TakeDigit, Character, Digits, NoDigit, NoNumber

(* The value of a text, digit by digit. *)
LEMMA ValueSteps ==
    ASSUME NEW text \in Seq(Character)
    PROVE  \E value \in [0 .. Len(text) -> Nat] :
              /\ value[0] = 0
              /\ \A n \in 1 .. Len(text) : value[n] = 10 * value[n - 1] + text[n]
              /\ DecimalValue(text) = value[Len(text)]
<1> DEFINE N == Len(text)
           step == [n \in 1 .. N |-> [v \in Nat |-> 10 * v + text[n]]]
           Loop(f) == f = [n \in 0 .. N |-> IF n = 0 THEN 0 ELSE 10 * f[n - 1] + text[n]]
<1>1. N \in Nat /\ \A n \in 1 .. N : text[n] \in Nat
  BY ElementOfSeq, LenProperties DEF Character, Digits, NoDigit
<1>2. PICK f : f \in LoopRuns(Nat, 0, N, step)
  <2>1. step \in [1 .. N -> [Nat -> Nat]] /\ 0 \in Nat
    BY <1>1
  <2> HIDE DEF step, N
  <2> QED
    BY <1>1, <2>1, LoopExists, Zenon
<1>3. f \in [0 .. N -> Nat] /\ f[0] = 0
      /\ \A n \in 1 .. N : f[n] = 10 * f[n - 1] + text[n]
  <2>1. f \in [0 .. N -> Nat] /\ f[0] = 0
    BY <1>2 DEF LoopRuns
  <2>2. \A n \in 1 .. N : f[n - 1] \in Nat
    BY <1>1, <2>1
  <2>3. \A n \in 1 .. N : f[n] = step[n][f[n - 1]]
    <3> HIDE DEF step, N
    <3> QED
      BY <1>2 DEF LoopRuns
  <2> QED
    BY <2>1, <2>2, <2>3
<1>4. Loop(f)
  BY <1>1, <1>3
<1> DEFINE g == CHOOSE value : Loop(value)
<1>5. Loop(g) /\ DecimalValue(text) = g[N]
  <2>1. Loop(g)
    <3> HIDE DEF Loop
    <3> QED
      BY <1>4
  <2> QED
    BY <2>1 DEF DecimalValue
<1> HIDE DEF g
<1>6. g[0] = 0 /\ \A n \in 1 .. N : g[n] = 10 * g[n - 1] + text[n]
  <2>1. 0 \in 0 .. N /\ \A n \in 1 .. N : n \in 0 .. N /\ n # 0
    BY <1>1
  <2> HIDE DEF N
  <2> QED
    BY <1>5, <2>1
<1>7. \A n \in 0 .. N : g[n] \in Nat
  <2>1. g[0] \in Nat /\ \A n \in 1 .. N : g[n - 1] \in Nat => g[n] \in Nat
    BY <1>1, <1>6
  <2> HIDE DEF N
  <2> QED
    BY <1>1, <2>1, LoopStays
<1>8. g \in [0 .. N -> Nat]
  BY <1>5, <1>7
<1> QED
  BY <1>5, <1>6, <1>8

(* The loop of parseInt64(), character by character. *)
LEMMA ReadSteps ==
    ASSUME NEW text \in Seq(Character)
    PROVE  \E read \in [0 .. Len(text) -> Int] :
              /\ read[0] = 0
              /\ \A n \in 1 .. Len(text) : read[n] = TakeDigit(read[n - 1], text[n])
              /\ ParseInt64(text) = IF text = << >> THEN NoNumber ELSE read[Len(text)]
<1> DEFINE N == Len(text)
           step == [n \in 1 .. N |-> [v \in Int |-> TakeDigit(v, text[n])]]
           Loop(f) == f = [n \in 0 .. N |-> IF n = 0 THEN 0 ELSE TakeDigit(f[n - 1], text[n])]
<1>1. N \in Nat /\ \A n \in 1 .. N : text[n] \in Character
  BY ElementOfSeq, LenProperties
<1>2. PICK f : f \in LoopRuns(Int, 0, N, step)
  <2>1. step \in [1 .. N -> [Int -> Int]] /\ 0 \in Int
    BY <1>1, TakeDigitIsInt
  <2> HIDE DEF step, N
  <2> QED
    BY <1>1, <2>1, LoopExists, Zenon
<1>3. f \in [0 .. N -> Int] /\ f[0] = 0
      /\ \A n \in 1 .. N : f[n] = TakeDigit(f[n - 1], text[n])
  <2>1. f \in [0 .. N -> Int] /\ f[0] = 0
    BY <1>2 DEF LoopRuns
  <2>2. \A n \in 1 .. N : f[n - 1] \in Int
    BY <1>1, <2>1
  <2>3. \A n \in 1 .. N : f[n] = step[n][f[n - 1]]
    <3> HIDE DEF step, N
    <3> QED
      BY <1>2 DEF LoopRuns
  <2> QED
    BY <2>1, <2>2, <2>3
<1>4. Loop(f)
  BY <1>1, <1>3
<1> DEFINE g == CHOOSE read : Loop(read)
<1>5. Loop(g) /\ ParseInt64(text) = IF text = << >> THEN NoNumber ELSE g[N]
  <2>1. Loop(g)
    <3> HIDE DEF Loop
    <3> QED
      BY <1>4
  <2> QED
    BY <2>1 DEF ParseInt64
<1> HIDE DEF g
<1>6. g[0] = 0 /\ \A n \in 1 .. N : g[n] = TakeDigit(g[n - 1], text[n])
  <2>1. 0 \in 0 .. N /\ \A n \in 1 .. N : n \in 0 .. N /\ n # 0
    BY <1>1
  <2> HIDE DEF N
  <2> QED
    BY <1>5, <2>1
<1>7. \A n \in 0 .. N : g[n] \in Int
  <2>1. g[0] \in Int /\ \A n \in 1 .. N : g[n - 1] \in Int => g[n] \in Int
    BY <1>1, <1>6, TakeDigitIsInt
  <2> HIDE DEF N
  <2> QED
    BY <1>1, <2>1, LoopStays
<1>8. g \in [0 .. N -> Int]
  BY <1>5, <1>7
<1> QED
  BY <1>5, <1>6, <1>8

(* One step: a number that has left the range, or is none, never returns.  *)
LEMMA TakeDigitExact ==
    ASSUME NEW c \in Character, NEW v \in Nat, NEW good \in BOOLEAN,
           NEW r, r = IF good /\ v <= INT64_MAX THEN v ELSE NoNumber
    PROVE  TakeDigit(r, c) = IF /\ good /\ c \in Digits
                                /\ 10 * v + c <= INT64_MAX
                             THEN 10 * v + c ELSE NoNumber
<1>1. INT64_MAX \in Nat
  BY LinesAssumption
<1>2. CASE good /\ v <= INT64_MAX /\ c \in Digits
  <2>1. v > (INT64_MAX - c) \div 10 <=> ~(10 * v + c <= INT64_MAX)
    BY <1>1, <1>2 DEF Digits
  <2>2. r = v /\ r # NoNumber /\ r * 10 + c = 10 * v + c
    BY <1>1, <1>2 DEF NoNumber, Digits
  <2> QED
    BY <1>2, <2>1, <2>2 DEF TakeDigit
<1>3. CASE ~(good /\ v <= INT64_MAX /\ c \in Digits)
  <2>1. TakeDigit(r, c) = NoNumber
    BY <1>3 DEF TakeDigit
  <2>2. ~(v <= INT64_MAX) => ~(10 * v + c <= INT64_MAX)
    BY <1>1 DEF Character, Digits, NoDigit
  <2> QED
    BY <1>3, <2>1, <2>2
<1> QED
  BY <1>2, <1>3

(* parseInt64() reads the value of a text of digits, if it has 64 bits,    *)
(* and no other text.                                                      *)
LEMMA ParseExact ==
    ASSUME NEW text \in Seq(Character)
    PROVE  /\ DecimalValue(text) \in Nat
           /\ ParseInt64(text) =
                IF /\ text # << >> /\ ToSet(text) \subseteq Digits
                   /\ DecimalValue(text) <= INT64_MAX
                THEN DecimalValue(text) ELSE NoNumber
<1> DEFINE N == Len(text)
           Good(n) == \A i \in 1 .. n : text[i] \in Digits
<1>1. N \in Nat /\ (\A n \in 1 .. N : text[n] \in Character) /\ DOMAIN text = 1 .. N
  BY ElementOfSeq, LenProperties
<1>2. PICK value \in [0 .. N -> Nat] :
          /\ value[0] = 0
          /\ \A n \in 1 .. N : value[n] = 10 * value[n - 1] + text[n]
          /\ DecimalValue(text) = value[N]
  BY ValueSteps
<1>3. PICK read \in [0 .. N -> Int] :
          /\ read[0] = 0
          /\ \A n \in 1 .. N : read[n] = TakeDigit(read[n - 1], text[n])
          /\ ParseInt64(text) = IF text = << >> THEN NoNumber ELSE read[N]
  BY ReadSteps
<1> DEFINE Exact(n) == read[n] = IF Good(n) /\ value[n] <= INT64_MAX THEN value[n] ELSE NoNumber
           T == {n \in 0 .. N : ~Exact(n)}
<1>4. Exact(0)
  BY <1>2, <1>3, LinesAssumption
<1>5. ASSUME NEW n \in 1 .. N, Exact(n - 1)
      PROVE  Exact(n)
  <2>1. n - 1 \in 0 .. N /\ n \in 0 .. N /\ text[n] \in Character
    BY <1>1
  <2>2. Good(n) <=> Good(n - 1) /\ text[n] \in Digits
    <3>1. \A i \in 1 .. n : i = n \/ i \in 1 .. n - 1
      OBVIOUS
    <3>2. \A i \in 1 .. n - 1 : i \in 1 .. n
      OBVIOUS
    <3>3. n \in 1 .. n
      OBVIOUS
    <3> QED
      BY <3>1, <3>2, <3>3
  <2>3. value[n - 1] \in Nat /\ value[n] = 10 * value[n - 1] + text[n]
        /\ read[n] = TakeDigit(read[n - 1], text[n])
    BY <1>2, <1>3, <2>1
  <2>4. Good(n - 1) \in BOOLEAN
    OBVIOUS
  <2> HIDE DEF Good
  <2>5. TakeDigit(read[n - 1], text[n]) =
          IF Good(n - 1) /\ text[n] \in Digits /\ 10 * value[n - 1] + text[n] <= INT64_MAX
          THEN 10 * value[n - 1] + text[n] ELSE NoNumber
    BY <1>5, <2>1, <2>3, <2>4, TakeDigitExact
  <2> QED
    BY <2>2, <2>3, <2>5
<1>6. Exact(N)
  <2>1. SUFFICES ASSUME N \in T PROVE FALSE
    BY <1>1
  <2>2. PICK m \in T : \A n \in T : m <= n
    <3>1. T \in SUBSET Nat
      OBVIOUS
    <3> HIDE DEF T
    <3> QED
      BY <2>1, <3>1, LeastExists
  <2>3. m \in 0 .. N /\ ~Exact(m)
    OBVIOUS
  <2> HIDE DEF Exact
  <2>4. m # 0
    BY <1>4, <2>3
  <2>5. m \in 1 .. N /\ m - 1 \in 0 .. N /\ ~(m <= m - 1)
    BY <2>3, <2>4
  <2>6. m - 1 \notin T
    <3> HIDE DEF T
    <3> QED
      BY <2>2, <2>5
  <2> QED
    BY <1>5, <2>3, <2>5, <2>6
<1>7. Good(N) <=> ToSet(text) \subseteq Digits
  BY <1>1 DEF ToSet
<1>8. value[N] \in Nat
  BY <1>1
<1> QED
  BY <1>2, <1>3, <1>6, <1>7, <1>8
-----------------------------------------------------------------------------
(* A name of an enumeration has a value of its own, and no other name has. *)
LEMMA EnumExact ==
    ASSUME NEW N \in 0 .. 255, NEW names, DOMAIN names = 1 .. N, Len(names) = N, NEW name
    PROVE  /\ EnumOf(names, name) \in Nat
           /\ EnumOf(names, name) # INVALID <=> name \in ToSet(names)
           /\ name \in ToSet(names) => names[EnumOf(names, name) + 1] = name
<1>1. Contains(names, name) <=> name \in ToSet(names)
  BY DEF Contains, ToSet
<1>2. CASE name \in ToSet(names)
  <2> DEFINE k == CHOOSE i \in DOMAIN names : names[i] = name
  <2>1. k \in 1 .. N /\ names[k] = name
    BY <1>2 DEF ToSet
  <2>2. EnumOf(names, name) = k - 1
    BY <1>1, <1>2 DEF EnumOf, IdOf
  <2> HIDE DEF k
  <2> QED
    BY <1>2, <2>1, <2>2 DEF INVALID
<1>3. CASE name \notin ToSet(names)
  BY <1>1, <1>3 DEF EnumOf, INVALID
<1> QED
  BY <1>2, <1>3

LEMMA EventNamesExact ==
    ASSUME NEW name
    PROVE  /\ ParseEventType(name) \in Nat
           /\ ParseEventType(name) # INVALID <=> name \in ToSet(EventNames)
           /\ name \in ToSet(EventNames) => EventNames[ParseEventType(name) + 1] = name
<1>1. DOMAIN EventNames = 1 .. 8 /\ Len(EventNames) = 8 /\ 8 \in 0 .. 255
  BY DEF EventNames
<1> QED
  BY <1>1, EnumExact DEF ParseEventType

LEMMA LocationNamesExact ==
    ASSUME NEW name
    PROVE  /\ ParseLocation(name) \in Nat
           /\ ParseLocation(name) # INVALID <=> name \in ToSet(LocationNames)
           /\ name \in ToSet(LocationNames) => LocationNames[ParseLocation(name) + 1] = name
<1>1. DOMAIN LocationNames = 1 .. 15 /\ Len(LocationNames) = 15 /\ 15 \in 0 .. 255
  BY DEF LocationNames
<1> QED
  BY <1>1, EnumExact DEF ParseLocation

LEMMA LineType ==
    ASSUME NEW line \in Lines
    PROVE  /\ line.names \in Seq(STRING)
           /\ line.time \in Seq(Character)
           /\ DOMAIN line.names = 1 .. Len(line.names)
           /\ Len(line.names) \in Nat
BY LinesAssumption, LenProperties DEF Character

(* splitAndValidateLine() lets log lines through, and no other line. *)
LEMMA ValidatesLogLines ==
    ASSUME NEW line \in Lines
    PROVE  Validates(line) <=> IsLogLine(line)
<1>1. /\ line.names \in Seq(STRING) /\ line.time \in Seq(Character)
      /\ DOMAIN line.names = 1 .. Len(line.names) /\ Len(line.names) \in Nat
  BY LineType
<1>2. ParseInt64(line.time) # NoNumber
        <=> /\ line.time # << >> /\ ToSet(line.time) \subseteq Digits
            /\ DecimalValue(line.time) <= INT64_MAX
  BY <1>1, ParseExact DEF NoNumber
<1>3. (\A i \in DOMAIN line.names : line.names[i] # "") <=> "" \notin ToSet(line.names)
  BY DEF ToSet
<1>4. ParseEventType(line.names[5]) # INVALID <=> line.names[5] \in ToSet(EventNames)
  BY EventNamesExact
<1>5. ParseLocation(line.names[6]) # INVALID <=> line.names[6] \in ToSet(LocationNames)
  BY LocationNamesExact
<1> QED
  BY <1>2, <1>3, <1>4, <1>5, Zenon DEF Validates, IsLogLine
-----------------------------------------------------------------------------
(* A name that is among the strings has an id, and its id leads to it. *)
LEMMA IdLeadsBack ==
    ASSUME NEW S, NEW strings \in Seq(S), NEW name, Contains(strings, name)
    PROVE  /\ IdOf(strings, name) \in 0 .. Len(strings) - 1
           /\ NameOf(strings, IdOf(strings, name)) = name
<1> DEFINE k == CHOOSE i \in DOMAIN strings : strings[i] = name
<1>1. DOMAIN strings = 1 .. Len(strings) /\ Len(strings) \in Nat
  BY LenProperties
<1>2. k \in 1 .. Len(strings) /\ strings[k] = name
  BY <1>1 DEF Contains
<1>3. IdOf(strings, name) = k - 1
  BY DEF IdOf
<1> HIDE DEF k
<1> QED
  BY <1>1, <1>2, <1>3 DEF NameOf

(* One pool continues another: no id changes its string. *)
Continues(t, s) == Len(s) <= Len(t) /\ \A i \in 1 .. Len(s) : t[i] = s[i]

(* What interning one name does to a pool. *)
LEMMA WithNameGrows ==
    ASSUME NEW S, NEW s \in Seq(S), NEW name \in S
    PROVE  /\ WithName(s, name) \in Seq(S)
           /\ Continues(WithName(s, name), s)
           /\ \A x : Contains(WithName(s, name), x) <=> Contains(s, x) \/ x = name
<1>1. Len(s) \in Nat
  BY LenProperties
<1>2. CASE Contains(s, name)
  BY <1>1, <1>2 DEF WithName, Continues
<1>3. CASE ~Contains(s, name)
  <2> DEFINE t == Append(s, name)
  <2>1. WithName(s, name) = t
    BY <1>3 DEF WithName
  <2>2. /\ t \in Seq(S) /\ Len(t) = Len(s) + 1 /\ t[Len(s) + 1] = name
        /\ \A i \in 1 .. Len(s) : t[i] = s[i]
    BY AppendProperties
  <2> HIDE DEF t
  <2>3. \A i : i \in 1 .. Len(t) <=> i \in 1 .. Len(s) \/ i = Len(s) + 1
    BY <1>1, <2>2
  <2>4. ASSUME NEW x PROVE Contains(t, x) <=> Contains(s, x) \/ x = name
    BY <2>2, <2>3, Zenon DEF Contains
  <2> QED
    BY <1>1, <2>1, <2>2, <2>4 DEF Continues
<1> QED
  BY <1>2, <1>3

LEMMA ContinuesOn ==
    ASSUME NEW r \in Seq(STRING), NEW s \in Seq(STRING), NEW t \in Seq(STRING),
           Continues(s, r), Continues(t, s)
    PROVE  Continues(t, r)
<1>1. Len(r) \in Nat /\ Len(s) \in Nat /\ Len(t) \in Nat
  BY LenProperties
<1> QED
  BY <1>1 DEF Continues

(* Interning the four columns of a line, whatever is evaluated first. *)
LEMMA PoolWithGrows ==
    ASSUME pool \in Seq(STRING), argumentOrder \in ArgumentOrders,
           NEW line \in Lines, Len(line.names) = 6
    PROVE  /\ PoolWith(Interns(line)) \in Seq(STRING)
           /\ Continues(PoolWith(Interns(line)), pool)
           /\ \A x : Contains(PoolWith(Interns(line)), x)
                        <=> Contains(pool, x) \/ \E i \in 1 .. 4 : x = line.names[i]
<1> DEFINE name(i) == line.names[argumentOrder[i]]
           one == WithName(pool, name(1))
           two == WithName(one, name(2))
           three == WithName(two, name(3))
           four == WithName(three, name(4))
<1>1. argumentOrder \in [1 .. 4 -> 1 .. 4] /\ ToSet(argumentOrder) = 1 .. 4
  BY LinesAssumption
<1>2. /\ \A i \in 1 .. 4 : name(i) \in STRING
      /\ \A x : (\E i \in 1 .. 4 : x = name(i)) <=> \E i \in 1 .. 4 : x = line.names[i]
  <2>1. line.names \in Seq(STRING)
    BY LineType
  <2>2. \A i \in 1 .. 4 : argumentOrder[i] \in 1 .. 4
    BY <1>1
  <2>3. \A k \in 1 .. 4 : \E i \in 1 .. 4 : argumentOrder[i] = k
    BY <1>1 DEF ToSet
  <2> QED
    BY <2>1, <2>2, <2>3
<1>3. PoolWith(Interns(line)) = four
  BY DEF PoolWith, Interns
<1>4. name(1) \in STRING /\ name(2) \in STRING /\ name(3) \in STRING /\ name(4) \in STRING
  <2> HIDE DEF name
  <2> QED
    BY <1>2
<1>5. \A x : (\E i \in 1 .. 4 : x = name(i))
              <=> x = name(1) \/ x = name(2) \/ x = name(3) \/ x = name(4)
  <2>1. \A i : i \in 1 .. 4 <=> i = 1 \/ i = 2 \/ i = 3 \/ i = 4
    OBVIOUS
  <2> HIDE DEF name
  <2> QED
    BY <2>1
<1> HIDE DEF name
<1>6. /\ one \in Seq(STRING) /\ Continues(one, pool)
      /\ \A x : Contains(one, x) <=> Contains(pool, x) \/ x = name(1)
  BY <1>4, WithNameGrows
<1> HIDE DEF one
<1>7. /\ two \in Seq(STRING) /\ Continues(two, one)
      /\ \A x : Contains(two, x) <=> Contains(one, x) \/ x = name(2)
  BY <1>4, <1>6, WithNameGrows
<1> HIDE DEF two
<1>8. /\ three \in Seq(STRING) /\ Continues(three, two)
      /\ \A x : Contains(three, x) <=> Contains(two, x) \/ x = name(3)
  BY <1>4, <1>7, WithNameGrows
<1> HIDE DEF three
<1>9. /\ four \in Seq(STRING) /\ Continues(four, three)
      /\ \A x : Contains(four, x) <=> Contains(three, x) \/ x = name(4)
  BY <1>4, <1>8, WithNameGrows
<1> HIDE DEF four
<1>10. Continues(four, pool)
  BY <1>6, <1>7, <1>8, <1>9, ContinuesOn
<1>11. ASSUME NEW x
       PROVE  Contains(four, x) <=> Contains(pool, x) \/ \E i \in 1 .. 4 : x = line.names[i]
  BY <1>2, <1>5, <1>6, <1>7, <1>8, <1>9, Zenon
<1> QED
  BY <1>3, <1>9, <1>10, <1>11
-----------------------------------------------------------------------------
Chunk(S) == [entries : Seq(S), minTimestamp : Int, maxTimestamp : Int]

LEMMA EntriesOfAppend ==
    ASSUME NEW S, NEW stored \in Seq(Chunk(S)), NEW chunk \in Chunk(S)
    PROVE  /\ EntriesOf(stored) \in Seq(S)
           /\ EntriesOf(Append(stored, chunk)) = EntriesOf(stored) \o chunk.entries
<1> DEFINE N == Len(stored)
           more == Append(stored, chunk)
           seqs == [i \in DOMAIN stored |-> stored[i].entries]
           others == [i \in DOMAIN more |-> more[i].entries]
<1>1. N \in Nat /\ DOMAIN stored = 1 .. N /\ \A i \in 1 .. N : stored[i].entries \in Seq(S)
  <2>1. N \in Nat /\ DOMAIN stored = 1 .. N /\ \A i \in 1 .. N : stored[i] \in Chunk(S)
    BY LenProperties, ElementOfSeq
  <2>2. \A c \in Chunk(S) : c.entries \in Seq(S)
    BY DEF Chunk
  <2> QED
    BY <2>1, <2>2
<1>2. seqs \in Seq(Seq(S)) /\ Len(seqs) = N /\ \A i \in 1 .. N : seqs[i] = stored[i].entries
  BY <1>1
<1>3. chunk.entries \in Seq(S)
  BY DEF Chunk
<1>4. /\ more \in Seq(Chunk(S)) /\ Len(more) = N + 1 /\ more[N + 1] = chunk
      /\ \A i \in 1 .. N : more[i] = stored[i]
  BY AppendProperties
<1>5. DOMAIN more = 1 .. N + 1
  BY <1>4, LenProperties
<1> DEFINE next_ == Append(seqs, chunk.entries)
<1>6. /\ next_ \in Seq(Seq(S)) /\ Len(next_) = N + 1 /\ next_[N + 1] = chunk.entries
      /\ \A i \in 1 .. N : next_[i] = stored[i].entries
  <2> HIDE DEF seqs
  <2> QED
    BY <1>2, <1>3, AppendProperties
<1> HIDE DEF more
<1>7. others \in Seq(Seq(S)) /\ Len(others) = N + 1
      /\ others[N + 1] = chunk.entries /\ \A i \in 1 .. N : others[i] = stored[i].entries
  <2>1. \A i \in 1 .. N + 1 : i \in 1 .. N \/ i = N + 1
    BY <1>1
  <2>2. \A i \in 1 .. N + 1 : more[i].entries \in Seq(S)
    BY <1>1, <1>3, <1>4, <2>1
  <2>3. N + 1 \in 1 .. N + 1 /\ \A i \in 1 .. N : i \in 1 .. N + 1
    BY <1>1
  <2>4. N + 1 \in Nat
    BY <1>1
  <2> QED
    BY <1>4, <1>5, <2>2, <2>3, <2>4
<1> HIDE DEF seqs, others, next_
<1>8. others = next_
  <2>1. \A i \in 1 .. N + 1 : others[i] = next_[i]
    <3>1. \A i \in 1 .. N + 1 : i \in 1 .. N \/ i = N + 1
      BY <1>1
    <3> QED
      BY <1>6, <1>7, <3>1
  <2> QED
    BY <1>6, <1>7, <2>1, SeqEqual
<1>9. FlattenSeq(seqs) \in Seq(S) /\ FlattenSeq(next_) = FlattenSeq(seqs) \o chunk.entries
  BY <1>2, <1>3, FlattenAppend DEF next_
<1> QED
  BY <1>8, <1>9 DEF EntriesOf, seqs, others, more

(* insert() adds the entry after all others. *)
LEMMA WithEntryAppends ==
    ASSUME NEW S, NEW stored \in Seq(Chunk(S)), NEW e \in S, e.timestamp \in Int
    PROVE  /\ WithEntry(stored, e) \in Seq(Chunk(S))
           /\ EntriesOf(stored) \in Seq(S)
           /\ EntriesOf(WithEntry(stored, e)) = Append(EntriesOf(stored), e)
<1>1. NewChunk(e) \in Chunk(S) /\ NewChunk(e).entries = <<e>>
  BY DEF NewChunk, Chunk
<1>2. EntriesOf(stored) \in Seq(S)
  BY <1>1, EntriesOfAppend
<1>3. \A s \in Seq(S) : s \o <<e>> = Append(s, e)
  OBVIOUS
<1>4. CASE stored = << >> \/ ~HasSpace(Last(stored))
  <2>1. WithEntry(stored, e) = Append(stored, NewChunk(e))
    BY <1>4 DEF WithEntry
  <2>2. Append(stored, NewChunk(e)) \in Seq(Chunk(S))
    BY <1>1, AppendProperties
  <2>3. EntriesOf(Append(stored, NewChunk(e))) = EntriesOf(stored) \o <<e>>
    BY <1>1, EntriesOfAppend
  <2> QED
    BY <1>2, <1>3, <2>1, <2>2, <2>3
<1>5. CASE ~(stored = << >> \/ ~HasSpace(Last(stored)))
  <2> DEFINE N == Len(stored)
             front == Front(stored)
             last == Last(stored)
             longer == Appended(last, e)
  <2>1. N \in Nat /\ N # 0
    BY <1>5, LenProperties
  <2>2. last \in Chunk(S) /\ last = stored[N]
    BY <2>1, ElementOfSeq DEF Last
  <2>3. front \in Seq(Chunk(S)) /\ Len(front) = N - 1 /\ \A i \in 1 .. N - 1 : front[i] = stored[i]
    <3>1. Len(stored) \in Nat /\ \A i \in 1 .. N - 1 : stored[i] \in Chunk(S)
      BY <2>1, ElementOfSeq
    <3>2. /\ SubSeq(stored, 1, N - 1) \in Seq(Chunk(S))
          /\ Len(SubSeq(stored, 1, N - 1)) = IF 1 <= N - 1 THEN N - 1 - 1 + 1 ELSE 0
          /\ \A i \in 1 .. N - 1 - 1 + 1 : SubSeq(stored, 1, N - 1)[i] = stored[1 + i - 1]
      BY <2>1, <3>1, SubSeqProperties
    <3>3. \A i \in 1 .. N - 1 : i \in 1 .. N - 1 - 1 + 1 /\ 1 + i - 1 = i
      BY <2>1
    <3> HIDE DEF N
    <3>4. (IF 1 <= N - 1 THEN N - 1 - 1 + 1 ELSE 0) = N - 1
      <4>1. CASE 1 <= N - 1
        BY <2>1, <4>1
      <4>2. CASE ~(1 <= N - 1)
        BY <2>1, <4>2
      <4> QED
        BY <4>1, <4>2
    <3> QED
      BY <3>2, <3>3, <3>4 DEF Front, N
  <2>4. WithEntry(stored, e) = front \o <<longer>>
    BY <1>5 DEF WithEntry
  <2>5. last.entries \in Seq(S) /\ last.minTimestamp \in Int /\ last.maxTimestamp \in Int
    BY <2>2 DEF Chunk
  <2>6. longer \in Chunk(S) /\ longer.entries = Append(last.entries, e)
    <3> HIDE DEF last
    <3>1. Append(last.entries, e) \in Seq(S)
      BY <2>5, AppendProperties
    <3> QED
      BY <2>5, <3>1 DEF Appended, Chunk
  <2> HIDE DEF front, last, longer
  <2>7. front \o <<longer>> = Append(front, longer)
    BY <2>3, <2>6
  <2>8. stored = Append(front, last)
    <3>1. Append(front, last) \in Seq(Chunk(S)) /\ Len(Append(front, last)) = N
          /\ Append(front, last)[N] = last /\ \A i \in 1 .. N - 1 : Append(front, last)[i] = stored[i]
      BY <2>1, <2>2, <2>3, AppendProperties
    <3>2. \A i \in 1 .. N : Append(front, last)[i] = stored[i]
      BY <2>1, <2>2, <3>1
    <3> QED
      BY <3>1, <3>2, SeqEqual
  <2>9. EntriesOf(front) \in Seq(S) /\ EntriesOf(stored) = EntriesOf(front) \o last.entries
        /\ EntriesOf(Append(front, longer)) = EntriesOf(front) \o longer.entries
    <3>1. \A chunk \in Chunk(S) : EntriesOf(front) \in Seq(S)
            /\ EntriesOf(Append(front, chunk)) = EntriesOf(front) \o chunk.entries
      BY <2>3, EntriesOfAppend
    <3>2. /\ EntriesOf(front) \in Seq(S)
          /\ EntriesOf(Append(front, last)) = EntriesOf(front) \o last.entries
          /\ EntriesOf(Append(front, longer)) = EntriesOf(front) \o longer.entries
      BY <2>2, <2>6, <3>1
    <3> QED
      BY <2>8, <3>2, Zenon
  <2>10. \A a, b \in Seq(S) : a \o Append(b, e) = Append(a \o b, e)
    OBVIOUS
  <2>11. EntriesOf(Append(front, longer)) = Append(EntriesOf(stored), e)
    BY <2>5, <2>6, <2>9, <2>10
  <2>12. Append(front, longer) \in Seq(Chunk(S))
    BY <2>3, <2>6, AppendProperties
  <2> QED
    BY <1>2, <2>4, <2>7, <2>11, <2>12
<1> QED
  BY <1>4, <1>5
-----------------------------------------------------------------------------
StoredChunk == Chunk(Entry)

(* The parts of TypeOK: what a load of the CSV works on, and the rest. *)
LoaderType ==
    /\ argumentOrder \in ArgumentOrders
    /\ lines \in Seq(Lines)
    /\ firstLine \in BOOLEAN
    /\ gatekeeper \subseteq {Fingerprint[line] : line \in Lines}
StoreType == pool \in Seq(STRING) /\ chunks \in Seq(StoredChunk)
ControlType ==
    /\ pc \in {"ingest", "menu", "off", "load", "failed"}
    /\ next \in Nat \ {0}
    /\ damage \in {"none", "cut", "altered"}

LEMMA TypeParts == TypeOK <=> LoaderType /\ StoreType /\ ControlType
BY DEF TypeOK, LoaderType, StoreType, ControlType, StoredChunk, Chunk

SavedType == saved.pool \in Seq(STRING) /\ saved.chunks \in Seq(StoredChunk)

(* One section of an altered file is another one, the rest is as it was.   *)
AlteredInv ==
    pc # "ingest" /\ damage = "altered" =>
        \E i \in DOMAIN Original : \E section \in OtherSections(i, Original[i]) :
            /\ section # Original[i]
            /\ file = [Original EXCEPT ![i] = section]

(* load() goes on only if the header is that of a snapshot. *)
HeaderInv ==
    pc = "load" =>
        /\ next >= 2
        /\ file[1].magic = "HALO" /\ file[1].version = 1
        /\ file[1].sectionCount = file[1].stringCount

TypeInv == TypeOK /\ SavedType /\ AlteredInv /\ HeaderInv
-----------------------------------------------------------------------------
(* The ways in which one value of the file becomes another one. *)
LEMMA OtherHeadersAre ==
    ASSUME NEW strings, NEW stored, NEW header \in OtherHeaders(Header(strings, stored))
    PROVE  \/ header.magic # "HALO"
           \/ header.checksum # Header(strings, stored).checksum
              /\ \A field \in {"version", "chunkCount", "stringCount", "sectionCount"} :
                    header[field] = Header(strings, stored)[field]
           \/ \E field \in {"version", "totalEntries", "chunkCount", "stringCount",
                            "sectionCount"} :
                 \E n \in Numbers : header = [Header(strings, stored) EXCEPT ![field] = n]
<1> DEFINE h == Header(strings, stored)
<1>1. DOMAIN h = {"magic", "version", "totalEntries", "chunkCount", "stringCount",
                  "sectionCount", "checksum"}
  BY DEF Header
<1>2. CASE header = [h EXCEPT !.magic = "OTHER"]
  BY <1>2 DEF Header
<1>3. CASE header = [h EXCEPT !.checksum = Xor(@, {0})]
  <2>1. Xor(h.checksum, {0}) # h.checksum
    BY DEF Xor
  <2> HIDE DEF h
  <2>2. header.checksum # h.checksum
    BY <1>1, <1>3, <2>1
  <2>3. \A field \in {"version", "chunkCount", "stringCount", "sectionCount"} :
            header[field] = h[field]
    BY <1>1, <1>3
  <2> QED
    BY <2>2, <2>3 DEF h
<1> QED
  BY <1>2, <1>3 DEF OtherHeaders

(* If the header is accepted, it announces the strings there are. *)
LEMMA OtherHeaderAccepted ==
    ASSUME NEW strings, NEW stored, NEW header \in OtherHeaders(Header(strings, stored)),
           header.magic = "HALO", header.version = 1,
           header.sectionCount = header.stringCount,
           header # Header(strings, stored)
    PROVE  /\ header.stringCount = Len(strings)
           /\ \/ header.checksum # ComputeChecksum(stored) /\ header.chunkCount = Len(stored)
              \/ header.checksum = ComputeChecksum(stored)
<1> DEFINE h == Header(strings, stored)
<1>1. /\ DOMAIN h = {"magic", "version", "totalEntries", "chunkCount", "stringCount",
                     "sectionCount", "checksum"}
      /\ h.version = 1 /\ h.stringCount = Len(strings) /\ h.sectionCount = Len(strings)
      /\ h.chunkCount = Len(stored) /\ h.checksum = ComputeChecksum(stored)
      /\ h \in [DOMAIN h -> {h[f] : f \in DOMAIN h}]
  BY DEF Header
<1>2. \/ header.checksum # h.checksum
         /\ \A field \in {"version", "chunkCount", "stringCount", "sectionCount"} :
               header[field] = h[field]
      \/ \E field \in {"version", "totalEntries", "chunkCount", "stringCount", "sectionCount"} :
            \E n \in Numbers : header = [h EXCEPT ![field] = n]
  BY OtherHeadersAre
<1> HIDE DEF h
<1>3. CASE header.checksum # h.checksum
           /\ \A field \in {"version", "chunkCount", "stringCount", "sectionCount"} :
                 header[field] = h[field]
  BY <1>1, <1>3
<1>4. ASSUME NEW field \in {"version", "totalEntries", "chunkCount", "stringCount", "sectionCount"},
             NEW n \in Numbers, header = [h EXCEPT ![field] = n]
      PROVE  header.stringCount = Len(strings) /\ header.checksum = ComputeChecksum(stored)
  <2>1. header.checksum = h.checksum
    BY <1>1, <1>4
  <2>2. CASE field = "stringCount"
    <3>1. header.stringCount = n /\ header.sectionCount = Len(strings)
      BY <1>1, <1>4, <2>2
    <3> QED
      BY <1>1, <2>1, <3>1
  <2>3. CASE field # "stringCount"
    BY <1>1, <1>4, <2>1, <2>3
  <2> QED
    BY <2>2, <2>3
<1> QED
  BY <1>1, <1>2, <1>3, <1>4

LEMMA OtherStringsType ==
    ASSUME SavedType, NEW name, NEW other \in OtherStrings(name)
    PROVE  other \in STRING
<1>1. other \in ToSet(saved.pool)
  BY DEF OtherStrings
<1> QED
  BY <1>1, ElementOfSeq, LenProperties DEF SavedType, ToSet

LEMMA OtherChunksType ==
    ASSUME NEW chunk \in StoredChunk, NEW other \in OtherRanges(chunk) \cup OtherEntries(chunk)
    PROVE  other \in StoredChunk
<1>1. /\ chunk = [entries |-> chunk.entries, minTimestamp |-> chunk.minTimestamp,
                  maxTimestamp |-> chunk.maxTimestamp]
      /\ chunk.entries \in Seq(Entry) /\ chunk.minTimestamp \in Int /\ chunk.maxTimestamp \in Int
  BY DEF StoredChunk, Chunk
<1>2. Numbers \subseteq Nat /\ Numbers \subseteq 0 .. INT64_MAX
  BY SnapshotAssumption
<1>3. CASE other \in OtherRanges(chunk)
  <2>1. PICK field \in {"minTimestamp", "maxTimestamp"}, n \in Numbers :
            other = [chunk EXCEPT ![field] = n]
    BY <1>3 DEF OtherRanges
  <2> QED
    BY <1>1, <1>2, <2>1 DEF StoredChunk, Chunk
<1>4. CASE other \in OtherEntries(chunk)
  <2>1. PICK j \in DOMAIN chunk.entries, n \in Numbers,
             field \in {"userId", "deviceId", "appId", "resourceId", "eventType", "location",
                        "timestamp"} :
            other = [chunk EXCEPT !.entries[j][field] = n]
    BY <1>4 DEF OtherEntries
  <2> DEFINE entry == [chunk.entries[j] EXCEPT ![field] = n]
             entries == [chunk.entries EXCEPT ![j] = entry]
  <2>2. chunk.entries[j] \in Entry
    BY <1>1, ElementOfSeq, LenProperties
  <2>3. entry \in Entry
    BY <1>2, <2>2 DEF Entry
  <2>4. entries \in Seq(Entry)
    <3> HIDE DEF entry
    <3> QED
      BY <1>1, <2>3, ExceptSeq
  <2>5. other = [chunk EXCEPT !.entries = entries]
    BY <2>1
  <2> HIDE DEF entries
  <2> QED
    BY <1>1, <2>4, <2>5 DEF StoredChunk, Chunk
<1> QED
  BY <1>3, <1>4

(* The sections of the file that was dumped. *)
LEMMA OriginalSections ==
    ASSUME SavedType
    PROVE  /\ IsSeq(Original)
           /\ DOMAIN Original = 1 .. Len(Original)
           /\ Len(saved.pool) \in Nat /\ Len(saved.chunks) \in Nat
           /\ Len(Original) = 1 + Len(saved.pool) + Len(saved.chunks)
           /\ Original[1] = Header(saved.pool, saved.chunks)
           /\ \A i \in 1 .. Len(saved.pool) : Original[i + 1] = saved.pool[i]
           /\ \A i \in 1 .. Len(saved.chunks) :
                 Original[i + 1 + Len(saved.pool)] = saved.chunks[i]
<1> DEFINE strings == saved.pool
           stored == saved.chunks
<1>1. IsSeq(strings) /\ IsSeq(stored) /\ Original = Image(strings, stored)
  BY SeqOfElements DEF SavedType, Original
<1> HIDE DEF strings, stored
<1>2. /\ IsSeq(Original)
      /\ Len(strings) \in Nat /\ Len(stored) \in Nat
      /\ Len(Original) = 1 + Len(strings) + Len(stored)
      /\ Original[1] = Header(strings, stored)
      /\ \A i \in 1 .. Len(strings) : Original[i + 1] = strings[i]
      /\ \A i \in 1 .. Len(stored) : Original[i + 1 + Len(strings)] = stored[i]
  BY <1>1, ImageSections
<1>3. DOMAIN Original = 1 .. Len(Original)
  BY <1>2, LenProperties DEF IsSeq
<1> QED
  BY <1>2, <1>3, Zenon DEF strings, stored

(* What one alteration makes of the file. *)
LEMMA AlteredSections ==
    ASSUME TypeInv, pc # "ingest", damage = "altered"
    PROVE  \E k \in 1 .. Len(Original) : \E section \in OtherSections(k, Original[k]) :
              /\ section # Original[k]
              /\ DOMAIN file = 1 .. Len(Original) /\ Len(file) = Len(Original)
              /\ file[k] = section
              /\ \A i \in 1 .. Len(Original) : i # k => file[i] = Original[i]
<1>1. IsSeq(Original) /\ DOMAIN Original = 1 .. Len(Original) /\ Len(Original) \in Nat
  BY OriginalSections DEF TypeInv
<1>2. PICK k \in 1 .. Len(Original) : \E section \in OtherSections(k, Original[k]) :
          section # Original[k] /\ file = [Original EXCEPT ![k] = section]
  BY <1>1 DEF TypeInv, AlteredInv
<1>3. PICK section \in OtherSections(k, Original[k]) :
          section # Original[k] /\ file = [Original EXCEPT ![k] = section]
  BY <1>2
<1> DEFINE S == ToSet(Original) \cup {section}
<1>4. Original \in Seq(S) /\ section \in S
  BY <1>1, SeqMonotonic DEF IsSeq
<1> HIDE DEF S
<1>5. /\ file \in Seq(S) /\ Len(file) = Len(Original)
      /\ \A j \in 1 .. Len(Original) : file[j] = IF j = k THEN section ELSE Original[j]
  BY <1>3, <1>4, ExceptSeq
<1>6. DOMAIN file = 1 .. Len(Original)
  BY <1>5, LenProperties
<1> QED
  BY <1>3, <1>5, <1>6

(* Whatever became of the file, its strings are strings and its chunks     *)
(* chunks, and a header that is accepted announces the strings there are.  *)
LEMMA FileTypes ==
    ASSUME Inv, TypeInv, pc # "ingest"
    PROVE  /\ \A i \in 1 .. Len(saved.pool) : i + 1 <= Len(file) => file[i + 1] \in STRING
           /\ \A i \in 1 .. Len(saved.chunks) :
                 i + 1 + Len(saved.pool) <= Len(file) => file[i + 1 + Len(saved.pool)] \in StoredChunk
           /\ Len(file) \in Nat /\ Len(file) <= 1 + Len(saved.pool) + Len(saved.chunks)
           /\ pc = "load" => file[1].stringCount = Len(saved.pool)
<1> DEFINE N == Len(saved.pool)
           K == Len(saved.chunks)
<1>1. /\ N \in Nat /\ K \in Nat
      /\ Len(Original) = 1 + N + K
      /\ Original[1] = Header(saved.pool, saved.chunks)
      /\ \A i \in 1 .. N : Original[i + 1] = saved.pool[i]
      /\ \A i \in 1 .. K : Original[i + 1 + N] = saved.chunks[i]
  BY OriginalSections DEF TypeInv
<1>2. /\ \A i \in 1 .. N : saved.pool[i] \in STRING
      /\ \A i \in 1 .. K : saved.chunks[i] \in StoredChunk
  BY ElementOfSeq DEF TypeInv, SavedType
<1> HIDE DEF N, K
<1>3. \A i \in 1 .. N : i + 1 \in 1 .. 1 + N + K /\ i + 1 \in 2 .. 1 + N /\ i + 1 # 1
  BY <1>1
<1>4. \A i \in 1 .. K : i + 1 + N \in 1 .. 1 + N + K /\ i + 1 + N \notin 2 .. 1 + N /\ i + 1 + N # 1
  BY <1>1
<1>5. CASE damage \in {"none", "cut"}
  <2>1. /\ Len(file) \in Nat /\ Len(file) <= Len(Original)
        /\ \A i \in 1 .. Len(file) : file[i] = Original[i]
    <3>1. /\ Len(file) \in Nat
          /\ damage = "none" => Len(file) = Len(Original)
          /\ damage = "cut" => Len(file) < Len(Original)
          /\ \A i \in 1 .. Len(file) : file[i] = Original[i]
      BY <1>5, FileSections DEF Inv
    <3>2. Len(Original) \in Nat
      BY <1>1
    <3> QED
      BY <1>5, <3>1, <3>2
  <2>2. \A i \in 1 .. N : i + 1 <= Len(file) => file[i + 1] \in STRING
    <3>1. \A i \in 1 .. N : i + 1 <= Len(file) => i + 1 \in 1 .. Len(file)
      BY <1>1, <2>1
    <3> QED
      BY <1>1, <1>2, <2>1, <3>1
  <2>3. \A i \in 1 .. K : i + 1 + N <= Len(file) => file[i + 1 + N] \in StoredChunk
    <3>1. \A i \in 1 .. K : i + 1 + N <= Len(file) => i + 1 + N \in 1 .. Len(file)
      BY <1>1, <2>1
    <3> QED
      BY <1>1, <1>2, <2>1, <3>1
  <2>4. pc = "load" => file[1].stringCount = N
    BY <1>5, Sections DEF N
  <2> QED
    BY <1>1, <2>1, <2>2, <2>3, <2>4 DEF N, K
<1>6. CASE damage = "altered"
  <2>1. PICK k \in 1 .. Len(Original) : \E section \in OtherSections(k, Original[k]) :
          /\ section # Original[k]
          /\ Len(file) = Len(Original)
          /\ file[k] = section
          /\ \A i \in 1 .. Len(Original) : i # k => file[i] = Original[i]
    BY <1>6, AlteredSections
  <2>2. /\ file[k] \in OtherSections(k, Original[k]) /\ file[k] # Original[k]
        /\ Len(file) = 1 + N + K
        /\ \A i \in 1 .. 1 + N + K : i # k => file[i] = Original[i]
    BY <1>1, <2>1
  <2>3. ASSUME NEW i \in 1 .. N PROVE file[i + 1] \in STRING
    <3>1. CASE i + 1 # k
      BY <1>1, <1>2, <1>3, <2>2, <3>1
    <3>2. CASE i + 1 = k
      <4>1. k # 1 /\ k \in StringSections
        BY <1>3, <3>2 DEF StringSections, N
      <4>2. file[k] \in OtherStrings(Original[k])
        BY <2>2, <4>1 DEF OtherSections
      <4> QED
        BY <3>2, <4>2, OtherStringsType DEF TypeInv
    <3> QED
      BY <3>1, <3>2
  <2>4. ASSUME NEW i \in 1 .. K PROVE file[i + 1 + N] \in StoredChunk
    <3>1. CASE i + 1 + N # k
      <4>1. i + 1 + N \in 1 .. 1 + N + K
        BY <1>4
      <4>2. file[i + 1 + N] = Original[i + 1 + N]
        BY <2>2, <3>1, <4>1
      <4> QED
        BY <1>1, <1>2, <4>2
    <3>2. CASE i + 1 + N = k
      <4>1. k # 1 /\ k \notin StringSections
        BY <1>4, <3>2 DEF StringSections, N
      <4>2. file[k] \in OtherRanges(Original[k]) \cup OtherEntries(Original[k])
        BY <2>2, <4>1 DEF OtherSections
      <4>3. Original[k] \in StoredChunk
        BY <1>1, <1>2, <3>2
      <4> QED
        BY <3>2, <4>2, <4>3, OtherChunksType
    <3> QED
      BY <3>1, <3>2
  <2>5. ASSUME pc = "load" PROVE file[1].stringCount = N
    <3>1. file[1].magic = "HALO" /\ file[1].version = 1 /\ file[1].sectionCount = file[1].stringCount
      BY <2>5 DEF TypeInv, HeaderInv
    <3>2. CASE k = 1
      <4>1. file[1] \in OtherHeaders(Header(saved.pool, saved.chunks))
            /\ file[1] # Header(saved.pool, saved.chunks)
        BY <1>1, <2>2, <3>2 DEF OtherSections
      <4> QED
        BY <3>1, <4>1, OtherHeaderAccepted DEF N
    <3>3. CASE k # 1
      <4>1. file[1] = Header(saved.pool, saved.chunks)
        <5>1. 1 \in 1 .. 1 + N + K
          BY <1>1
        <5>2. file[1] = Original[1]
          BY <2>2, <3>3, <5>1
        <5> QED
          BY <1>1, <5>2
      <4> QED
        BY <4>1 DEF Header, N
    <3> QED
      BY <3>2, <3>3
  <2> QED
    <3>1. Len(file) \in Nat /\ Len(file) <= 1 + N + K
      BY <1>1, <2>2
    <3> QED
      BY <2>3, <2>4, <2>5, <3>1 DEF N, K
<1>7. damage \in {"none", "cut", "altered"}
  BY DEF TypeInv, TypeOK
<1> QED
  BY <1>5, <1>6, <1>7
-----------------------------------------------------------------------------
(* What validates has an entry of the right type, in any pool that has its *)
(* four names.                                                             *)
LEMMA EntryType ==
    ASSUME NEW line \in Lines, Validates(line), NEW strings \in Seq(STRING),
           \A i \in 1 .. 4 : Contains(strings, line.names[i])
    PROVE  EntryOf(strings, line) \in Entry
<1>1. IdOf(strings, line.names[1]) \in Nat /\ IdOf(strings, line.names[2]) \in Nat
      /\ IdOf(strings, line.names[3]) \in Nat /\ IdOf(strings, line.names[4]) \in Nat
  <2>1. \A i \in 1 .. 4 : IdOf(strings, line.names[i]) \in 0 .. Len(strings) - 1
    BY IdLeadsBack
  <2>2. Len(strings) \in Nat
    BY LenProperties
  <2> QED
    BY <2>1, <2>2
<1>2. ParseEventType(line.names[5]) \in Nat /\ ParseLocation(line.names[6]) \in Nat
  BY EventNamesExact, LocationNamesExact
<1>3. ParseInt64(line.time) \in 0 .. INT64_MAX
  <2>1. ParseInt64(line.time) # NoNumber
    BY DEF Validates
  <2> QED
    BY <2>1, LineType, ParseExact, LinesAssumption
<1> QED
  BY <1>1, <1>2, <1>3 DEF EntryOf, Entry

(* A line keeps the types of the store. *)
LEMMA IngestTypes ==
    ASSUME TypeInv, NEW line \in Lines, Ingest(line)
    PROVE  TypeInv'
<1>1. /\ pc = "ingest" /\ UNCHANGED <<pc, next, damage, saved, file, argumentOrder>>
      /\ lines' = Append(lines, line)
      /\ firstLine' = StaysFirst(line)
  BY DEF Ingest, ProcessLine, snapshotVars
<1>2. LoaderType /\ StoreType /\ ControlType /\ SavedType
  BY TypeParts DEF TypeInv
<1>3. lines' \in Seq(Lines)
  BY <1>1, <1>2, AppendProperties DEF LoaderType
<1>4. firstLine' \in BOOLEAN
  BY <1>1, <1>2 DEF StaysFirst, LoaderType
<1>5. gatekeeper' \in {gatekeeper, gatekeeper \cup {Fingerprint[line]}}
  BY DEF Ingest, ProcessLine, Skip, Drop, Store
<1>6. LoaderType'
  BY <1>1, <1>2, <1>3, <1>4, <1>5 DEF LoaderType
<1>7. StoreType'
  <2>1. CASE Skip(line) \/ Drop(line)
    BY <1>2, <2>1 DEF Skip, Drop, store, StoreType
  <2>2. CASE Store(line)
    <3>1. Validates(line) /\ pool' = PoolWith(Interns(line))
          /\ chunks' = WithEntry(chunks, EntryOf(pool', line))
      BY <2>2 DEF Store, Drops
    <3>2. /\ pool' \in Seq(STRING)
          /\ \A x : Contains(pool', x) <=> Contains(pool, x) \/ \E i \in 1 .. 4 : x = line.names[i]
      BY <1>2, <3>1, PoolWithGrows DEF StoreType, LoaderType, Validates
    <3>3. EntryOf(pool', line) \in Entry
      BY <3>1, <3>2, EntryType
    <3>4. EntryOf(pool', line).timestamp \in Int
      BY <3>3, LinesAssumption DEF Entry
    <3>5. chunks' \in Seq(StoredChunk)
      BY <1>2, <3>1, <3>3, <3>4, WithEntryAppends DEF StoreType, StoredChunk
    <3> QED
      BY <3>2, <3>5 DEF StoreType
  <2> QED
    BY <2>1, <2>2 DEF Ingest, ProcessLine
<1>8. ControlType' /\ SavedType'
  BY <1>1, <1>2 DEF ControlType, SavedType
<1>9. AlteredInv' /\ HeaderInv'
  BY <1>1 DEF AlteredInv, HeaderInv
<1>10. TypeOK' <=> LoaderType' /\ StoreType' /\ ControlType'
  BY DEF TypeOK, LoaderType, StoreType, ControlType, StoredChunk, Chunk
<1> QED
  BY <1>6, <1>7, <1>8, <1>9, <1>10 DEF TypeInv

LEMMA LoadStringTypes ==
    ASSUME Inv, TypeInv, LoadString
    PROVE  TypeInv'
<1> USE DEF TypeInv
<1>1. /\ pc = "load" /\ StringsLeft /\ chunks' = chunks
      /\ UNCHANGED <<argumentOrder, lines, firstLine, gatekeeper, file, saved, damage>>
      /\ \/ /\ pc' = "load" /\ next' = next + 1
            /\ next <= Len(file)
            /\ pool' = WithName(pool, file[next])
         \/ pc' = "failed" /\ pool' = pool /\ next' = next
  BY DEF LoadString, ReadFails, ingestionVars, snapshotVars, store
<1>2. LoaderType /\ StoreType /\ ControlType /\ SavedType
  BY TypeParts
<1>3. pool' \in Seq(STRING)
  <2>1. CASE pool' = pool
    BY <1>2, <2>1 DEF StoreType
  <2>2. CASE next <= Len(file) /\ pool' = WithName(pool, file[next])
    <3> DEFINE N == Len(saved.pool)
    <3>1. /\ \A i \in 1 .. N : i + 1 <= Len(file) => file[i + 1] \in STRING
          /\ file[1].stringCount = N /\ N \in Nat
      BY <1>1, <1>2, FileTypes, LenProperties DEF SavedType
    <3>2. next < 2 + N /\ next >= 2 /\ next \in Nat
      BY <1>1, <1>2, <3>1 DEF StringsLeft, HeaderInv, ControlType
    <3> DEFINE i == next - 1
    <3> HIDE DEF N
    <3>3. i \in 1 .. N /\ i + 1 = next
      BY <3>1, <3>2
    <3> HIDE DEF i
    <3>4. file[next] \in STRING
      BY <2>2, <3>1, <3>3
    <3> QED
      BY <1>2, <2>2, <3>4, WithNameGrows DEF StoreType
  <2> QED
    BY <1>1, <2>1, <2>2
<1>4. StoreType' /\ LoaderType' /\ ControlType' /\ SavedType'
  BY <1>1, <1>2, <1>3 DEF StoreType, LoaderType, ControlType, SavedType
<1>5. AlteredInv' /\ HeaderInv'
  BY <1>1, <1>2 DEF AlteredInv, HeaderInv, ControlType, Original, OtherSections, OtherStrings,
                    StringSections
<1>6. TypeOK' <=> LoaderType' /\ StoreType' /\ ControlType'
  BY DEF TypeOK, LoaderType, StoreType, ControlType, StoredChunk, Chunk
<1> QED
  BY <1>4, <1>5, <1>6

LEMMA LoadChunkTypes ==
    ASSUME Inv, TypeInv, LoadChunk
    PROVE  TypeInv'
<1> USE DEF TypeInv
<1>1. /\ pc = "load" /\ ~StringsLeft /\ pool' = pool
      /\ UNCHANGED <<argumentOrder, lines, firstLine, gatekeeper, file, saved, damage>>
      /\ \/ /\ pc' = "load" /\ next' = next + 1
            /\ next <= Len(file)
            /\ chunks' = Append(chunks, file[next])
         \/ pc' = "failed" /\ chunks' = chunks /\ next' = next
  BY DEF LoadChunk, ChunksLeft, AddLoadedChunk, ReadFails, ingestionVars, snapshotVars, store
<1>2. LoaderType /\ StoreType /\ ControlType /\ SavedType
  BY TypeParts
<1>3. chunks' \in Seq(StoredChunk)
  <2>1. CASE chunks' = chunks
    BY <1>2, <2>1 DEF StoreType
  <2>2. CASE next <= Len(file) /\ chunks' = Append(chunks, file[next])
    <3> DEFINE N == Len(saved.pool)
               K == Len(saved.chunks)
    <3>1. /\ \A i \in 1 .. K : i + 1 + N <= Len(file) => file[i + 1 + N] \in StoredChunk
          /\ Len(file) \in Nat /\ Len(file) <= 1 + N + K
          /\ file[1].stringCount = N /\ N \in Nat /\ K \in Nat
      BY <1>1, <1>2, FileTypes, LenProperties DEF SavedType
    <3>2. ~(next < 2 + N) /\ next \in Nat
      BY <1>1, <1>2, <3>1 DEF StringsLeft, ControlType
    <3> DEFINE i == next - 1 - N
    <3> HIDE DEF N, K
    <3>3. i \in 1 .. K /\ i + 1 + N = next
      BY <2>2, <3>1, <3>2
    <3> HIDE DEF i
    <3>4. file[next] \in StoredChunk
      BY <2>2, <3>1, <3>3
    <3> QED
      BY <1>2, <2>2, <3>4, AppendProperties DEF StoreType
  <2> QED
    BY <1>1, <2>1, <2>2
<1>4. StoreType' /\ LoaderType' /\ ControlType' /\ SavedType'
  BY <1>1, <1>2, <1>3 DEF StoreType, LoaderType, ControlType, SavedType
<1>5. AlteredInv' /\ HeaderInv'
  BY <1>1, <1>2 DEF AlteredInv, HeaderInv, ControlType, Original, OtherSections, OtherStrings,
                    StringSections
<1>6. TypeOK' <=> LoaderType' /\ StoreType' /\ ControlType'
  BY DEF TypeOK, LoaderType, StoreType, ControlType, StoredChunk, Chunk
<1> QED
  BY <1>4, <1>5, <1>6

LEMMA EmptyStoreType == << >> \in Seq(STRING) /\ << >> \in Seq(StoredChunk) /\ << >> \in Seq(Lines)
OBVIOUS

(* The other steps leave the store, empty it or set it aside. *)
LEMMA OtherStepTypes ==
    ASSUME Inv, TypeInv, Dump \/ Exit \/ Cut \/ Alter \/ LoadHeader \/ VerifyChecksum \/ LoadCsv
    PROVE  TypeInv'
<1> USE DEF TypeInv
<1>1. LoaderType /\ StoreType /\ ControlType /\ SavedType
  BY TypeParts
<1>2. LoaderType'
  BY <1>1, EmptyStoreType DEF Dump, Exit, Cut, Alter, Damaged, LoadHeader, VerifyChecksum, LoadCsv,
          ingestionVars, LoaderType
<1>3. StoreType'
  BY <1>1, EmptyStoreType DEF Dump, Exit, Cut, Alter, Damaged, LoadHeader, VerifyChecksum, LoadCsv,
          ingestionVars, store, StoreType
<1>4. ControlType'
  BY <1>1 DEF Dump, Exit, Cut, Alter, MayBeDamaged, Damaged, LoadHeader, VerifyChecksum, LoadCsv,
          snapshotVars, ControlType
<1>5. SavedType'
  <2>1. CASE saved' = saved
    BY <1>1, <2>1 DEF SavedType
  <2>2. CASE saved' = [pool |-> pool, chunks |-> chunks]
    BY <1>1, <2>2 DEF StoreType, SavedType
  <2>3. CASE saved' = [pool |-> << >>, chunks |-> << >>]
    BY EmptyStoreType, <2>3 DEF SavedType
  <2> QED
    BY <2>1, <2>2, <2>3 DEF Dump, Exit, Cut, Alter, Damaged, LoadHeader, VerifyChecksum, LoadCsv,
            snapshotVars
<1>6. HeaderInv'
  BY <1>1 DEF Dump, Exit, Cut, Alter, MayBeDamaged, Damaged, LoadHeader, VerifyChecksum, LoadCsv,
          snapshotVars, HeaderInv
<1>7. AlteredInv'
  <2>1. CASE Dump \/ LoadCsv \/ Cut
    BY <2>1 DEF Dump, LoadCsv, Cut, Damaged, AlteredInv
  <2>2. CASE Alter
    <3>1. /\ pc = "off" /\ damage = "none" /\ saved' = saved
          /\ \E i \in DOMAIN file : \E section \in OtherSections(i, file[i]) :
                section # file[i] /\ file' = [file EXCEPT ![i] = section]
      BY <2>2 DEF Alter, MayBeDamaged, Damaged
    <3>2. file = Original /\ Original' = Original
      BY <3>1 DEF Inv, FileInv, Original
    <3>4. PICK i \in DOMAIN Original : \E section \in OtherSections(i, Original[i]) :
              section # Original[i] /\ file' = [Original EXCEPT ![i] = section]
      BY <3>1, <3>2
    <3>5. PICK section \in OtherSections(i, Original[i]) :
              section # Original[i] /\ file' = [Original EXCEPT ![i] = section]
      BY <3>4
    <3>6. section \in OtherSections(i, Original[i])'
      <4>1. OtherSections(i, Original[i])' = OtherSections(i, Original[i])
        BY <3>1, <3>2 DEF OtherSections, OtherStrings, StringSections
      <4> QED
        BY <3>5, <4>1
    <3> DEFINE O == Original
    <3>7. /\ i \in DOMAIN O /\ section # O[i] /\ file' = [O EXCEPT ![i] = section]
          /\ O' = O
      BY <3>2, <3>5
    <3> QED
      BY <3>6, <3>7, Zenon DEF AlteredInv
  <2>3. CASE Exit \/ LoadHeader \/ VerifyChecksum
    <3>1. UNCHANGED <<file, saved, damage>> /\ pc # "ingest"
      BY <2>3 DEF Exit, LoadHeader, VerifyChecksum, snapshotVars
    <3> QED
      BY <3>1 DEF AlteredInv, Original, OtherSections, OtherStrings, StringSections
  <2> QED
    BY <2>1, <2>2, <2>3
<1>8. TypeOK' <=> LoaderType' /\ StoreType' /\ ControlType'
  BY DEF TypeOK, LoaderType, StoreType, ControlType, StoredChunk, Chunk
<1> QED
  BY <1>2, <1>3, <1>4, <1>5, <1>6, <1>7, <1>8

LEMMA TypesKept == Spec => [](Inv /\ TypeInv)
<1>1. Init => TypeInv
  <2> SUFFICES ASSUME Init PROVE TypeInv
    OBVIOUS
  <2>1. LoaderType /\ StoreType /\ ControlType /\ SavedType
    BY EmptyStoreType DEF Init, InitIngestion, LoaderType, StoreType, ControlType, SavedType
  <2> QED
    BY <2>1, TypeParts DEF Init, TypeInv, AlteredInv, HeaderInv
<1>2. Inv /\ TypeInv /\ [Next]_vars => TypeInv'
  <2> SUFFICES ASSUME Inv, TypeInv, [Next]_vars PROVE TypeInv'
    OBVIOUS
  <2>1. CASE UNCHANGED vars
    BY <2>1 DEF TypeInv, TypeOK, SavedType, AlteredInv, HeaderInv, vars, ingestionVars, store,
                snapshotVars, Original, OtherSections, OtherStrings, StringSections
  <2> QED
    BY <2>1, IngestTypes, LoadStringTypes, LoadChunkTypes, OtherStepTypes DEF Next, Load
<1> QED
  BY <1>1, <1>2, InitInv, StepInv, PTL DEF Spec

(* DataLoader.cpp and BinaryIO.cpp: whatever lines the CSV holds, and      *)
(* whatever is altered in a snapshot, the store holds entries of ids that  *)
(* are numbers and of times that fit 64 bits, and strings.                 *)
THEOREM TypeCorrect == Spec => []TypeOK
<1>1. TypeInv => TypeOK
  BY DEF TypeInv
<1> QED
  BY <1>1, TypesKept, PTL
-----------------------------------------------------------------------------
(* The lines of a load that are data, those that are kept, their places    *)
(* and the row of an entry, of any lines and any pool.                     *)
DataOf(read) ==
    {n \in DOMAIN read :
        /\ ~IsBlank(read[n])
        /\ LooksLikeHeader(read[n]) => \E i \in 1 .. n - 1 : ~IsBlank(read[i])}

Seen(read) == {Fingerprint[read[n]] : n \in DataOf(read)}

KeptOf(read) ==
    {n \in DataOf(read) :
        /\ IsLogLine(read[n])
        /\ \A i \in DataOf(read) : Fingerprint[read[i]] = Fingerprint[read[n]] => i >= n}

PlaceOf(read, n) == Cardinality({m \in KeptOf(read) : m <= n})

RowOf(strings, e) ==
    [names |-> <<NameOf(strings, e.userId), NameOf(strings, e.deviceId), NameOf(strings, e.appId),
                 NameOf(strings, e.resourceId), EventNames[e.eventType + 1],
                 LocationNames[e.location + 1]>>,
     timestamp |-> e.timestamp]

RowOfLine(line) == [names |-> line.names, timestamp |-> DecimalValue(line.time)]

LEMMA DataAppend ==
    ASSUME NEW read \in Seq(Lines), NEW line \in Lines
    PROVE  /\ DataOf(read) \subseteq 1 .. Len(read)
           /\ DataOf(Append(read, line)) =
                 IF \/ IsBlank(line)
                    \/ LooksLikeHeader(line) /\ \A i \in 1 .. Len(read) : IsBlank(read[i])
                 THEN DataOf(read) ELSE DataOf(read) \cup {Len(read) + 1}
<1> DEFINE N == Len(read)
           more == Append(read, line)
<1>1. /\ N \in Nat /\ DOMAIN read = 1 .. N /\ DOMAIN more = 1 .. N + 1
      /\ more[N + 1] = line
      /\ \A i \in 1 .. N : more[i] = read[i]
  BY LenProperties, AppendProperties
<1> HIDE DEF N, more
<1>2. \A n \in 1 .. N : n \in DataOf(more) <=> n \in DataOf(read)
  <2> TAKE n \in 1 .. N
  <2>1. n \in 1 .. N + 1 /\ more[n] = read[n]
    BY <1>1
  <2>2. \A i \in 1 .. n - 1 : more[i] = read[i]
    BY <1>1
  <2> QED
    BY <1>1, <2>1, <2>2, Zenon DEF DataOf
<1>3. N + 1 \in DataOf(more) <=>
          ~(IsBlank(line) \/ (LooksLikeHeader(line) /\ \A i \in 1 .. N : IsBlank(read[i])))
  <2> DEFINE last == N + 1
  <2>1. last \in DOMAIN more /\ more[last] = line /\ 1 .. last - 1 = 1 .. N
    BY <1>1
  <2> HIDE DEF last
  <2>2. last \in DataOf(more) <=>
          /\ ~IsBlank(line)
          /\ LooksLikeHeader(line) => \E i \in 1 .. N : ~IsBlank(more[i])
    BY <2>1 DEF DataOf
  <2>3. last \in DataOf(more) <=>
          ~(IsBlank(line) \/ (LooksLikeHeader(line) /\ \A i \in 1 .. N : IsBlank(read[i])))
    BY <1>1, <2>2
  <2> QED
    BY <2>3 DEF last
<1>4. DataOf(more) \subseteq 1 .. N + 1 /\ DataOf(read) \subseteq 1 .. N
  BY <1>1 DEF DataOf
<1>5. \A n \in 1 .. N + 1 : n \in 1 .. N \/ n = N + 1
  BY <1>1
<1>6. N + 1 \notin 1 .. N
  BY <1>1
<1>7. DataOf(more) =
          IF IsBlank(line) \/ (LooksLikeHeader(line) /\ \A i \in 1 .. N : IsBlank(read[i]))
          THEN DataOf(read) ELSE DataOf(read) \cup {N + 1}
  <2>1. \A n : n \in DataOf(more) <=> n \in DataOf(read) \/ (n = N + 1 /\ N + 1 \in DataOf(more))
    BY <1>1, <1>2, <1>4, <1>5, <1>6, Zenon
  <2> QED
    BY <1>3, <2>1
<1> QED
  BY <1>4, <1>7, Zenon DEF N, more

(* A further line is kept if it is data, describes an event and has a      *)
(* fingerprint that was not seen; the lines kept so far stay.              *)
LEMMA KeptAppend ==
    ASSUME NEW read \in Seq(Lines), NEW line \in Lines
    PROVE  /\ Seen(Append(read, line)) =
                 IF Len(read) + 1 \in DataOf(Append(read, line))
                 THEN Seen(read) \cup {Fingerprint[line]} ELSE Seen(read)
           /\ KeptOf(Append(read, line)) =
                 IF /\ Len(read) + 1 \in DataOf(Append(read, line))
                    /\ IsLogLine(line) /\ Fingerprint[line] \notin Seen(read)
                 THEN KeptOf(read) \cup {Len(read) + 1} ELSE KeptOf(read)
<1> DEFINE N == Len(read)
           more == Append(read, line)
           last == N + 1
           D == DataOf(read)
           E == DataOf(more)
<1>1. /\ N \in Nat
      /\ more[last] = line
      /\ \A i \in 1 .. N : more[i] = read[i]
  BY LenProperties, AppendProperties
<1>2. D \subseteq 1 .. N /\ (E = D \/ E = D \cup {last})
  BY DataAppend
<1>3. \A n \in 1 .. N : n < last /\ n \in Int
  BY <1>1
<1>4. last \in Int /\ last \notin 1 .. N
  BY <1>1
<1> HIDE DEF N, more, last
<1>5. E = IF last \in E THEN D \cup {last} ELSE D
  BY <1>2, <1>4
<1>6. \A n \in D : more[n] = read[n] /\ n < last /\ n \in Int
  BY <1>1, <1>2, <1>3
<1> HIDE DEF D, E
<1>7. Seen(more) = IF last \in E THEN Seen(read) \cup {Fingerprint[line]} ELSE Seen(read)
  <2>1. Seen(more) = {Fingerprint[more[n]] : n \in E} /\ Seen(read) = {Fingerprint[read[n]] : n \in D}
    BY DEF Seen, D, E
  <2>2. {Fingerprint[more[n]] : n \in D} = {Fingerprint[read[n]] : n \in D}
    BY <1>6
  <2>3. CASE last \in E
    BY <1>1, <1>5, <2>1, <2>2, <2>3
  <2>4. CASE last \notin E
    BY <1>5, <2>1, <2>2, <2>4
  <2> QED
    BY <2>3, <2>4
<1>8. \A n \in D : n \in KeptOf(more) <=> n \in KeptOf(read)
  <2> TAKE n \in D
  <2>1. (\A i \in E : Fingerprint[more[i]] = Fingerprint[more[n]] => i >= n)
            <=> (\A i \in D : Fingerprint[read[i]] = Fingerprint[read[n]] => i >= n)
    <3>1. \A i \in E : i \in D \/ i = last
      BY <1>5
    <3>2. D \subseteq E /\ last >= n
      BY <1>4, <1>5, <1>6
    <3> QED
      BY <1>6, <3>1, <3>2
  <2>2. n \in E
    BY <1>5
  <2>3. more[n] = read[n]
    BY <1>6
  <2>4. n \in KeptOf(more) <=> /\ IsLogLine(more[n])
                               /\ \A i \in E : Fingerprint[more[i]] = Fingerprint[more[n]] => i >= n
    BY <2>2, Zenon DEF KeptOf, E
  <2>5. n \in KeptOf(read) <=> /\ IsLogLine(read[n])
                               /\ \A i \in D : Fingerprint[read[i]] = Fingerprint[read[n]] => i >= n
    BY Zenon DEF KeptOf, D
  <2> QED
    BY <2>1, <2>3, <2>4, <2>5, Zenon
<1>9. last \in KeptOf(more) <=> last \in E /\ IsLogLine(line) /\ Fingerprint[line] \notin Seen(read)
  <2>1. last \in KeptOf(more) <=>
            /\ last \in E /\ IsLogLine(line)
            /\ \A i \in E : Fingerprint[more[i]] = Fingerprint[line] => i >= last
    BY <1>1 DEF KeptOf, E
  <2>2. (\A i \in E : Fingerprint[more[i]] = Fingerprint[line] => i >= last)
            <=> \A i \in D : Fingerprint[read[i]] # Fingerprint[line]
    <3>1. \A i \in D : i \in E /\ ~(i >= last) /\ more[i] = read[i]
      BY <1>4, <1>5, <1>6
    <3>2. \A i \in E : i \in D \/ i >= last
      BY <1>4, <1>5
    <3> QED
      BY <3>1, <3>2
  <2>3. Fingerprint[line] \notin Seen(read) <=> \A i \in D : Fingerprint[read[i]] # Fingerprint[line]
    BY DEF Seen, D
  <2> QED
    BY <2>1, <2>2, <2>3
<1>10. KeptOf(more) \subseteq E /\ KeptOf(read) \subseteq D
  BY DEF KeptOf, E, D
<1>11. KeptOf(more) = IF last \in E /\ IsLogLine(line) /\ Fingerprint[line] \notin Seen(read)
                      THEN KeptOf(read) \cup {last} ELSE KeptOf(read)
  <2>1. \A n : n \in KeptOf(more) <=> n \in KeptOf(read) \/ (n = last /\ last \in KeptOf(more))
    BY <1>5, <1>8, <1>10
  <2> QED
    BY <1>9, <2>1
<1> QED
  BY <1>7, <1>11, Zenon DEF N, more, last, E

LEMMA KeptFinite ==
    ASSUME NEW read \in Seq(Lines)
    PROVE  /\ IsFiniteSet(KeptOf(read)) /\ Cardinality(KeptOf(read)) \in Nat
           /\ KeptOf(read) \subseteq 1 .. Len(read) /\ Len(read) \in Nat
<1>1. KeptOf(read) \subseteq 1 .. Len(read) /\ Len(read) \in Nat
  BY LenProperties DEF KeptOf, DataOf
<1>2. IsFiniteSet(1 .. Len(read))
  BY <1>1, FS_Interval
<1>3. IsFiniteSet(KeptOf(read))
  BY <1>1, <1>2, FS_Subset, Zenon
<1>4. Cardinality(KeptOf(read)) \in Nat
  BY <1>3, FS_CardinalityType, Zenon
<1> QED
  BY <1>1, <1>3, <1>4

(* Places count from one; a line that is kept gets the next one, and the   *)
(* others keep theirs.                                                     *)
LEMMA PlacesAppend ==
    ASSUME NEW read \in Seq(Lines), NEW line \in Lines
    PROVE  /\ \A n \in KeptOf(read) : PlaceOf(read, n) \in 1 .. Cardinality(KeptOf(read))
           /\ \A n \in KeptOf(read) : PlaceOf(Append(read, line), n) = PlaceOf(read, n)
           /\ KeptOf(Append(read, line)) = KeptOf(read) \cup {Len(read) + 1} =>
                 /\ Cardinality(KeptOf(Append(read, line))) = Cardinality(KeptOf(read)) + 1
                 /\ PlaceOf(Append(read, line), Len(read) + 1) = Cardinality(KeptOf(read)) + 1
<1> DEFINE N == Len(read)
           last == N + 1
           K == KeptOf(read)
           L == KeptOf(Append(read, line))
<1>1. N \in Nat /\ K \subseteq 1 .. N /\ IsFiniteSet(K) /\ Cardinality(K) \in Nat
  BY KeptFinite
<1>2. last \notin K /\ \A n \in K : n \in Int /\ n < last
  BY <1>1
<1>3. L = K \/ L = K \cup {last}
  BY KeptAppend
<1>4. last \in Int
  BY <1>1
<1> HIDE DEF N, last, K, L
<1>5. ASSUME NEW n \in K
      PROVE  Cardinality({m \in K : m <= n}) \in 1 .. Cardinality(K)
  <2> DEFINE T == {m \in K : m <= n}
  <2>1. T \subseteq K /\ n \in T
    BY <1>2
  <2> HIDE DEF T
  <2>2. IsFiniteSet(T) /\ Cardinality(T) <= Cardinality(K)
    BY <1>1, <2>1, FS_Subset
  <2>3. Cardinality(T) \in Nat /\ Cardinality(T) # 0
    BY <2>1, <2>2, FS_CardinalityType, FS_EmptySet
  <2>4. Cardinality(T) \in 1 .. Cardinality(K)
    BY <1>1, <2>2, <2>3
  <2> QED
    BY <2>4 DEF T
<1>6. ASSUME NEW n \in K
      PROVE  {m \in L : m <= n} = {m \in K : m <= n}
  <2>1. ~(last <= n)
    BY <1>2, <1>4
  <2> QED
    BY <1>3, <2>1
<1>7. ASSUME L = K \cup {last}
      PROVE  /\ Cardinality(L) = Cardinality(K) + 1
             /\ {m \in L : m <= last} = L
  <2>1. Cardinality(L) = Cardinality(K) + 1
    BY <1>1, <1>2, <1>7, FS_AddElement
  <2>2. \A m \in L : m <= last
    BY <1>2, <1>4, <1>7
  <2> QED
    BY <2>1, <2>2
<1> QED
  BY <1>5, <1>6, <1>7 DEF N, last, K, L, PlaceOf
-----------------------------------------------------------------------------
(* A row is read from the pool as it was while the pool grows.             *)
LEMMA RowStays ==
    ASSUME NEW s \in Seq(STRING), NEW t \in Seq(STRING), Continues(t, s),
           NEW e \in Entry,
           \A id \in {e.userId, e.deviceId, e.appId, e.resourceId} : id < Len(s)
    PROVE  RowOf(t, e) = RowOf(s, e)
<1>1. Len(s) \in Nat /\ Len(t) \in Nat
  BY LenProperties
<1>2. \A id \in Nat : id < Len(s) => NameOf(t, id) = NameOf(s, id)
  <2> TAKE id \in Nat
  <2> HAVE id < Len(s)
  <2>1. id + 1 \in 1 .. Len(s) /\ id < Len(t)
    BY <1>1 DEF Continues
  <2> QED
    BY <2>1 DEF Continues, NameOf
<1>3. e.userId \in Nat /\ e.deviceId \in Nat /\ e.appId \in Nat /\ e.resourceId \in Nat
  BY DEF Entry
<1>4. /\ NameOf(t, e.userId) = NameOf(s, e.userId)
      /\ NameOf(t, e.deviceId) = NameOf(s, e.deviceId)
      /\ NameOf(t, e.appId) = NameOf(s, e.appId)
      /\ NameOf(t, e.resourceId) = NameOf(s, e.resourceId)
  BY <1>2, <1>3
<1> QED
  BY <1>4 DEF RowOf

(* What is stored for a line is read back as that line. *)
LEMMA RowOfEntry ==
    ASSUME NEW line \in Lines, IsLogLine(line), NEW s \in Seq(STRING),
           \A i \in 1 .. 4 : Contains(s, line.names[i])
    PROVE  /\ RowOf(s, EntryOf(s, line)) = RowOfLine(line)
           /\ LET e == EntryOf(s, line)
              IN  \A id \in {e.userId, e.deviceId, e.appId, e.resourceId} : id < Len(s)
<1>1. \A i \in 1 .. 4 : /\ IdOf(s, line.names[i]) \in 0 .. Len(s) - 1
                        /\ NameOf(s, IdOf(s, line.names[i])) = line.names[i]
  BY IdLeadsBack
<1>2. EventNames[ParseEventType(line.names[5]) + 1] = line.names[5]
  BY EventNamesExact DEF IsLogLine
<1>3. LocationNames[ParseLocation(line.names[6]) + 1] = line.names[6]
  BY LocationNamesExact DEF IsLogLine
<1>4. ParseInt64(line.time) = DecimalValue(line.time)
  BY LineType, ParseExact DEF IsLogLine
<1>5. line.names = <<line.names[1], line.names[2], line.names[3], line.names[4],
                     line.names[5], line.names[6]>>
  <2>1. line.names \in Seq(STRING) /\ Len(line.names) = 6
    BY LineType DEF IsLogLine
  <2> QED
    BY <2>1
<1>6. /\ NameOf(s, IdOf(s, line.names[1])) = line.names[1]
      /\ NameOf(s, IdOf(s, line.names[2])) = line.names[2]
      /\ NameOf(s, IdOf(s, line.names[3])) = line.names[3]
      /\ NameOf(s, IdOf(s, line.names[4])) = line.names[4]
  BY <1>1
<1> DEFINE e == EntryOf(s, line)
<1>7. /\ e.userId = IdOf(s, line.names[1]) /\ e.deviceId = IdOf(s, line.names[2])
      /\ e.appId = IdOf(s, line.names[3]) /\ e.resourceId = IdOf(s, line.names[4])
      /\ e.eventType = ParseEventType(line.names[5]) /\ e.location = ParseLocation(line.names[6])
      /\ e.timestamp = ParseInt64(line.time)
  BY DEF EntryOf
<1>8. \A id \in {e.userId, e.deviceId, e.appId, e.resourceId} : id < Len(s)
  <2>1. Len(s) \in Nat
    BY LenProperties
  <2> HIDE DEF e
  <2> QED
    BY <1>1, <1>7, <2>1
<1> HIDE DEF e
<1>9. RowOf(s, e) = RowOfLine(line)
  BY <1>2, <1>3, <1>4, <1>5, <1>6, <1>7, Zenon DEF RowOf, RowOfLine
<1> QED
  BY <1>8, <1>9 DEF e
-----------------------------------------------------------------------------
(* How far a load of the CSV has come is known from the lines read so far: *)
(* whether one of them was not blank, which fingerprints were seen, which  *)
(* strings are interned and which rows stored.                             *)
StringsAreKept ==
    \A x : Contains(pool, x) <=> \E n \in KeptOf(lines) : \E i \in 1 .. 4 : x = lines[n].names[i]

RowsAreKept ==
    LET rows == EntriesOf(chunks)
    IN  /\ Len(rows) = Cardinality(KeptOf(lines))
        /\ \A n \in KeptOf(lines) :
              RowOf(pool, rows[PlaceOf(lines, n)]) = RowOfLine(lines[n])

IdsKnown ==
    LET rows == EntriesOf(chunks)
    IN  \A k \in 1 .. Len(rows) :
           \A id \in {rows[k].userId, rows[k].deviceId, rows[k].appId, rows[k].resourceId} :
              id < Len(pool)

ExactInv ==
    pc = "ingest" =>
        /\ firstLine <=> \A n \in 1 .. Len(lines) : IsBlank(lines[n])
        /\ gatekeeper = Seen(lines)
        /\ StringsAreKept
        /\ RowsAreKept
        /\ IdsKnown

LEMMA ExactParts ==
    /\ DataLines = DataOf(lines) /\ KeptLines = KeptOf(lines)
    /\ \A n : Place(n) = PlaceOf(lines, n)
    /\ \A e : Row(e) = RowOf(pool, e)
BY DEF DataLines, DataOf, KeptLines, KeptOf, Place, PlaceOf, Row, RowOf

(* A line that is not stored changes neither the pool nor the rows. *)
LEMMA LineNotStored ==
    ASSUME TypeInv, ExactInv, pc = "ingest", NEW line \in Lines,
           lines' = Append(lines, line), UNCHANGED store,
           KeptOf(Append(lines, line)) = KeptOf(lines)
    PROVE  StringsAreKept' /\ RowsAreKept' /\ IdsKnown'
<1>1. StringsAreKept /\ RowsAreKept /\ IdsKnown /\ lines \in Seq(Lines)
  BY DEF ExactInv, TypeInv, TypeOK
<1>2. pool' = pool /\ chunks' = chunks
  BY DEF store
<1> DEFINE more == Append(lines, line)
           K == KeptOf(lines)
<1>3. KeptOf(more) = K /\ lines' = more
  OBVIOUS
<1>4. \A n \in K : more[n] = lines[n] /\ PlaceOf(more, n) = PlaceOf(lines, n)
  <2>1. \A n \in K : n \in 1 .. Len(lines)
    BY <1>1, KeptFinite
  <2>2. \A n \in 1 .. Len(lines) : more[n] = lines[n]
    BY <1>1, AppendProperties
  <2>3. \A n \in K : PlaceOf(more, n) = PlaceOf(lines, n)
    BY <1>1, PlacesAppend
  <2> QED
    BY <2>1, <2>2, <2>3
<1> HIDE DEF more, K
<1>5. StringsAreKept'
  <2>1. \A x : Contains(pool, x) <=> \E n \in K : \E i \in 1 .. 4 : x = lines[n].names[i]
    BY <1>1 DEF StringsAreKept, K
  <2>2. \A x : Contains(pool', x) <=> \E n \in KeptOf(lines') : \E i \in 1 .. 4 : x = lines'[n].names[i]
    BY <1>2, <1>3, <1>4, <2>1
  <2> QED
    BY <2>2 DEF StringsAreKept
<1>6. RowsAreKept'
  BY <1>1, <1>2, <1>3, <1>4, Zenon DEF RowsAreKept, K
<1>7. IdsKnown'
  BY <1>1, <1>2, Zenon DEF IdsKnown
<1> QED
  BY <1>5, <1>6, <1>7

(* A line that is stored adds its strings and its row. *)
LEMMA LineStored ==
    ASSUME TypeInv, ExactInv, pc = "ingest", NEW line \in Lines, Store(line),
           lines' = Append(lines, line),
           KeptOf(Append(lines, line)) = KeptOf(lines) \cup {Len(lines) + 1}
    PROVE  StringsAreKept' /\ RowsAreKept' /\ IdsKnown'
<1>1. /\ StringsAreKept /\ RowsAreKept /\ IdsKnown /\ lines \in Seq(Lines)
      /\ pool \in Seq(STRING) /\ argumentOrder \in ArgumentOrders /\ chunks \in Seq(StoredChunk)
  BY DEF ExactInv, TypeInv, TypeOK, StoredChunk, Chunk
<1>2. Validates(line) /\ IsLogLine(line) /\ Len(line.names) = 6
  BY ValidatesLogLines DEF Store, Drops, Validates
<1> DEFINE more == Append(lines, line)
           K == KeptOf(lines)
           last == Len(lines) + 1
           rows == EntriesOf(chunks)
           e == EntryOf(pool', line)
<1>3. lines' = more /\ KeptOf(more) = K \cup {last} /\ more[last] = line
  BY <1>1, AppendProperties
<1>4. \A n \in K : /\ more[n] = lines[n] /\ PlaceOf(more, n) = PlaceOf(lines, n)
                   /\ PlaceOf(lines, n) \in 1 .. Cardinality(K)
  <2>1. \A n \in K : n \in 1 .. Len(lines)
    BY <1>1, KeptFinite
  <2>2. \A n \in 1 .. Len(lines) : more[n] = lines[n]
    BY <1>1, AppendProperties
  <2>3. \A n \in K : PlaceOf(more, n) = PlaceOf(lines, n) /\ PlaceOf(lines, n) \in 1 .. Cardinality(K)
    BY <1>1, PlacesAppend
  <2> QED
    BY <2>1, <2>2, <2>3
<1>5. Cardinality(KeptOf(more)) = Cardinality(K) + 1 /\ PlaceOf(more, last) = Cardinality(K) + 1
  BY <1>1, PlacesAppend
<1>6. /\ pool' \in Seq(STRING) /\ Continues(pool', pool)
      /\ \A x : Contains(pool', x) <=> Contains(pool, x) \/ \E i \in 1 .. 4 : x = line.names[i]
  BY <1>1, <1>2, PoolWithGrows DEF Store
<1>7. \A i \in 1 .. 4 : Contains(pool', line.names[i])
  BY <1>6
<1>8. e \in Entry /\ e.timestamp \in Int
  <2>1. e \in Entry
    BY <1>2, <1>6, <1>7, EntryType
  <2> QED
    BY <2>1, LinesAssumption DEF Entry
<1>9. /\ RowOf(pool', e) = RowOfLine(line)
      /\ \A id \in {e.userId, e.deviceId, e.appId, e.resourceId} : id < Len(pool')
  BY <1>2, <1>6, <1>7, RowOfEntry
<1>10. rows \in Seq(Entry) /\ EntriesOf(chunks') = Append(rows, e)
  <2>1. chunks' = WithEntry(chunks, e)
    BY DEF Store
  <2> HIDE DEF e
  <2> QED
    BY <1>1, <1>8, <2>1, WithEntryAppends DEF StoredChunk
<1>11. Cardinality(K) \in Nat /\ Len(rows) = Cardinality(K)
  BY <1>1, KeptFinite DEF RowsAreKept
<1> DEFINE newRows == Append(rows, e)
<1>12. /\ Len(newRows) = Cardinality(K) + 1 /\ newRows[Cardinality(K) + 1] = e
       /\ \A k \in 1 .. Cardinality(K) : newRows[k] = rows[k] /\ rows[k] \in Entry
  <2> HIDE DEF e, rows
  <2> QED
    BY <1>8, <1>10, <1>11, AppendProperties, ElementOfSeq
<1>13. \A k \in 1 .. Cardinality(K) :
          /\ RowOf(pool', rows[k]) = RowOf(pool, rows[k])
          /\ \A id \in {rows[k].userId, rows[k].deviceId, rows[k].appId, rows[k].resourceId} :
                id < Len(pool) /\ id < Len(pool')
  <2> TAKE k \in 1 .. Cardinality(K)
  <2> DEFINE r == rows[k]
             ids == {r.userId, r.deviceId, r.appId, r.resourceId}
  <2>1. r \in Entry
    BY <1>12
  <2>2. \A id \in ids : id < Len(pool)
    BY <1>1, <1>11 DEF IdsKnown
  <2>3. ids \subseteq Nat
    BY <2>1 DEF Entry
  <2> HIDE DEF rows
  <2>4. RowOf(pool', r) = RowOf(pool, r)
    BY <1>1, <1>6, <2>1, <2>2, RowStays
  <2>5. Len(pool) \in Nat /\ Len(pool') \in Nat /\ Len(pool) <= Len(pool')
    BY <1>1, <1>6, LenProperties DEF Continues
  <2> HIDE DEF ids
  <2>6. \A id \in ids : id < Len(pool) /\ id < Len(pool')
    BY <2>2, <2>3, <2>5
  <2> QED
    BY <2>4, <2>6 DEF ids
<1> DEFINE N == Cardinality(K)
<1> HIDE DEF more, last, e
<1>14. StringsAreKept'
  <2>1. \A x : Contains(pool, x) <=> \E n \in K : \E i \in 1 .. 4 : x = lines[n].names[i]
    BY <1>1 DEF StringsAreKept
  <2> HIDE DEF K
  <2>2. \A x : (\E n \in KeptOf(more) : \E i \in 1 .. 4 : x = more[n].names[i])
            <=> \/ \E n \in K : \E i \in 1 .. 4 : x = lines[n].names[i]
                \/ \E i \in 1 .. 4 : x = line.names[i]
    BY <1>3, <1>4
  <2>3. \A x : Contains(pool', x) <=> \E n \in KeptOf(more) : \E i \in 1 .. 4 : x = more[n].names[i]
    <3> DEFINE InPool(x) == Contains(pool, x)
               Grown(x) == Contains(pool', x)
               OfLine(x) == \E i \in 1 .. 4 : x = line.names[i]
               OfKept(x) == \E n \in K : \E i \in 1 .. 4 : x = lines[n].names[i]
               OfMore(x) == \E n \in KeptOf(more) : \E i \in 1 .. 4 : x = more[n].names[i]
    <3>1. /\ \A x : InPool(x) <=> OfKept(x)
          /\ \A x : OfMore(x) <=> OfKept(x) \/ OfLine(x)
          /\ \A x : Grown(x) <=> InPool(x) \/ OfLine(x)
      BY <1>6, <2>1, <2>2
    <3> HIDE DEF InPool, Grown, OfLine, OfKept, OfMore
    <3>2. \A x : Grown(x) <=> OfMore(x)
      BY <3>1
    <3> QED
      BY <3>2 DEF Grown, OfMore
  <2> QED
    BY <1>3, <2>3 DEF StringsAreKept
<1> DEFINE C == Cardinality(KeptOf(more))
<1>15. RowsAreKept'
  <2>1. Len(newRows) = C
    BY <1>5, <1>12
  <2>2. RowOf(pool', newRows[PlaceOf(more, last)]) = RowOfLine(more[last])
    BY <1>3, <1>5, <1>9, <1>12
  <2>3. \A n \in K : RowOf(pool', newRows[PlaceOf(more, n)]) = RowOfLine(more[n])
    <3> TAKE n \in K
    <3> DEFINE k == PlaceOf(lines, n)
    <3>1. k \in 1 .. N /\ PlaceOf(more, n) = k /\ more[n] = lines[n]
      BY <1>4
    <3>2. RowOf(pool, rows[k]) = RowOfLine(lines[n])
      BY <1>1 DEF RowsAreKept
    <3>3. newRows[k] = rows[k] /\ RowOf(pool', rows[k]) = RowOf(pool, rows[k])
      BY <1>12, <1>13, <3>1
    <3> QED
      BY <3>1, <3>2, <3>3
  <2> HIDE DEF newRows, C, K
  <2>4. \A n \in KeptOf(more) : RowOf(pool', newRows[PlaceOf(more, n)]) = RowOfLine(more[n])
    BY <1>3, <2>2, <2>3
  <2>5. EntriesOf(chunks') = newRows
    BY <1>10 DEF newRows
  <2>6. Len(newRows) = Cardinality(KeptOf(lines'))
    BY <1>3, <2>1 DEF C
  <2>7. \A n \in KeptOf(lines') : RowOf(pool', newRows[PlaceOf(lines', n)]) = RowOfLine(lines'[n])
    BY <1>3, <2>4
  <2> QED
    BY <2>5, <2>6, <2>7, Zenon DEF RowsAreKept
<1>16. IdsKnown'
  <2> HIDE DEF rows, newRows, K, N
  <2>1. \A k \in 1 .. N + 1 : k \in 1 .. N \/ k = N + 1
    BY <1>11 DEF N
  <2>2. \A k \in 1 .. N + 1 :
           \A id \in {newRows[k].userId, newRows[k].deviceId, newRows[k].appId, newRows[k].resourceId} :
              id < Len(pool')
    <3> TAKE k \in 1 .. N + 1
    <3>1. CASE k \in 1 .. N
      <4>1. newRows[k] = rows[k]
        BY <1>12, <3>1 DEF N
      <4> QED
        BY <1>13, <3>1, <4>1 DEF N
    <3>2. CASE k = N + 1
      BY <1>9, <1>12, <3>2 DEF N
    <3> QED
      BY <2>1, <3>1, <3>2
  <2>3. EntriesOf(chunks') = newRows /\ Len(newRows) = N + 1
    BY <1>10, <1>12 DEF N, newRows
  <2> QED
    BY <2>2, <2>3, Zenon DEF IdsKnown
<1> QED
  BY <1>14, <1>15, <1>16

LEMMA IngestExact ==
    ASSUME TypeInv, ExactInv, NEW line \in Lines, Ingest(line)
    PROVE  ExactInv'
<1> DEFINE N == Len(lines)
           more == Append(lines, line)
           blank == \A n \in 1 .. N : IsBlank(lines[n])
<1>1. /\ pc = "ingest" /\ pc' = "ingest"
      /\ lines' = more /\ firstLine' = StaysFirst(line)
      /\ Skip(line) \/ Drop(line) \/ Store(line)
  BY DEF Ingest, ProcessLine
<1>2. /\ lines \in Seq(Lines) /\ (firstLine <=> blank)
      /\ gatekeeper = Seen(lines)
  BY <1>1 DEF ExactInv, TypeInv, TypeOK
<1>3. /\ N \in Nat /\ Len(more) = N + 1 /\ more[N + 1] = line
      /\ \A n \in 1 .. N : more[n] = lines[n]
      /\ \A n \in 1 .. N + 1 : n \in 1 .. N \/ n = N + 1
      /\ \A n \in 1 .. N : n \in 1 .. N + 1
      /\ N + 1 \in 1 .. N + 1
  <2>1. /\ N \in Nat /\ Len(more) = N + 1 /\ more[N + 1] = line
        /\ \A n \in 1 .. N : more[n] = lines[n]
    BY <1>2, LenProperties, AppendProperties
  <2> HIDE DEF N
  <2> QED
    BY <2>1
<1>4. firstLine' <=> \A n \in 1 .. Len(lines') : IsBlank(lines'[n])
  <2> HIDE DEF N, more
  <2>1. (\A n \in 1 .. N + 1 : IsBlank(more[n])) <=> blank /\ IsBlank(line)
    BY <1>3, Zenon
  <2>2. firstLine' <=> blank /\ IsBlank(line)
    <3>1. firstLine' = (firstLine /\ IsBlank(line))
      BY <1>1 DEF StaysFirst
    <3> HIDE DEF blank
    <3> QED
      BY <1>2, <3>1, Zenon
  <2> QED
    BY <1>1, <1>3, <2>1, <2>2
<1>5. N + 1 \in DataOf(more) <=> ~Skips(line)
  <2>1. Skips(line) <=> IsBlank(line) \/ (LooksLikeHeader(line) /\ blank)
    <3> HIDE DEF blank
    <3> QED
      BY <1>2, Zenon DEF Skips
  <2>2. /\ DataOf(lines) \subseteq 1 .. N
        /\ DataOf(more) = IF IsBlank(line) \/ (LooksLikeHeader(line) /\ blank)
                          THEN DataOf(lines) ELSE DataOf(lines) \cup {N + 1}
    <3>1. lines \in Seq(Lines)
      BY <1>2
    <3> QED
      BY <3>1, DataAppend, Zenon
  <2>3. N + 1 \notin 1 .. N
    BY <1>3
  <2> HIDE DEF N, more, blank
  <2> QED
    BY <2>1, <2>2, <2>3
<1>6. /\ Seen(more) = IF Skips(line) THEN Seen(lines) ELSE Seen(lines) \cup {Fingerprint[line]}
      /\ KeptOf(more) = IF ~Skips(line) /\ IsLogLine(line) /\ Fingerprint[line] \notin Seen(lines)
                        THEN KeptOf(lines) \cup {N + 1} ELSE KeptOf(lines)
  <2>1. lines \in Seq(Lines)
    BY <1>2
  <2>2. /\ Seen(more) = IF N + 1 \in DataOf(more) THEN Seen(lines) \cup {Fingerprint[line]}
                        ELSE Seen(lines)
        /\ KeptOf(more) = IF /\ N + 1 \in DataOf(more) /\ IsLogLine(line)
                             /\ Fingerprint[line] \notin Seen(lines)
                          THEN KeptOf(lines) \cup {N + 1} ELSE KeptOf(lines)
    BY <2>1, KeptAppend, Zenon
  <2> HIDE DEF N, more
  <2> QED
    BY <1>5, <2>2
<1>7. Drops(line) <=> ~(IsLogLine(line) /\ Fingerprint[line] \notin Seen(lines))
  BY <1>2, ValidatesLogLines DEF Drops
<1>8. gatekeeper' = Seen(lines')
  BY <1>1, <1>2, <1>6 DEF Skip, Drop, Store
<1>9. StringsAreKept' /\ RowsAreKept' /\ IdsKnown'
  <2>1. CASE Skip(line) \/ Drop(line)
    <3>1. KeptOf(more) = KeptOf(lines) /\ UNCHANGED store
      BY <1>6, <1>7, <2>1 DEF Skip, Drop
    <3> QED
      BY <1>1, <3>1, LineNotStored
  <2>2. CASE Store(line)
    <3>1. KeptOf(more) = KeptOf(lines) \cup {N + 1}
      BY <1>6, <1>7, <2>2 DEF Store
    <3> QED
      BY <1>1, <2>2, <3>1, LineStored
  <2> QED
    BY <1>1, <2>1, <2>2
<1> QED
  BY <1>4, <1>8, <1>9 DEF ExactInv

LEMMA NothingRead ==
    /\ DataOf(<< >>) = {} /\ Seen(<< >>) = {} /\ KeptOf(<< >>) = {}
    /\ EntriesOf(<< >>) = << >>
    /\ Cardinality(KeptOf(<< >>)) = 0
    /\ \A x : ~Contains(<< >>, x)
<1>1. DataOf(<< >>) = {}
  BY DEF DataOf
<1>2. Seen(<< >>) = {} /\ KeptOf(<< >>) = {}
  BY <1>1 DEF Seen, KeptOf
<1>3. EntriesOf(<< >>) = << >>
  <2> DEFINE nothing == << >>
             seqs == [i \in DOMAIN nothing |-> nothing[i].entries]
  <2>1. seqs = << >>
    OBVIOUS
  <2>2. seqs \in Seq(Seq(Entry)) /\ Len(seqs) = 0
    BY <2>1
  <2> HIDE DEF seqs
  <2>3. FlattenSeq(seqs) = << >>
    BY <2>2, FlattenSteps
  <2> QED
    BY <2>3 DEF EntriesOf, seqs
<1> QED
  BY <1>1, <1>2, <1>3, FS_EmptySet DEF Contains

LEMMA ExactKept == Spec => [](Inv /\ TypeInv /\ ExactInv)
<1>1. Init => ExactInv
  <2> SUFFICES ASSUME Init PROVE ExactInv
    OBVIOUS
  <2>1. lines = << >> /\ firstLine = TRUE /\ gatekeeper = {} /\ pool = << >> /\ chunks = << >>
    BY DEF Init, InitIngestion
  <2> QED
    BY <2>1, NothingRead DEF ExactInv, StringsAreKept, RowsAreKept, IdsKnown
<1>2. TypeInv /\ ExactInv /\ [Next]_vars => ExactInv'
  <2> SUFFICES ASSUME TypeInv, ExactInv, [Next]_vars PROVE ExactInv'
    OBVIOUS
  <2>1. CASE UNCHANGED vars
    BY <2>1 DEF vars, ingestionVars, store, ExactInv, StringsAreKept, RowsAreKept, IdsKnown
  <2>2. CASE Dump \/ Exit \/ Cut \/ Alter \/ Load
    <3>1. pc' # "ingest"
      BY <2>2 DEF Dump, Exit, Cut, Alter, MayBeDamaged, Damaged, Load, LoadHeader, LoadString,
                  LoadChunk, VerifyChecksum, ReadFails
    <3> QED
      BY <3>1 DEF ExactInv
  <2>3. CASE LoadCsv
    <3>1. lines' = << >> /\ firstLine' = TRUE /\ gatekeeper' = {} /\ pool' = << >> /\ chunks' = << >>
      BY <2>3 DEF LoadCsv
    <3> QED
      BY <3>1, NothingRead DEF ExactInv, StringsAreKept, RowsAreKept, IdsKnown
  <2> QED
    BY <2>1, <2>2, <2>3, IngestExact DEF Next
<1> QED
  BY <1>1, <1>2, TypesKept, PTL DEF Spec

(* A sequence without repetition has as many elements as places. *)
LEMMA DistinctCount ==
    ASSUME NEW s, IsSeq(s), Distinct(s)
    PROVE  Cardinality(ToSet(s)) = Len(s)
<1>1. /\ Len(s) \in Nat /\ DOMAIN s = 1 .. Len(s)
      /\ ToSet(s) = {s[i] : i \in 1 .. Len(s)}
  BY LenProperties DEF IsSeq, ToSet
<1> DEFINE N == Len(s)
           at == [i \in 1 .. N |-> s[i]]
<1>2. at \in Bijection(1 .. N, ToSet(s))
  <2>1. at \in [1 .. N -> ToSet(s)] /\ \A x \in ToSet(s) : \E i \in 1 .. N : at[i] = x
    BY <1>1
  <2>2. \A i, j \in 1 .. N : at[i] = at[j] => i = j
    BY DEF Distinct
  <2> HIDE DEF at, N
  <2> QED
    BY <2>1, <2>2 DEF Bijection, Injection, Surjection, IsInjective
<1> HIDE DEF at
<1>3. IsFiniteSet(1 .. N) /\ Cardinality(1 .. N) = N
  <2>1. N \in Nat /\ 1 \in Int /\ N \in Int
    BY <1>1
  <2> HIDE DEF N
  <2>2. IsFiniteSet(1 .. N) /\ Cardinality(1 .. N) = IF 1 > N THEN 0 ELSE N - 1 + 1
    BY <2>1, FS_Interval
  <2> QED
    BY <2>1, <2>2
<1> QED
  BY <1>2, <1>3, FS_Bijection DEF ExistsBijection

(* DataLoader.cpp, processLine(): whatever lines the CSV holds, in every   *)
(* order of evaluation of the arguments of LogEntry(), the rows of the     *)
(* store are the lines to keep, in their order, read back through the pool *)
(* and the enumerations, and their times are the numbers written.          *)
THEOREM RowsAreExact == Spec => []IngestsExactly
<1>1. ExactInv => IngestsExactly
  BY ExactParts DEF ExactInv, RowsAreKept, RowOfLine, IngestsExactly, RowsExact
<1> QED
  BY <1>1, ExactKept, PTL

(* DataLoader.cpp, processLine(): the pool holds each string of the first  *)
(* four columns of a kept line once, and no string of a line that was      *)
(* dropped.                                                                *)
THEOREM PoolIsExact == Spec => []PoolsExactly
<1>1. Inv /\ TypeInv /\ ExactInv => PoolsExactly
  <2> SUFFICES ASSUME Inv, ExactInv, pc = "ingest" PROVE PoolExact
    BY DEF PoolsExactly
  <2>1. IsSeq(pool) /\ Distinct(pool) /\ StringsAreKept
    BY DEF Inv, IngestInv, ExactInv
  <2>2. Cardinality(ToSet(pool)) = Len(pool)
    BY <2>1, DistinctCount
  <2>3. \A x : x \in ToSet(pool) <=> Contains(pool, x)
    <3>1. DOMAIN pool = 1 .. Len(pool)
      BY <2>1, LenProperties DEF IsSeq
    <3> QED
      BY <3>1 DEF ToSet, Contains
  <2>4. ToSet(pool) = {lines[n].names[i] : n \in KeptLines, i \in 1 .. 4}
    <3>1. \A x : x \in ToSet(pool) <=> \E n \in KeptLines : \E i \in 1 .. 4 : x = lines[n].names[i]
      BY <2>1, <2>3, ExactParts DEF StringsAreKept
    <3> QED
      BY <3>1
  <2> QED
    BY <2>2, <2>4 DEF PoolExact
<1> QED
  BY <1>1, ExactKept, PTL
-----------------------------------------------------------------------------
(* Numbers that fit the word are known from their bits.                    *)
LEMMA HalvingSteps ==
    ASSUME NEW a \in Nat
    PROVE  /\ \A b \in 0 .. WordSize : Halved(a)[b] \in Nat
           /\ Halved(a)[0] = a
           /\ \A b \in 1 .. WordSize : Halved(a)[b] = Halved(a)[b - 1] \div 2
<1> DEFINE W == WordSize
           step == [b \in 1 .. W |-> [v \in Nat |-> v \div 2]]
           Loop(f) == f = [b \in 0 .. W |-> IF b = 0 THEN a ELSE f[b - 1] \div 2]
<1>1. W \in Nat /\ 0 \in 0 .. W
  BY SnapshotAssumption
<1>2. \A v \in Nat : v \div 2 \in Nat
  OBVIOUS
<1>3. PICK f : f \in LoopRuns(Nat, a, W, step)
  <2>1. step \in [1 .. W -> [Nat -> Nat]]
    BY <1>2
  <2> HIDE DEF step, W
  <2> QED
    BY <1>1, <2>1, LoopExists, Zenon
<1>4. f \in [0 .. W -> Nat] /\ f[0] = a /\ \A b \in 1 .. W : f[b] = f[b - 1] \div 2
  <2>1. f \in [0 .. W -> Nat] /\ f[0] = a
    BY <1>3 DEF LoopRuns
  <2>2. \A b \in 1 .. W : f[b - 1] \in Nat
    BY <1>1, <2>1
  <2>3. \A b \in 1 .. W : f[b] = step[b][f[b - 1]]
    <3> HIDE DEF step, W
    <3> QED
      BY <1>3 DEF LoopRuns
  <2> QED
    BY <2>1, <2>2, <2>3
<1>5. Loop(f)
  BY <1>1, <1>4
<1> DEFINE g == CHOOSE half : Loop(half)
<1>6. Loop(g) /\ Halved(a) = g
  <2>1. Loop(g)
    <3> HIDE DEF Loop
    <3> QED
      BY <1>5
  <2> QED
    BY <2>1 DEF Halved
<1> HIDE DEF g
<1>7. g[0] = a /\ \A b \in 1 .. W : g[b] = g[b - 1] \div 2
  <2>1. \A b \in 1 .. W : b \in 0 .. W /\ b # 0
    BY <1>1
  <2> HIDE DEF W
  <2> QED
    BY <1>1, <1>6, <2>1
<1>8. \A b \in 0 .. W : g[b] \in Nat
  <2>1. \A b \in 1 .. W : g[b - 1] \in Nat => g[b] \in Nat
    BY <1>2, <1>7
  <2> HIDE DEF W
  <2> QED
    BY <1>1, <1>7, <2>1, LoopStays
<1> QED
  BY <1>6, <1>7, <1>8

LEMMA BitsTell ==
    ASSUME NEW a \in 0 .. INT64_MAX, NEW c \in 0 .. INT64_MAX, Bits(a) = Bits(c)
    PROVE  a = c
<1> DEFINE W == WordSize
           h == Halved(a)
           k == Halved(c)
           same == [n \in 0 .. W |-> h[W - n] = k[W - n]]
<1>1. W \in Nat /\ a \in Nat /\ c \in Nat /\ h[W] = 0 /\ k[W] = 0
  BY SnapshotAssumption, LinesAssumption
<1>2. /\ \A b \in 0 .. W : h[b] \in Nat /\ k[b] \in Nat
      /\ h[0] = a /\ k[0] = c
      /\ \A b \in 1 .. W : h[b] = h[b - 1] \div 2 /\ k[b] = k[b - 1] \div 2
  BY <1>1, HalvingSteps
<1>3. \A b \in 0 .. W - 1 : h[b] % 2 = 1 <=> k[b] % 2 = 1
  BY DEF Bits
<1> HIDE DEF W, h, k
<1>4. \A b \in 1 .. W : h[b] = k[b] => h[b - 1] = k[b - 1]
  <2> TAKE b \in 1 .. W
  <2> HAVE h[b] = k[b]
  <2> DEFINE x == h[b - 1]
             y == k[b - 1]
  <2>1. b - 1 \in 0 .. W - 1 /\ b - 1 \in 0 .. W
    BY <1>1
  <2>2. x \in Nat /\ y \in Nat /\ x \div 2 = y \div 2 /\ (x % 2 = 1 <=> y % 2 = 1)
    BY <1>2, <1>3, <2>1
  <2> HIDE DEF x, y
  <2>3. x = y
    BY <2>2
  <2> QED
    BY <2>3 DEF x, y
<1>5. \A n \in 1 .. W : same[n - 1] \in {TRUE} => same[n] \in {TRUE}
  <2> TAKE n \in 1 .. W
  <2> DEFINE b == W - n + 1
  <2>1. /\ b \in 1 .. W /\ b - 1 = W - n /\ W - (n - 1) = b
        /\ n \in 0 .. W /\ n - 1 \in 0 .. W
    BY <1>1
  <2> HIDE DEF b
  <2> QED
    BY <1>4, <2>1
<1>6. same[0] \in {TRUE}
  <2>1. 0 \in 0 .. W /\ W - 0 = W
    BY <1>1
  <2> QED
    BY <1>1, <2>1
<1>7. same[W] \in {TRUE}
  <2>1. W \in 0 .. W
    BY <1>1
  <2> DEFINE V == {TRUE}
  <2>2. W \in Nat /\ same[0] \in V /\ \A n \in 1 .. W : same[n - 1] \in V => same[n] \in V
    BY <1>1, <1>5, <1>6
  <2> HIDE DEF same, V
  <2>3. \A n \in 0 .. W : same[n] \in V
    BY <2>2, LoopStays, Zenon
  <2>4. same[W] \in V
    BY <2>1, <2>3
  <2> QED
    BY <2>4 DEF V
<1>8. W \in 0 .. W /\ W - W = 0
  BY <1>1
<1> QED
  BY <1>2, <1>7, <1>8

LEMMA XorTells ==
    ASSUME NEW a, NEW b, NEW c, Xor(a, c) = Xor(b, c) \/ Xor(c, a) = Xor(c, b)
    PROVE  a = b
<1>1. \A x : x \in a <=> x \in b
  BY DEF Xor
<1> QED
  BY <1>1

LEMMA ShiftedTells ==
    ASSUME NEW a \in SUBSET Int, NEW b \in SUBSET Int, NEW n \in Int, Shifted(a, n) = Shifted(b, n)
    PROVE  a = b
<1>1. \A x \in Int : x \in a <=> x + n \in Shifted(a, n)
  BY DEF Shifted
<1>2. \A x \in Int : x \in b <=> x + n \in Shifted(b, n)
  BY DEF Shifted
<1> QED
  BY <1>1, <1>2

(* The values of an entry fit the words that are summed up. *)
Fits(e) ==
    \A field \in {"userId", "deviceId", "appId", "resourceId", "timestamp"} :
        e[field] \in 0 .. INT64_MAX

(* Entries that differ in one value of a row contribute differently. *)
LEMMA MixedTells ==
    ASSUME NEW e \in Entry, Fits(e), NEW field \in {"userId", "deviceId", "appId", "resourceId",
                                                    "timestamp"},
           NEW n \in 0 .. INT64_MAX, n # e[field]
    PROVE  Mixed([e EXCEPT ![field] = n]) # Mixed(e)
<1> DEFINE f == [e EXCEPT ![field] = n]
           a == e[field]
<1>1. a \in 0 .. INT64_MAX
  BY DEF Fits
<1>2. Bits(a) # Bits(n)
  BY <1>1, BitsTell
<1>3. /\ Bits(a) \in SUBSET Int /\ Bits(n) \in SUBSET Int
  BY SnapshotAssumption DEF Bits
<1>4. Shifted(Bits(a), 16) # Shifted(Bits(n), 16) /\ Shifted(Bits(a), 32) # Shifted(Bits(n), 32)
  BY <1>2, <1>3, ShiftedTells
<1> DEFINE T == Bits(e.timestamp)
           U == Bits(e.userId)
           D == Bits(e.deviceId)
           A == Shifted(Bits(e.appId), 16)
           R == Shifted(Bits(e.resourceId), 32)
           B == Bits(n)
<1>5. Mixed(e) = Xor(Xor(Xor(T, U), D), Xor(A, R))
  BY DEF Mixed
<1> HIDE DEF T, U, D, A, R, B
<1>6. CASE field = "timestamp"
  <2>1. Mixed(f) = Xor(Xor(Xor(B, U), D), Xor(A, R)) /\ B # T
    BY <1>2, <1>6 DEF Entry, Mixed, T, U, D, A, R, B
  <2> QED
    BY <1>5, <2>1, XorTells
<1>7. CASE field = "userId"
  <2>1. Mixed(f) = Xor(Xor(Xor(T, B), D), Xor(A, R)) /\ B # U
    BY <1>2, <1>7 DEF Entry, Mixed, T, U, D, A, R, B
  <2> QED
    BY <1>5, <2>1, XorTells
<1>8. CASE field = "deviceId"
  <2>1. Mixed(f) = Xor(Xor(Xor(T, U), B), Xor(A, R)) /\ B # D
    BY <1>2, <1>8 DEF Entry, Mixed, T, U, D, A, R, B
  <2> QED
    BY <1>5, <2>1, XorTells
<1>9. CASE field = "appId"
  <2>1. Mixed(f) = Xor(Xor(Xor(T, U), D), Xor(Shifted(B, 16), R)) /\ Shifted(B, 16) # A
    BY <1>4, <1>9 DEF Entry, Mixed, T, U, D, A, R, B
  <2> QED
    BY <1>5, <2>1, XorTells
<1>10. CASE field = "resourceId"
  <2>1. Mixed(f) = Xor(Xor(Xor(T, U), D), Xor(A, Shifted(B, 32))) /\ Shifted(B, 32) # R
    BY <1>4, <1>10 DEF Entry, Mixed, T, U, D, A, R, B
  <2> QED
    BY <1>5, <2>1, XorTells
<1> QED
  BY <1>6, <1>7, <1>8, <1>9, <1>10
-----------------------------------------------------------------------------
(* The loop that joins sequences. *)
Joins(S, seqs, flat) ==
    /\ flat \in [0 .. Len(seqs) -> Seq(S)]
    /\ flat[0] = << >>
    /\ \A n \in 1 .. Len(seqs) : flat[n] = flat[n - 1] \o seqs[n]

(* Both loops have joined the same, and both go on in the same way. *)
Agree(f, g, m) == f[m] = g[m]
GoOnAlike(S, f, g, k, n) ==
    \E rest \in Seq(S) : f[n] = f[k] \o rest /\ g[n] = g[k] \o rest

LEMMA JoinedEntries ==
    \A s, t \in Seq(Entry) :
        /\ s \o t \in Seq(Entry) /\ Len(s \o t) = Len(s) + Len(t)
        /\ \A i \in 1 .. Len(s) + Len(t) : (s \o t)[i] = IF i <= Len(s) THEN s[i] ELSE t[i - Len(s)]
BY ConcatProperties

(* While the sequences are the same, the loops agree. *)
LEMMA HeadsAgree ==
    ASSUME NEW S, NEW r, NEW s, NEW f, NEW g, Joins(S, r, f), Joins(S, s, g),
           NEW m \in Nat, m <= Len(r), m <= Len(s), Len(r) \in Nat, Len(s) \in Nat,
           \A i \in 1 .. m : r[i] = s[i]
    PROVE  Agree(f, g, m)
<1> DEFINE same == [n \in 0 .. m |-> f[n] = g[n]]
           V == {TRUE}
<1>1. \A n \in 1 .. m : n \in 1 .. Len(r) /\ n \in 1 .. Len(s)
  OBVIOUS
<1>2. f[0] = g[0] /\ \A n \in 1 .. m : f[n - 1] = g[n - 1] => f[n] = g[n]
  BY <1>1 DEF Joins
<1>3. same[0] \in V /\ \A n \in 1 .. m : same[n - 1] \in V => same[n] \in V
  <2>1. 0 \in 0 .. m /\ \A n \in 1 .. m : n \in 0 .. m /\ n - 1 \in 0 .. m
    OBVIOUS
  <2>2. same[0] = TRUE
    BY <1>2, <2>1
  <2>3. \A n \in 1 .. m : same[n - 1] = TRUE => same[n] = TRUE
    BY <1>2, <2>1
  <2> QED
    BY <2>2, <2>3
<1>4. m \in 0 .. m
  OBVIOUS
<1> HIDE DEF same, V
<1>5. same[m] \in V
  BY <1>3, <1>4, LoopStays
<1> QED
  BY <1>4, <1>5 DEF same, V, Agree

(* After the last difference, both loops append the same. *)
LEMMA TailsAgree ==
    ASSUME NEW S, NEW r \in Seq(Seq(S)), NEW s \in Seq(Seq(S)), Len(r) = Len(s),
           NEW f, NEW g, Joins(S, r, f), Joins(S, s, g),
           NEW k \in 0 .. Len(r), \A i \in 1 .. Len(r) : i > k => r[i] = s[i]
    PROVE  GoOnAlike(S, f, g, k, Len(r))
<1> DEFINE N == Len(r)
           P(n) == \E rest \in Seq(S) : f[n] = f[k] \o rest /\ g[n] = g[k] \o rest
           good == [n \in 0 .. N - k |-> P(k + n)]
           V == {TRUE}
<1>1. /\ N \in Nat /\ k \in 0 .. N
      /\ f \in [0 .. N -> Seq(S)] /\ g \in [0 .. N -> Seq(S)]
      /\ \A n \in 1 .. N : f[n] = f[n - 1] \o r[n] /\ g[n] = g[n - 1] \o s[n]
      /\ \A n \in 1 .. N : r[n] \in Seq(S)
  BY LenProperties, ElementOfSeq DEF Joins
<1> HIDE DEF N
<1>2. P(k)
  <2>1. << >> \in Seq(S) /\ f[k] \in Seq(S) /\ g[k] \in Seq(S)
    BY <1>1
  <2> QED
    BY <2>1, ConcatEmptySeq
<1>3. \A n \in k + 1 .. N : P(n - 1) => P(n)
  <2> TAKE n \in k + 1 .. N
  <2> HAVE P(n - 1)
  <2>1. PICK rest \in Seq(S) : f[n - 1] = f[k] \o rest /\ g[n - 1] = g[k] \o rest
    OBVIOUS
  <2>2. n \in 1 .. N /\ n > k
    BY <1>1
  <2>3. /\ f[n] = (f[k] \o rest) \o r[n] /\ g[n] = (g[k] \o rest) \o r[n]
        /\ r[n] \in Seq(S) /\ f[k] \in Seq(S) /\ g[k] \in Seq(S)
    BY <1>1, <2>1, <2>2 DEF N
  <2>4. f[n] = f[k] \o (rest \o r[n]) /\ g[n] = g[k] \o (rest \o r[n])
    <3> DEFINE x == r[n]
               a == f[k]
               b == g[k]
    <3>1. x \in Seq(S) /\ a \in Seq(S) /\ b \in Seq(S) /\ rest \in Seq(S)
      BY <2>1, <2>3
    <3> HIDE DEF x, a, b
    <3>2. (a \o rest) \o x = a \o (rest \o x)
      BY <3>1
    <3>3. (b \o rest) \o x = b \o (rest \o x)
      BY <3>1
    <3> QED
      BY <2>3, <3>2, <3>3 DEF x, a, b
  <2>5. rest \o r[n] \in Seq(S)
    BY <2>3, ConcatProperties
  <2> QED
    BY <2>4, <2>5
<1> HIDE DEF P
<1>4. N - k \in Nat /\ good[0] \in V /\ \A n \in 1 .. N - k : good[n - 1] \in V => good[n] \in V
  <2>1. N - k \in Nat /\ 0 \in 0 .. N - k /\ k + 0 = k
    BY <1>1
  <2>2. \A n \in 1 .. N - k : /\ n \in 0 .. N - k /\ n - 1 \in 0 .. N - k
                              /\ k + n \in k + 1 .. N /\ k + (n - 1) = (k + n) - 1
    BY <1>1
  <2> QED
    BY <1>2, <1>3, <2>1, <2>2
<1>5. N - k \in 0 .. N - k /\ k + (N - k) = N
  BY <1>1
<1> DEFINE M == N - k
<1>6. M \in Nat /\ M \in 0 .. M /\ good[0] \in V /\ \A n \in 1 .. M : good[n - 1] \in V => good[n] \in V
  BY <1>4, <1>5
<1> HIDE DEF good, V, M
<1>7. good[M] \in V
  BY <1>6, LoopStays
<1>8. P(N)
  BY <1>5, <1>7 DEF good, V, M
<1> QED
  BY <1>8 DEF P, N, GoOnAlike

Rows(stored) == [i \in DOMAIN stored |-> stored[i].entries]

LEMMA RowsType ==
    ASSUME NEW stored \in Seq(StoredChunk)
    PROVE  /\ Rows(stored) \in Seq(Seq(Entry)) /\ Len(Rows(stored)) = Len(stored)
           /\ Len(stored) \in Nat
           /\ \A i \in 1 .. Len(stored) : /\ Rows(stored)[i] = stored[i].entries
                                          /\ stored[i].entries \in Seq(Entry)
           /\ EntriesOf(stored) = FlattenSeq(Rows(stored))
           /\ EntriesOf(stored) \in Seq(Entry)
           /\ \E flat : Joins(Entry, Rows(stored), flat)
                           /\ EntriesOf(stored) = flat[Len(stored)]
<1> DEFINE N == Len(stored)
<1>1. N \in Nat /\ DOMAIN stored = 1 .. N /\ \A i \in 1 .. N : stored[i].entries \in Seq(Entry)
  <2>1. \A i \in 1 .. N : stored[i] \in StoredChunk
    BY ElementOfSeq
  <2> QED
    BY <2>1, LenProperties DEF StoredChunk, Chunk
<1> HIDE DEF N
<1>2. Rows(stored) \in [1 .. N -> Seq(Entry)]
  BY <1>1 DEF Rows
<1>3. Rows(stored) \in Seq(Seq(Entry)) /\ Len(Rows(stored)) = N
  BY <1>1, <1>2
<1>4. EntriesOf(stored) = FlattenSeq(Rows(stored))
  BY DEF EntriesOf, Rows
<1>5. PICK flat \in [0 .. Len(Rows(stored)) -> Seq(Entry)] :
          /\ flat[0] = << >>
          /\ \A n \in 1 .. Len(Rows(stored)) : flat[n] = flat[n - 1] \o Rows(stored)[n]
          /\ FlattenSeq(Rows(stored)) = flat[Len(Rows(stored))]
  BY <1>3, FlattenSteps
<1>6. Joins(Entry, Rows(stored), flat) /\ EntriesOf(stored) = flat[N]
  BY <1>3, <1>4, <1>5 DEF Joins
<1>7. EntriesOf(stored) \in Seq(Entry)
  <2>1. N \in 0 .. N
    BY <1>1
  <2> QED
    BY <1>3, <1>5, <1>6, <2>1
<1>8. \A i \in 1 .. N : Rows(stored)[i] = stored[i].entries
  BY <1>1 DEF Rows
<1> QED
  BY <1>1, <1>3, <1>4, <1>6, <1>7, <1>8 DEF N

(* The first chunks hold the first entries. *)
LEMMA EntriesOfPrefix ==
    ASSUME NEW stored \in Seq(StoredChunk), NEW first \in Seq(StoredChunk),
           Len(first) <= Len(stored), \A i \in 1 .. Len(first) : first[i] = stored[i]
    PROVE  /\ Len(EntriesOf(first)) <= Len(EntriesOf(stored))
           /\ \A i \in 1 .. Len(EntriesOf(first)) : EntriesOf(first)[i] = EntriesOf(stored)[i]
<1> DEFINE N == Len(stored)
           M == Len(first)
           r == Rows(stored)
           s == Rows(first)
<1>1. /\ N \in Nat /\ M \in Nat /\ M <= N
      /\ r \in Seq(Seq(Entry)) /\ Len(r) = N /\ s \in Seq(Seq(Entry)) /\ Len(s) = M
      /\ \A i \in 1 .. M : r[i] = s[i]
  <2>1. /\ N \in Nat /\ M \in Nat /\ M <= N
        /\ r \in Seq(Seq(Entry)) /\ Len(r) = N /\ s \in Seq(Seq(Entry)) /\ Len(s) = M
    BY RowsType
  <2>2. \A i \in 1 .. M : i \in 1 .. N
    BY <2>1
  <2>3. \A i \in 1 .. M : r[i] = stored[i].entries /\ s[i] = first[i].entries
    BY <2>2, RowsType
  <2> QED
    BY <2>1, <2>3
<1>2. PICK f : Joins(Entry, r, f) /\ EntriesOf(stored) = f[N]
  BY RowsType
<1>3. PICK g : Joins(Entry, s, g) /\ EntriesOf(first) = g[M]
  BY RowsType
<1> HIDE DEF N, M, r, s
<1>4. f[M] = g[M]
  <2>1. M \in Nat /\ M <= Len(r) /\ M <= Len(s) /\ Len(r) \in Nat /\ Len(s) \in Nat
    BY <1>1
  <2> QED
    <3>1. Agree(f, g, M)
      BY <1>1, <1>2, <1>3, <2>1, HeadsAgree, Zenon
    <3> QED
      BY <3>1 DEF Agree
<1>5. PICK rest \in Seq(Entry) : f[N] = f[M] \o rest
  <2>1. M \in 0 .. Len(r) /\ \A i \in 1 .. Len(r) : i > M => r[i] = r[i]
    BY <1>1
  <2>2. GoOnAlike(Entry, f, f, M, Len(r))
    BY <1>1, <1>2, <2>1, TailsAgree, Zenon
  <2> QED
    BY <1>1, <2>2 DEF GoOnAlike
<1>6. f[M] \in Seq(Entry)
  BY <1>1, <1>2 DEF Joins
<1> DEFINE a == f[M]
<1>7. /\ Len(a \o rest) = Len(a) + Len(rest)
      /\ \A i \in 1 .. Len(a) + Len(rest) : (a \o rest)[i] = IF i <= Len(a) THEN a[i] ELSE rest[i - Len(a)]
      /\ Len(a) \in Nat /\ Len(rest) \in Nat
  BY <1>6, ConcatProperties, LenProperties
<1>8. EntriesOf(stored) = a \o rest /\ EntriesOf(first) = a
  BY <1>2, <1>3, <1>4, <1>5
<1> HIDE DEF a
<1> QED
  BY <1>7, <1>8

(* One place of a sequence has another value. *)
OneReplaced(s, t, was, is) ==
    /\ Len(t) = Len(s)
    /\ \E p \in 1 .. Len(s) : /\ s[p] = was /\ t[p] = is
                               /\ \A i \in 1 .. Len(s) : i # p => t[i] = s[i]

(* If one entry of one chunk is replaced, one entry of the store is.       *)
LEMMA EntriesOfReplaced ==
    ASSUME NEW stored \in Seq(StoredChunk), NEW other \in Seq(StoredChunk),
           Len(other) = Len(stored), NEW k \in 1 .. Len(stored),
           \A i \in 1 .. Len(stored) : i # k => other[i] = stored[i],
           NEW j \in 1 .. Len(stored[k].entries), NEW e \in Entry,
           other[k].entries = [stored[k].entries EXCEPT ![j] = e]
    PROVE  OneReplaced(EntriesOf(stored), EntriesOf(other), stored[k].entries[j], e)
<1> DEFINE N == Len(stored)
           r == Rows(stored)
           s == Rows(other)
           x == stored[k].entries
           y == other[k].entries
<1>1. /\ N \in Nat /\ k \in 1 .. N
      /\ r \in Seq(Seq(Entry)) /\ Len(r) = N /\ s \in Seq(Seq(Entry)) /\ Len(s) = N
      /\ \A i \in 1 .. N : i # k => r[i] = s[i]
      /\ r[k] = x /\ s[k] = y /\ x \in Seq(Entry)
  <2>1. /\ N \in Nat /\ k \in 1 .. N
        /\ r \in Seq(Seq(Entry)) /\ Len(r) = N /\ s \in Seq(Seq(Entry)) /\ Len(s) = N
    BY RowsType
  <2>2. \A i \in 1 .. N : r[i] = stored[i].entries /\ s[i] = other[i].entries
                           /\ stored[i].entries \in Seq(Entry)
    BY RowsType
  <2> HIDE DEF N, r, s
  <2> QED
    BY <2>1, <2>2 DEF N
<1>2. PICK f : Joins(Entry, r, f) /\ EntriesOf(stored) = f[N]
  BY RowsType
<1>3. PICK g : Joins(Entry, s, g) /\ EntriesOf(other) = g[N]
  BY RowsType
<1>4. /\ y \in Seq(Entry) /\ Len(y) = Len(x) /\ Len(x) \in Nat /\ j \in 1 .. Len(x)
      /\ \A i \in 1 .. Len(x) : y[i] = IF i = j THEN e ELSE x[i]
  <2> HIDE DEF x
  <2> QED
    BY <1>1, ExceptSeq, LenProperties DEF x
<1> HIDE DEF N, r, s, x, y
<1>5. k - 1 \in Nat /\ k - 1 <= N /\ k \in 0 .. N /\ k - 1 \in 0 .. N
      /\ \A i \in 1 .. k - 1 : i \in 1 .. N /\ i # k
  BY <1>1
<1> DEFINE m == k - 1
<1>6. m \in Nat /\ m <= N /\ \A i \in 1 .. m : r[i] = s[i]
  BY <1>1, <1>5
<1>7. f[k] = f[m] \o x /\ g[k] = g[m] \o y
  BY <1>1, <1>2, <1>3 DEF Joins
<1>8. f[m] \in Seq(Entry)
  BY <1>1, <1>2, <1>5 DEF Joins
<1> HIDE DEF m
<1>9. f[m] = g[m]
  <2>1. m <= Len(r) /\ m <= Len(s) /\ Len(r) \in Nat /\ Len(s) \in Nat
    BY <1>1, <1>6
  <2> QED
    <3>1. Agree(f, g, m)
      BY <1>2, <1>3, <1>6, <2>1, HeadsAgree, Zenon
    <3> QED
      BY <3>1 DEF Agree
<1>10. PICK rest \in Seq(Entry) : f[N] = f[k] \o rest /\ g[N] = g[k] \o rest
  <2>1. k \in 0 .. Len(r) /\ \A i \in 1 .. Len(r) : i > k => r[i] = s[i]
    BY <1>1, <1>5
  <2>2. Len(r) = Len(s)
    BY <1>1
  <2>3. GoOnAlike(Entry, f, g, k, Len(r))
    BY <1>1, <1>2, <1>3, <2>1, <2>2, TailsAgree, Zenon
  <2> QED
    BY <1>1, <2>3 DEF GoOnAlike
<1> DEFINE a == f[m]
           L == Len(a) + Len(x) + Len(rest)
           p == Len(a) + j
           All(z) == (a \o z) \o rest
<1>11. \A z \in Seq(Entry) : Len(z) = Len(x) =>
          /\ Len(All(z)) = L
          /\ \A i \in 1 .. L : All(z)[i] = IF i <= Len(a) THEN a[i]
                                          ELSE IF i <= Len(a) + Len(x) THEN z[i - Len(a)]
                                          ELSE rest[i - Len(a) - Len(x)]
  <2> TAKE z \in Seq(Entry)
  <2> HAVE Len(z) = Len(x)
  <2> DEFINE az == a \o z
  <2>1. /\ az \in Seq(Entry) /\ Len(az) = Len(a) + Len(x)
        /\ \A i \in 1 .. Len(a) + Len(x) : az[i] = IF i <= Len(a) THEN a[i] ELSE z[i - Len(a)]
    <3>1. a \in Seq(Entry)
      BY <1>8
    <3> HIDE DEF a
    <3>2. /\ a \o z \in Seq(Entry) /\ Len(a \o z) = Len(a) + Len(z)
          /\ \A i \in 1 .. Len(a) + Len(z) : (a \o z)[i] = IF i <= Len(a) THEN a[i] ELSE z[i - Len(a)]
      BY <3>1, JoinedEntries
    <3> QED
      BY <3>2
  <2>2. Len(a) \in Nat /\ Len(x) \in Nat /\ Len(rest) \in Nat
    BY <1>4, <1>8, LenProperties
  <2> HIDE DEF az, a
  <2>3. /\ Len(az \o rest) = Len(az) + Len(rest)
        /\ \A i \in 1 .. Len(az) + Len(rest) :
              (az \o rest)[i] = IF i <= Len(az) THEN az[i] ELSE rest[i - Len(az)]
    BY <2>1, JoinedEntries
  <2>4. \A i \in 1 .. L : (az \o rest)[i] = IF i <= Len(a) THEN a[i]
                                          ELSE IF i <= Len(a) + Len(x) THEN z[i - Len(a)]
                                          ELSE rest[i - Len(a) - Len(x)]
    <3> TAKE i \in 1 .. L
    <3>1. (az \o rest)[i] = IF i <= Len(az) THEN az[i] ELSE rest[i - Len(az)]
      BY <2>1, <2>2, <2>3
    <3>2. CASE i <= Len(az)
      <4>1. i \in 1 .. Len(a) + Len(x)
        BY <2>1, <2>2, <3>2
      <4>2. az[i] = IF i <= Len(a) THEN a[i] ELSE z[i - Len(a)]
        BY <2>1, <4>1
      <4>3. i <= Len(a) + Len(x)
        BY <2>1, <3>2
      <4> QED
        BY <3>1, <3>2, <4>2, <4>3
    <3>3. CASE ~(i <= Len(az))
      BY <2>1, <2>2, <3>1, <3>3
    <3> QED
      BY <3>2, <3>3
  <2> QED
    BY <2>1, <2>3, <2>4 DEF az
<1>12. EntriesOf(stored) = All(x) /\ EntriesOf(other) = All(y) /\ x \in Seq(Entry)
  BY <1>1, <1>2, <1>3, <1>7, <1>9, <1>10
<1>13. Len(a) \in Nat /\ Len(rest) \in Nat /\ Len(x) \in Nat
  BY <1>4, <1>8, LenProperties
<1> HIDE DEF All, a
<1>14. /\ Len(All(x)) = L /\ Len(All(y)) = L /\ p \in 1 .. L
       /\ All(x)[p] = x[j] /\ All(y)[p] = e
       /\ \A i \in 1 .. L : i # p => All(y)[i] = All(x)[i]
  <2>1. /\ Len(All(x)) = L /\ Len(All(y)) = L
        /\ \A i \in 1 .. L : All(x)[i] = IF i <= Len(a) THEN a[i]
                                          ELSE IF i <= Len(a) + Len(x) THEN x[i - Len(a)]
                                          ELSE rest[i - Len(a) - Len(x)]
        /\ \A i \in 1 .. L : All(y)[i] = IF i <= Len(a) THEN a[i]
                                          ELSE IF i <= Len(a) + Len(x) THEN y[i - Len(a)]
                                          ELSE rest[i - Len(a) - Len(x)]
    BY <1>4, <1>11, <1>12
  <2>2. p \in 1 .. L /\ ~(p <= Len(a)) /\ p <= Len(a) + Len(x) /\ p - Len(a) = j
    BY <1>4, <1>13
  <2>3. All(x)[p] = x[j] /\ All(y)[p] = e
    <3> HIDE DEF p, L
    <3>1. All(x)[p] = x[p - Len(a)] /\ All(y)[p] = y[p - Len(a)]
      BY <2>1, <2>2
    <3> QED
      BY <1>4, <2>2, <3>1
  <2>4. ASSUME NEW i \in 1 .. L, i # p
        PROVE  All(y)[i] = All(x)[i]
    <3>1. CASE i <= Len(a) \/ ~(i <= Len(a) + Len(x))
      BY <2>1, <3>1
    <3>2. CASE ~(i <= Len(a)) /\ i <= Len(a) + Len(x)
      <4>1. i - Len(a) \in 1 .. Len(x) /\ i - Len(a) # j
        BY <1>4, <1>13, <2>4, <3>2
      <4>2. y[i - Len(a)] = x[i - Len(a)]
        BY <1>4, <4>1
      <4> QED
        BY <2>1, <3>2, <4>2
    <3> QED
      BY <3>1, <3>2
  <2> QED
    BY <2>1, <2>2, <2>3, <2>4
<1> HIDE DEF L, p
<1> QED
  BY <1>12, <1>14 DEF x, OneReplaced
-----------------------------------------------------------------------------
(* What is dumped fits the words of the checksum: there are no more ids    *)
(* than interned columns.                                                  *)
FitInv ==
    /\ pc = "ingest" => Len(lines) <= MaxLines /\ Len(pool) <= 4 * Len(lines)
    /\ \A p \in 1 .. Len(EntriesOf(saved.chunks)) : Fits(EntriesOf(saved.chunks)[p])

(* The chunks read so far are the first chunks of the altered file. *)
ChunksLoaded ==
    pc = "load" /\ damage = "altered" =>
        /\ next <= Len(file) + 1
        /\ Len(chunks) = IF next - 2 <= Len(saved.pool) THEN 0 ELSE next - 2 - Len(saved.pool)
        /\ \A i \in 1 .. Len(chunks) : chunks[i] = file[i + 1 + Len(saved.pool)]

CaughtInv == FitInv /\ ChunksLoaded /\ DamageCaught

(* The chunks that are served after an alteration: the first of those that *)
(* were dumped, or all of them with one altered.                           *)
LEMMA AlteredChunks ==
    ASSUME Inv, TypeInv, ChunksLoaded, pc = "load", damage = "altered", ~StringsLeft, ~ChunksLeft
    PROVE  /\ Len(chunks) <= Len(saved.chunks)
           /\ \/ \A i \in 1 .. Len(chunks) : chunks[i] = saved.chunks[i]
              \/ /\ Len(chunks) = Len(saved.chunks)
                 /\ file[1].checksum = ComputeChecksum(saved.chunks)
                 /\ \E c \in 1 .. Len(saved.chunks) :
                       /\ chunks[c] \in OtherRanges(saved.chunks[c]) \cup OtherEntries(saved.chunks[c])
                       /\ \A i \in 1 .. Len(saved.chunks) : i # c => chunks[i] = saved.chunks[i]
<1> DEFINE N == Len(saved.pool)
           K == Len(saved.chunks)
           M == Len(chunks)
<1>1. /\ N \in Nat /\ K \in Nat
      /\ Len(Original) = 1 + N + K
      /\ Original[1] = Header(saved.pool, saved.chunks)
      /\ \A i \in 1 .. N : Original[i + 1] = saved.pool[i]
      /\ \A i \in 1 .. K : Original[i + 1 + N] = saved.chunks[i]
  BY OriginalSections DEF TypeInv
<1>2. PICK k \in 1 .. Len(Original) : \E section \in OtherSections(k, Original[k]) :
          /\ section # Original[k]
          /\ Len(file) = Len(Original)
          /\ file[k] = section
          /\ \A i \in 1 .. Len(Original) : i # k => file[i] = Original[i]
  BY AlteredSections
<1>3. /\ file[k] \in OtherSections(k, Original[k])
      /\ Len(file) = 1 + N + K
      /\ \A i \in 1 .. 1 + N + K : i # k => file[i] = Original[i]
      /\ k \in 1 .. 1 + N + K
  BY <1>1, <1>2
<1>4. file[1].stringCount = N /\ next \in Nat
  BY FileTypes DEF TypeInv, TypeOK
<1>5. /\ next >= 2 + N /\ next <= 2 + N + K
      /\ ~(next < 2 + file[1].stringCount + file[1].chunkCount)
  <2>1. next >= 2 + N /\ ~(next < 2 + file[1].stringCount + file[1].chunkCount)
    BY <1>1, <1>4 DEF StringsLeft, ChunksLeft
  <2>2. next <= 2 + N + K
    <3>1. next <= Len(file) + 1
      BY DEF ChunksLoaded
    <3> HIDE DEF N, K, M
    <3> QED
      BY <1>1, <1>3, <1>4, <3>1
  <2> QED
    BY <2>1, <2>2
<1>6. M = next - 2 - N /\ \A i \in 1 .. M : chunks[i] = file[i + 1 + N]
  <2>1. M = IF next - 2 <= N THEN 0 ELSE next - 2 - N
    BY DEF ChunksLoaded
  <2>2. \A i \in 1 .. M : chunks[i] = file[i + 1 + N]
    BY DEF ChunksLoaded
  <2> HIDE DEF N, M
  <2> QED
    BY <1>1, <1>4, <1>5, <2>1, <2>2
<1>7. M \in Nat /\ M <= K /\ \A i \in 1 .. M : i \in 1 .. K /\ i + 1 + N \in 1 .. 1 + N + K
  <2> HIDE DEF N, K, M
  <2> QED
    BY <1>1, <1>4, <1>5, <1>6
<1>8. CASE k <= 1 + N
  <2>1. \A i \in 1 .. M : i + 1 + N # k
    <3> HIDE DEF N, K, M
    <3> QED
      BY <1>1, <1>7, <1>8, <1>3
  <2>2. \A i \in 1 .. M : chunks[i] = saved.chunks[i]
    <3> HIDE DEF N, K, M
    <3>1. \A i \in 1 .. M : chunks[i] = Original[i + 1 + N]
      BY <1>3, <1>6, <1>7, <2>1
    <3> QED
      BY <1>1, <1>7, <3>1
  <2> QED
    BY <1>7, <2>2
<1>9. CASE ~(k <= 1 + N)
  <2> DEFINE c == k - 1 - N
  <2>1. c \in 1 .. K /\ c + 1 + N = k /\ k # 1 /\ k \notin 2 .. 1 + N /\ 1 \in 1 .. 1 + N + K
    <3> HIDE DEF N, K, M
    <3> QED
      BY <1>1, <1>3, <1>9
  <2>2. file[1] = Header(saved.pool, saved.chunks)
    BY <1>1, <1>3, <2>1
  <2>3. file[1].chunkCount = K /\ file[1].checksum = ComputeChecksum(saved.chunks)
    BY <2>2 DEF Header
  <2>4. M = K
    <3> HIDE DEF N, K, M
    <3> QED
      BY <1>1, <1>4, <1>5, <1>6, <2>3
  <2> HIDE DEF c
  <2>5. file[k] \in OtherRanges(saved.chunks[c]) \cup OtherEntries(saved.chunks[c])
    <3>1. k \notin StringSections
      BY <2>1 DEF StringSections
    <3>2. Original[k] = saved.chunks[c]
      BY <1>1, <2>1
    <3> QED
      BY <1>3, <2>1, <3>1, <3>2 DEF OtherSections
  <2> HIDE DEF N, K, M
  <2>6. chunks[c] = file[k]
    BY <1>6, <2>1, <2>4
  <2>7. \A i \in 1 .. K : i # c => chunks[i] = saved.chunks[i]
    <3>1. \A i \in 1 .. K : i # c => i + 1 + N # k /\ i + 1 + N \in 1 .. 1 + N + K
      BY <1>1, <2>1
    <3>2. \A i \in 1 .. K : i # c => chunks[i] = Original[i + 1 + N]
      BY <1>3, <1>6, <2>4, <3>1
    <3> QED
      BY <1>1, <3>2
  <2> QED
    BY <2>1, <2>3, <2>4, <2>5, <2>6, <2>7 DEF K, M
<1>10. k <= 1 + N \/ ~(k <= 1 + N)
  OBVIOUS
<1> QED
  BY <1>8, <1>9, <1>10

LEMMA SummedPrefix ==
    ASSUME NEW first, NEW stored,
           EntriesOf(first) \in Seq(Entry), EntriesOf(stored) \in Seq(Entry),
           Len(EntriesOf(first)) <= Len(EntriesOf(stored)),
           \A i \in 1 .. Len(EntriesOf(first)) :
               Summed(EntriesOf(first)[i]) = Summed(EntriesOf(stored)[i])
    PROVE  IsPrefix(SummedRows(first), SummedRows(stored))
<1> DEFINE a == EntriesOf(first)
           b == EntriesOf(stored)
           s == [i \in DOMAIN a |-> Summed(a[i])]
           t == [i \in DOMAIN b |-> Summed(b[i])]
           M == Len(a)
           N == Len(b)
           T == {Summed(e) : e \in Entry}
<1>1. SummedRows(first) = s /\ SummedRows(stored) = t
  BY DEF SummedRows
<1>2. /\ DOMAIN a = 1 .. M /\ DOMAIN b = 1 .. N /\ M \in Nat /\ N \in Nat /\ M <= N
      /\ \A i \in 1 .. M : a[i] \in Entry
      /\ \A i \in 1 .. N : b[i] \in Entry
  BY LenProperties, ElementOfSeq
<1> HIDE DEF a, b
<1>3. s \in Seq(T) /\ Len(s) = M /\ t \in Seq(T) /\ Len(t) = N
  <2>1. s \in [1 .. M -> T] /\ t \in [1 .. N -> T]
    BY <1>2
  <2> HIDE DEF s, t, T, M, N
  <2> QED
    BY <1>2, <2>1
<1>4. \A i \in 1 .. M : s[i] = t[i]
  BY <1>2 DEF a, b
<1> HIDE DEF s, t, T, M, N
<1>5. SubSeq(s, 1, M) = SubSeq(t, 1, M)
  <2>1. M \in 0 .. Len(s) /\ M \in 0 .. Len(t) /\ IsSeq(s) /\ IsSeq(t)
    BY <1>2, <1>3, SeqOfElements
  <2> DEFINE u == SubSeq(s, 1, M)
             v == SubSeq(t, 1, M)
  <2>2. /\ IsSeq(u) /\ Len(u) = M /\ \A i \in 1 .. M : u[i] = s[i]
        /\ IsSeq(v) /\ Len(v) = M /\ \A i \in 1 .. M : v[i] = t[i]
    BY <2>1, PrefixProperties
  <2> HIDE DEF u, v
  <2>3. u = v
    BY <1>4, <2>2, SeqEqual DEF IsSeq
  <2> QED
    BY <2>3 DEF u, v
<1> QED
  BY <1>1, <1>2, <1>3, <1>5 DEF IsPrefix

LEMMA OtherEntriesAre ==
    ASSUME NEW chunk \in StoredChunk, NEW other \in OtherEntries(chunk)
    PROVE  \E j \in 1 .. Len(chunk.entries), n \in Numbers,
              field \in {"userId", "deviceId", "appId", "resourceId", "eventType", "location",
                         "timestamp"} :
              other.entries = [chunk.entries EXCEPT ![j] = [chunk.entries[j] EXCEPT ![field] = n]]
<1>1. PICK j \in DOMAIN chunk.entries, n \in Numbers,
           field \in {"userId", "deviceId", "appId", "resourceId", "eventType", "location",
                      "timestamp"} :
          other = [chunk EXCEPT !.entries[j][field] = n]
  BY DEF OtherEntries
<1> DEFINE entries == [chunk.entries EXCEPT ![j] = [chunk.entries[j] EXCEPT ![field] = n]]
<1>2. other = [chunk EXCEPT !.entries = entries]
  BY <1>1
<1> HIDE DEF entries
<1>3. other.entries = entries
  BY <1>2 DEF StoredChunk, Chunk
<1>4. j \in 1 .. Len(chunk.entries)
  BY LenProperties DEF StoredChunk, Chunk
<1> QED
  BY <1>3, <1>4 DEF entries

(* An altered snapshot that passes the check serves the rows dumped. *)
LEMMA AlteredCaught ==
    ASSUME Inv, TypeInv, FitInv, ChunksLoaded, pc = "load", damage = "altered",
           ~StringsLeft, ~ChunksLeft, ComputeChecksum(chunks) = file[1].checksum
    PROVE  IsPrefix(SummedRows(chunks), SummedRows(saved.chunks))
<1> DEFINE stored == saved.chunks
           a == EntriesOf(chunks)
           b == EntriesOf(stored)
<1>1. /\ chunks \in Seq(StoredChunk) /\ stored \in Seq(StoredChunk)
      /\ a \in Seq(Entry) /\ b \in Seq(Entry)
  <2>1. chunks \in Seq(StoredChunk) /\ stored \in Seq(StoredChunk)
    BY TypeParts DEF TypeInv, StoreType, SavedType
  <2> QED
    BY <2>1, RowsType
<1>2. CASE \A i \in 1 .. Len(chunks) : chunks[i] = stored[i]
  <2>1. Len(a) <= Len(b) /\ \A i \in 1 .. Len(a) : a[i] = b[i]
    BY <1>1, <1>2, AlteredChunks, EntriesOfPrefix
  <2> QED
    BY <1>1, <2>1, SummedPrefix
<1>3. ASSUME Len(chunks) = Len(stored),
             NEW c \in 1 .. Len(stored),
             chunks[c] \in OtherRanges(stored[c]) \cup OtherEntries(stored[c]),
             \A i \in 1 .. Len(stored) : i # c => chunks[i] = stored[i],
             file[1].checksum = ComputeChecksum(stored)
      PROVE  IsPrefix(SummedRows(chunks), SummedRows(stored))
  <2>1. /\ stored[c] = [entries |-> stored[c].entries, minTimestamp |-> stored[c].minTimestamp,
                        maxTimestamp |-> stored[c].maxTimestamp]
        /\ stored[c].entries \in Seq(Entry) /\ stored[c] \in StoredChunk
    <3>1. stored[c] \in StoredChunk
      BY <1>1, <1>3, ElementOfSeq
    <3> QED
      BY <3>1 DEF StoredChunk, Chunk
  <2>2. CASE chunks[c] \in OtherRanges(stored[c])
    <3>1. chunks[c].entries = stored[c].entries
      BY <2>1, <2>2 DEF OtherRanges
    <3>2. Rows(chunks) = Rows(stored)
      <4>1. \A i \in 1 .. Len(stored) : Rows(chunks)[i] = Rows(stored)[i]
        <5>1. \A i \in 1 .. Len(stored) : Rows(chunks)[i] = chunks[i].entries
                                          /\ Rows(stored)[i] = stored[i].entries
          BY <1>1, <1>3, RowsType
        <5> QED
          BY <1>3, <3>1, <5>1
      <4>2. /\ Rows(chunks) \in Seq(Seq(Entry)) /\ Rows(stored) \in Seq(Seq(Entry))
            /\ Len(Rows(chunks)) = Len(stored) /\ Len(Rows(stored)) = Len(stored)
        BY <1>1, <1>3, RowsType
      <4> DEFINE r == Rows(chunks)
                 s == Rows(stored)
                 T == Seq(Entry)
      <4>3. r \in Seq(T) /\ s \in Seq(T) /\ Len(r) = Len(s) /\ \A i \in 1 .. Len(r) : r[i] = s[i]
        BY <4>1, <4>2
      <4> HIDE DEF r, s, T
      <4>4. r = s
        BY <4>3, SeqEqual
      <4> QED
        BY <4>4 DEF r, s
    <3>3. a = b
      BY <1>1, <3>2, RowsType
    <3>4. Len(a) <= Len(b) /\ \A i \in 1 .. Len(a) : Summed(a[i]) = Summed(b[i])
      <4>1. Len(b) \in Nat
        BY <1>1, LenProperties
      <4> QED
        BY <3>3, <4>1
    <3> QED
      BY <1>1, <3>4, SummedPrefix
  <2>3. CASE chunks[c] \in OtherEntries(stored[c])
    <3>1. PICK j \in 1 .. Len(stored[c].entries), n \in Numbers,
               field \in {"userId", "deviceId", "appId", "resourceId", "eventType", "location",
                          "timestamp"} :
              chunks[c].entries =
                  [stored[c].entries EXCEPT ![j] = [stored[c].entries[j] EXCEPT ![field] = n]]
      <4> DEFINE chunk == stored[c]
                 other == chunks[c]
      <4>1. chunk \in StoredChunk /\ other \in OtherEntries(chunk)
        BY <2>1, <2>3
      <4> HIDE DEF chunk, other
      <4>2. \E j \in 1 .. Len(chunk.entries), n \in Numbers,
               field \in {"userId", "deviceId", "appId", "resourceId", "eventType", "location",
                          "timestamp"} :
              other.entries = [chunk.entries EXCEPT ![j] = [chunk.entries[j] EXCEPT ![field] = n]]
        BY <4>1, OtherEntriesAre
      <4> QED
        BY <4>2 DEF chunk, other
    <3> DEFINE was == stored[c].entries[j]
               entry == [was EXCEPT ![field] = n]
               entries == [stored[c].entries EXCEPT ![j] = entry]
    <3>2. j \in 1 .. Len(stored[c].entries) /\ was \in Entry
      BY <2>1, ElementOfSeq, LenProperties
    <3>3. n \in 0 .. INT64_MAX /\ n \in Nat
      BY SnapshotAssumption, LinesAssumption
    <3>4. entry \in Entry
      BY <3>2, <3>3 DEF Entry
    <3>5. chunks[c].entries = entries
      BY <3>1
    <3> HIDE DEF entry
    <3>6. PICK p \in 1 .. Len(b) :
              /\ Len(a) = Len(b)
              /\ b[p] = was /\ a[p] = entry
              /\ \A i \in 1 .. Len(b) : i # p => a[i] = b[i]
      <4>1. OneReplaced(b, a, was, entry)
        BY <1>1, <1>3, <3>2, <3>4, <3>5, EntriesOfReplaced, Zenon
      <4> QED
        BY <4>1 DEF OneReplaced
    <3>7. Summed(entry) = Summed(was)
      <4>1. CASE field \in {"eventType", "location"}
        BY <3>2, <4>1 DEF Summed, Entry, entry
      <4>2. CASE field \notin {"eventType", "location"} /\ n = was[field]
        BY <3>2, <4>2 DEF Summed, Entry, entry
      <4>3. CASE field \notin {"eventType", "location"} /\ n # was[field]
        <5>1. field \in {"userId", "deviceId", "appId", "resourceId", "timestamp"}
          BY <4>3
        <5>2. Fits(was)
          BY <3>6 DEF FitInv
        <5>3. Mixed(entry) # Mixed(was)
          BY <3>2, <3>3, <4>3, <5>1, <5>2, MixedTells DEF entry
        <5> DEFINE L == Len(b)
        <5>4. /\ L \in Nat /\ p \in 1 .. L /\ DOMAIN b = 1 .. L /\ DOMAIN a = 1 .. L
              /\ \A i \in 1 .. L : i # p => a[i] = b[i]
              /\ Mixed(a[p]) # Mixed(b[p])
          BY <1>1, <3>6, <5>3, LenProperties
        <5> HIDE DEF L
        <5>5. ComputeChecksum(chunks) # ComputeChecksum(stored)
          BY <5>4, OneEntryIsSeen
        <5> QED
          BY <1>3, <5>5
      <4> QED
        BY <4>1, <4>2, <4>3
    <3>8. Len(a) <= Len(b) /\ \A i \in 1 .. Len(a) : Summed(a[i]) = Summed(b[i])
      <4>1. Len(b) \in Nat
        BY <1>1, LenProperties
      <4> QED
        BY <3>6, <3>7, <4>1
    <3> QED
      BY <1>1, <3>8, SummedPrefix
  <2> QED
    BY <1>3, <2>2, <2>3
<1> QED
  BY <1>2, <1>3, AlteredChunks

(* A pool grows by one string at most when a name is looked up. *)
LEMMA WithNameGrowsByOne ==
    ASSUME NEW s \in Seq(STRING), NEW name \in STRING
    PROVE  WithName(s, name) \in Seq(STRING) /\ Len(WithName(s, name)) <= Len(s) + 1
<1>1. /\ Append(s, name) \in Seq(STRING) /\ Len(Append(s, name)) = Len(s) + 1 /\ Len(s) \in Nat
  BY AppendProperties, LenProperties
<1>2. WithName(s, name) = s \/ WithName(s, name) = Append(s, name)
  BY DEF WithName
<1> DEFINE t == WithName(s, name)
           u == Append(s, name)
<1>3. t \in {s, u} /\ u \in Seq(STRING) /\ Len(u) = Len(s) + 1 /\ Len(s) \in Nat
  BY <1>1, <1>2
<1> HIDE DEF t, u
<1>4. t \in Seq(STRING) /\ Len(t) <= Len(s) + 1
  BY <1>3
<1> QED
  BY <1>4 DEF t

LEMMA PoolGrowsByFour ==
    ASSUME pool \in Seq(STRING), argumentOrder \in ArgumentOrders,
           NEW line \in Lines, Len(line.names) = 6
    PROVE  Len(PoolWith(Interns(line))) <= Len(pool) + 4
<1> DEFINE names == Interns(line)
           p1 == WithName(pool, names[1])
           p2 == WithName(p1, names[2])
           p3 == WithName(p2, names[3])
           p4 == WithName(p3, names[4])
<1>1. \A i \in 1 .. 4 : names[i] \in STRING
  <2>1. \A i \in 1 .. 4 : argumentOrder[i] \in 1 .. 6
    BY LinesAssumption
  <2>2. \A i \in 1 .. 6 : line.names[i] \in STRING
    BY LineType, ElementOfSeq
  <2> QED
    BY <2>1, <2>2 DEF Interns
<1>2. names[1] \in STRING /\ names[2] \in STRING /\ names[3] \in STRING /\ names[4] \in STRING
  BY <1>1
<1> HIDE DEF names
<1>3. p1 \in Seq(STRING) /\ Len(p1) <= Len(pool) + 1
  BY <1>2, WithNameGrowsByOne
<1> HIDE DEF p1
<1>4. p2 \in Seq(STRING) /\ Len(p2) <= Len(p1) + 1
  BY <1>2, <1>3, WithNameGrowsByOne
<1> HIDE DEF p2
<1>5. p3 \in Seq(STRING) /\ Len(p3) <= Len(p2) + 1
  BY <1>2, <1>4, WithNameGrowsByOne
<1> HIDE DEF p3
<1>6. p4 \in Seq(STRING) /\ Len(p4) <= Len(p3) + 1
  BY <1>2, <1>5, WithNameGrowsByOne
<1> HIDE DEF p4
<1>7. /\ Len(pool) \in Nat /\ Len(p1) \in Nat /\ Len(p2) \in Nat /\ Len(p3) \in Nat /\ Len(p4) \in Nat
  BY <1>3, <1>4, <1>5, <1>6, LenProperties
<1>8. Len(p4) <= Len(pool) + 4
  BY <1>3, <1>4, <1>5, <1>6, <1>7
<1> QED
  BY <1>8 DEF PoolWith, p1, p2, p3, p4, names

LEMMA FitKept ==
    ASSUME TypeInv, ExactInv, FitInv, [Next]_vars
    PROVE  FitInv'
<1> DEFINE Small(kept) == \A p \in 1 .. Len(EntriesOf(kept)) : Fits(EntriesOf(kept)[p])
<1>1. Small(saved.chunks)
  BY DEF FitInv
<1>2. pool \in Seq(STRING) /\ Len(pool) \in Nat /\ lines \in Seq(Lines) /\ Len(lines) \in Nat
  BY LenProperties DEF TypeInv, TypeOK
<1>3. CASE UNCHANGED vars
  BY <1>3 DEF vars, ingestionVars, snapshotVars, store, FitInv
<1>4. ASSUME NEW line \in Lines, Ingest(line)
      PROVE  FitInv'
  <2>1. /\ pc = "ingest" /\ saved' = saved /\ lines' = Append(lines, line) /\ Len(lines) < MaxLines
        /\ Len(lines) <= MaxLines /\ Len(pool) <= 4 * Len(lines)
    BY <1>4 DEF Ingest, ProcessLine, snapshotVars, FitInv
  <2>2. Len(lines') = Len(lines) + 1
    BY <1>2, <2>1, AppendProperties
  <2>3. Len(pool') <= Len(pool) + 4 /\ Len(pool') \in Nat
    <3>1. CASE Skip(line) \/ Drop(line)
      BY <1>2, <3>1 DEF Skip, Drop, store
    <3>2. CASE Store(line)
      <4>1. Len(line.names) = 6 /\ pool' = PoolWith(Interns(line)) /\ argumentOrder \in ArgumentOrders
        BY <3>2 DEF Store, Drops, Validates, TypeInv, TypeOK
      <4>2. pool' \in Seq(STRING)
        BY <1>2, <4>1, PoolWithGrows
      <4> QED
        BY <1>2, <4>1, <4>2, PoolGrowsByFour, LenProperties
    <3> QED
      BY <1>4, <3>1, <3>2 DEF Ingest, ProcessLine
  <2>4. Len(lines') <= MaxLines /\ Len(pool') <= 4 * Len(lines')
    BY <1>2, <2>1, <2>2, <2>3, LinesAssumption
  <2> QED
    BY <1>1, <2>1, <2>4 DEF FitInv
<1>5. CASE Dump
  <2>1. /\ pc = "ingest" /\ pc' = "menu" /\ saved'.chunks = chunks
        /\ Len(lines) <= MaxLines /\ Len(pool) <= 4 * Len(lines)
    BY <1>5 DEF Dump, FitInv
  <2>2. Len(pool) <= INT64_MAX /\ INT64_MAX \in Nat
    BY <1>2, <2>1, LinesAssumption, SnapshotAssumption
  <2> DEFINE rows == EntriesOf(chunks)
  <2>3. rows \in Seq(Entry)
    <3>1. chunks \in Seq(StoredChunk)
      BY TypeParts DEF TypeInv, StoreType
    <3> QED
      BY <3>1, RowsType
  <2>4. Small(chunks)
    <3>1. SUFFICES ASSUME NEW p \in 1 .. Len(rows) PROVE Fits(rows[p])
      OBVIOUS
    <3>2. /\ rows[p] \in Entry
          /\ \A id \in {rows[p].userId, rows[p].deviceId, rows[p].appId, rows[p].resourceId} :
                id < Len(pool)
      BY <2>1, <2>3, ElementOfSeq DEF ExactInv, IdsKnown
    <3> DEFINE e == rows[p]
    <3> HIDE DEF rows
    <3> HIDE DEF e
    <3>3. /\ e \in Entry /\ e.userId < Len(pool) /\ e.deviceId < Len(pool)
          /\ e.appId < Len(pool) /\ e.resourceId < Len(pool)
      BY <3>2 DEF e
    <3>4. Fits(e)
      BY <1>2, <2>2, <3>3 DEF Fits, Entry
    <3> QED
      BY <3>4 DEF e
  <2> QED
    BY <2>1, <2>4 DEF FitInv
<1>6. CASE Exit \/ Cut \/ Alter \/ Load
  <2>1. saved' = saved /\ pc' # "ingest"
    BY <1>6 DEF Exit, Cut, Alter, MayBeDamaged, Damaged, Load, LoadHeader, LoadString, LoadChunk,
                VerifyChecksum, ReadFails, snapshotVars
  <2> QED
    BY <1>1, <2>1 DEF FitInv
<1>7. CASE LoadCsv
  <2>1. pool' = << >> /\ lines' = << >> /\ saved'.chunks = << >>
    BY <1>7 DEF LoadCsv
  <2>2. EntriesOf(<< >>) = << >>
    BY NothingRead
  <2> QED
    BY <2>1, <2>2, LinesAssumption DEF FitInv
<1> QED
  BY <1>3, <1>4, <1>5, <1>6, <1>7 DEF Next

LEMMA ChunksLoadedKept ==
    ASSUME Inv, TypeInv, ChunksLoaded, Next, pc' = "load", damage' = "altered"
    PROVE  ChunksLoaded'
<1> DEFINE N == Len(saved.pool)
           K == Len(saved.chunks)
<1>1. N \in Nat /\ K \in Nat /\ Len(Original) = 1 + N + K
  BY OriginalSections DEF TypeInv
<1>2. LoadHeader \/ LoadString \/ LoadChunk
  BY DEF Next, Load, Ingest, Dump, Exit, Cut, Alter, MayBeDamaged, Damaged, VerifyChecksum, LoadCsv
<1>3. UNCHANGED <<file, saved, damage>> /\ damage = "altered" /\ pc # "ingest"
  BY <1>2 DEF LoadHeader, LoadString, LoadChunk, ReadFails, snapshotVars
<1>4. Len(file) = 1 + N + K
  BY <1>1, <1>3, AlteredSections
<1>5. next \in Nat /\ chunks \in Seq(StoredChunk) /\ (pc = "load" => file[1].stringCount = N)
  <2>1. next \in Nat /\ chunks \in Seq(StoredChunk)
    BY TypeParts DEF TypeInv, StoreType, ControlType
  <2> QED
    BY <1>3, <2>1, FileTypes
<1>6. CASE LoadHeader
  <2>1. chunks' = << >> /\ next' = 2
    BY <1>6 DEF LoadHeader, ingestionVars, store, Inv, OffInv
  <2> HIDE DEF N, K
  <2>2. next' <= Len(file) + 1 /\ next' - 2 <= N /\ Len(chunks') = 0
    BY <1>1, <1>4, <2>1
  <2> QED
    BY <1>3, <2>2 DEF ChunksLoaded, N
<1>7. CASE LoadString
  <2>1. /\ pc = "load" /\ chunks' = chunks /\ next' = next + 1 /\ next <= Len(file)
        /\ next < 2 + file[1].stringCount
    BY <1>7 DEF LoadString, StringsLeft, ReadFails
  <2>2. Len(chunks) = IF next - 2 <= N THEN 0 ELSE next - 2 - N
    BY <1>3, <2>1 DEF ChunksLoaded
  <2> HIDE DEF N, K
  <2>3. next' <= Len(file) + 1 /\ next' - 2 <= N /\ Len(chunks') = 0
    BY <1>1, <1>4, <1>5, <2>1, <2>2
  <2> QED
    BY <1>3, <2>3 DEF ChunksLoaded, N
<1>8. CASE LoadChunk
  <2>1. /\ pc = "load" /\ chunks' = Append(chunks, file[next]) /\ next' = next + 1 /\ next <= Len(file)
        /\ ~(next < 2 + file[1].stringCount)
    BY <1>8 DEF LoadChunk, ChunksLeft, StringsLeft, ReadFails, AddLoadedChunk
  <2>2. /\ Len(chunks) = IF next - 2 <= N THEN 0 ELSE next - 2 - N
        /\ \A i \in 1 .. Len(chunks) : chunks[i] = file[i + 1 + N]
    BY <1>3, <2>1 DEF ChunksLoaded
  <2> DEFINE M == Len(chunks)
             new == Append(chunks, file[next])
  <2>3. /\ Len(new) = M + 1 /\ M \in Nat /\ new[M + 1] = file[next]
        /\ \A i \in 1 .. M : new[i] = chunks[i]
    <3>1. IsSeq(chunks)
      BY <1>5, SeqOfElements
    <3> QED
      BY <3>1, OneMore
  <2> HIDE DEF N, K, M, new
  <2>4. M = next - 2 - N /\ M + 2 + N = next
    BY <1>1, <1>5, <2>1, <2>2 DEF M
  <2>5. \A i \in 1 .. M + 1 : new[i] = file[i + 1 + N]
    <3> TAKE i \in 1 .. M + 1
    <3>1. CASE i \in 1 .. M
      BY <2>2, <2>3, <3>1 DEF M
    <3>2. CASE i = M + 1
      <4>1. i + 1 + N = next
        BY <1>1, <2>3, <2>4, <3>2
      <4> QED
        BY <2>3, <3>2, <4>1
    <3> QED
      BY <2>3, <3>1, <3>2
  <2>6. /\ next' <= Len(file) + 1 /\ ~(next' - 2 <= N) /\ next' - 2 - N = M + 1
    BY <1>1, <1>4, <1>5, <2>1, <2>3, <2>4
  <2>7. chunks' = new
    BY <2>1 DEF new
  <2> QED
    BY <1>3, <2>3, <2>5, <2>6, <2>7 DEF ChunksLoaded, N
<1> QED
  BY <1>2, <1>6, <1>7, <1>8

LEMMA DamageCaughtKept ==
    ASSUME Inv, TypeInv, CaughtInv, [Next]_vars, Inv', TypeInv'
    PROVE  DamageCaught'
<1> USE DEF CaughtInv
<1>1. SUFFICES ASSUME pc' = "menu"
               PROVE  IsPrefix(SummedRows(chunks), SummedRows(saved.chunks))'
  BY DEF DamageCaught
<1>2. CASE damage' # "altered"
  <2>1. chunks' = saved'.chunks /\ chunks' \in Seq(StoredChunk)
    <3>1. damage' \in {"none", "cut", "altered"}
      BY DEF TypeInv, TypeOK
    <3>2. store' = <<saved'.pool, saved'.chunks>>
      BY <1>1, <1>2, <3>1 DEF Inv, RoundTrip
    <3> QED
      BY <3>2 DEF store, TypeInv, TypeOK, StoredChunk, Chunk
  <2> DEFINE c == chunks'
             e == EntriesOf(c)
  <2>2. e \in Seq(Entry) /\ Len(e) \in Nat
    BY <2>1, RowsType, LenProperties
  <2> HIDE DEF c
  <2>3. IsPrefix(SummedRows(c), SummedRows(c))
    BY <2>2, SummedPrefix
  <2> QED
    BY <2>1, <2>3 DEF c
<1>3. CASE damage' = "altered"
  <2>1. \/ UNCHANGED <<chunks, saved>> /\ pc = "menu"
        \/ VerifyChecksum
    BY <1>1, <1>3 DEF vars, ingestionVars, snapshotVars, store, Next, Load, Ingest, ProcessLine, Dump,
       Exit, Cut, Alter, MayBeDamaged, Damaged, LoadHeader, LoadString, LoadChunk, ReadFails, LoadCsv
  <2>2. CASE VerifyChecksum
    <3>1. /\ pc = "load" /\ ~StringsLeft /\ ~ChunksLeft /\ damage = "altered"
          /\ UNCHANGED <<chunks, saved>> /\ ComputeChecksum(chunks) = file[1].checksum
      BY <1>1, <1>3, <2>2 DEF VerifyChecksum, ingestionVars, snapshotVars, store
    <3>2. IsPrefix(SummedRows(chunks), SummedRows(saved.chunks))
      BY <3>1, AlteredCaught
    <3> QED
      BY <3>1, <3>2
  <2>3. CASE UNCHANGED <<chunks, saved>> /\ pc = "menu"
    BY <2>3 DEF DamageCaught
  <2> QED
    BY <2>1, <2>2, <2>3
<1> QED
  BY <1>2, <1>3

(* BinaryIO.cpp, load(): if one value of the file was altered, whichever   *)
(* it is, the rows that are served have the users, devices, apps,          *)
(* resources and times of the first rows that were dumped, or none is.     *)
THEOREM AlterationIsCaught == Spec => []DamageCaught
<1>1. Init => CaughtInv
  <2> SUFFICES ASSUME Init PROVE CaughtInv
    OBVIOUS
  <2>1. pc = "ingest" /\ lines = << >> /\ pool = << >> /\ saved.chunks = << >> /\ damage = "none"
    BY DEF Init, InitIngestion
  <2>2. EntriesOf(<< >>) = << >>
    BY NothingRead
  <2> QED
    BY <2>1, <2>2, LinesAssumption DEF CaughtInv, FitInv, ChunksLoaded, DamageCaught
<1>2. /\ Inv /\ TypeInv /\ ExactInv /\ CaughtInv /\ [Next]_vars /\ Inv' /\ TypeInv'
      => CaughtInv'
  <2> SUFFICES ASSUME Inv, TypeInv, ExactInv, CaughtInv, [Next]_vars, Inv', TypeInv'
               PROVE  CaughtInv'
    OBVIOUS
  <2>1. FitInv'
    BY FitKept DEF CaughtInv
  <2>2. DamageCaught'
    BY DamageCaughtKept
  <2>3. ChunksLoaded'
    <3>1. CASE UNCHANGED vars
      BY <3>1 DEF CaughtInv, ChunksLoaded, vars, ingestionVars, snapshotVars, store
    <3>2. CASE Next /\ pc' = "load" /\ damage' = "altered"
      BY <3>2, ChunksLoadedKept DEF CaughtInv
    <3> QED
      BY <3>1, <3>2 DEF ChunksLoaded
  <2> QED
    BY <2>1, <2>2, <2>3 DEF CaughtInv
<1>3. CaughtInv => DamageCaught
  BY DEF CaughtInv
<1> QED
  BY <1>1, <1>2, <1>3, ExactKept, PTL DEF Spec
=============================================================================
