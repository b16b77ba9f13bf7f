------------------------------ MODULE Ingestion ------------------------------
(***************************************************************************)
(* storage/DataLoader.cpp: load() scans the CSV file once.  Each line is   *)
(* dropped if it is blank or the header, dropped if its fingerprint has    *)
(* been seen, split and validated, and at last interned and stored.        *)
(*                                                                         *)
(* A line is the sequence of its columns: all but the last are names, the  *)
(* last is a sequence of characters, and `cr' says whether a carriage      *)
(* return precedes the line feed.  The gatekeeper is a set, as             *)
(* DuplicateHashSet implements it.  A file that cannot be opened stores    *)
(* nothing: HaloEngine says what follows.                                  *)
(***************************************************************************)
EXTENDS Interning, Chunks

CONSTANTS
    Lines,          \* the lines a CSV may hold
    Fingerprint,    \* djb2Raw() of each line
    ArgumentOrders, \* orders in which a build evaluates the arguments of LogEntry()
    INT64_MAX,      \* 2^63 - 1
    MaxLines        \* bound on the lines of a file

(* The characters of the last column: digits, and one for all others. *)
Digits == 0 .. 9
NoDigit == 10

ASSUME LinesAssumption ==
    /\ Lines \subseteq [names : Seq(STRING), time : Seq(Digits \cup {NoDigit}), cr : BOOLEAN]
    /\ DOMAIN Fingerprint = Lines
    /\ \A order \in ArgumentOrders : order \in [1 .. 4 -> 1 .. 4] /\ ToSet(order) = 1 .. 4
    /\ INT64_MAX \in Nat
    /\ MaxLines \in Nat

VARIABLES
    argumentOrder,  \* the order of the build that is running
    lines,          \* history: the lines read so far
    firstLine,      \* whether the next line may still be the header
    gatekeeper,     \* the fingerprints seen
    pool,           \* the strings of the pool
    chunks          \* the chunks of the store

store == <<pool, chunks>>
ingestionVars == <<argumentOrder, lines, firstLine, gatekeeper, store>>
-----------------------------------------------------------------------------
EventNames ==
    <<"LOGIN", "LOGOUT", "TOKEN_REFRESH", "ACCESS", "FAILED_LOGIN", "OPEN_APP",
      "DOWNLOAD", "ADMIN_ACTION">>

LocationNames ==
    <<"US", "VN", "JP", "KR", "SG", "CN", "DE", "FR", "UK", "AU", "CA", "IN",
      "BR", "RU", "TH">>

INVALID == 255

(* The value an enumeration gives to a name: its place in the code. *)
EnumOf(names, name) == IF Contains(names, name) THEN IdOf(names, name) ELSE INVALID

ParseEventType(name) == EnumOf(EventNames, name)
ParseLocation(name) == EnumOf(LocationNames, name)

NoNumber == -1

(* Mutant of TakeDigit: the room for the next digit is not kept. *)
TakeAnyDigit(result, c) ==
    IF result = NoNumber \/ c \notin Digits \/ result > INT64_MAX \div 10
    THEN NoNumber ELSE result * 10 + c

(* One step of parseInt64(): a sign, or any other character, is no digit,  *)
(* and a number is given up before it leaves the range.                    *)
TakeDigit(result, c) ==
    IF result = NoNumber \/ c \notin Digits \/ result > (INT64_MAX - c) \div 10
    THEN NoNumber ELSE result * 10 + c

ParseInt64(text) ==
    LET read[n \in 0 .. Len(text)] ==
            IF n = 0 THEN 0 ELSE TakeDigit(read[n - 1], text[n])
    IN  IF text = << >> THEN NoNumber ELSE read[Len(text)]

IsBlank(line) == line.names = << >> /\ line.time = << >> /\ ~line.cr

HeaderNames ==
    <<"user_id", "device_id", "app_id", "resource_id", "event_type", "location">>

(* "timestamp" is not a number; the header may end in a carriage return. *)
LooksLikeHeader(line) == line.names = HeaderNames /\ line.time = <<NoDigit>>

(* splitAndValidateLine(): seven columns, none of them empty once a        *)
(* carriage return is trimmed from the last, and three of them parse.      *)
Validates(line) ==
    /\ Len(line.names) = 6
    /\ \A i \in DOMAIN line.names : line.names[i] # ""
    /\ ParseEventType(line.names[5]) # INVALID
    /\ ParseLocation(line.names[6]) # INVALID
    /\ ParseInt64(line.time) # NoNumber

(* The four columns that are interned, in the order of evaluation. *)
Interns(line) == [i \in 1 .. 4 |-> line.names[argumentOrder[i]]]

PoolWith(names) ==
    WithName(WithName(WithName(WithName(pool, names[1]), names[2]), names[3]), names[4])

EntryOf(strings, line) ==
    [userId     |-> IdOf(strings, line.names[1]),
     deviceId   |-> IdOf(strings, line.names[2]),
     appId      |-> IdOf(strings, line.names[3]),
     resourceId |-> IdOf(strings, line.names[4]),
     eventType  |-> ParseEventType(line.names[5]),
     location   |-> ParseLocation(line.names[6]),
     timestamp  |-> ParseInt64(line.time)]
-----------------------------------------------------------------------------
(* DataLoader::load() begins, on an empty store. *)
InitIngestion ==
    /\ argumentOrder \in ArgumentOrders
    /\ lines = << >>
    /\ firstLine = TRUE
    /\ gatekeeper = {}
    /\ pool = << >> /\ chunks = << >>

Skips(line) == IsBlank(line) \/ (firstLine /\ LooksLikeHeader(line))

(* The fingerprint of a line that does not validate is seen all the same.  *)
Drops(line) == Fingerprint[line] \in gatekeeper \/ ~Validates(line)

Skip(line) ==
    /\ Skips(line)
    /\ UNCHANGED <<gatekeeper, store>>

(* Mutant of Drop: only a line that is stored leaves its fingerprint. *)
DropUnseen(line) ==
    /\ ~Skips(line) /\ Drops(line)
    /\ UNCHANGED <<gatekeeper, store>>

(* Mutant of Drop: the columns are interned before they are validated. *)
DropInterning(line) ==
    /\ ~Skips(line) /\ Drops(line)
    /\ gatekeeper' = gatekeeper \cup {Fingerprint[line]}
    /\ pool' = Interned(pool, line.names)
    /\ UNCHANGED chunks

Drop(line) ==
    /\ ~Skips(line) /\ Drops(line)
    /\ gatekeeper' = gatekeeper \cup {Fingerprint[line]}
    /\ UNCHANGED store

Store(line) ==
    /\ ~Skips(line) /\ ~Drops(line)
    /\ gatekeeper' = gatekeeper \cup {Fingerprint[line]}
    /\ pool' = PoolWith(Interns(line))
    /\ chunks' = WithEntry(chunks, EntryOf(pool', line))

(* A blank line leaves the header to the next one. *)
StaysFirst(line) == firstLine /\ IsBlank(line)

(* processLine() *)
ProcessLine(line) ==
    /\ Len(lines) < MaxLines
    /\ lines' = Append(lines, line)
    /\ firstLine' = StaysFirst(line)
    /\ Skip(line) \/ Drop(line) \/ Store(line)
    /\ UNCHANGED argumentOrder
-----------------------------------------------------------------------------
(* The decimal value of a sequence of digits. *)
DecimalValue(text) ==
    LET value[n \in 0 .. Len(text)] ==
            IF n = 0 THEN 0 ELSE 10 * value[n - 1] + text[n]
    IN  value[Len(text)]

(* What a line has to be to describe an event. *)
IsLogLine(line) ==
    /\ Len(line.names) = 6 /\ line.time # << >>
    /\ "" \notin ToSet(line.names)
    /\ line.names[5] \in ToSet(EventNames)
    /\ line.names[6] \in ToSet(LocationNames)
    /\ ToSet(line.time) \subseteq Digits
    /\ DecimalValue(line.time) <= INT64_MAX

(* Positions of the lines that are data: not blank, and not the header at  *)
(* the top of the file.                                                    *)
DataLines ==
    {n \in DOMAIN lines :
        /\ ~IsBlank(lines[n])
        /\ LooksLikeHeader(lines[n]) => \E i \in 1 .. n - 1 : ~IsBlank(lines[i])}

(* Of lines with one fingerprint the first is kept, if it is a log line.   *)
KeptLines ==
    {n \in DataLines :
        /\ IsLogLine(lines[n])
        /\ \A i \in DataLines : Fingerprint[lines[i]] = Fingerprint[lines[n]] => i >= n}

Row(e) ==
    [names |-> <<NameOf(pool, e.userId), NameOf(pool, e.deviceId), NameOf(pool, e.appId),
                 NameOf(pool, e.resourceId), EventNames[e.eventType + 1],
                 LocationNames[e.location + 1]>>,
     timestamp |-> e.timestamp]

(* The number of the row that holds line n, if rows are kept lines in the  *)
(* order of the file.                                                      *)
Place(n) == Cardinality({m \in KeptLines : m <= n})

(* The rows of the store, read back through the pool and the enumerations, *)
(* are the kept lines in the order of the file, whichever argument the     *)
(* build evaluates first, and their times are exactly the numbers written. *)
RowsExact ==
    LET rows == EntriesOf(chunks)
    IN  /\ Len(rows) = Cardinality(KeptLines)
        /\ \A n \in KeptLines :
              Row(rows[Place(n)]) = [names     |-> lines[n].names,
                                     timestamp |-> DecimalValue(lines[n].time)]

(* The pool holds the first four columns of the kept lines, each string    *)
(* once: a line that is dropped leaves no string behind.                   *)
PoolExact ==
    /\ Cardinality(ToSet(pool)) = Len(pool)
    /\ ToSet(pool) = {lines[n].names[i] : n \in KeptLines, i \in 1 .. 4}
=============================================================================
