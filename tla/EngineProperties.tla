-------------------------- MODULE EngineProperties --------------------------
(***************************************************************************)
(* What HaloEngine promises whoever sits at its menu.                      *)
(***************************************************************************)
EXTENDS HaloEngine

Section ==
    [meta : [size : Nat, mtime : Nat], chunks : Nat]
        \cup [strings : Seq(Names \cup {NoName})] \cup [row : Nat]

ProgramPoints ==
    {"off", "boot", "loadBinary", "fallback", "loadCsv", "dumpOpen", "dumpHeader",
     "dumpBody", "index", "menu", "reload", "reindex"}

(* The state variables have their types, and the id of every row of the    *)
(* store is the id of a string of the pool: getString() never fails.       *)
TypeOK ==
    /\ csv \in [content : Contents, mtime : 0 .. lastModified] \cup {Missing}
    /\ lastModified \in 0 .. edits
    /\ edits \in 0 .. MaxEdits
    /\ versions \subseteq Contents
    /\ bin \in Seq(Section)
    /\ image \in Seq(Section)
    /\ pc \in ProgramPoints
    /\ pool \in Seq(Names \cup {NoName})
    /\ rows \in Seq(0 .. Len(pool) - 1)
    /\ gen \in 0 .. MaxReloads + 1
    /\ index \subseteq [id : Nat, gen : Nat, row : Nat]
    /\ defaultUser \in Names \cup {NoName}
    /\ afterDump \in {"index", "menu"}

Loaded == pc \in {"dumpOpen", "dumpHeader", "dumpBody", "index", "reindex", "menu"}

(* A failed reload leaves the store empty and goes back to the menu. *)
Emptied == pc = "menu" /\ rows = << >>

(* What the store holds once it is loaded is one version of the CSV, from  *)
(* its first row to its last: never the remains of a snapshot that was cut *)
(* short by a crash or a full disk, never two versions, never a row twice. *)
StoreIsOneVersion ==
    Loaded => Decoded(pool, rows) \in versions \/ Emptied

(* Every pointer the indices hold at the menu points into the memory the   *)
(* store has now, except after a reload that failed.                       *)
IndexIsLive ==
    pc = "menu" => (\A p \in index : p.gen = gen) \/ Emptied

(* A journey shows exactly the rows of the name asked for, also after      *)
(* queries for names that are not in the log.                              *)
JourneysExact ==
    pc = "menu" /\ rows # << >> =>
        \A id \in 0 .. Len(pool) - 1 :
            {p.row : p \in {q \in index : q.id = id}} =
                {r \in DOMAIN rows : Decoded(pool, rows)[r] = NameOf(pool, id)}

(* A snapshot that is judged fresh and can be read to its end is the CSV's *)
(* present content: BinaryIO.h, "true if binary is still fresh".           *)
SnapshotIsFresh ==
    IsValid /\ Loadable => Decoded(bin[2].strings, ReadableRows) = csv.content

(* Whatever the files hold, the program gets to its menu or ends. *)
ReachesMenu == []<>(pc \in {"menu", "off"})
=============================================================================
