------------------------------ MODULE MCEngine ------------------------------
(* Contents of the same and of different size, with a row that repeats a   *)
(* user and a name too long for a snapshot.                                *)
EXTENDS EngineClaims

MCContents == {<< >>, <<"u1", "u2", "u1">>, <<"u2">>, <<"long">>}
MCLongNames == {"long"}

(* The CSV changes at any point but between reading it and reading its     *)
(* metadata.                                                               *)
Quiet ==
    {"off", "boot", "loadBinary", "fallback", "loadCsv", "dumpBody", "index", "menu",
     "reload"}

(* The CSV also changes between those two reads. *)
EveryPoint == Quiet \cup {"reindex", "dumpOpen", "dumpHeader"}
=============================================================================
