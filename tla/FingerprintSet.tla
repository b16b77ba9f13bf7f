--------------------------- MODULE FingerprintSet ---------------------------
(***************************************************************************)
(* The abstract specification of the gatekeeper of the CSV loader: a set   *)
(* of fingerprints, and what the last insertIfAbsent() returned.           *)
(***************************************************************************)
CONSTANTS
    Fingerprints,   \* the fingerprints of lines
    NoAnswer        \* the answer before any call

VARIABLES members, answer

Init ==
    /\ members = {}
    /\ answer = NoAnswer

InsertIfAbsent(fingerprint) ==
    /\ answer' = [fingerprint |-> fingerprint, inserted |-> fingerprint \notin members]
    /\ members' = members \cup {fingerprint}

Next == \E fingerprint \in Fingerprints : InsertIfAbsent(fingerprint)

Spec == Init /\ [][Next]_<<members, answer>>
=============================================================================
