------------------------- MODULE MCDuplicateHashSet -------------------------
(***************************************************************************)
(* Tables that grow from 1 slot to 3, 7 and 15, or start with 5, and       *)
(* fingerprints that collide in all of them.                               *)
(***************************************************************************)
EXTENDS DuplicateHashSet

MCFingerprints == {1, 3, 7, 8, 14, 22}
MCBucketSizes == {0, 5}
=============================================================================
