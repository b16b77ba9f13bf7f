---------------------------- MODULE MCStringPool ----------------------------
(***************************************************************************)
(* Five strings: two share a hash, others collide in tables of 1, 3 and 7  *)
(* slots or of 2 and 5.                                                    *)
(***************************************************************************)
EXTENDS StringPool, TLC

CONSTANTS s1, s2, s3, s4, s5

MCStrings == {s1, s2, s3, s4, s5}
MCHash == (s1 :> 7) @@ (s2 :> 7) @@ (s3 :> 0) @@ (s4 :> 6) @@ (s5 :> 13)
MCBucketSizes == {0, 2}
=============================================================================
