---------------------------- MODULE MCLogQueries ----------------------------
(* Two users, 0 and 2, whose ids share a bucket, and three resources, two  *)
(* of which do; entries at equal and different times, the last of them     *)
(* beyond DEFAULT_END.                                                     *)
EXTENDS LogQueries

Entry(user, resource, ts) == [userId |-> user, resourceId |-> resource, timestamp |-> ts]

MCEntries ==
    {Entry(0, 1, 1), Entry(0, 3, 1), Entry(0, 1, 2), Entry(2, 3, 2), Entry(2, 4, 3)}

MCHashKey == [k \in 0 .. 4 |-> k % 2]
=============================================================================
