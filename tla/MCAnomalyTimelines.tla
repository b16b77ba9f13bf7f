------------------------- MODULE MCAnomalyTimelines -------------------------
(***************************************************************************)
(* Users 0 to 6 are seven kinds of timelines, users 7 to 9 log in on the   *)
(* same devices, users 10 and 11 scan resources from one device.  OneGroup *)
(* keeps to runs that read a single timeline or the timelines of those who *)
(* share: contexts of users are independent.                               *)
(***************************************************************************)
EXTENDS AnomalyClaims

Entry(user, type, ts, device, app, resource, location) ==
    [userId |-> user, eventType |-> type, timestamp |-> ts, deviceId |-> device,
     appId |-> app, resourceId |-> resource, location |-> location]

(* Sessions of 24 hours and of a second more. *)
Sessions ==
    {Entry(0, type, ts, 0, 0, 0, LOC_US) :
        type \in {"LOGIN", "LOGOUT", "DOWNLOAD"}, ts \in {0, 1, 86401}}

(* Failed logins and logins around windows of five and ten minutes. *)
Attempts ==
    {Entry(1, type, ts, 0, 0, 0, LOC_US) :
        type \in {"FAILED_LOGIN", "LOGIN", "TOKEN_REFRESH"}, ts \in {0, 300, 600, 601}}

(* Activity before and after silences of more than ten days. *)
Silences ==
    {Entry(2, "OPEN_APP", ts, 0, 0, 0, LOC_US) :
        ts \in {0, 864000, 864001, 864601, 864602, 1728603}}

(* Changes of country within and beyond 48 hours. *)
Journeys ==
    {Entry(3, "ACCESS", ts, 0, 0, 0, location) :
        ts \in {0, 172800, 172801}, location \in {LOC_US, 1, 2, 3}}

(* Downloads before (23:55) and after midnight (0:00 to 0:10): the night   *)
(* of rule 12 begins at midnight.                                          *)
Nights ==
    {Entry(4, "DOWNLOAD", ts, 0, 0, resource, LOC_US) :
        ts \in {60900, 61200, 61800, 61801}, resource \in {0, 1, 2}}

(* Logins from several devices. *)
Hops ==
    {Entry(5, "LOGIN", ts, device, 0, 0, LOC_US) :
        ts \in {0, 600, 601}, device \in {0, 1, 2}}

(* Walks through several apps, the third of which is used without an event *)
(* that opens it.                                                          *)
Walks ==
    {Entry(6, walk[1], ts, 0, walk[2], 0, LOC_US) :
        ts \in {0, 120, 121},
        walk \in {<<"OPEN_APP", 0>>, <<"OPEN_APP", 1>>, <<"ACCESS", 1>>, <<"ACCESS", 2>>}}

(* Logins on shared devices.  A device sees time go back at every change   *)
(* of user.                                                                *)
Sharers == 7 .. 9

Shared ==
    {Entry(user, "LOGIN", ts, device, 0, 0, LOC_US) :
        user \in Sharers, ts \in {0, 300, 301}, device \in {0, 1}}

(* Accesses to resources, one of them with id 0, from a shared device. *)
Scanners == {10, 11}

Scans ==
    {Entry(user, "ACCESS", ts, 0, 0, resource, LOC_US) :
        user \in Scanners, ts \in {0, 300, 301}, resource \in 0 .. 3}

MCEntries ==
    UNION {Sessions, Attempts, Silences, Journeys, Nights, Hops, Walks, Shared, Scans}

Group(user) ==
    IF user \in Sharers THEN Sharers ELSE IF user \in Scanners THEN Scanners ELSE {user}

OneGroup == log # << >> => cursor \in Group(log[1].userId)
=============================================================================
