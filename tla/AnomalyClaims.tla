---------------------------- MODULE AnomalyClaims ----------------------------
(***************************************************************************)
(* What comments and documents of the repository say of three rules, and   *)
(* what the code does not do.                                              *)
(***************************************************************************)
EXTENDS AnomalyProperties

(* Rule 5 compares two adjacent events and fires when the location changes *)
(* in less than two hours; the plan's example is a journey from VN to US.  *)
TravelReported ==
    \A n \in DOMAIN log :
        LET before == Latest(Timeline(n, 1, n - 1))
        IN  /\ before # 0
            /\ log[before].location # log[n].location
            /\ Ts(n) - Ts(before) < IMPOSSIBLE_TRAVEL_MIN_SEC
            => Raised("IMPOSSIBLE_TRAVEL", n)

(* Rule 7 disconnects a session it reports, "to prevent continuous         *)
(* repeating alerts": from one login to the next it reports at most once.  *)
LongSessionReportedOnce ==
    \A a, b \in results :
        /\ {a.rule, b.rule} \subseteq {"LONG_OPEN", "LONG_LOGGED_OUT"}
        /\ SameSubject(a.rule, log[a.event], log[b.event])
        /\ a.event <= b.event
        /\ ~\E i \in Timeline(b.event, a.event, b.event) : Is(log[i], "LOGIN")
        => a = b

(* Rule 13 fires when three different users log in on one device within    *)
(* five minutes: some interval of that length holds their logins.          *)
DeviceSharedInTime ==
    \A n \in DOMAIN log : Raised("COMPROMISED_DEVICE", n) =>
        \E first \in 1 .. n :
            Cardinality({log[i].userId : i \in {j \in 1 .. n :
                /\ Is(log[j], "LOGIN")
                /\ log[j].deviceId = log[n].deviceId
                /\ Ts(j) \in Ts(first) .. Ts(first) + COMPROMISED_DEVICE_WINDOW_SEC}})
                >= COMPROMISED_DEVICE_THRESHOLD
=============================================================================
