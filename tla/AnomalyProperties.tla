-------------------------- MODULE AnomalyProperties --------------------------
(***************************************************************************)
(* What the rules of AnomalyDetector report, said of the history of the    *)
(* entries and not of the windows and counters the code keeps.  Position n *)
(* of log is the n-th entry processed; the timeline of a user is           *)
(* contiguous in log and sorted by time.                                   *)
(***************************************************************************)
EXTENDS AnomalyDetector, FiniteSetsExt

Raised(rule, n) == [rule |-> rule, event |-> n] \in results

Ts(n) == log[n].timestamp

(* The positions from .. to of the user of entry n. *)
Timeline(n, from, to) == {i \in from .. to : log[i].userId = log[n].userId}

(* The latest position in S, 0 if there is none. *)
Latest(S) == Max(S \cup {0})

DeviceRules == {"RESOURCE_SCAN", "COMPROMISED_DEVICE"}

(* Whether a rule judges two entries together: those of one device for     *)
(* rules 3 and 13, of one user for the others.                             *)
SameSubject(rule, d, e) ==
    IF rule \in DeviceRules THEN d.deviceId = e.deviceId ELSE d.userId = e.userId

(* The positions before n at which the rule fired for the subject of n. *)
Reports(rule, n) ==
    {i \in 1 .. n - 1 : Raised(rule, i) /\ SameSubject(rule, log[i], log[n])}

(* The last of them, 0 if there is none. *)
Previous(rule, n) == Latest(Reports(rule, n))

(* The entries of the user of n that match, are new since the rule last    *)
(* fired and are no older than a window.                                   *)
Fresh(rule, n, window, Match(_)) ==
    {i \in Timeline(n, Previous(rule, n) + 1, n) :
        Match(log[i]) /\ Ts(n) - Ts(i) <= window}

(* The last k positions of S. *)
LastOf(S, k) == {i \in S : Cardinality({j \in S : j > i}) < k}
-----------------------------------------------------------------------------
WindowUpTo(capacity) ==
    {w \in Seq([ts : Nat, value : Nat \cup Devices]) : Len(w) <= capacity}

UserContext ==
    [hasActivity            : BOOLEAN,
     lastActivityTimestamp  : Nat,
     lastLocation           : 0 .. 255,
     failedLoginWindow      : WindowUpTo(BRUTE_FORCE_THRESHOLD),
     deviceHopWindow        : WindowUpTo(DEVICE_HOP_THRESHOLD),
     countryWindow          : WindowUpTo(CountryCapacity),
     sessionStartWindow     : WindowUpTo(RAPID_SESSION_THRESHOLD),
     exfiltrationWindow     : WindowUpTo(EXFILTRATION_THRESHOLD),
     appWindow              : WindowUpTo(LATERAL_MOVEMENT_THRESHOLD),
     outOfHoursReported     : BOOLEAN,
     exfiltrationReported   : BOOLEAN,
     lateralMovementReported : BOOLEAN,
     hasActiveSession       : BOOLEAN,
     sessionStartTimestamp  : Nat,
     dangerousActionCount   : 0 .. DANGER_CHAIN_THRESHOLD - 1,
     consecutiveFailedCount : Nat,
     wasLongDormant         : BOOLEAN,
     burstEventCount        : Nat,
     dormantWakeupTimestamp : Nat]

DeviceContext ==
    [resourceWindow      : WindowUpTo(RESOURCE_SCAN_THRESHOLD),
     userWindow          : WindowUpTo(COMPROMISED_DEVICE_THRESHOLD),
     compromisedReported : BOOLEAN]

(* The contexts have their types: no window exceeds its capacity, and the  *)
(* count of rule 8 is never left at its threshold.                         *)
TypeOK ==
    /\ cursor \in Users
    /\ userContexts \in [Users -> UserContext]
    /\ deviceContexts \in [Devices -> DeviceContext]
    /\ log \in Seq(Entries)
    /\ results \subseteq [rule : Rules, event : 1 .. Len(log)]

(* A rule that counts events fires at an event exactly when it completes   *)
(* `threshold' of them within the window, none of them already part of an  *)
(* earlier report: BRUTE_FORCE counts failed logins, RAPID_SESSION logins. *)
FiresOnFullWindow(rule, type, threshold, window) ==
    \A n \in DOMAIN log :
        Raised(rule, n) <=>
            /\ Is(log[n], type)
            /\ Cardinality(Fresh(rule, n, window, LAMBDA e : Is(e, type))) >= threshold

(* Rule 1 reports every group of failed logins that fits in five minutes,  *)
(* once, whatever was reported before it.                                  *)
BruteForceExact ==
    FiresOnFullWindow("BRUTE_FORCE", "FAILED_LOGIN", BRUTE_FORCE_THRESHOLD,
                      BRUTE_FORCE_WINDOW_SEC)

(* Rule 9 reports every group of logins that fits in ten minutes, once. *)
RapidSessionExact ==
    FiresOnFullWindow("RAPID_SESSION", "LOGIN", RAPID_SESSION_THRESHOLD,
                      RAPID_SESSION_WINDOW_SEC)

(* Rule 10 reports a login exactly when the threshold's number of events   *)
(* of the user right before it are all failed logins.                      *)
BruteForceSuccessExact ==
    \A n \in DOMAIN log :
        Raised("BRUTE_FORCE_SUCCESS", n) <=>
            /\ Is(log[n], "LOGIN")
            /\ LET before == LastOf(Timeline(n, 1, n - 1), BRUTE_FORCE_THRESHOLD)
               IN  /\ Cardinality(before) = BRUTE_FORCE_THRESHOLD
                   /\ \A i \in before : Is(log[i], "FAILED_LOGIN")

(* The last k entries that a rule counts complete a window at n: k of      *)
(* them, since position `since', whose values are of `different' kinds or  *)
(* more, the first of them no older than `seconds'.  Counts and Value take *)
(* positions of log.                                                       *)
Completes(rule, n, since, k, different, seconds, Counted(_), Value(_)) ==
    LET counted == {i \in since + 1 .. n : SameSubject(rule, log[i], log[n]) /\ Counted(i)}
        last == LastOf(counted, k)
    IN  /\ n \in last
        /\ Cardinality(last) = k
        /\ Ts(n) - Ts(Min(last)) <= seconds
        /\ Cardinality({Value(i) : i \in last}) >= different

(* Rule 2 reports a login exactly when it and the logins before it, as     *)
(* many as the rule asks devices for and none of them part of an earlier   *)
(* report, are all from different devices and fit in ten minutes.  Three   *)
(* devices in four logins, A, B, B, C, are not reported, though the        *)
(* documents speak of three devices in ten minutes.                        *)
DeviceHoppingExact ==
    \A n \in DOMAIN log :
        Raised("DEVICE_HOPPING", n) <=>
            Completes("DEVICE_HOPPING", n, Previous("DEVICE_HOPPING", n),
                      DEVICE_HOP_THRESHOLD, DEVICE_HOP_THRESHOLD, DEVICE_HOP_WINDOW_SEC,
                      LAMBDA i : Is(log[i], "LOGIN"), LAMBDA i : log[i].deviceId)

(* Position i is the user's first, or in another country than the one      *)
(* before it; the United States are never entered.                         *)
Enters(i) ==
    LET before == Latest(Timeline(i, 1, i - 1))
    IN  /\ log[i].location # LOC_US
        /\ before # 0 => log[before].location # log[i].location

(* Rule 6 reports an entry exactly when it is the last of ten changes of   *)
(* country within 48 hours, none of them part of an earlier report, that   *)
(* lead to three countries or more: three countries alone are no report,   *)
(* though AnomalyRules.h and the documents speak of three countries.       *)
MultiCountryExact ==
    \A n \in DOMAIN log :
        Raised("MULTI_COUNTRY_HOPPING", n) <=>
            Completes("MULTI_COUNTRY_HOPPING", n, Previous("MULTI_COUNTRY_HOPPING", n),
                      CountryCapacity, MULTI_COUNTRY_THRESHOLD, MULTI_COUNTRY_WINDOW_SEC,
                      Enters, LAMBDA i : log[i].location)
-----------------------------------------------------------------------------
(* The position of the login of the session that is open when entry n is   *)
(* processed, 0 if none is: the last LOGIN before n, unless a LOGOUT or a  *)
(* report of its length came in between.                                   *)
SessionOf(n) ==
    LET login == Latest({i \in Timeline(n, 1, n - 1) : Is(log[i], "LOGIN")})
    IN  IF \E i \in Timeline(n, login + 1, n - 1) :
              Is(log[i], "LOGOUT") \/ Raised("LONG_OPEN", i)
        THEN 0 ELSE login

(* Rule 7 reports an open session, at its first event after 24 hours or at *)
(* the login that overrides it, exactly once.                              *)
OpenSessionReportedOnce ==
    \A n \in DOMAIN log :
        Raised("LONG_OPEN", n) \/ Raised("LONG_OVERRIDDEN", n) <=>
            /\ SessionOf(n) # 0
            /\ Ts(n) - Ts(SessionOf(n)) > MAX_SESSION_DURATION_SEC

(* Rule 8 reports a dangerous action exactly when it is the threshold's    *)
(* number of dangerous actions of one session since the session's login or *)
(* the last report in it: no action of an earlier session, or made outside *)
(* a session, is ever counted.                                             *)
DangerChainPerSession ==
    \A n \in DOMAIN log :
        Raised("DANGER_CHAIN", n) <=>
            /\ SessionOf(n) # 0
            /\ IsDangerous(log[n])
            /\ LET since == Latest({SessionOf(n), Previous("DANGER_CHAIN", n)})
               IN  Cardinality({i \in Timeline(n, since + 1, n) : IsDangerous(log[i])})
                       = DANGER_CHAIN_THRESHOLD

(* Rule 11 reports an event exactly when it is the burst threshold's event *)
(* since the one that ended a silence of more than ten days, and at most   *)
(* ten minutes younger.                                                    *)
DormantBurstExact ==
    \A n \in DOMAIN log :
        Raised("DORMANT_ACCOUNT", n) <=>
            \E w \in Timeline(n, 1, n) :
                LET before == Latest(Timeline(n, 1, w - 1))
                IN  /\ before # 0
                    /\ Ts(w) - Ts(before) > DORMANT_THRESHOLD_SEC
                    /\ Ts(n) - Ts(w) <= DORMANT_BURST_WINDOW_SEC
                    /\ Cardinality(Timeline(n, w, n)) = DORMANT_BURST_THRESHOLD

(* A rule over the last `threshold' entries that count, reported once per  *)
(* subject: it fires exactly at the first entry that completes that many   *)
(* different values within the window.  It holds no more entries than it   *)
(* asks different values of, so values that are all within the window stay *)
(* unreported if one of the last entries repeats another.                  *)
FiresFirstTime(rule, threshold, seconds, Counted(_), Value(_)) ==
    \A n \in DOMAIN log :
        LET At(i) == Completes(rule, i, 0, threshold, threshold, seconds, Counted, Value)
        IN  Raised(rule, n) <=>
                /\ At(n)
                /\ \A i \in 1 .. n - 1 : SameSubject(rule, log[i], log[n]) => ~At(i)

(* Rule 12 reports, once per user, the first night download that makes the *)
(* last ones, as many as it asks resources for, all of different resources *)
(* and within ten minutes.  Five resources in six downloads, A, B, B, C,   *)
(* D, E, are not reported, though the comment of the rule and the document *)
(* speak of five different resources in ten minutes.                       *)
ExfiltrationExact ==
    FiresFirstTime("DATA_EXFILTRATION", EXFILTRATION_THRESHOLD, EXFILTRATION_WINDOW_SEC,
                   LAMBDA i : NightDownload(log[i]), LAMBDA i : log[i].resourceId)

(* Rule 14 reports, once per user, the first event that makes the last     *)
(* ones, as many as it asks apps for, all of different apps and within two *)
(* minutes.  Four apps in five events, A, B, B, C, D, are not reported,    *)
(* though the comment of the rule and the document speak of four different *)
(* apps in two minutes.                                                    *)
LateralMovementExact ==
    FiresFirstTime("LATERAL_MOVEMENT", LATERAL_MOVEMENT_THRESHOLD,
                   LATERAL_MOVEMENT_WINDOW_SEC, LAMBDA i : TRUE, LAMBDA i : log[i].appId)

OnceRules == {"OUT_OF_HOURS", "DATA_EXFILTRATION", "LATERAL_MOVEMENT", "COMPROMISED_DEVICE"}

(* Rules 4, 12 and 14 report a user at most once in a whole analysis, and  *)
(* rule 13 a device, however its users' timelines come one after another.  *)
ReportedOnce ==
    \A a, b \in results :
        /\ a.rule \in OnceRules
        /\ b.rule = a.rule
        /\ SameSubject(a.rule, log[a.event], log[b.event])
        => a = b
-----------------------------------------------------------------------------
(* Rule 3 reports an access exactly when it and the accesses before it on  *)
(* the device, by whatever users and none of them part of an earlier       *)
(* report, are all to different resources, and the one processed first is  *)
(* at most five minutes older.  The resource with id 0 is never counted,   *)
(* and never separates two accesses that are.  Ten resources in eleven     *)
(* accesses, one of the last ten a repetition, are not reported, though    *)
(* the documents speak of ten different resources in five minutes.         *)
ResourceScanExact ==
    \A n \in DOMAIN log :
        Raised("RESOURCE_SCAN", n) <=>
            Completes("RESOURCE_SCAN", n, Previous("RESOURCE_SCAN", n),
                      RESOURCE_SCAN_THRESHOLD, RESOURCE_SCAN_THRESHOLD, RESOURCE_SCAN_WINDOW_SEC,
                      LAMBDA i : log[i].resourceId # 0, LAMBDA i : log[i].resourceId)

(* Rule 13 reports, once per device, the first login that makes the last   *)
(* ones on the device, in the order they are processed, those of different *)
(* users, the first of them at most five minutes older.  The comment of    *)
(* the rule and the document speak of three different users within five    *)
(* minutes, and differ from this both ways: logins of users 1, 2, 2, 3 in  *)
(* time are not reported; logins further apart are (DeviceSharedInTime of  *)
(* AnomalyClaims), because a later one may be processed first.             *)
SharedDeviceExact ==
    FiresFirstTime("COMPROMISED_DEVICE", COMPROMISED_DEVICE_THRESHOLD,
                   COMPROMISED_DEVICE_WINDOW_SEC, LAMBDA i : Is(log[i], "LOGIN"),
                   LAMBDA i : log[i].userId)
=============================================================================
